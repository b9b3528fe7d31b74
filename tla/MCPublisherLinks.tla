-------------------------- MODULE MCPublisherLinks --------------------------
(* PublisherLinks with one publisher and a network that fails now and then.    *)
EXTENDS PublisherLinks

CONSTANT p1
=============================================================================
