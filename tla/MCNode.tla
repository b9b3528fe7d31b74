------------------------------- MODULE MCNode -------------------------------
(* Node with two threads, a parameter in a namespace, and one in the root.      *)
EXTENDS Node
CONSTANTS a, x, y, root, t1, t2
UnderA == [n \in Namespace |-> IF n = a THEN {x} ELSE Leaf]
Nothing == [up |-> FALSE, handles |-> 0, starts |-> 0, shutdowns |-> 0, requests |-> 0,
            first |-> 1, keys |-> {x, a}, reused |-> FALSE, calls |-> 0, changes |-> 0, failures |-> 0]
\* NodeHandles come and go, also while a shutdown is requested.
Handles == [Nothing EXCEPT !.handles = 3]
Requested == [Nothing EXCEPT !.handles = 2, !.requests = 1]
\* The program starts the node itself and shuts it down, or somebody asks for it.
Explicit == [Nothing EXCEPT !.handles = 1, !.starts = 1, !.shutdowns = 1]
Asked == [Nothing EXCEPT !.handles = 1, !.starts = 1, !.requests = 1]
\* A node is shut down by two.
Twice == [Nothing EXCEPT !.handles = 1, !.shutdowns = 2]
Ending == [Nothing EXCEPT !.up = TRUE, !.calls = 1, !.shutdowns = 1, !.requests = 1]
\* Parameters are set, read and deleted: by this node; by others, too, and with calls
\* of the server that fail; and with variables that had a value before.
Reliable == [Nothing EXCEPT !.up = TRUE, !.calls = 3]
Failing == [Nothing EXCEPT !.up = TRUE, !.calls = 2, !.changes = 1, !.failures = 1]
\* The root is used, too.
Rooted == [Nothing EXCEPT !.up = TRUE, !.keys = {x, a, root}, !.calls = 2, !.changes = 1]
Reusing == [Nothing EXCEPT !.up = TRUE, !.calls = 1, !.changes = 1, !.reused = TRUE]

AllBounds == {Handles, Requested, Explicit, Asked, Twice, Ending,
              Reliable, Failing, Rooted, Reusing}
=============================================================================
