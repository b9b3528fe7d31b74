----------------------------- MODULE MCServices -----------------------------
(* Services with two calls, in the situations in which a call may be lost.      *)
EXTENDS Services

Nominal == [calls |-> 2, links |-> 1, persistent |-> TRUE, pubs |-> 1, ends |-> {}, breaks |-> 0]

\* Two threads share a persistent link while its connection breaks.
SharedLink == [Nominal EXCEPT !.breaks = 1]

\* The user shuts down the handle, or the node.
HandleEnds == [Nominal EXCEPT !.ends = {"shutdown"}]
NodeEnds == [Nominal EXCEPT !.ends = {"stop"}]

\* Each call makes its own link.
LinkPerCall == [Nominal EXCEPT !.links = 2, !.persistent = FALSE]

\* A call makes its own link, the service is unadvertised and advertised again.
Readvertised == [Nominal EXCEPT !.calls = 1, !.persistent = FALSE, !.pubs = 2, !.ends = {"unadvertise"}]
StoppedAndUnadvertised == [Nominal EXCEPT !.calls = 1, !.persistent = FALSE, !.ends = {"stop", "unadvertise"}, !.breaks = 1]

Regimes == {SharedLink, HandleEnds, NodeEnds, LinkPerCall, Readvertised, StoppedAndUnadvertised}
Broken == {SharedLink}
=============================================================================
