---------------------------- MODULE ServiceWire ----------------------------
(* The connections between the client and the server of a service, which the   *)
(* modules of the two ends share, and what may happen to them.                 *)
EXTENDS Integers, Sequences, FiniteSets, SequencesExt, Filter

CONSTANT Regime   \* what happens in a behaviour, and how often

\* calls       bound: calls of the service, each by a thread of its own
\* links       bound: connections the client makes
\* persistent  the kind of the ServiceClient
\* pubs        bound: times the service is advertised
\* ends        what the users do: "shutdown" of the handle, "stop" of the client's
\*             node, "unadvertise" at the server
\* breaks      bound: connections that break
ASSUME ServiceAssumption ==
    \A r \in Regime : /\ {r.calls, r.links, r.pubs} \subseteq Nat \ {0} /\ r.breaks \in Nat
                      /\ r.persistent \in BOOLEAN
                      /\ r.ends \subseteq {"shutdown", "stop", "unadvertise"}

None == 0
Call == UNION {1 .. r.calls : r \in Regime}
Link == UNION {1 .. r.links : r \in Regime}

VARIABLES
    regime,
    up,             \* what the client has written to each connection and the server not read
    down,           \* what the server has written
    client_closed,  \* the connections the client has closed
    server_closed,  \* those the server has closed
    cut             \* those that fail: either end may find them broken

wire == <<regime, up, down, client_closed, server_closed, cut>>

WireInit ==
    /\ regime \in Regime
    /\ up = [l \in Link |-> <<>>] /\ down = [l \in Link |-> <<>>]
    /\ client_closed = {} /\ server_closed = {} /\ cut = {}

\* An end of a connection finds it closed by the other when it has read what was
\* written before, or does not read.
Ends(l, closed, channel, reading) ==
    l \in cut \/ (l \in closed /\ (channel[l] = <<>> \/ reading = "none"))

WireOK ==
    /\ client_closed \subseteq Link /\ server_closed \subseteq Link /\ cut \subseteq Link
    /\ \A l \in Link : ToSet(up[l]) \subseteq {<<"header", None>>} \cup ({"request"} \X Call)
    /\ \A l \in Link : ToSet(down[l]) \subseteq
           {<<"header", None>>, <<"error", None>>} \cup ({"ok", "failed", "body"} \X Call)
=============================================================================
