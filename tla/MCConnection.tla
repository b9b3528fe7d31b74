---------------------------- MODULE MCConnection ----------------------------
(* A connection of each kind.  A message is two bytes and the socket's buffer   *)
(* takes one or two, so that a write may or may not be done in one piece.  Or,  *)
(* in place of all these, a publisher link over UDP, whose datagrams have room  *)
(* for two units: up to three messages of one to three datagrams.               *)
EXTENDS Connection, TransportUDP

Regime(kind, rounds, room) ==
    [kind |-> kind, rounds |-> rounds, room |-> room, shared |-> FALSE, spinners |-> 1, persistent |-> TRUE,
     refuses |-> FALSE, closes |-> FALSE, drops |-> FALSE]

Publisher == Regime("publisher", 4, 1)
Subscriber == Regime("subscriber", 3, 1)
Client == Regime("client", 2, 1)
SharedClient == [Regime("client", 2, 2) EXCEPT !.shared = TRUE]
Server == Regime("server", 3, 1)

AllRegimes ==
    {Publisher, Subscriber, Client, SharedClient, Server,
     [Publisher EXCEPT !.rounds = 1, !.refuses = TRUE],
     [Publisher EXCEPT !.rounds = 2, !.room = 2, !.drops = TRUE],
     [Publisher EXCEPT !.rounds = 2, !.closes = TRUE],
     [Subscriber EXCEPT !.rounds = 1, !.room = 2, !.drops = TRUE],
     [Subscriber EXCEPT !.rounds = 1, !.closes = TRUE],
     [Client EXCEPT !.rounds = 1, !.room = 2, !.persistent = FALSE],
     [Client EXCEPT !.rounds = 1, !.drops = TRUE],
     [Client EXCEPT !.closes = TRUE],
     [Server EXCEPT !.rounds = 2, !.room = 2, !.drops = TRUE],
     [Server EXCEPT !.rounds = 1, !.persistent = FALSE, !.refuses = TRUE],
     [Server EXCEPT !.rounds = 1, !.persistent = FALSE, !.closes = TRUE]}

MCBound == [messages |-> 3, lost |-> 2, late |-> 1]

\* TCP or UDP.  The other of the two stays as it is; what is fair is so of TCP.
VARIABLE udp
MCInit == Init /\ UDPInit /\ udp \in BOOLEAN /\ (udp => regime = Subscriber)
MCNext ==
    /\ udp' = udp
    /\ \/ ~udp /\ Next /\ UNCHANGED udpVars
       \/ udp /\ UDPNext /\ UNCHANGED vars
MCSpec == MCInit /\ [][MCNext]_<<vars, udpVars, udp>> /\ Fairness
=============================================================================
