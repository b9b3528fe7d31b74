------------------------------ MODULE MCTopic ------------------------------
(* Topic with one TCP subscriber, and with one TCP and one local subscriber.   *)
EXTENDS Topic

CONSTANT LocalComesLate  \* may the local subscriber connect after a publish?

Options(bound) == [latch : BOOLEAN, uncopied : BOOLEAN, bound : {bound}]

\* A TCP subscriber comes and goes.
OneRemote == \E opts \in Options(MaxPublished) : Init(opts, {}, Remote)

\* The local subscriber is there before the first message; a TCP subscriber
\* comes and goes.
LocalFirst == \E opts \in Options(MaxPublished - 1) : Init(opts, Local, Remote)

\* Both may connect after a message was published.
LocalLate == \E opts \in Options(MaxPublished) : Init(opts, {}, Remote \cup Local)

MCInit == IF LocalComesLate THEN LocalLate ELSE OneRemote \/ LocalFirst

MCSpec == MCInit /\ [][Next]_vars /\ Fairness
=============================================================================
