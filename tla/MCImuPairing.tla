----------------------------- MODULE MCImuPairing -----------------------------
(* ImuPairing with timestamps up to MaxTime.  Or, in its place, the clock the     *)
(* stamps are read off, and a loop that sleeps by a Rate.                         *)
EXTENDS ImuPairing, RosTime

CONSTANT MaxTime   \* bound: the largest timestamp
ASSUME MaxTimeAssumption == MaxTime \in Nat

BoundedNext ==
  \/ \E t \in 0 .. MaxTime : Accelerometer(t) \/ Gyroscope(t)
  \/ Pair
  \/ Trim
  \/ \E b \in BOOLEAN : SetActive(b)

\* Every instant there is, and what can be added to it or taken off.
Sums == [simulated |-> FALSE, cycle |-> 1, length |-> 0, jumps |-> 0, by |-> {}]
\* Loops by the system's clock, and by one that is set by messages; and one that begins
\* before the first of them.
Slow == [simulated |-> FALSE, cycle |-> 4, length |-> 12, jumps |-> 1, by |-> {-7, -1, 3, 5, 7}]
Fast == [simulated |-> FALSE, cycle |-> 2, length |-> 8, jumps |-> 2, by |-> {-3, 5}]
Simulated == [simulated |-> TRUE, cycle |-> 4, length |-> 10, jumps |-> 2, by |-> {-7, 5, 7}]
Unset == [simulated |-> TRUE, cycle |-> 2, length |-> 8, jumps |-> 2, by |-> {1, 5}]
Rates == {Sums, Slow, Fast, Simulated, Unset}

\* The loop, or instants alone, take steps in place of the samples.
VARIABLE loops
MCInit ==
  /\ ImuInit /\ loops \in BOOLEAN
  /\ \/ loops /\ \E t \in Time : RateInit(Sums, t)
     \/ loops /\ \E r \in Rates \ {Sums, Unset} : RateInit(r, TimeFromNSec(10))
     \/ RateInit(Unset, Zero)
MCNext ==
  /\ loops' = loops
  /\ \/ ~loops /\ BoundedNext /\ UNCHANGED rateVars
     \/ loops /\ rate_regime # Sums /\ RateNext /\ UNCHANGED imuVars

MCSpec == MCInit /\ [][MCNext]_<<imuVars, rateVars, loops>>
=============================================================================
