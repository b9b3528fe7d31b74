-------------------------------- MODULE MCBag --------------------------------
(***************************************************************************)
(* Small instances of Bag and View for TLC.  One run covers six regimes,   *)
(* chosen in the initial state; each bounds another part of the interface  *)
(* so that the others can go further.                                      *)
(***************************************************************************)
EXTENDS View

CONSTANT RegimeNames

VARIABLE regime

AllModes == {{"Write"}, {"Append"}, {"Read"}, {"Read", "Write"}}
All == [topics |-> Topics, from |-> 0, to |-> 3]
Some == [topics |-> {"img"}, from |-> 2, to |-> 2]
MCQueries == {All, Some}

Regimes ==
  { \* the app's own use, with a crash at any point
    [name |-> "record",  first |-> {"Write"}, later |-> {{"Write"}, {"Read"}},
     thresholds |-> TRUE, times |-> 2, msgs |-> 3, opens |-> 2, crashes |-> 1, faults |-> 0],
    \* sessions that append to a closed bag
    [name |-> "append",  first |-> {"Write"}, later |-> {{"Write"}, {"Append"}, {"Read"}},
     thresholds |-> TRUE, times |-> 2, msgs |-> 3, opens |-> 3, crashes |-> 0, faults |-> 0],
    \* a process that dies, before or while another appends to what it left
    [name |-> "salvage", first |-> {"Write"}, later |-> {{"Append"}, {"Read"}},
     thresholds |-> FALSE, times |-> 1, msgs |-> 2, opens |-> 4, crashes |-> 1, faults |-> 0],
    \* messages fetched from a bag that is being written, and what is left when it is closed
    [name |-> "reading", first |-> {"Read", "Write"}, later |-> {{"Read"}},
     thresholds |-> TRUE, times |-> 1, msgs |-> 4, opens |-> 2, crashes |-> 0, faults |-> 0],
    \* a view of a bag that is being written
    [name |-> "viewing", first |-> {"Read", "Write"}, later |-> {},
     thresholds |-> FALSE, times |-> 3, msgs |-> 3, opens |-> 1, crashes |-> 0, faults |-> 0],
    \* calls of write and close that fail
    [name |-> "faults",  first |-> {"Write"}, later |-> {{"Read"}},
     thresholds |-> FALSE, times |-> 1, msgs |-> 2, opens |-> 2, crashes |-> 0, faults |-> 2] }

Within(r) ==
  /\ mode' \in r.later \union {{}, r.first} /\ (opens' > opens /\ opens > 0 => mode' \in r.later)
  /\ (threshold' # threshold => r.thresholds \/ status' = "closed")
  /\ Cardinality(recorded') <= r.msgs /\ \A m \in recorded' : m.time <= r.times
  /\ opens' <= r.opens /\ crashes' <= r.crashes /\ faults' <= r.faults
  /\ queries' \in {<<>>, <<All>>, <<All, Some>>}
  /\ queries = <<>> /\ queries' # <<>> => Cardinality(recorded) = 1

MCInit == Init /\ ViewInit /\ regime \in {r \in Regimes : r.name \in RegimeNames}
Writes == (\E t \in Topics, tm \in Times : Write(t, tm)) /\ BagChanges /\ updated' = {}
\* Without the write that fails, for the regimes that have no fault.
NoFaults == Writes \/ (Otherwise /\ BagChanges /\ UNCHANGED updated)
\* A view needs no more of the bag than that it is opened, written and closed.
Viewing == 
  \/ ViewStep
  \/ Writes
  \/ ((\E m \in Modes : OpenWrite(m)) \/ Close) /\ BagChanges /\ UNCHANGED updated
MCNext ==
  /\ CASE regime.name = "viewing" -> Viewing
       [] regime.name = "faults"  -> BagStep
       [] OTHER                   -> NoFaults
  /\ Within(regime) /\ UNCHANGED regime
MCSpec == MCInit /\ [][MCNext]_<<vars, viewVars, iterVars, regime>>
=============================================================================
