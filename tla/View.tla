-------------------------------- MODULE View --------------------------------
(***************************************************************************)
(* rosbag::View: the messages of a bag that queries select, and an iterator *)
(* that merges the indexes of their connections by time, while the bag is  *)
(* written.                                                                *)
(*                                                                         *)
(* A multiset iterator is the entry it points to.  The ranges of the view  *)
(* are the pairs of a query and a connection, in the order of ranges_; what *)
(* is in them is computed from the index, because every use of them runs   *)
(* update() first.  The revision numbers are kept as what they are compared *)
(* for: which queries have been updated since the last write, and whether  *)
(* the iterator has seen the ranges as they are.                           *)
(***************************************************************************)
EXTENDS Bag

CONSTANTS
  Queries,      \* the queries that may be added: topics, first and last time
  MaxQueries    \* bound: queries of a view

ASSUME ViewAssumption ==
  /\ Queries \subseteq [topics : SUBSET Topics, from : Nat, to : Nat]
  /\ MaxQueries \in Nat

VARIABLES
  queries,            \* queries_, empty when there is no view
  reduce_overlap,     \* reduce_overlap_
  ranges,             \* ranges_
  updated,            \* the queries whose bag_revision is the bag's
  iters,              \* iters_ of the iterator
  stale,              \* its view_revision_ is not the view's
  visited,            \* history: the entries the iterator has pointed to, in order
  due                 \* history: the entries it has to come to

viewVars == <<queries, reduce_overlap, ranges, updated>>
iterVars == <<iters, stale, visited, due>>

-----------------------------------------------------------------------------
(* Queries and ranges *)

Matches(q, id) == id \in DOMAIN conns /\ conns[id] \in q.topics
Selected(q, id) ==
  IF Matches(q, id) /\ id \in DOMAIN indexes
  THEN {e \in indexes[id] : q.from <= e.time /\ e.time <= q.to} ELSE {}
Entries(r) == Selected(queries[r.query], r.conn)

InView == UNION {Selected(queries[i], id) : i \in DOMAIN queries, id \in DOMAIN conns}

\* updateQueries(queries[i]): a connection that is found for the first time gets a range.
UpdatedRanges(qs, rs, i) ==
  LET new == {id \in DOMAIN conns : /\ Selected(qs[i], id) # {}
                                    /\ [query |-> i, conn |-> id] \notin ToSet(rs)}
      ids == SetToSortSeq(new, <)
  IN rs \o [k \in DOMAIN ids |-> [query |-> i, conn |-> ids[k]]]

\* update().
OldQueries == DOMAIN queries \ updated
Ranges ==
  FoldLeft(LAMBDA rs, i : UpdatedRanges(queries, rs, i), ranges, SetToSortSeq(OldQueries, <))
Update == ranges' = Ranges /\ updated' = DOMAIN queries

-----------------------------------------------------------------------------
(* The iterator *)

\* The order of a multiset of entries: by time, and of insertion among equals.
Before(d, e) ==
  \/ d.time < e.time
  \/ d.time = e.time /\ d.chunk_pos < e.chunk_pos
  \/ d.time = e.time /\ d.chunk_pos = e.chunk_pos /\ d.offset < e.offset
First(entries) == CHOOSE e \in entries : \A d \in entries : d = e \/ Before(e, d)
After(r, e) == {d \in Entries(r) : Before(e, d)}

\* std::sort by time, latest first; with so few elements it keeps the order of equals.
Sorted(its) ==
  LET order == SetToSortSeq(DOMAIN its, LAMBDA i, j :
                 \/ its[i].at.time > its[j].at.time
                 \/ its[i].at.time = its[j].at.time /\ i < j)
  IN [k \in DOMAIN its |-> its[order[k]]]

\* An element for each range that has entries from `time' on, at the first of them.
From(rs, time) ==
  LET some == SelectSeq(rs, LAMBDA r : \E e \in Entries(r) : e.time >= time)
  IN Sorted([k \in DOMAIN some |->
               [range |-> some[k], at |-> First({e \in Entries(some[k]) : e.time >= time})]])

StepOne(its) ==
  LET last == Last(its)
      rest == After(last.range, last.at)
  IN Sorted(IF rest = {} THEN Front(its)
            ELSE Append(Front(its), [last EXCEPT !.at = First(rest)]))

\* With reduce_overlap_, on through all ranges that are at the same entry.
StepReduced(its) ==
  FoldLeft(LAMBDA now, k : IF now # <<>> /\ Last(now).at = Last(its).at THEN StepOne(now) ELSE now,
           its, its)
Step(its) == IF reduce_overlap THEN StepReduced(its) ELSE StepOne(its)

\* Mutant: the iterator goes on with the ranges it began with.
SeekNowhere(rs, e) == iters

\* populateSeek(e): from the time of e on until e itself.  (The first increment() in its loop
\* finds the revision old and seeks once more, to the entry it is at.)
SeekTo(rs, e) ==
  FoldLeft(LAMBDA now, k : IF Last(now).at = e THEN now ELSE Step(now), From(rs, e.time),
           [k \in 1 .. Len(rs) * Cardinality({d \in InView : d.time = e.time}) |-> k])

-----------------------------------------------------------------------------
(* Operations *)

Iterating == visited # <<>>
AtEnd == Iterating /\ iters = <<>>
\* What the iterator is going to have to visit, after any step.
Expects ==
  due' = IF iters' = <<>> THEN due
         ELSE due \union {e \in InView' : e.time > Last(iters').at.time}

\* AddQuery(q): also the constructor, which adds the first.
AddQuery(q) ==
  /\ status = "ready" /\ "Read" \in mode /\ Len(queries) < MaxQueries
  /\ queries' = Append(queries, q)
  /\ ranges' = UpdatedRanges(Append(queries, q), ranges, Len(queries) + 1)
  /\ updated' = updated \union {Len(queries) + 1}
  /\ IF queries = <<>> THEN reduce_overlap' \in BOOLEAN ELSE UNCHANGED reduce_overlap
  /\ stale' = TRUE /\ UNCHANGED <<vars, iters, visited>>
  /\ Expects

\* Begin: begin(), and a new iterator is populated.
Begin ==
  /\ queries # <<>> /\ ~Iterating
  /\ Update
  /\ iters' = From(Ranges, 0) /\ iters' # <<>>
  /\ stale' = FALSE
  /\ visited' = <<Last(iters').at>>
  /\ due' = InView
  /\ UNCHANGED <<vars, queries, reduce_overlap>>

IncrementIterator ==
  /\ iters # <<>>
  /\ Update
  /\ iters' = Step(IF stale \/ OldQueries # {} THEN SeekTo(Ranges, Last(iters).at) ELSE iters)
  /\ stale' = FALSE
  /\ visited' = IF iters' = <<>> THEN visited ELSE Append(visited, Last(iters').at)
  /\ UNCHANGED <<vars, queries, reduce_overlap>>
  /\ Expects

\* Destroy: the view goes before the bag is closed.
Destroy ==
  /\ queries # <<>>
  /\ queries' = <<>> /\ reduce_overlap' = FALSE /\ ranges' = <<>> /\ updated' = {}
  /\ iters' = <<>> /\ stale' = FALSE /\ visited' = <<>> /\ due' = {}
  /\ UNCHANGED vars

\* The bag is written, read and closed; doWrite counts the bag's revision up.
BagChanges ==
  /\ queries # <<>> => status' = "ready"
  /\ UNCHANGED <<queries, reduce_overlap, ranges, iters, stale, visited>>
  /\ Expects
BagStep ==
  \/ DoWrite /\ BagChanges /\ updated' = {}
  \/ Otherwise /\ BagChanges /\ UNCHANGED updated

ViewInit ==
  /\ queries = <<>> /\ reduce_overlap = FALSE /\ ranges = <<>> /\ updated = {}
  /\ iters = <<>> /\ stale = FALSE /\ visited = <<>> /\ due = {}
ViewStep == (\E q \in Queries : AddQuery(q)) \/ Begin \/ IncrementIterator \/ Destroy
ViewNext == BagStep \/ ViewStep

-----------------------------------------------------------------------------
(* Properties *)

\* The entries that no other entry of the view equals in time.
Alone ==
  LET view == InView IN {e \in view : \A d \in view : d.time = e.time => d = e}

\* An iterator comes to every message of the view in the order of time, and once, also those
\* that are written ahead of it while it is on its way, in new connections, too.  (Among
\* messages of the same time it may skip some or come back to some when the bag was written
\* meanwhile; and queries that overlap give a message more than once unless they are reduced.)
VisitsInOrder ==
  Iterating => LET alone == Alone IN
    /\ \A i, j \in DOMAIN visited : i < j => visited[i].time <= visited[j].time
    /\ \A e \in due : e \in alone /\ (AtEnd \/ e.time < Last(iters).at.time) => e \in ToSet(visited)
    /\ reduce_overlap \/ Len(queries) = 1 =>
         \A i, j \in DOMAIN visited : visited[i] = visited[j] /\ visited[i] \in alone => i = j
=============================================================================
