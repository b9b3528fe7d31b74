---------------------------- MODULE TopicProofs ----------------------------
(* Theorems about Topic, for any links, threads and sizes of queues: its types *)
(* and what GivenAndScheduled says, and that it implements TopicChannel, so    *)
(* that callbacks are called in the order of publication.                      *)
(*                                                                             *)
(* What makes them inductive: the messages between publish() and a callback    *)
(* stand in a row, through the publish queue, the batch, the outbox, the write *)
(* that is in progress, the socket and the subscription's queue (Ahead,        *)
(* InARow); a link that has not joined has nothing (Unjoined); and the poll    *)
(* thread, which is all that hands out, is busy while a TCP subscriber joins   *)
(* (Joining).                                                                  *)
EXTENDS Topic, SequenceTheorems, FiniteSetTheorems, TLAPS

Increasing(s) == \A i, j \in 1 .. Len(s) : i < j => s[i] < s[j]
Before(A, B) == \A a \in A, b \in B : a < b

\* The messages that were published and not handed out.
Waiting == ToSet(batch) \cup ToSet(publishQueue)

\* They are newer than what was handed out, in order, and published.
Ahead ==
    /\ Increasing(batch) /\ Increasing(publishQueue)
    /\ Before(ToSet(batch), ToSet(publishQueue))
    /\ \A m \in Waiting : lastMessage < m /\ m <= published
    /\ \A l \in links \cap Remote, m \in Waiting : newest[l] < m

\* Local links have their messages uncopied, all of them, or none.
Uncopies ==
    /\ ~options.uncopied => typed = {}
    /\ \A l \in links \cap Local :
          IF options.uncopied THEN newest[l] = published /\ 1 .. published \subseteq typed
          ELSE \A m \in Waiting : newest[l] < m

\* Who may be where in joining and leaving.
Joining ==
    /\ \A l \in Remote : joining[l] \in {"validated", "listed"} => batch = << >>
    /\ dropped => batch = << >>
    /\ swapped => dropped /\ links = {}
    /\ ~swapped => leaving = {}
    /\ \A l \in leaving : joining[l] \in {"listed", "joined"}
    /\ \A l \in Link : joining[l] = "validated" => connected[l]
    /\ \A l \in links : /\ joining[l] \in {"listed", "joined"}
                        /\ ~dropped \/ joining[l] = "listed" => connected[l]
    /\ \A l \in Local : joining[l] \in {"joined", "refused"}
    /\ \A l \in Link : joining[l] = "absent" => ~connected[l]

NothingSent(l) == outbox[l] = << >> /\ writing[l] = 0 /\ wire[l] = << >>

Unjoined ==
    /\ \A l \in Remote : joining[l] # "joined" => NothingSent(l) /\ queue[l] = << >> /\ newest[l] = 0
    /\ \A l \in Local : NothingSent(l)

\* On its link every message is behind those published before it: q is the queue of
\* the subscription, w is on the wire, x being written and o the outbox, g was called
\* and n given last.
UnsentOf(x, o, open) == IF open THEN (ToSet(o) \cup {x}) \ {0} ELSE {}
WayOf(q, w, x, o, open) == ToSet(q) \cup ToSet(w) \cup UnsentOf(x, o, open)

Row(q, w, x, o, open, g, n) ==
    /\ Increasing(q) /\ Increasing(w)
    /\ Before(ToSet(q), ToSet(w) \cup UnsentOf(x, o, open))
    /\ Before(ToSet(w), UnsentOf(x, o, open))
    /\ open => Increasing(o) /\ (x # 0 => Before({x}, ToSet(o)))
    /\ \A m \in WayOf(q, w, x, o, open) : g < m /\ m <= n
    /\ g <= n

RowTypes(q, w, x, o, g, n) ==
    /\ q \in Seq(Nat \ {0}) /\ w \in Seq(Nat \ {0}) /\ o \in Seq(Nat \ {0})
    /\ x \in Nat /\ g \in Nat /\ n \in Nat

InARow(l) == Row(queue[l], wire[l], writing[l], outbox[l], connected[l], got[l], newest[l])

Cleared == \A l \in Link : subscribed[l] \in {"cleared", "no"} => queue[l] = << >>

OrderInv == TypeOK /\ Ahead /\ Uncopies /\ Joining /\ Unjoined /\ \A l \in Link : InARow(l)

-----------------------------------------------------------------------------
(* Sequences: what their ends do to the set of their elements and to the order. *)

LEMMA ElementsOf ==
    ASSUME NEW S, NEW s \in Seq(S)
    PROVE  /\ \A m \in ToSet(s) : \E i \in 1 .. Len(s) : m = s[i]
           /\ \A i \in 1 .. Len(s) : s[i] \in ToSet(s)
           /\ ToSet(s) \subseteq S
           /\ s = << >> <=> ToSet(s) = {}
           /\ s # << >> => Head(s) \in ToSet(s)
<1>1. DOMAIN s = 1 .. Len(s) /\ Len(s) \in Nat /\ \A i \in 1 .. Len(s) : s[i] \in S
  OBVIOUS
<1>2. /\ \A m \in ToSet(s) : \E i \in 1 .. Len(s) : m = s[i]
      /\ \A i \in 1 .. Len(s) : s[i] \in ToSet(s)
  BY <1>1 DEF ToSet
<1>3. ToSet(s) \subseteq S
  BY <1>1, <1>2
<1>4. s # << >> => Head(s) \in ToSet(s)
  <2>1. s # << >> => 1 \in 1 .. Len(s) /\ Head(s) = s[1]
    BY <1>1
  <2> QED BY <1>2, <2>1
<1>5. s = << >> => ToSet(s) = {}
  BY DEF ToSet
<1> QED BY <1>2, <1>3, <1>4, <1>5

LEMMA TailInOrder ==
    ASSUME NEW s \in Seq(Nat \ {0}), s # << >>, Increasing(s)
    PROVE  /\ Tail(s) \in Seq(Nat \ {0}) /\ Increasing(Tail(s)) /\ Len(Tail(s)) = Len(s) - 1
           /\ Head(s) \in ToSet(s)
           /\ ToSet(Tail(s)) = ToSet(s) \ {Head(s)}
           /\ \A m \in ToSet(Tail(s)) : Head(s) < m
<1>1. /\ Tail(s) \in Seq(Nat \ {0}) /\ Len(Tail(s)) = Len(s) - 1 /\ Head(s) = s[1] /\ Len(s) \in Nat \ {0}
      /\ \A i \in 1 .. Len(s) - 1 : Tail(s)[i] = s[i + 1]
  BY HeadTailProperties
<1>2. /\ \A m \in ToSet(s) : m \in Nat /\ \E i \in 1 .. Len(s) : m = s[i]
      /\ \A i \in 1 .. Len(s) : s[i] \in ToSet(s)
      /\ \A m \in ToSet(Tail(s)) : \E i \in 1 .. Len(s) - 1 : m = s[i + 1]
      /\ \A i \in 1 .. Len(s) - 1 : s[i + 1] \in ToSet(Tail(s))
  <2>1. /\ \A m \in ToSet(s) : m \in Nat /\ \E i \in 1 .. Len(s) : m = s[i]
        /\ \A i \in 1 .. Len(s) : s[i] \in ToSet(s)
    BY ElementsOf
  <2>2. /\ \A m \in ToSet(Tail(s)) : \E i \in 1 .. Len(Tail(s)) : m = Tail(s)[i]
        /\ \A i \in 1 .. Len(Tail(s)) : Tail(s)[i] \in ToSet(Tail(s))
    BY <1>1, ElementsOf
  <2> HIDE DEF Increasing
  <2> QED BY <1>1, <2>1, <2>2
<1>3. Increasing(Tail(s))
  BY <1>1 DEF Increasing
<1>4. \A m \in ToSet(Tail(s)) : Head(s) < m /\ m \in ToSet(s)
  BY <1>1, <1>2 DEF Increasing
<1>5. ASSUME NEW m \in ToSet(s), m # Head(s) PROVE m \in ToSet(Tail(s))
  <2>1. PICK i \in 1 .. Len(s) : m = s[i]
    BY <1>2
  <2>2. i - 1 \in 1 .. Len(s) - 1 /\ s[(i - 1) + 1] = m
    BY <1>1, <1>5, <2>1
  <2> QED BY <1>2, <2>2
<1>6. Head(s) \in ToSet(s)
  BY <1>1, <1>2
<1>7. Head(s) \in Nat /\ \A m \in ToSet(Tail(s)) : m # Head(s)
  BY <1>2, <1>4, <1>6
<1> QED BY <1>1, <1>3, <1>4, <1>5, <1>6, <1>7

LEMMA AppendInOrder ==
    ASSUME NEW s \in Seq(Nat \ {0}), NEW m \in Nat \ {0}
    PROVE  /\ Append(s, m) \in Seq(Nat \ {0}) /\ Len(Append(s, m)) = Len(s) + 1
           /\ ToSet(Append(s, m)) = ToSet(s) \cup {m}
           /\ Increasing(s) /\ Before(ToSet(s), {m}) => Increasing(Append(s, m))
<1>1. /\ Append(s, m) \in Seq(Nat \ {0}) /\ Len(Append(s, m)) = Len(s) + 1 /\ Len(s) \in Nat
      /\ \A i \in 1 .. Len(s) : Append(s, m)[i] = s[i]
      /\ Append(s, m)[Len(s) + 1] = m
  BY AppendProperties
<1>2. /\ \A k \in ToSet(s) : \E i \in 1 .. Len(s) : k = s[i]
      /\ \A i \in 1 .. Len(s) : s[i] \in ToSet(s)
      /\ \A k \in ToSet(Append(s, m)) : \E i \in 1 .. Len(s) + 1 : k = Append(s, m)[i]
      /\ \A i \in 1 .. Len(s) + 1 : Append(s, m)[i] \in ToSet(Append(s, m))
  <2>1. /\ \A k \in ToSet(s) : \E i \in 1 .. Len(s) : k = s[i]
        /\ \A i \in 1 .. Len(s) : s[i] \in ToSet(s)
    BY ElementsOf
  <2>2. /\ \A k \in ToSet(Append(s, m)) : \E i \in 1 .. Len(Append(s, m)) : k = Append(s, m)[i]
        /\ \A i \in 1 .. Len(Append(s, m)) : Append(s, m)[i] \in ToSet(Append(s, m))
    BY <1>1, ElementsOf
  <2> QED BY <1>1, <2>1, <2>2
<1>3. ToSet(Append(s, m)) = ToSet(s) \cup {m}
  <2>1. ASSUME NEW k \in ToSet(Append(s, m)) PROVE k \in ToSet(s) \cup {m}
    <3>1. PICK i \in 1 .. Len(s) + 1 : k = Append(s, m)[i]
      BY <1>2
    <3>2. i \in 1 .. Len(s) \/ i = Len(s) + 1
      BY <1>1
    <3> QED BY <1>1, <1>2, <3>1, <3>2
  <2>2. ToSet(s) \subseteq ToSet(Append(s, m))
    <3> SUFFICES ASSUME NEW i \in 1 .. Len(s) PROVE s[i] \in ToSet(Append(s, m))
      BY <1>2
    <3>1. i \in 1 .. Len(s) + 1
      BY <1>1
    <3> QED BY <1>1, <1>2, <3>1
  <2>3. m \in ToSet(Append(s, m))
    <3>1. Len(s) + 1 \in 1 .. Len(s) + 1
      BY <1>1
    <3> QED BY <1>1, <1>2, <3>1
  <2> QED BY <2>1, <2>2, <2>3
<1>4. ASSUME Increasing(s), Before(ToSet(s), {m}) PROVE Increasing(Append(s, m))
  <2>1. \A i \in 1 .. Len(s) : s[i] < m
    BY <1>2, <1>4 DEF Before
  <2>2. ASSUME NEW i \in 1 .. Len(s) + 1, NEW j \in 1 .. Len(s) + 1, i < j
        PROVE  Append(s, m)[i] < Append(s, m)[j]
    <3>1. i \in 1 .. Len(s) /\ (j \in 1 .. Len(s) \/ j = Len(s) + 1)
      BY <1>1, <2>2
    <3> QED BY <1>1, <1>4, <2>1, <2>2, <3>1 DEF Increasing
  <2> QED BY <1>1, <2>2 DEF Increasing
<1> QED BY <1>1, <1>3, <1>4

\* The discipline of outbox and subscription queue: the oldest message may go, the new
\* one is the last.
LEMMA PushedInOrder ==
    ASSUME NEW s \in Seq(Nat \ {0}), NEW m \in Nat \ {0}, NEW size \in Nat,
           Increasing(s), Before(ToSet(s), {m})
    PROVE  /\ Pushed(s, m, size) \in Seq(Nat \ {0}) /\ Increasing(Pushed(s, m, size))
           /\ Len(Pushed(s, m, size)) = IF fullNoLock(s, size) THEN Len(s) ELSE Len(s) + 1
           /\ size > 0 /\ Len(s) <= size => Len(Pushed(s, m, size)) <= size
           /\ Pushed(s, m, size) # << >>
           /\ m \in ToSet(Pushed(s, m, size))
           /\ ToSet(Pushed(s, m, size)) \subseteq ToSet(s) \cup {m}
<1>1. CASE fullNoLock(s, size)
  <2>1. s # << >> /\ Len(s) \in Nat
    BY <1>1 DEF fullNoLock
  <2>2. Tail(s) \in Seq(Nat \ {0}) /\ Before(ToSet(Tail(s)), {m})
    BY <2>1, TailInOrder DEF Before
  <2>3. Len(Tail(s)) = Len(s) - 1 /\ Increasing(Tail(s)) /\ ToSet(Tail(s)) \subseteq ToSet(s)
    BY <2>1, TailInOrder
  <2>4. Pushed(s, m, size) = Append(Tail(s), m)
    BY <1>1 DEF Pushed
  <2>5. /\ Append(Tail(s), m) \in Seq(Nat \ {0}) /\ Len(Append(Tail(s), m)) = Len(s)
        /\ ToSet(Append(Tail(s), m)) = ToSet(Tail(s)) \cup {m} /\ Increasing(Append(Tail(s), m))
    <3>1. /\ Append(Tail(s), m) \in Seq(Nat \ {0}) /\ Len(Append(Tail(s), m)) = Len(Tail(s)) + 1
          /\ ToSet(Append(Tail(s), m)) = ToSet(Tail(s)) \cup {m} /\ Increasing(Append(Tail(s), m))
      BY <2>2, <2>3, AppendInOrder
    <3> QED BY <2>1, <2>3, <3>1
  <2> QED BY <1>1, <2>1, <2>3, <2>4, <2>5
<1>2. CASE ~fullNoLock(s, size)
  <2>1. Pushed(s, m, size) = Append(s, m) /\ Len(s) \in Nat
    BY <1>2 DEF Pushed
  <2>2. size > 0 => Len(s) < size
    BY <1>2, <2>1 DEF fullNoLock
  <2> QED BY <1>2, <2>1, <2>2, AppendInOrder
<1> QED BY <1>1, <1>2

-----------------------------------------------------------------------------
(* The row of a link: what each thread does to it. *)

\* A message is put into the outbox.
LEMMA RowGiven ==
    ASSUME NEW q, NEW w, NEW x, NEW o, NEW open, NEW g, NEW n, NEW m \in Nat \ {0},
           RowTypes(q, w, x, o, g, n), Row(q, w, x, o, open, g, n), n < m, open = TRUE
    PROVE  /\ Row(q, w, x, Pushed(o, m, MaxQueue), open, g, m)
           /\ RowTypes(q, w, x, Pushed(o, m, MaxQueue), g, m)
           /\ m \in WayOf(q, w, x, Pushed(o, m, MaxQueue), open)
           /\ WayOf(q, w, x, Pushed(o, m, MaxQueue), open) \subseteq WayOf(q, w, x, o, open) \cup {m}
<1> DEFINE p == Pushed(o, m, MaxQueue)
<1>1. /\ MaxQueue \in Nat /\ o \in Seq(Nat \ {0}) /\ x \in Nat /\ g \in Nat /\ n \in Nat
      /\ ToSet(q) \subseteq Nat \ {0} /\ ToSet(w) \subseteq Nat \ {0} /\ ToSet(o) \subseteq Nat \ {0}
  BY ElementsOf, PublicationAssumption DEF RowTypes
<1>2. Increasing(o) /\ Before(ToSet(o), {m})
  BY <1>1 DEF Row, WayOf, UnsentOf, Before
<1>3. /\ p \in Seq(Nat \ {0}) /\ Increasing(p) /\ p # << >> /\ m \in ToSet(p)
      /\ ToSet(p) \subseteq ToSet(o) \cup {m}
  BY <1>1, <1>2, PushedInOrder
<1> HIDE DEF p
<1>4. \A k \in WayOf(q, w, x, o, open) : k \in Nat /\ g < k /\ k <= n /\ k < m /\ k <= m
  <2> SUFFICES ASSUME NEW k \in WayOf(q, w, x, o, open)
               PROVE  k \in Nat /\ g < k /\ k <= n /\ k < m /\ k <= m
    OBVIOUS
  <2>1. k \in Nat
    BY <1>1 DEF WayOf, UnsentOf
  <2>2. g < k /\ k <= n
    BY DEF Row
  <2> QED BY <1>1, <2>1, <2>2
<1>5. UnsentOf(x, p, open) \subseteq UnsentOf(x, o, open) \cup {m} /\ m \in UnsentOf(x, p, open)
  BY <1>3 DEF UnsentOf
<1>6. /\ WayOf(q, w, x, p, open) \subseteq WayOf(q, w, x, o, open) \cup {m}
      /\ m \in WayOf(q, w, x, p, open)
  BY <1>5 DEF WayOf
<1>7. Before(ToSet(q), ToSet(w) \cup UnsentOf(x, p, open)) /\ Before(ToSet(w), UnsentOf(x, p, open))
  <2>1. Before(ToSet(q), ToSet(w) \cup UnsentOf(x, o, open)) /\ Before(ToSet(w), UnsentOf(x, o, open))
    BY DEF Row
  <2>2. \A k \in ToSet(q) \cup ToSet(w) : k < m
    BY <1>4 DEF WayOf
  <2> QED BY <1>5, <2>1, <2>2 DEF Before
<1>8. x # 0 => Before({x}, ToSet(p))
  <2>1. x # 0 => x < m /\ Before({x}, ToSet(o))
    <3>1. x # 0 => x \in WayOf(q, w, x, o, open)
      BY DEF WayOf, UnsentOf
    <3> QED BY <1>4, <3>1 DEF Row
  <2> QED BY <1>3, <2>1 DEF Before
<1>9. g <= m /\ \A k \in WayOf(q, w, x, p, open) : g < k /\ k <= m
  <2>1. g <= n
    BY DEF Row
  <2>2. g < m /\ g <= m /\ m <= m
    BY <1>1, <2>1
  <2> QED BY <1>4, <1>6, <2>2
<1>10. Increasing(q) /\ Increasing(w)
  BY DEF Row
<1>11. Row(q, w, x, p, open, g, m)
  BY <1>3, <1>7, <1>8, <1>9, <1>10 DEF Row
<1>12. RowTypes(q, w, x, p, g, m)
  BY <1>3 DEF RowTypes
<1> QED BY <1>3, <1>6, <1>11, <1>12 DEF p

\* A message is put into the queue of a local subscription.
LEMMA RowHanded ==
    ASSUME NEW q, NEW w, NEW x, NEW o, NEW open, NEW g, NEW n, NEW m \in Nat \ {0}, NEW size \in Nat,
           RowTypes(q, w, x, o, g, n), Row(q, w, x, o, open, g, n), n < m,
           w = << >>, x = 0, o = << >>
    PROVE  /\ Row(Pushed(q, m, size), w, x, o, open, g, m)
           /\ m \in WayOf(Pushed(q, m, size), w, x, o, open)
           /\ WayOf(Pushed(q, m, size), w, x, o, open) \subseteq WayOf(q, w, x, o, open) \cup {m}
<1> DEFINE p == Pushed(q, m, size)
<1>1. /\ q \in Seq(Nat \ {0}) /\ g \in Nat /\ n \in Nat /\ ToSet(q) \subseteq Nat \ {0}
  BY ElementsOf DEF RowTypes
<1>2. Increasing(q) /\ Before(ToSet(q), {m})
  BY <1>1 DEF Row, WayOf, Before
<1>3. /\ Increasing(p) /\ m \in ToSet(p) /\ ToSet(p) \subseteq ToSet(q) \cup {m}
  BY <1>1, <1>2, PushedInOrder
<1>4. ToSet(w) = {} /\ UnsentOf(x, o, open) = {}
  BY DEF ToSet, UnsentOf
<1>5. WayOf(q, w, x, o, open) = ToSet(q) /\ WayOf(p, w, x, o, open) = ToSet(p)
  BY <1>4 DEF WayOf
<1>6. \A k \in ToSet(p) : g < k /\ k <= m
  BY <1>1, <1>3, <1>5 DEF Row
<1>7. Before(ToSet(p), {}) /\ Before({}, {})
  BY DEF Before
<1>8. open => Increasing(o) /\ (x # 0 => Before({x}, ToSet(o)))
  BY DEF Row
<1>9. g <= m /\ Increasing(w)
  BY <1>1 DEF Row
<1> HIDE DEF p
<1>10. Row(p, w, x, o, open, g, m)
  BY <1>3, <1>4, <1>5, <1>6, <1>7, <1>8, <1>9 DEF Row
<1> QED BY <1>3, <1>5, <1>10 DEF p

\* The next message of the outbox goes to the connection.
LEMMA RowStarted ==
    ASSUME NEW q, NEW w, NEW o, NEW g, NEW n,
           RowTypes(q, w, 0, o, g, n), Row(q, w, 0, o, TRUE, g, n), o # << >>
    PROVE  /\ Row(q, w, Head(o), Tail(o), TRUE, g, n)
           /\ WayOf(q, w, Head(o), Tail(o), TRUE) = WayOf(q, w, 0, o, TRUE)
<1>1. o \in Seq(Nat \ {0}) /\ ToSet(o) \subseteq Nat \ {0} /\ Increasing(o)
  BY ElementsOf DEF RowTypes, Row
<1>2. /\ Head(o) \in ToSet(o) /\ Increasing(Tail(o)) /\ ToSet(Tail(o)) = ToSet(o) \ {Head(o)}
      /\ \A k \in ToSet(Tail(o)) : Head(o) < k
  BY <1>1, TailInOrder
<1>3. UnsentOf(Head(o), Tail(o), TRUE) = UnsentOf(0, o, TRUE)
  BY <1>1, <1>2 DEF UnsentOf
<1> QED BY <1>2, <1>3 DEF Row, WayOf, Before

\* The same, as one fact about the five of them.
RowIdle(q, w, o, g, n) == RowTypes(q, w, 0, o, g, n) /\ Row(q, w, 0, o, TRUE, g, n) /\ o # << >>
RowBusy(q, w, o, g, n) ==
    /\ Row(q, w, Head(o), Tail(o), TRUE, g, n)
    /\ WayOf(q, w, Head(o), Tail(o), TRUE) = WayOf(q, w, 0, o, TRUE)

LEMMA IdleStarted ==
    ASSUME NEW q, NEW w, NEW o, NEW g, NEW n, RowIdle(q, w, o, g, n)
    PROVE  RowBusy(q, w, o, g, n)
BY RowStarted DEF RowIdle, RowBusy

\* The message that is being written gets to the wire.
LEMMA RowWritten ==
    ASSUME NEW q, NEW w, NEW x, NEW o, NEW g, NEW n,
           RowTypes(q, w, x, o, g, n), Row(q, w, x, o, TRUE, g, n), x # 0
    PROVE  /\ RowTypes(q, Append(w, x), 0, o, g, n)
           /\ Row(q, Append(w, x), 0, o, TRUE, g, n)
           /\ WayOf(q, Append(w, x), 0, o, TRUE) = WayOf(q, w, x, o, TRUE)
<1>1. /\ q \in Seq(Nat \ {0}) /\ w \in Seq(Nat \ {0}) /\ o \in Seq(Nat \ {0}) /\ x \in Nat \ {0} /\ g \in Nat /\ n \in Nat
      /\ ToSet(q) \subseteq Nat \ {0} /\ ToSet(w) \subseteq Nat \ {0} /\ ToSet(o) \subseteq Nat \ {0}
  BY ElementsOf DEF RowTypes
<1>2. x \in UnsentOf(x, o, TRUE) /\ UnsentOf(x, o, TRUE) = ToSet(o) \cup {x} /\ UnsentOf(0, o, TRUE) = ToSet(o)
  BY <1>1 DEF UnsentOf
<1>3. Increasing(w) /\ Before(ToSet(w), {x})
  BY <1>2 DEF Row, Before
<1>4. /\ Append(w, x) \in Seq(Nat \ {0}) /\ ToSet(Append(w, x)) = ToSet(w) \cup {x}
      /\ Increasing(Append(w, x))
  BY <1>1, <1>3, AppendInOrder
<1>5. ToSet(Append(w, x)) \cup UnsentOf(0, o, TRUE) = ToSet(w) \cup UnsentOf(x, o, TRUE)
  BY <1>2, <1>4
<1>6. Before(ToSet(w) \cup {x}, ToSet(o))
  BY <1>2 DEF Row, Before
<1>7. WayOf(q, Append(w, x), 0, o, TRUE) = WayOf(q, w, x, o, TRUE)
  BY <1>5 DEF WayOf
<1>8. Before(ToSet(q), ToSet(Append(w, x)) \cup UnsentOf(0, o, TRUE))
  BY <1>5 DEF Row
<1>9. Before(ToSet(Append(w, x)), UnsentOf(0, o, TRUE))
  BY <1>2, <1>4, <1>6
<1>10. Increasing(q) /\ Increasing(o)
  BY DEF Row
<1>11. g <= n /\ \A m \in WayOf(q, w, x, o, TRUE) : g < m /\ m <= n
  BY DEF Row
<1>12. Row(q, Append(w, x), 0, o, TRUE, g, n)
  BY <1>4, <1>7, <1>8, <1>9, <1>10, <1>11 DEF Row
<1> QED BY <1>1, <1>4, <1>7, <1>12 DEF RowTypes

\* A message is read from the wire, and queued if somebody is subscribed.
LEMMA RowReceived ==
    ASSUME NEW q, NEW w, NEW x, NEW o, NEW open, NEW g, NEW n, NEW size \in Nat, NEW q2,
           RowTypes(q, w, x, o, g, n), Row(q, w, x, o, open, g, n), w # << >>,
           q2 = q \/ q2 = Pushed(q, Head(w), size)
    PROVE  /\ Row(q2, Tail(w), x, o, open, g, n)
           /\ WayOf(q2, Tail(w), x, o, open) \subseteq WayOf(q, w, x, o, open)
           /\ q2 = Pushed(q, Head(w), size) /\ n \in WayOf(q, w, x, o, open)
                 => n \in WayOf(q2, Tail(w), x, o, open)
<1> DEFINE h == Head(w)
           u == UnsentOf(x, o, open)
<1>1. /\ q \in Seq(Nat \ {0}) /\ w \in Seq(Nat \ {0}) /\ o \in Seq(Nat \ {0}) /\ g \in Nat /\ n \in Nat
      /\ ToSet(q) \subseteq Nat \ {0} /\ ToSet(w) \subseteq Nat \ {0}
  BY ElementsOf DEF RowTypes
<1>2. /\ h \in ToSet(w) /\ h \in Nat \ {0} /\ Increasing(Tail(w)) /\ ToSet(Tail(w)) = ToSet(w) \ {h}
      /\ \A k \in ToSet(Tail(w)) : h < k
  BY <1>1, TailInOrder DEF Row
<1>3. Increasing(q) /\ Before(ToSet(q), {h})
  BY <1>2 DEF Row, Before
<1>4. /\ Increasing(q2) /\ ToSet(q2) \subseteq ToSet(q) \cup {h}
      /\ q2 = Pushed(q, h, size) => h \in ToSet(q2)
      /\ q2 = q \/ h \in ToSet(q2)
  BY <1>1, <1>2, <1>3, PushedInOrder, SMTT(30)
<1>5. \A k \in ToSet(q) : k \in Nat /\ k < h /\ h <= n
  BY <1>1, <1>2, <1>3 DEF Row, WayOf, Before
<1>6. Before(ToSet(q2), ToSet(Tail(w)) \cup u) /\ Before(ToSet(Tail(w)), u)
  BY <1>2, <1>4 DEF Row, Before
<1>7. WayOf(q2, Tail(w), x, o, open) \subseteq WayOf(q, w, x, o, open)
  BY <1>2, <1>4 DEF WayOf
<1>8. ASSUME q2 = Pushed(q, h, size), n \in WayOf(q, w, x, o, open)
      PROVE  n \in WayOf(q2, Tail(w), x, o, open)
  <2>1. n \notin ToSet(q)
    BY <1>1, <1>2, <1>5
  <2> QED BY <1>2, <1>4, <1>8, <2>1 DEF WayOf
<1> QED BY <1>2, <1>4, <1>6, <1>7, <1>8 DEF Row

\* The oldest message goes to the callback.
LEMMA RowCalled ==
    ASSUME NEW q, NEW w, NEW x, NEW o, NEW open, NEW g, NEW n,
           RowTypes(q, w, x, o, g, n), Row(q, w, x, o, open, g, n), q # << >>
    PROVE  /\ Row(Tail(q), w, x, o, open, Head(q), n)
           /\ Head(q) \in WayOf(q, w, x, o, open)
           /\ \A m \in WayOf(q, w, x, o, open) : Head(q) <= m
           /\ WayOf(Tail(q), w, x, o, open) = WayOf(q, w, x, o, open) \ {Head(q)}
<1>1. /\ q \in Seq(Nat \ {0}) /\ w \in Seq(Nat \ {0}) /\ o \in Seq(Nat \ {0}) /\ x \in Nat /\ g \in Nat /\ n \in Nat
      /\ ToSet(q) \subseteq Nat \ {0} /\ ToSet(w) \subseteq Nat \ {0} /\ ToSet(o) \subseteq Nat \ {0}
  BY ElementsOf DEF RowTypes
<1>2. /\ Head(q) \in ToSet(q) /\ Increasing(Tail(q)) /\ ToSet(Tail(q)) = ToSet(q) \ {Head(q)}
      /\ \A k \in ToSet(Tail(q)) : Head(q) < k
  BY <1>1, TailInOrder DEF Row
<1>3. \A k \in ToSet(w) \cup UnsentOf(x, o, open) : Head(q) < k /\ k \in Nat
  BY <1>1, <1>2 DEF Row, Before, UnsentOf
<1>4. Head(q) \in Nat /\ Head(q) <= n
  BY <1>1, <1>2 DEF Row, WayOf
<1>5. WayOf(Tail(q), w, x, o, open) = WayOf(q, w, x, o, open) \ {Head(q)}
  BY <1>2, <1>3, <1>4 DEF WayOf
<1>6. \A m \in WayOf(Tail(q), w, x, o, open) : Head(q) < m /\ m <= n
  BY <1>2, <1>3, <1>5 DEF Row, WayOf
<1>7. \A m \in WayOf(q, w, x, o, open) : Head(q) <= m
  <2> SUFFICES ASSUME NEW m \in WayOf(q, w, x, o, open) PROVE Head(q) <= m
    OBVIOUS
  <2>1. CASE m = Head(q)  BY <1>4, <2>1
  <2>2. CASE m # Head(q)
    <3>1. m \in WayOf(Tail(q), w, x, o, open)
      BY <1>5, <2>2
    <3>2. m \in Nat
      BY <1>1 DEF WayOf, UnsentOf
    <3> QED BY <1>4, <1>6, <3>1, <3>2
  <2> QED BY <2>1, <2>2
<1> QED BY <1>2, <1>4, <1>5, <1>6, <1>7 DEF Row, Before, WayOf

\* The connection is closed, and what is on the wire may go with it; or the queue is
\* cleared.
LEMMA RowCut ==
    ASSUME NEW q, NEW w, NEW x, NEW o, NEW open, NEW g, NEW n, Row(q, w, x, o, open, g, n)
    PROVE  /\ Row(q, w, x, o, FALSE, g, n) /\ Row(q, << >>, x, o, FALSE, g, n)
           /\ Row(<< >>, w, x, o, open, g, n)
           /\ WayOf(q, w, x, o, FALSE) \subseteq WayOf(q, w, x, o, open)
           /\ WayOf(q, << >>, x, o, FALSE) \subseteq WayOf(q, w, x, o, open)
           /\ WayOf(<< >>, w, x, o, open) \subseteq WayOf(q, w, x, o, open)
<1>1. ToSet(<< >>) = {} /\ Increasing(<< >>)
  BY DEF ToSet, Increasing
<1>2. UnsentOf(x, o, FALSE) = {}
  BY DEF UnsentOf
<1>3. /\ WayOf(q, w, x, o, FALSE) \subseteq WayOf(q, w, x, o, open)
      /\ WayOf(q, << >>, x, o, FALSE) \subseteq WayOf(q, w, x, o, open)
      /\ WayOf(<< >>, w, x, o, open) \subseteq WayOf(q, w, x, o, open)
  BY <1>1, <1>2 DEF WayOf
<1>4. /\ Before(ToSet(q), ToSet(w) \cup {}) /\ Before(ToSet(q), {}) /\ Before(ToSet(w), {})
      /\ Before({}, {}) /\ Before({}, ToSet(w) \cup UnsentOf(x, o, open))
  BY DEF Row, Before
<1> QED BY <1>1, <1>2, <1>3, <1>4 DEF Row

-----------------------------------------------------------------------------
(* The variables of a link as a row, and its steps as steps of the channel. *)

LEMMA PushedTypes ==
    ASSUME NEW S, NEW s \in Seq(S), NEW m \in S, NEW size \in Nat
    PROVE  /\ Pushed(s, m, size) \in Seq(S) /\ Pushed(s, m, size) # << >>
           /\ Len(Pushed(s, m, size)) = IF fullNoLock(s, size) THEN Len(s) ELSE Len(s) + 1
           /\ size > 0 /\ Len(s) <= size => Len(Pushed(s, m, size)) <= size
           /\ Head(Pushed(s, m, size)) \in S
           /\ Tail(Pushed(s, m, size)) \in Seq(S)
           /\ Len(Tail(Pushed(s, m, size))) <= Len(Pushed(s, m, size))
<1>1. Len(s) \in Nat
  OBVIOUS
<1>2. PICK r \in Seq(S) : /\ Pushed(s, m, size) = Append(r, m)
                          /\ Len(r) = IF fullNoLock(s, size) THEN Len(s) - 1 ELSE Len(s)
  <2>1. CASE fullNoLock(s, size)
    <3>1. s # << >>
      BY <1>1, <2>1 DEF fullNoLock
    <3> QED BY <2>1, <3>1, HeadTailProperties DEF Pushed
  <2>2. CASE ~fullNoLock(s, size)
    BY <2>2 DEF Pushed
  <2> QED BY <2>1, <2>2
<1>3. Append(r, m) \in Seq(S) /\ Append(r, m) # << >> /\ Len(Append(r, m)) = Len(r) + 1
  BY AppendProperties
<1>4. /\ Head(Append(r, m)) \in S /\ Tail(Append(r, m)) \in Seq(S)
      /\ Len(Tail(Append(r, m))) = Len(Append(r, m)) - 1
  BY <1>3, HeadTailProperties
<1>5. Len(Append(r, m)) = IF fullNoLock(s, size) THEN Len(s) ELSE Len(s) + 1
  BY <1>1, <1>2, <1>3
<1>6. size > 0 /\ Len(s) <= size => Len(Append(r, m)) <= size
  BY <1>1, <1>5 DEF fullNoLock
<1> QED BY <1>2, <1>3, <1>4, <1>5, <1>6

LEMMA MessagesAreNumbers == Message \subseteq Nat \ {0} /\ Seq(Message) \subseteq Seq(Nat \ {0})
<1>1. Message \subseteq Nat \ {0}
  BY PublicationAssumption DEF Message
<1>2. ASSUME NEW s \in Seq(Message) PROVE s \in Seq(Nat \ {0})
  <2>1. Len(s) \in Nat /\ s \in [1 .. Len(s) -> Message]
    OBVIOUS
  <2>2. s \in [1 .. Len(s) -> Nat \ {0}]
    BY <1>1, <2>1
  <2> QED BY <2>1, <2>2, SeqDef
<1> QED BY <1>1, <1>2

LEMMA TypesOfRow ==
    ASSUME TypeOK, NEW l \in Link
    PROVE  RowTypes(queue[l], wire[l], writing[l], outbox[l], got[l], newest[l])
<1>1. queue[l] \in Seq(Nat \ {0}) /\ got[l] \in Nat
  BY DEF TypeOK, SubscriptionTypeOK
<1>2. wire[l] \in Seq(Message) /\ outbox[l] \in Seq(Message)
  BY DEF TypeOK, PublicationTypeOK
<1>3. writing[l] \in 0 .. MaxPublished /\ newest[l] \in 0 .. published /\ published \in 0 .. MaxPublished
  BY DEF TypeOK, PublicationTypeOK
<1> QED BY <1>1, <1>2, <1>3, MessagesAreNumbers, PublicationAssumption DEF RowTypes

LEMMA WayOfLink ==
    ASSUME NEW l \in Link
    PROVE  OnItsWay(l) = WayOf(queue[l], wire[l], writing[l], outbox[l], connected[l])
  BY DEF OnItsWay, WayOf, Unsent, UnsentOf

LEMMA IsSend ==
    ASSUME NEW l \in Link, newest'[l] \in Nat, newest'[l] > newest[l],
           OnItsWay(l)' \subseteq OnItsWay(l) \cup {newest'[l]},
           Gone(l) \/ newest'[l] \in OnItsWay(l)', got'[l] = got[l], Gone(l)' = Gone(l)
    PROVE  Channel!LinkStep(l)
  BY DEF Channel!LinkStep, Channel!Send

LEMMA IsLose ==
    ASSUME NEW l \in Link, OnItsWay(l)' \subseteq OnItsWay(l),
           Gone(l) \/ newest[l] \notin OnItsWay(l) \/ newest[l] \in OnItsWay(l)',
           newest'[l] = newest[l], got'[l] = got[l], Gone(l)' = Gone(l)
    PROVE  Channel!LinkStep(l)
  BY DEF Channel!LinkStep, Channel!Lose

LEMMA IsDeliver ==
    ASSUME NEW l \in Link, got'[l] \in OnItsWay(l), \A m \in OnItsWay(l) : got'[l] <= m,
           OnItsWay(l)' = OnItsWay(l) \ {got'[l]},
           newest'[l] = newest[l], Gone(l)' = Gone(l)
    PROVE  Channel!LinkStep(l)
  BY DEF Channel!LinkStep, Channel!Deliver

LEMMA IsCut ==
    ASSUME NEW l \in Link, Gone(l)', OnItsWay(l)' \subseteq OnItsWay(l),
           newest'[l] = newest[l], got'[l] = got[l]
    PROVE  Channel!LinkStep(l)
<1>1. Gone(l)' \in BOOLEAN
  BY DEF Gone
<1> QED BY <1>1 DEF Channel!LinkStep, Channel!Switch

LEMMA IsSwitch ==
    ASSUME NEW l \in Link, OnItsWay(l)' = OnItsWay(l),
           newest'[l] = newest[l], got'[l] = got[l]
    PROVE  Channel!LinkStep(l)
<1>1. Gone(l)' \in BOOLEAN
  BY DEF Gone
<1> QED BY <1>1 DEF Channel!LinkStep, Channel!Switch

\* Nothing of a link changes.
LinkSame(l) ==
    /\ queue'[l] = queue[l] /\ wire'[l] = wire[l] /\ writing'[l] = writing[l]
    /\ outbox'[l] = outbox[l] /\ connected'[l] = connected[l]
    /\ got'[l] = got[l] /\ newest'[l] = newest[l]

LEMMA LinkKept ==
    ASSUME NEW l \in Link, InARow(l), LinkSame(l)
    PROVE  InARow(l)' /\ Channel!LinkStep(l)
<1>1. InARow(l)'
  BY DEF InARow, LinkSame
<1>2. OnItsWay(l)' = OnItsWay(l)
  BY DEF OnItsWay, Unsent, LinkSame
<1> QED BY <1>1, <1>2, IsSwitch DEF LinkSame

\* handleMessage on the links ls, for a message that is newer than what is queued there.
LEMMA Handled ==
    ASSUME TypeOK, NEW ls \in SUBSET Link, NEW m \in Nat \ {0}, handleMessage(ls, m)
    PROVE  /\ SubscriptionTypeOK'
           /\ UNCHANGED <<got, subscribed, spinning>>
           /\ \A l \in Link : queue'[l] = IF l \in ls /\ subscribed[l] = "yes"
                                          THEN Pushed(queue[l], m, QueueSize) ELSE queue[l]
<1>1. /\ UNCHANGED <<got, subscribed, spinning>>
      /\ queue' = [l \in Link |-> IF l \in ls /\ subscribed[l] = "yes"
                                  THEN Pushed(queue[l], m, QueueSize) ELSE queue[l]]
  BY DEF handleMessage
<1>2. ASSUME NEW l \in Link
      PROVE  queue'[l] \in Seq(Nat \ {0}) /\ (QueueSize > 0 => Len(queue'[l]) <= QueueSize)
  <2>1. queue[l] \in Seq(Nat \ {0}) /\ (QueueSize > 0 => Len(queue[l]) <= QueueSize)
    BY DEF TypeOK, SubscriptionTypeOK
  <2>2. /\ Pushed(queue[l], m, QueueSize) \in Seq(Nat \ {0})
        /\ QueueSize > 0 => Len(Pushed(queue[l], m, QueueSize)) <= QueueSize
    BY <2>1, PushedTypes, SubscriptionAssumption
  <2> QED BY <1>1, <2>1, <2>2
<1>3. queue' \in [Link -> Seq(Nat \ {0})]
  BY <1>1, <1>2
<1>4. scheduled' \in [Link -> Nat]
  BY DEF handleMessage, Schedule, TypeOK, SubscriptionTypeOK
<1>5. /\ spinning' \in [Thread -> Doing]
      /\ got' \in [Link -> Nat]
      /\ subscribed' \in [Link -> {"yes", "removing", "cleared", "no"}]
  BY <1>1 DEF TypeOK, SubscriptionTypeOK
<1>6. \A l \in Link : QueueSize > 0 => Len(queue'[l]) <= QueueSize
  BY <1>2
<1>7. SubscriptionTypeOK'
  BY <1>3, <1>4, <1>5, <1>6 DEF SubscriptionTypeOK
<1>8. \A l \in Link : queue'[l] = IF l \in ls /\ subscribed[l] = "yes"
                                   THEN Pushed(queue[l], m, QueueSize) ELSE queue[l]
  BY <1>1
<1> QED BY <1>1, <1>7, <1>8

\* OrderInv holds again, and each link made a step of the channel.
Kept == OrderInv' /\ \A l \in Link : Channel!LinkStep(l)

\* The subscriber's steps leave all of OrderInv but its own types and the rows alone.
LEMMA SubscriberStep ==
    ASSUME OrderInv, UNCHANGED <<pvars, newest>>, SubscriptionTypeOK',
           \A l \in Link : queue[l] = << >> => queue'[l] = << >>,
           \A l \in Link : InARow(l)' /\ Channel!LinkStep(l)
    PROVE  Kept
<1>1. TypeOK'
  BY DEF OrderInv, TypeOK, PublicationTypeOK, pvars
<1>2. Ahead' /\ Uncopies' /\ Joining'
  BY DEF OrderInv, Ahead, Waiting, Uncopies, Joining, pvars
<1>3. Unjoined'
  BY DEF OrderInv, Unjoined, NothingSent, pvars, Remote
<1> QED BY <1>1, <1>2, <1>3 DEF OrderInv, Kept

\* A step that neither queues nor calls.
LEMMA SubscriberQuiet ==
    ASSUME OrderInv, UNCHANGED <<pvars, newest, queue, got>>, SubscriptionTypeOK'
    PROVE  Kept
<1>1. \A l \in Link : LinkSame(l)
  BY DEF LinkSame, pvars
<1>2. \A l \in Link : InARow(l)
  BY DEF OrderInv
<1>3. \A l \in Link : InARow(l)' /\ Channel!LinkStep(l)
  BY <1>1, <1>2, LinkKept
<1> QED BY <1>3, SubscriberStep

LEMMA DoingWhat == Idle \in Doing /\ \A l \in Link : At("taken", l) \in Doing /\ At("called", l) \in Doing
  BY DEF Doing

\* The types of the subscriber, part by part.
LEMMA SubscriptionTypes ==
    ASSUME queue' \in [Link -> Seq(Nat \ {0})], scheduled' \in [Link -> Nat],
           spinning' \in [Thread -> Doing], got' \in [Link -> Nat],
           subscribed' \in [Link -> {"yes", "removing", "cleared", "no"}],
           \A l \in Link : QueueSize > 0 => Len(queue'[l]) <= QueueSize
    PROVE  SubscriptionTypeOK'
  BY DEF SubscriptionTypeOK

LEMMA SubscriptionTyped ==
    ASSUME OrderInv
    PROVE  /\ queue \in [Link -> Seq(Nat \ {0})] /\ scheduled \in [Link -> Nat]
           /\ spinning \in [Thread -> Doing] /\ got \in [Link -> Nat]
           /\ subscribed \in [Link -> {"yes", "removing", "cleared", "no"}]
           /\ \A l \in Link : QueueSize > 0 => Len(queue[l]) <= QueueSize
  BY DEF OrderInv, TypeOK, SubscriptionTypeOK

LEMMA TakeEntryKeeps ==
    ASSUME OrderInv, UNCHANGED <<pvars, newest>>, NEW t \in Thread, NEW l \in Link, TakeEntry(t, l)
    PROVE  Kept
<1>1. scheduled' \in [Link -> Nat]
  BY SubscriptionTyped DEF TakeEntry
<1>2. spinning' \in [Thread -> Doing]
  BY SubscriptionTyped, DoingWhat DEF TakeEntry
<1>3. UNCHANGED <<queue, got, subscribed>>
  BY DEF TakeEntry
<1>4. SubscriptionTypeOK'
  BY <1>1, <1>2, <1>3, SubscriptionTyped, SubscriptionTypes
<1> QED BY <1>3, <1>4, SubscriberQuiet

LEMMA TryAgainKeeps ==
    ASSUME OrderInv, UNCHANGED <<pvars, newest>>, NEW t \in Thread, NEW l \in Link, TryAgain(t, l)
    PROVE  Kept
<1>1. scheduled' \in [Link -> Nat]
  BY SubscriptionTyped DEF TryAgain
<1>2. spinning' \in [Thread -> Doing]
  BY SubscriptionTyped, DoingWhat DEF TryAgain
<1>3. UNCHANGED <<queue, got, subscribed>>
  BY DEF TryAgain
<1>4. SubscriptionTypeOK'
  BY <1>1, <1>2, <1>3, SubscriptionTyped, SubscriptionTypes
<1> QED BY <1>3, <1>4, SubscriberQuiet

LEMMA EntryDoneKeeps ==
    ASSUME OrderInv, UNCHANGED <<pvars, newest>>, NEW t \in Thread, NEW l \in Link,
           Invalid(t, l) \/ Return(t, l)
    PROVE  Kept
<1>1. UNCHANGED <<queue, scheduled, got, subscribed>> /\ spinning' = [spinning EXCEPT ![t] = Idle]
  BY DEF Invalid, Return
<1>2. spinning' \in [Thread -> Doing]
  BY <1>1, SubscriptionTyped, DoingWhat
<1>3. SubscriptionTypeOK'
  BY <1>1, <1>2, SubscriptionTyped, SubscriptionTypes
<1> QED BY <1>1, <1>3, SubscriberQuiet

LEMMA RemovalKeeps ==
    ASSUME OrderInv, UNCHANGED <<pvars, newest>>, NEW l \in Link,
           RemoveCallback(l) \/ RemoveEntries(l)
    PROVE  Kept
<1>1. scheduled' \in [Link -> Nat] /\ subscribed' \in [Link -> {"yes", "removing", "cleared", "no"}]
  <2>1. CASE RemoveCallback(l)
    BY <2>1, SubscriptionTyped DEF RemoveCallback
  <2>2. CASE RemoveEntries(l)
    BY <2>2, SubscriptionTyped DEF RemoveEntries
  <2> QED BY <2>1, <2>2
<1>2. UNCHANGED <<queue, spinning, got>>
  BY DEF RemoveCallback, RemoveEntries
<1>3. SubscriptionTypeOK'
  BY <1>1, <1>2, SubscriptionTyped, SubscriptionTypes
<1> QED BY <1>2, <1>3, SubscriberQuiet

\* Clearing the queue of a callback that goes cuts the link.
LEMMA ClearQueueKeeps ==
    ASSUME OrderInv, UNCHANGED <<pvars, newest>>, NEW l \in Link, ClearQueue(l)
    PROVE  Kept
<1>1. SubscriptionTypeOK /\ \A k \in Link : InARow(k)
  BY DEF OrderInv, TypeOK
<1>2. /\ queue' = [queue EXCEPT ![l] = << >>] /\ subscribed' = [subscribed EXCEPT ![l] = "cleared"]
      /\ UNCHANGED <<scheduled, spinning, got>>
  BY DEF ClearQueue
<1>3. \A k \in Link : queue'[k] = IF k = l THEN << >> ELSE queue[k]
  BY <1>1, <1>2 DEF SubscriptionTypeOK
<1>4. SubscriptionTypeOK'
  <2>1. queue' \in [Link -> Seq(Nat \ {0})] /\ subscribed' \in [Link -> {"yes", "removing", "cleared", "no"}]
    BY <1>2, SubscriptionTyped
  <2>2. \A k \in Link : QueueSize > 0 => Len(queue'[k]) <= QueueSize
    BY <1>3, SubscriptionAssumption, SubscriptionTyped
  <2> QED BY <1>2, <2>1, <2>2, SubscriptionTyped, SubscriptionTypes
<1>5. ASSUME NEW k \in Link PROVE InARow(k)' /\ Channel!LinkStep(k)
  <2>1. UNCHANGED <<wire, writing, outbox, connected, got, newest>>
    BY <1>2 DEF pvars
  <2>2. CASE k = l
    <3>1. queue'[l] = << >> /\ subscribed'[l] = "cleared"
      BY <1>1, <1>2 DEF SubscriptionTypeOK
    <3>2. Row(queue[l], wire[l], writing[l], outbox[l], connected[l], got[l], newest[l])
      BY <1>1 DEF InARow
    <3>3. /\ Row(<< >>, wire[l], writing[l], outbox[l], connected[l], got[l], newest[l])
          /\ WayOf(<< >>, wire[l], writing[l], outbox[l], connected[l])
                \subseteq WayOf(queue[l], wire[l], writing[l], outbox[l], connected[l])
      BY <3>2, RowCut
    <3>4. InARow(l)'
      BY <2>1, <3>1, <3>3 DEF InARow
    <3>5. OnItsWay(l)' = WayOf(<< >>, wire[l], writing[l], outbox[l], connected[l])
      BY <2>1, <3>1 DEF OnItsWay, WayOf, Unsent, UnsentOf
    <3>6. OnItsWay(l)' \subseteq OnItsWay(l)
      BY <3>3, <3>5, WayOfLink
    <3>7. Gone(l)'
      BY <3>1 DEF Gone
    <3> QED BY <2>1, <2>2, <3>4, <3>6, <3>7, IsCut
  <2>3. CASE k # l
    <3>1. LinkSame(k)
      BY <1>3, <2>1, <2>3 DEF LinkSame
    <3> QED BY <1>1, <3>1, LinkKept
  <2> QED BY <2>2, <2>3
<1> QED BY <1>3, <1>4, <1>5, SubscriberStep

\* The oldest message of the queue is the oldest on its way: a delivery.
LEMMA CallOldestKeeps ==
    ASSUME OrderInv, UNCHANGED <<pvars, newest>>, NEW t \in Thread, NEW l \in Link, CallOldest(t, l)
    PROVE  Kept
<1>1. TypeOK /\ SubscriptionTypeOK /\ \A k \in Link : InARow(k)
  BY DEF OrderInv, TypeOK
<1>2. /\ queue[l] # << >> /\ UNCHANGED <<scheduled, subscribed>>
      /\ queue' = [queue EXCEPT ![l] = Tail(@)] /\ got' = [got EXCEPT ![l] = Head(queue[l])]
      /\ spinning' = [spinning EXCEPT ![t] = At("called", l)]
  BY DEF CallOldest
<1>3. \A k \in Link : /\ queue'[k] = IF k = l THEN Tail(queue[l]) ELSE queue[k]
                      /\ got'[k] = IF k = l THEN Head(queue[l]) ELSE got[k]
  BY <1>1, <1>2 DEF SubscriptionTypeOK
<1>4. queue[l] \in Seq(Nat \ {0}) /\ (QueueSize > 0 => Len(queue[l]) <= QueueSize)
  BY <1>1 DEF SubscriptionTypeOK
<1>5. /\ Tail(queue[l]) \in Seq(Nat \ {0}) /\ Head(queue[l]) \in Nat \ {0}
      /\ Len(Tail(queue[l])) = Len(queue[l]) - 1 /\ Len(queue[l]) \in Nat
  BY <1>2, <1>4, HeadTailProperties
<1>6. SubscriptionTypeOK'
  <2>1. queue' \in [Link -> Seq(Nat \ {0})] /\ got' \in [Link -> Nat]
    BY <1>2, <1>5, SubscriptionTyped
  <2>2. \A k \in Link : QueueSize > 0 => Len(queue'[k]) <= QueueSize
    <3> SUFFICES ASSUME NEW k \in Link, QueueSize > 0 PROVE Len(queue'[k]) <= QueueSize
      OBVIOUS
    <3>1. Len(queue[k]) <= QueueSize
      BY SubscriptionTyped
    <3>2. queue'[k] = IF k = l THEN Tail(queue[l]) ELSE queue[k]
      BY <1>3
    <3>3. k = l => Len(Tail(queue[l])) <= QueueSize
      BY <1>5, <3>1, SubscriptionAssumption
    <3> QED BY <3>1, <3>2, <3>3
  <2>3. spinning' \in [Thread -> Doing]
    BY <1>2, SubscriptionTyped, DoingWhat
  <2> QED BY <1>2, <2>1, <2>2, <2>3, SubscriptionTyped, SubscriptionTypes
<1>7. ASSUME NEW k \in Link PROVE InARow(k)' /\ Channel!LinkStep(k)
  <2>1. UNCHANGED <<wire, writing, outbox, connected, newest>>
    BY DEF pvars
  <2>2. CASE k = l
    <3>1. queue'[l] = Tail(queue[l]) /\ got'[l] = Head(queue[l])
      BY <1>3
    <3>2. Row(queue[l], wire[l], writing[l], outbox[l], connected[l], got[l], newest[l])
      BY <1>1 DEF InARow
    <3>3. RowTypes(queue[l], wire[l], writing[l], outbox[l], got[l], newest[l])
      BY <1>1, TypesOfRow
    <3>4. /\ Row(Tail(queue[l]), wire[l], writing[l], outbox[l], connected[l], Head(queue[l]), newest[l])
          /\ Head(queue[l]) \in OnItsWay(l)
          /\ \A m \in OnItsWay(l) : Head(queue[l]) <= m
          /\ WayOf(Tail(queue[l]), wire[l], writing[l], outbox[l], connected[l])
                = OnItsWay(l) \ {Head(queue[l])}
      BY <1>2, <3>2, <3>3, RowCalled, WayOfLink
    <3>5. InARow(l)'
      BY <2>1, <3>1, <3>4 DEF InARow
    <3>6. OnItsWay(l)' = WayOf(Tail(queue[l]), wire[l], writing[l], outbox[l], connected[l])
      BY <2>1, <3>1 DEF OnItsWay, WayOf, Unsent, UnsentOf
    <3>7. Gone(l)' = Gone(l)
      BY <1>2, <2>1 DEF Gone
    <3>8. Channel!LinkStep(l)
      BY <2>1, <3>1, <3>4, <3>6, <3>7, IsDeliver
    <3> QED BY <2>2, <3>5, <3>8
  <2>3. CASE k # l
    <3>1. LinkSame(k)
      BY <1>3, <2>1, <2>3 DEF LinkSame
    <3> QED BY <1>1, <3>1, LinkKept
  <2> QED BY <2>2, <2>3
<1>8. \A k \in Link : queue[k] = << >> => queue'[k] = << >>
  BY <1>2, <1>3
<1> QED BY <1>6, <1>7, <1>8, SubscriberStep

LEMMA SubscriptionKeeps ==
    ASSUME OrderInv, SubscriptionOnly
    PROVE  Kept
<1>1. UNCHANGED <<pvars, newest>>
  BY DEF SubscriptionOnly
<1>2. ASSUME NEW t \in Thread, Spin(t) PROVE Kept
  BY <1>1, <1>2, TakeEntryKeeps, TryAgainKeeps, EntryDoneKeeps, CallOldestKeeps DEF Spin
<1>3. ASSUME NEW l \in Link, removeCallback(l) PROVE Kept
  BY <1>1, <1>3, RemovalKeeps, ClearQueueKeeps DEF removeCallback
<1> QED BY <1>2, <1>3 DEF SubscriptionOnly

-----------------------------------------------------------------------------
(* The publisher's steps. *)

LEMMA PublicationTyped ==
    ASSUME OrderInv
    PROVE  /\ options \in [latch : BOOLEAN, uncopied : BOOLEAN, bound : 0..MaxPublished]
           /\ published \in 0..MaxPublished /\ typed \subseteq 1..published
           /\ publishQueue \in Seq(Message) /\ batch \in Seq(Message)
           /\ links \subseteq Link /\ leaving \subseteq Link
           /\ lastMessage \in 0..published /\ dropped \in BOOLEAN /\ swapped \in BOOLEAN
           /\ joining \in [Link -> {"absent", "validated", "listed", "joined", "refused"}]
           /\ outbox \in [Link -> Seq(Message)]
           /\ headerWritten \in [Link -> BOOLEAN] /\ connected \in [Link -> BOOLEAN]
           /\ writing \in [Link -> 0..MaxPublished] /\ wire \in [Link -> Seq(Message)]
           /\ \A l \in Link : /\ MaxQueue > 0 => Len(outbox[l]) <= MaxQueue
                              /\ Len(wire[l]) <= SocketRoom
           /\ newest \in [Link -> 0..published]
           /\ MaxQueue \in Nat /\ MaxPublished \in Nat /\ SocketRoom \in Nat \ {0}
           /\ Local \subseteq Link /\ Remote = Link \ Local
  BY PublicationAssumption, LocalAssumption DEF OrderInv, TypeOK, PublicationTypeOK, Remote

\* The types that a step without a new message can disturb.
LEMMA PublicationTypes ==
    ASSUME OrderInv, UNCHANGED <<options, published, typed, lastMessage, newest, svars>>,
           publishQueue' \in Seq(Message), batch' \in Seq(Message),
           links' \subseteq Link, leaving' \subseteq Link,
           dropped' \in BOOLEAN, swapped' \in BOOLEAN,
           joining' \in [Link -> {"absent", "validated", "listed", "joined", "refused"}],
           outbox' \in [Link -> Seq(Message)],
           headerWritten' \in [Link -> BOOLEAN], connected' \in [Link -> BOOLEAN],
           writing' \in [Link -> 0..MaxPublished], wire' \in [Link -> Seq(Message)],
           \A l \in Link : /\ MaxQueue > 0 => Len(outbox'[l]) <= MaxQueue
                           /\ Len(wire'[l]) <= SocketRoom
    PROVE  TypeOK'
<1>1. SubscriptionTypeOK'
  BY DEF OrderInv, TypeOK, SubscriptionTypeOK, svars
<1>2. PublicationTypeOK' /\ newest' \in [Link -> 0..published']
  BY PublicationTyped DEF PublicationTypeOK
<1> QED BY <1>1, <1>2 DEF TypeOK

LEMMA LinksSame ==
    ASSUME OrderInv, UNCHANGED <<linkVars, svars, newest>>
    PROVE  \A l \in Link : InARow(l)' /\ Channel!LinkStep(l)
<1>1. \A l \in Link : LinkSame(l) /\ InARow(l)
  BY DEF OrderInv, LinkSame, linkVars, svars
<1> QED BY <1>1, LinkKept

LEMMA WaitingTyped ==
    ASSUME OrderInv
    PROVE  \A m \in Waiting : m \in Message /\ m \in Nat \ {0}
  BY ElementsOf, MessagesAreNumbers, PublicationTyped DEF Waiting

LEMMA TakeBatchKeeps ==
    ASSUME OrderInv, TakeBatch, UNCHANGED <<svars, newest>>
    PROVE  Kept
<1>1. /\ batch = << >> /\ ~dropped /\ batch' = publishQueue /\ publishQueue' = << >>
      /\ \A l \in Remote : joining[l] \notin {"validated", "listed"}
      /\ UNCHANGED <<options, published, typed, links, lastMessage, dropped, swapped, leaving, joining>>
      /\ UNCHANGED linkVars
  BY DEF TakeBatch, PollThreadFree
<1>2. TypeOK'
  BY <1>1, PublicationTyped, PublicationTypes DEF linkVars
<1>3. ToSet(<< >>) = {} /\ Increasing(<< >>)
  BY DEF ToSet, Increasing
<1>4. Ahead'
  <2>1. Ahead
    BY DEF OrderInv
  <2>2. Waiting' = Waiting
    BY <1>1, <1>3 DEF Waiting
  <2>3. Before(ToSet(batch'), ToSet(publishQueue'))
    BY <1>1, <1>3 DEF Before
  <2>4. Increasing(batch') /\ Increasing(publishQueue')
    BY <1>1, <1>3, <2>1 DEF Ahead
  <2> QED BY <1>1, <2>1, <2>2, <2>3, <2>4 DEF Ahead
<1>5. Uncopies'
  <2>1. Waiting' = Waiting
    BY <1>1, <1>3 DEF Waiting
  <2> QED BY <1>1, <2>1 DEF OrderInv, Uncopies
<1>6. Joining'
  BY <1>1 DEF OrderInv, Joining, linkVars
<1>7. Unjoined'
  BY <1>1 DEF OrderInv, Unjoined, NothingSent, linkVars, svars
<1> QED BY <1>1, <1>2, <1>4, <1>5, <1>6, <1>7, LinksSame DEF OrderInv, Kept

LEMMA DropKeeps ==
    ASSUME OrderInv, Drop \/ SwapLinks, UNCHANGED <<svars, newest>>
    PROVE  Kept
<1>1. /\ UNCHANGED <<joining, options, published, typed, publishQueue, batch, lastMessage>>
      /\ UNCHANGED linkVars
      /\ batch = << >>
      /\ dropped' = TRUE
      /\ \/ UNCHANGED <<links, swapped, leaving>>
         \/ swapped' = TRUE /\ leaving' = links /\ links' = {}
  BY DEF Drop, SwapLinks, publisherVars, TopicsUnlocked, OrderInv, Joining
<1>2. TypeOK'
  BY <1>1, PublicationTyped, PublicationTypes DEF linkVars
<1>3. links' \subseteq links
  BY <1>1
<1>4. Waiting' = Waiting
  BY <1>1 DEF Waiting
<1>5. Ahead'
  BY <1>1, <1>3, <1>4 DEF OrderInv, Ahead
<1>6. Uncopies'
  BY <1>1, <1>3, <1>4 DEF OrderInv, Uncopies
<1>7. Joining'
  <2>1. Joining
    BY DEF OrderInv
  <2>2. swapped' => dropped' /\ links' = {}
    <3>1. CASE UNCHANGED <<links, swapped, leaving>>
      BY <1>1, <2>1, <3>1 DEF Joining
    <3>2. CASE swapped' = TRUE /\ leaving' = links /\ links' = {}
      BY <1>1, <3>2
    <3> QED BY <1>1, <3>1, <3>2
  <2>3. ~swapped' => leaving' = {}
    BY <1>1, <2>1 DEF Joining
  <2>4. \A l \in leaving' : joining'[l] \in {"listed", "joined"}
    BY <1>1, <2>1 DEF Joining
  <2>5. \A l \in links' : /\ joining'[l] \in {"listed", "joined"}
                          /\ ~dropped' \/ joining'[l] = "listed" => connected'[l]
    BY <1>1, <1>3, <2>1 DEF Joining, linkVars
  <2> QED BY <1>1, <2>1, <2>2, <2>3, <2>4, <2>5 DEF Joining, linkVars
<1>8. Unjoined'
  BY <1>1 DEF OrderInv, Unjoined, NothingSent, linkVars, svars
<1> QED BY <1>1, <1>2, <1>5, <1>6, <1>7, <1>8, LinksSame DEF OrderInv, Kept

LEMMA ListLinkKeeps ==
    ASSUME OrderInv, NEW l \in Link, ListLink(l), UNCHANGED <<svars, newest>>
    PROVE  Kept
<1>1. /\ joining[l] = "validated"
      /\ UNCHANGED <<options, published, typed, publishQueue, batch, lastMessage, dropped, swapped, leaving>>
      /\ UNCHANGED linkVars
      /\ \/ ~dropped /\ links' = links \cup {l} /\ joining' = [joining EXCEPT ![l] = "listed"]
         \/ links' = links /\ joining' = [joining EXCEPT ![l] = "refused"]
  BY DEF ListLink, MayBeListed, publisherVars
<1>2. Ahead /\ Uncopies /\ Joining /\ Unjoined
  BY DEF OrderInv
<1>3. l \in Remote
  BY <1>1, <1>2, PublicationTyped DEF Joining
<1>4. newest[l] = 0 /\ batch = << >>
  BY <1>1, <1>2, <1>3 DEF Joining, Unjoined
<1>5. Waiting' = Waiting
  BY <1>1 DEF Waiting
<1>6. TypeOK'
  BY <1>1, PublicationTyped, PublicationTypes, ZenonT(60) DEF linkVars
<1>7. Ahead'
  <2>1. \A k \in links' \cap Remote, m \in Waiting : newest[k] < m
    <3> SUFFICES ASSUME NEW k \in links' \cap Remote, NEW m \in Waiting PROVE newest[k] < m
      OBVIOUS
    <3>1. m \in Nat \ {0}
      BY WaitingTyped
    <3> QED BY <1>1, <1>2, <1>4, <3>1 DEF Ahead
  <2> QED BY <1>1, <1>2, <1>5, <2>1 DEF Ahead
<1>8. Uncopies'
  BY <1>1, <1>2, <1>3, <1>5, PublicationTyped DEF Uncopies
<1>9. Joining'
  <2>1. \A k \in Link : joining'[k] = IF k = l THEN joining'[l] ELSE joining[k]
    BY <1>1, PublicationTyped
  <2>2. joining'[l] = "refused" \/ (joining'[l] = "listed" /\ ~dropped)
    BY <1>1, PublicationTyped
  <2>3. connected[l]
    BY <1>1, <1>2 DEF Joining
  <2>4. links' = links \/ (links' = links \cup {l} /\ joining'[l] = "listed" /\ ~dropped)
    BY <1>1, PublicationTyped
  <2>5. l \notin links /\ l \notin leaving
    BY <1>1, <1>2 DEF Joining
  <2>6. UNCHANGED <<batch, dropped, swapped, leaving, connected>> /\ batch = << >>
    BY <1>1, <1>4 DEF linkVars
  <2>7. \A k \in links' : /\ joining'[k] \in {"listed", "joined"}
                          /\ ~dropped' \/ joining'[k] = "listed" => connected'[k]
    BY <1>2, <2>1, <2>2, <2>3, <2>4, <2>5, <2>6, PublicationTyped DEF Joining
  <2>8. swapped' => dropped' /\ links' = {}
    BY <1>2, <2>4, <2>6 DEF Joining
  <2>9. \A k \in leaving' : joining'[k] \in {"listed", "joined"}
    BY <1>2, <2>1, <2>5, <2>6, PublicationTyped DEF Joining
  <2>10. /\ \A k \in Local : joining'[k] \in {"joined", "refused"}
         /\ \A k \in Link : joining'[k] = "absent" => ~connected'[k]
         /\ \A k \in Link : joining'[k] = "validated" => connected'[k]
    BY <1>2, <1>3, <2>1, <2>2, <2>6, PublicationTyped, ZenonT(60) DEF Joining
  <2> QED BY <1>2, <2>6, <2>7, <2>8, <2>9, <2>10 DEF Joining
<1>10. Unjoined'
  <2>1. \A k \in Remote : joining'[k] # "joined" => joining[k] # "joined"
    BY <1>1, PublicationTyped
  <2> QED BY <1>1, <1>2, <2>1 DEF Unjoined, NothingSent, linkVars, svars
<1> QED BY <1>1, <1>6, <1>7, <1>8, <1>9, <1>10, LinksSame DEF OrderInv, Kept

\* A step that only takes from the list of links leaves the order of what waits alone.
LEMMA NothingHandedOut ==
    ASSUME OrderInv, links' \subseteq links,
           UNCHANGED <<options, published, typed, publishQueue, batch, lastMessage, newest>>
    PROVE  Ahead' /\ Uncopies'
<1>1. Waiting' = Waiting
  BY DEF Waiting
<1> QED BY <1>1 DEF OrderInv, Ahead, Uncopies

\* A link's row from the values its variables take.
LEMMA RowBecomes ==
    ASSUME NEW l \in Link
    PROVE  /\ InARow(l)' <=> Row(queue'[l], wire'[l], writing'[l], outbox'[l], connected'[l],
                                 got'[l], newest'[l])
           /\ OnItsWay(l)' = WayOf(queue'[l], wire'[l], writing'[l], outbox'[l], connected'[l])
  BY DEF InARow, OnItsWay, WayOf, Unsent, UnsentOf

LEMMA AcceptHeaderKeeps ==
    ASSUME OrderInv, NEW l \in Link, AcceptHeader(l), UNCHANGED <<svars, newest>>
    PROVE  Kept
<1>1. /\ joining[l] = "absent" /\ joining' = [joining EXCEPT ![l] = "validated"]
      /\ connected' = [connected EXCEPT ![l] = TRUE] /\ (l \in Remote => batch = << >>)
      /\ UNCHANGED <<links, dropped, swapped, leaving, outbox, headerWritten, writing, wire>>
      /\ UNCHANGED <<options, published, typed, publishQueue, batch, lastMessage>>
  BY DEF AcceptHeader, PollThreadFree, publisherVars
<1>2. Joining /\ Unjoined
  BY DEF OrderInv
<1>3. l \in Remote
  BY <1>1, <1>2, PublicationTyped DEF Joining
<1>4. TypeOK'
  BY <1>1, PublicationTyped, PublicationTypes
<1>5. Ahead' /\ Uncopies'
  BY <1>1, NothingHandedOut
<1>6. \A k \in Link : /\ joining'[k] = IF k = l THEN "validated" ELSE joining[k]
                      /\ connected'[k] = IF k = l THEN TRUE ELSE connected[k]
  BY <1>1, PublicationTyped
<1>7. Joining'
  <2>1. l \notin links /\ l \notin leaving
    BY <1>1, <1>2 DEF Joining
  <2>2. batch = << >>
    BY <1>1, <1>3
  <2>3. /\ \A k \in Local : joining'[k] \in {"joined", "refused"}
        /\ \A k \in leaving : joining'[k] \in {"listed", "joined"}
    BY <1>2, <1>3, <1>6, <2>1, PublicationTyped DEF Joining
  <2>4. \A k \in links : /\ joining'[k] \in {"listed", "joined"}
                         /\ ~dropped \/ joining'[k] = "listed" => connected'[k]
    BY <1>2, <1>6, <2>1, PublicationTyped DEF Joining
  <2>5. \A k \in Link : /\ joining'[k] = "validated" => connected'[k]
                        /\ joining'[k] = "absent" => ~connected'[k]
    BY <1>2, <1>6 DEF Joining
  <2> QED BY <1>1, <1>2, <2>2, <2>3, <2>4, <2>5 DEF Joining
<1>8. Unjoined'
  <2>1. \A k \in Remote : joining'[k] # "joined" => joining[k] # "joined"
    BY <1>1, <1>6, PublicationTyped
  <2> QED BY <1>1, <1>2, <2>1 DEF Unjoined, NothingSent, svars
<1>9. ASSUME NEW k \in Link PROVE InARow(k)' /\ Channel!LinkStep(k)
  <2>1. CASE k = l
    <3>1. queue[l] = << >> /\ wire[l] = << >> /\ writing[l] = 0 /\ outbox[l] = << >> /\ newest[l] = 0
      BY <1>1, <1>2, <1>3 DEF Unjoined, NothingSent
    <3>2. ToSet(<< >>) = {} /\ Increasing(<< >>)
      BY DEF ToSet, Increasing
    <3>3. Row(<< >>, << >>, 0, << >>, connected[l], got[l], newest[l])
      BY <3>1 DEF OrderInv, InARow
    <3>4. UnsentOf(0, << >>, TRUE) = {} /\ UnsentOf(0, << >>, connected[l]) = {}
      BY <3>2 DEF UnsentOf
    <3>5. /\ Row(<< >>, << >>, 0, << >>, TRUE, got[l], newest[l])
          /\ WayOf(<< >>, << >>, 0, << >>, TRUE) = WayOf(<< >>, << >>, 0, << >>, connected[l])
      BY <3>2, <3>3, <3>4 DEF Row, WayOf
    <3>6. /\ queue'[l] = << >> /\ wire'[l] = << >> /\ writing'[l] = 0 /\ outbox'[l] = << >>
          /\ connected'[l] = TRUE /\ got'[l] = got[l] /\ newest'[l] = newest[l]
      BY <1>1, <1>6, <3>1 DEF svars
    <3>7. InARow(l)' /\ OnItsWay(l)' = WayOf(<< >>, << >>, 0, << >>, TRUE)
      BY <3>5, <3>6, RowBecomes
    <3>8. OnItsWay(l) = WayOf(<< >>, << >>, 0, << >>, connected[l])
      BY <3>1, WayOfLink
    <3> QED BY <2>1, <3>5, <3>6, <3>7, <3>8, IsSwitch
  <2>2. CASE k # l
    <3>1. LinkSame(k) /\ InARow(k)
      BY <1>1, <1>6, <2>2 DEF OrderInv, LinkSame, svars
    <3> QED BY <3>1, LinkKept
  <2> QED BY <2>1, <2>2
<1> QED BY <1>4, <1>5, <1>7, <1>8, <1>9 DEF OrderInv, Kept

\* A connection is closed.  What it leaves on the wire may be read or not.
LEMMA LinkClosed ==
    ASSUME OrderInv, NEW l \in Link, UNCHANGED <<svars, newest, outbox, writing>>,
           connected' = [connected EXCEPT ![l] = FALSE],
           wire' = wire \/ wire' = [wire EXCEPT ![l] = << >>]
    PROVE  \A k \in Link : InARow(k)' /\ Channel!LinkStep(k)
<1> SUFFICES ASSUME NEW k \in Link PROVE InARow(k)' /\ Channel!LinkStep(k)
  OBVIOUS
<1>1. /\ connected'[k] = IF k = l THEN FALSE ELSE connected[k]
      /\ k # l => wire'[k] = wire[k]
      /\ wire'[l] = wire[l] \/ wire'[l] = << >>
  BY PublicationTyped
<1>2. CASE k = l
  <2>1. Row(queue[l], wire[l], writing[l], outbox[l], connected[l], got[l], newest[l])
    BY DEF OrderInv, InARow
  <2>2. /\ Row(queue[l], wire'[l], writing[l], outbox[l], FALSE, got[l], newest[l])
        /\ WayOf(queue[l], wire'[l], writing[l], outbox[l], FALSE)
              \subseteq WayOf(queue[l], wire[l], writing[l], outbox[l], connected[l])
    <3>1. CASE wire'[l] = wire[l]
      BY <2>1, <3>1, RowCut
    <3>2. CASE wire'[l] = << >>
      <4>1. /\ Row(queue[l], << >>, writing[l], outbox[l], FALSE, got[l], newest[l])
            /\ WayOf(queue[l], << >>, writing[l], outbox[l], FALSE)
                  \subseteq WayOf(queue[l], wire[l], writing[l], outbox[l], connected[l])
        BY <2>1, RowCut
      <4> QED BY <3>2, <4>1
    <3> QED BY <1>1, <3>1, <3>2
  <2>3. UNCHANGED <<queue, got, newest, writing, outbox>> /\ connected'[l] = FALSE
    BY <1>1, <1>2 DEF svars
  <2>4. /\ InARow(l)'
        /\ OnItsWay(l)' = WayOf(queue[l], wire'[l], writing[l], outbox[l], FALSE)
    BY <2>2, <2>3, RowBecomes
  <2>5. Gone(l)'
    BY <2>3 DEF Gone
  <2> QED BY <1>2, <2>2, <2>3, <2>4, <2>5, WayOfLink, IsCut
<1>3. CASE k # l
  <2>1. LinkSame(k) /\ InARow(k)
    BY <1>1, <1>3 DEF OrderInv, LinkSame, svars
  <2> QED BY <2>1, LinkKept
<1> QED BY <1>2, <1>3

LEMMA ConnectionLostKeeps ==
    ASSUME OrderInv, NEW l \in Link, ConnectionLost(l), UNCHANGED <<svars, newest>>
    PROVE  Kept
<1>1. /\ batch = << >> /\ \A k \in Remote : joining[k] \notin {"validated", "listed"}
      /\ l \in Remote /\ connected[l] /\ connected' = [connected EXCEPT ![l] = FALSE]
      /\ wire' = [wire EXCEPT ![l] = << >>]
      /\ links' = IF dropped THEN links ELSE links \ {l}
      /\ UNCHANGED <<dropped, swapped, leaving, joining, outbox, headerWritten, writing>>
      /\ UNCHANGED <<options, published, typed, publishQueue, batch, lastMessage>>
  BY DEF ConnectionLost, PollThreadFree, publisherVars
<1>2. Joining /\ Unjoined
  BY DEF OrderInv
<1>3. \A k \in Link : /\ connected'[k] = IF k = l THEN FALSE ELSE connected[k]
                      /\ wire'[k] = IF k = l THEN << >> ELSE wire[k]
  BY <1>1, PublicationTyped
<1>4. TypeOK'
  <2>1. links' \subseteq Link
    BY <1>1, PublicationTyped
  <2>2. wire' \in [Link -> Seq(Message)] /\ connected' \in [Link -> BOOLEAN]
    BY <1>1, PublicationTyped
  <2>3. \A k \in Link : Len(wire'[k]) <= SocketRoom
    <3>1. Len(<< >>) = 0
      OBVIOUS
    <3>2. SocketRoom \in Nat /\ 0 <= SocketRoom
      BY PublicationTyped
    <3>3. ASSUME NEW k \in Link PROVE Len(wire'[k]) <= SocketRoom
      <4>1. CASE k = l
        BY <1>3, <3>1, <3>2, <4>1
      <4>2. CASE k # l
        BY <1>3, <4>2, PublicationTyped
      <4> QED BY <4>1, <4>2
    <3> QED BY <3>3
  <2> QED BY <1>1, <2>1, <2>2, <2>3, PublicationTyped, PublicationTypes
<1>5. Ahead' /\ Uncopies'
  BY <1>1, NothingHandedOut
<1>6. Joining'
  <2>1. \A k \in links' : /\ joining[k] \in {"listed", "joined"}
                          /\ ~dropped \/ joining[k] = "listed" => connected'[k]
    BY <1>1, <1>2, <1>3 DEF Joining
  <2>2. swapped => dropped /\ links' = {}
    BY <1>1, <1>2 DEF Joining
  <2>3. \A k \in Link : /\ joining[k] = "validated" => connected'[k]
                        /\ joining[k] = "absent" => ~connected'[k]
    BY <1>1, <1>2, <1>3 DEF Joining
  <2> QED BY <1>1, <1>2, <2>1, <2>2, <2>3 DEF Joining
<1>7. Unjoined'
  BY <1>1, <1>2, <1>3, PublicationTyped DEF Unjoined, NothingSent, svars
<1> QED BY <1>1, <1>4, <1>5, <1>6, <1>7, LinkClosed DEF OrderInv, Kept

LEMMA DropLinkKeeps ==
    ASSUME OrderInv, NEW l \in Link, DropLink(l), UNCHANGED <<svars, newest>>
    PROVE  Kept
<1>1. /\ l \in leaving /\ leaving' = leaving \ {l}
      /\ connected' = [connected EXCEPT ![l] = FALSE]
      /\ UNCHANGED <<links, dropped, swapped, joining, outbox, headerWritten, writing, wire>>
      /\ UNCHANGED <<options, published, typed, publishQueue, batch, lastMessage>>
  BY DEF DropLink, publisherVars
<1>2. Joining /\ Unjoined
  BY DEF OrderInv
<1>3. \A k \in Link : connected'[k] = IF k = l THEN FALSE ELSE connected[k]
  BY <1>1, PublicationTyped
<1>4. TypeOK'
  BY <1>1, PublicationTyped, PublicationTypes
<1>5. Ahead' /\ Uncopies'
  BY <1>1, NothingHandedOut
<1>6. Joining'
  <2>1. links = {} /\ joining[l] \in {"listed", "joined"}
    BY <1>1, <1>2 DEF Joining
  <2>2. \A k \in Link : /\ joining[k] = "validated" => connected'[k]
                        /\ joining[k] = "absent" => ~connected'[k]
    BY <1>1, <1>2, <1>3, <2>1 DEF Joining
  <2>3. /\ ~swapped => leaving' = {}
        /\ \A k \in leaving' : joining[k] \in {"listed", "joined"}
    BY <1>1, <1>2 DEF Joining
  <2> QED BY <1>1, <1>2, <2>1, <2>2, <2>3 DEF Joining
<1>7. Unjoined'
  BY <1>1, <1>2 DEF Unjoined, NothingSent, svars
<1> QED BY <1>1, <1>4, <1>5, <1>6, <1>7, LinkClosed DEF OrderInv, Kept

\* A message of a link moves on towards the socket: from its outbox to the write in
\* progress, from there to the wire.
LEMMA LinkWrites ==
    ASSUME OrderInv, NEW l \in Link, l \in Remote, UNCHANGED <<svars, newest>>,
           UNCHANGED <<links, dropped, swapped, leaving, joining, connected>>,
           UNCHANGED <<options, published, typed, publishQueue, batch, lastMessage>>,
           headerWritten' \in [Link -> BOOLEAN], joining[l] = "joined",
           Len(wire'[l]) <= SocketRoom, Len(outbox'[l]) <= Len(outbox[l]),
           \A k \in Link : k # l => /\ wire'[k] = wire[k] /\ writing'[k] = writing[k]
                                    /\ outbox'[k] = outbox[k],
           wire' \in [Link -> Seq(Message)], writing' \in [Link -> 0 .. MaxPublished],
           outbox' \in [Link -> Seq(Message)],
           Row(queue[l], wire'[l], writing'[l], outbox'[l], connected[l], got[l], newest[l]),
           WayOf(queue[l], wire'[l], writing'[l], outbox'[l], connected[l]) = OnItsWay(l)
    PROVE  Kept
<1>1. \A k \in Link : MaxQueue > 0 => Len(outbox'[k]) <= MaxQueue
  <2> SUFFICES ASSUME NEW k \in Link, MaxQueue > 0 PROVE Len(outbox'[k]) <= MaxQueue
    OBVIOUS
  <2>1. /\ Len(outbox[k]) <= MaxQueue /\ outbox[k] \in Seq(Message) /\ MaxQueue \in Nat
        /\ outbox'[k] \in Seq(Message)
    BY PublicationTyped
  <2>2. Len(outbox'[k]) \in Nat /\ Len(outbox[k]) \in Nat
    BY <2>1
  <2>3. Len(outbox'[k]) <= Len(outbox[k])
    <3>1. CASE k = l
      BY <3>1
    <3>2. CASE k # l
      BY <2>2, <3>2
    <3> QED BY <3>1, <3>2
  <2> QED BY <2>1, <2>2, <2>3
<1>2. \A k \in Link : Len(wire'[k]) <= SocketRoom
  BY PublicationTyped
<1>3. TypeOK'
  BY <1>1, <1>2, PublicationTyped, PublicationTypes
<1>4. Ahead' /\ Uncopies'
  BY NothingHandedOut
<1>5. Joining'
  BY DEF OrderInv, Joining
<1>6. Unjoined'
  <2>1. \A k \in Link : k # l /\ NothingSent(k) => NothingSent(k)'
    BY DEF NothingSent
  <2>2. l \notin Local
    BY PublicationTyped
  <2> QED BY <2>1, <2>2, PublicationTyped DEF OrderInv, Unjoined, svars
<1>7. ASSUME NEW k \in Link PROVE InARow(k)' /\ Channel!LinkStep(k)
  <2>1. CASE k = l
    <3>1. /\ queue'[l] = queue[l] /\ connected'[l] = connected[l]
          /\ got'[l] = got[l] /\ newest'[l] = newest[l]
      BY DEF svars
    <3>2. InARow(l)' /\ OnItsWay(l)' = OnItsWay(l)
      BY <3>1, RowBecomes
    <3> QED BY <2>1, <3>1, <3>2, IsSwitch
  <2>2. CASE k # l
    <3>1. LinkSame(k) /\ InARow(k)
      BY <2>2 DEF OrderInv, LinkSame, svars
    <3> QED BY <3>1, LinkKept
  <2> QED BY <2>1, <2>2
<1> QED BY <1>3, <1>4, <1>5, <1>6, <1>7 DEF OrderInv, Kept

LEMMA WriteHeaderKeeps ==
    ASSUME OrderInv, NEW l \in Link, WriteHeader(l), UNCHANGED <<svars, newest>>
    PROVE  Kept
<1> DEFINE starts == MayStart(l) /\ outbox[l] # << >>
<1>1. /\ l \in Remote /\ connected[l] /\ joining[l] # "absent"
      /\ \A k \in Remote : joining[k] \notin {"validated", "listed"}
      /\ headerWritten' = [headerWritten EXCEPT ![l] = TRUE]
      /\ UNCHANGED <<links, dropped, swapped, leaving, joining, wire, connected>>
      /\ UNCHANGED <<options, published, typed, publishQueue, batch, lastMessage>>
      /\ writing' = [k \in Link |-> IF k \in {j \in {l} : MayStart(j) /\ outbox[j] # << >>}
                                    THEN Head(outbox[k]) ELSE writing[k]]
      /\ outbox' = [k \in Link |-> IF k \in {j \in {l} : MayStart(j) /\ outbox[j] # << >>}
                                   THEN Tail(outbox[k]) ELSE outbox[k]]
  BY DEF WriteHeader, PollThreadFree, publisherVars, startMessageWrite
<1>2. headerWritten' \in [Link -> BOOLEAN]
  BY <1>1, PublicationTyped
<1>3. \A k \in Link : /\ writing'[k] = IF k = l /\ starts THEN Head(outbox[l]) ELSE writing[k]
                      /\ outbox'[k] = IF k = l /\ starts THEN Tail(outbox[l]) ELSE outbox[k]
  BY <1>1
<1>4. /\ wire[l] \in Seq(Message) /\ outbox[l] \in Seq(Message) /\ writing[l] \in 0 .. MaxPublished
      /\ Len(wire[l]) <= SocketRoom /\ Len(outbox[l]) \in Nat /\ TypeOK
  BY PublicationTyped DEF OrderInv
<1>5. Row(queue[l], wire[l], writing[l], outbox[l], connected[l], got[l], newest[l])
  BY DEF OrderInv, InARow
<1>6. CASE starts
  <2>1. writing[l] = 0 /\ outbox[l] # << >>
    BY <1>6 DEF MayStart
  <2>2. joining[l] = "joined"
    BY <1>1, <2>1 DEF OrderInv, Unjoined, NothingSent
  <2>3. /\ Head(outbox[l]) \in Message /\ Tail(outbox[l]) \in Seq(Message)
        /\ Len(Tail(outbox[l])) <= Len(outbox[l]) /\ Head(outbox[l]) \in 0 .. MaxPublished
    <3>1. /\ Head(outbox[l]) \in Message /\ Tail(outbox[l]) \in Seq(Message)
          /\ Len(Tail(outbox[l])) = Len(outbox[l]) - 1
      BY <1>4, <2>1, HeadTailProperties
    <3> QED BY <1>4, <3>1, PublicationAssumption DEF Message
  <2>4. /\ Row(queue[l], wire[l], Head(outbox[l]), Tail(outbox[l]), connected[l], got[l], newest[l])
        /\ WayOf(queue[l], wire[l], Head(outbox[l]), Tail(outbox[l]), connected[l]) = OnItsWay(l)
    <3>1. connected[l] = TRUE
      BY <1>1, PublicationTyped
    <3>2. RowTypes(queue[l], wire[l], 0, outbox[l], got[l], newest[l])
      BY <1>4, <2>1, TypesOfRow
    <3>3. Row(queue[l], wire[l], 0, outbox[l], TRUE, got[l], newest[l])
      BY <1>5, <2>1, <3>1
    <3>4. OnItsWay(l) = WayOf(queue[l], wire[l], 0, outbox[l], TRUE)
      BY <2>1, <3>1, WayOfLink
    <3> QED BY <2>1, <3>1, <3>2, <3>3, <3>4, RowStarted
  <2>5. /\ writing' \in [Link -> 0 .. MaxPublished] /\ outbox' \in [Link -> Seq(Message)]
        /\ wire' \in [Link -> Seq(Message)]
    BY <1>1, <2>3, PublicationTyped
  <2>6. /\ wire'[l] = wire[l] /\ writing'[l] = Head(outbox[l]) /\ outbox'[l] = Tail(outbox[l])
        /\ \A k \in Link : k # l => /\ wire'[k] = wire[k] /\ writing'[k] = writing[k]
                                     /\ outbox'[k] = outbox[k]
    BY <1>1, <1>3, <1>6
  <2> HIDE DEF starts
  <2> QED BY <1>1, <1>2, <1>4, <2>2, <2>3, <2>4, <2>5, <2>6, LinkWrites, ZenonT(60)
<1>7. CASE ~starts
  <2>1. \A k \in Link : writing'[k] = writing[k] /\ outbox'[k] = outbox[k]
    BY <1>3, <1>7
  <2>2. writing' = writing /\ outbox' = outbox
    BY <1>1, <2>1, PublicationTyped
  <2>3. TypeOK'
    BY <1>1, <1>2, <2>2, PublicationTyped, PublicationTypes
  <2>4. Ahead' /\ Uncopies'
    BY <1>1, NothingHandedOut
  <2>5. Joining' /\ Unjoined'
    BY <1>1, <2>2 DEF OrderInv, Joining, Unjoined, NothingSent, svars
  <2>6. \A k \in Link : LinkSame(k) /\ InARow(k)
    BY <1>1, <2>2 DEF OrderInv, LinkSame, svars
  <2> QED BY <2>3, <2>4, <2>5, <2>6, LinkKept DEF OrderInv, Kept
<1> QED BY <1>6, <1>7

LEMMA WriteMessageKeeps ==
    ASSUME OrderInv, NEW l \in Link, WriteMessage(l), UNCHANGED <<svars, newest>>
    PROVE  Kept
<1> DEFINE w == Append(wire[l], writing[l])
           x == IF outbox[l] # << >> THEN Head(outbox[l]) ELSE 0
           o == IF outbox[l] # << >> THEN Tail(outbox[l]) ELSE outbox[l]
<1>1. /\ l \in Remote /\ connected[l] /\ writing[l] # 0 /\ Len(wire[l]) < SocketRoom
      /\ wire' = [wire EXCEPT ![l] = w]
      /\ UNCHANGED <<links, dropped, swapped, leaving, joining, headerWritten, connected>>
      /\ UNCHANGED <<options, published, typed, publishQueue, batch, lastMessage>>
      /\ IF outbox[l] # << >>
         THEN /\ writing' = [writing EXCEPT ![l] = Head(outbox[l])]
              /\ outbox' = [outbox EXCEPT ![l] = Tail(@)]
         ELSE /\ writing' = [writing EXCEPT ![l] = 0]
              /\ UNCHANGED outbox
  BY DEF WriteMessage, publisherVars
<1>2. /\ wire[l] \in Seq(Message) /\ outbox[l] \in Seq(Message) /\ writing[l] \in 0 .. MaxPublished
      /\ Len(wire[l]) \in Nat /\ Len(outbox[l]) \in Nat /\ TypeOK /\ connected[l] = TRUE
      /\ writing[l] \in Message
  <2>1. wire[l] \in Seq(Message) /\ outbox[l] \in Seq(Message) /\ connected[l] = TRUE /\ TypeOK
    BY <1>1, PublicationTyped DEF OrderInv
  <2>2. writing[l] \in 0 .. MaxPublished /\ MaxPublished \in Nat
    BY PublicationTyped
  <2> QED BY <1>1, <2>1, <2>2 DEF Message
<1>3. joining[l] = "joined"
  BY <1>1 DEF OrderInv, Unjoined, NothingSent
<1>4. w \in Seq(Message) /\ Len(w) <= SocketRoom
  <2>1. w \in Seq(Message) /\ Len(w) = Len(wire[l]) + 1
    BY <1>2, AppendProperties
  <2> QED BY <1>1, <1>2, <2>1, PublicationTyped
<1>5. /\ x \in 0 .. MaxPublished /\ o \in Seq(Message) /\ Len(o) <= Len(outbox[l])
  <2>1. CASE outbox[l] # << >>
    <3>1. /\ Head(outbox[l]) \in Message /\ Tail(outbox[l]) \in Seq(Message)
          /\ Len(Tail(outbox[l])) = Len(outbox[l]) - 1
      BY <1>2, <2>1, HeadTailProperties
    <3> QED BY <1>2, <2>1, <3>1, PublicationAssumption DEF Message
  <2>2. CASE outbox[l] = << >>
    BY <1>2, <2>2, PublicationAssumption
  <2> QED BY <2>1, <2>2
<1>6. \A k \in Link : /\ wire'[k] = IF k = l THEN w ELSE wire[k]
                      /\ writing'[k] = IF k = l THEN x ELSE writing[k]
                      /\ outbox'[k] = IF k = l THEN o ELSE outbox[k]
  <2>1. \A k \in Link : wire'[k] = IF k = l THEN w ELSE wire[k]
    BY <1>1, PublicationTyped
  <2>2. \A k \in Link : writing'[k] = IF k = l THEN x ELSE writing[k]
    BY <1>1, PublicationTyped
  <2>3. \A k \in Link : outbox'[k] = IF k = l THEN o ELSE outbox[k]
    BY <1>1, PublicationTyped
  <2> QED BY <2>1, <2>2, <2>3
<1>7. /\ wire' \in [Link -> Seq(Message)] /\ writing' \in [Link -> 0 .. MaxPublished]
      /\ outbox' \in [Link -> Seq(Message)] /\ headerWritten' \in [Link -> BOOLEAN]
  <2>1. wire' \in [Link -> Seq(Message)]
    BY <1>1, <1>4, PublicationTyped
  <2>2. writing' \in [Link -> 0 .. MaxPublished]
    BY <1>1, <1>5, PublicationTyped
  <2>3. outbox' \in [Link -> Seq(Message)]
    BY <1>1, <1>5, PublicationTyped
  <2> QED BY <1>1, <2>1, <2>2, <2>3, PublicationTyped
<1>8. /\ Row(queue[l], w, x, o, connected[l], got[l], newest[l])
      /\ WayOf(queue[l], w, x, o, connected[l]) = OnItsWay(l)
  <2>1. RowTypes(queue[l], wire[l], writing[l], outbox[l], got[l], newest[l])
    BY <1>2, TypesOfRow
  <2>2. Row(queue[l], wire[l], writing[l], outbox[l], TRUE, got[l], newest[l])
    BY <1>2 DEF OrderInv, InARow
  <2>3. OnItsWay(l) = WayOf(queue[l], wire[l], writing[l], outbox[l], TRUE)
    BY <1>2, WayOfLink
  <2>4. /\ RowTypes(queue[l], w, 0, outbox[l], got[l], newest[l])
        /\ Row(queue[l], w, 0, outbox[l], TRUE, got[l], newest[l])
        /\ WayOf(queue[l], w, 0, outbox[l], TRUE) = OnItsWay(l)
    BY <1>1, <2>1, <2>2, <2>3, RowWritten
  <2>5. CASE outbox[l] # << >>
    BY <1>2, <2>4, <2>5, RowStarted
  <2>6. CASE outbox[l] = << >>
    <3>1. x = 0 /\ o = outbox[l]
      BY <2>6
    <3> QED BY <1>2, <2>4, <3>1
  <2> QED BY <2>5, <2>6
<1>9. /\ wire'[l] = w /\ writing'[l] = x /\ outbox'[l] = o
      /\ \A k \in Link : k # l => /\ wire'[k] = wire[k] /\ writing'[k] = writing[k]
                                   /\ outbox'[k] = outbox[k]
  BY <1>6
<1> HIDE DEF w, x, o
<1>10. /\ Len(wire'[l]) <= SocketRoom /\ Len(outbox'[l]) <= Len(outbox[l])
       /\ Row(queue[l], wire'[l], writing'[l], outbox'[l], connected[l], got[l], newest[l])
       /\ WayOf(queue[l], wire'[l], writing'[l], outbox'[l], connected[l]) = OnItsWay(l)
  BY <1>4, <1>5, <1>8, <1>9
<1> QED BY <1>1, <1>3, <1>7, <1>9, <1>10, LinkWrites

LEMMA PublicationKeeps ==
    ASSUME OrderInv, PublicationOnly
    PROVE  Kept
<1>1. UNCHANGED <<svars, newest>>
  BY DEF PublicationOnly
<1>2. CASE TakeBatch \/ Drop \/ SwapLinks
  BY <1>1, <1>2, TakeBatchKeeps, DropKeeps
<1>3. ASSUME NEW l \in Link, AcceptHeader(l) \/ ListLink(l) \/ WriteHeader(l)
      PROVE  Kept
  BY <1>1, <1>3, AcceptHeaderKeeps, ListLinkKeeps, WriteHeaderKeeps
<1>4. ASSUME NEW l \in Link, WriteMessage(l) \/ ConnectionLost(l) \/ DropLink(l)
      PROVE  Kept
  BY <1>1, <1>4, WriteMessageKeeps, ConnectionLostKeeps, DropLinkKeeps
<1> QED BY <1>2, <1>3, <1>4 DEF PublicationOnly

-----------------------------------------------------------------------------
(* The steps that give a message to links, or take one from the wire. *)

\* Where nothing that can be called is on its way, newest may grow.
LEMMA RowNewer ==
    ASSUME NEW q, NEW w, NEW x, NEW o, NEW open, NEW g, NEW n, NEW m \in Nat,
           RowTypes(q, w, x, o, g, n), Row(q, w, x, o, open, g, n), n <= m
    PROVE  Row(q, w, x, o, open, g, m)
<1>1. g \in Nat /\ n \in Nat /\ g <= n /\ \A k \in WayOf(q, w, x, o, open) : g < k /\ k <= n
  BY DEF RowTypes, Row
<1>2. \A k \in WayOf(q, w, x, o, open) : k \in Nat
  BY ElementsOf DEF RowTypes, WayOf, UnsentOf
<1>3. g <= m /\ \A k \in WayOf(q, w, x, o, open) : g < k /\ k <= m
  <2>1. ASSUME NEW k \in WayOf(q, w, x, o, open) PROVE g < k /\ k <= m
    <3>1. k \in Nat /\ g < k /\ k <= n
      BY <1>1, <1>2
    <3> QED BY <1>1, <3>1
  <2> QED BY <1>1, <2>1
<1> QED BY <1>3 DEF Row

\* A local link is given m: its subscription queues it if somebody is subscribed.
LEMMA LocalGiven ==
    ASSUME OrderInv, NEW l \in Link, l \in Local, NEW m \in Nat \ {0}, newest[l] < m,
           newest'[l] = m, got'[l] = got[l], subscribed'[l] = subscribed[l],
           queue'[l] = IF subscribed[l] = "yes" THEN Pushed(queue[l], m, QueueSize) ELSE queue[l],
           wire'[l] = wire[l], writing'[l] = writing[l], outbox'[l] = outbox[l],
           connected'[l] = connected[l]
    PROVE  InARow(l)' /\ Channel!LinkStep(l)
<1>1. /\ RowTypes(queue[l], wire[l], writing[l], outbox[l], got[l], newest[l])
      /\ Row(queue[l], wire[l], writing[l], outbox[l], connected[l], got[l], newest[l])
      /\ OnItsWay(l) = WayOf(queue[l], wire[l], writing[l], outbox[l], connected[l])
      /\ wire[l] = << >> /\ writing[l] = 0 /\ outbox[l] = << >> /\ newest[l] \in Nat
  BY TypesOfRow, WayOfLink, PublicationTyped DEF OrderInv, InARow, Unjoined, NothingSent
<1>2. Gone(l)' = Gone(l)
  BY DEF Gone
<1>3. newest'[l] \in Nat /\ newest'[l] > newest[l]
  BY <1>1
<1>4. CASE subscribed[l] = "yes"
  <2>1. queue'[l] = Pushed(queue[l], m, QueueSize)
    BY <1>4
  <2>2. /\ Row(Pushed(queue[l], m, QueueSize), wire[l], writing[l], outbox[l], connected[l], got[l], m)
        /\ m \in WayOf(Pushed(queue[l], m, QueueSize), wire[l], writing[l], outbox[l], connected[l])
        /\ WayOf(Pushed(queue[l], m, QueueSize), wire[l], writing[l], outbox[l], connected[l])
              \subseteq OnItsWay(l) \cup {m}
    BY <1>1, RowHanded, SubscriptionAssumption
  <2>3. InARow(l)' /\ OnItsWay(l)' \subseteq OnItsWay(l) \cup {newest'[l]} /\ newest'[l] \in OnItsWay(l)'
    BY <2>1, <2>2, RowBecomes
  <2> QED BY <1>2, <1>3, <2>3, IsSend
<1>5. CASE subscribed[l] # "yes"
  <2>1. queue'[l] = queue[l] /\ Gone(l)
    BY <1>5 DEF Gone
  <2>2. newest[l] <= m
    BY <1>1
  <2>3. Row(queue[l], wire[l], writing[l], outbox[l], connected[l], got[l], m)
    BY <1>1, <2>2, RowNewer
  <2>4. InARow(l)' /\ OnItsWay(l)' = OnItsWay(l)
    BY <1>1, <2>1, <2>3, RowBecomes
  <2> QED BY <1>2, <1>3, <2>1, <2>4, IsSend
<1> QED BY <1>4, <1>5

LEMMA OutboxGiven ==
    ASSUME OrderInv, NEW l \in Link, connected[l], NEW m \in Nat \ {0}, newest[l] < m
    PROVE  /\ Row(queue[l], wire[l], writing[l], Pushed(outbox[l], m, MaxQueue), TRUE, got[l], m)
           /\ RowTypes(queue[l], wire[l], writing[l], Pushed(outbox[l], m, MaxQueue), got[l], m)
           /\ Pushed(outbox[l], m, MaxQueue) # << >>
           /\ m \in WayOf(queue[l], wire[l], writing[l], Pushed(outbox[l], m, MaxQueue), TRUE)
           /\ WayOf(queue[l], wire[l], writing[l], Pushed(outbox[l], m, MaxQueue), TRUE)
                 \subseteq OnItsWay(l) \cup {m}
<1>1. connected[l] = TRUE /\ MaxQueue \in Nat
  BY PublicationTyped
<1>2. RowTypes(queue[l], wire[l], writing[l], outbox[l], got[l], newest[l])
  BY TypesOfRow DEF OrderInv
<1>3. Row(queue[l], wire[l], writing[l], outbox[l], connected[l], got[l], newest[l])
  BY DEF OrderInv, InARow
<1>4. OnItsWay(l) = WayOf(queue[l], wire[l], writing[l], outbox[l], connected[l])
  BY WayOfLink
<1>5. newest[l] < m /\ m \in Nat \ {0}
  OBVIOUS
<1>6. Row(queue[l], wire[l], writing[l], Pushed(outbox[l], m, MaxQueue), connected[l], got[l], m)
  BY <1>1, <1>2, <1>3, <1>5, RowGiven
<1>7. RowTypes(queue[l], wire[l], writing[l], Pushed(outbox[l], m, MaxQueue), got[l], m)
  BY <1>1, <1>2, <1>3, <1>5, RowGiven
<1>8. Pushed(outbox[l], m, MaxQueue) # << >>
  <2> DEFINE S == Nat \ {0}
  <2>1. outbox[l] \in Seq(S) /\ m \in S
    BY <1>2 DEF RowTypes
  <2> HIDE DEF S
  <2>2. /\ Pushed(outbox[l], m, MaxQueue) \in Seq(S)
        /\ Pushed(outbox[l], m, MaxQueue) # << >>
    BY <1>1, <2>1, PushedTypes
  <2> QED BY <2>2
<1>9. m \in WayOf(queue[l], wire[l], writing[l], Pushed(outbox[l], m, MaxQueue), connected[l])
  BY <1>1, <1>2, <1>3, <1>5, RowGiven
<1>10. WayOf(queue[l], wire[l], writing[l], Pushed(outbox[l], m, MaxQueue), connected[l])
          \subseteq WayOf(queue[l], wire[l], writing[l], outbox[l], connected[l]) \cup {m}
  BY <1>1, <1>2, <1>3, <1>5, RowGiven
<1> QED BY <1>1, <1>4, <1>6, <1>7, <1>8, <1>9, <1>10

\* A TCP link is given m: it goes to the outbox, the oldest of which may be started.
LEMMA RemoteGiven ==
    ASSUME OrderInv, NEW l \in Link, connected[l], NEW m \in Nat \ {0}, newest[l] < m,
           NEW starts \in BOOLEAN, starts => writing[l] = 0,
           newest'[l] = m, got'[l] = got[l], subscribed'[l] = subscribed[l],
           queue'[l] = queue[l], wire'[l] = wire[l], connected'[l] = connected[l],
           writing'[l] = IF starts THEN Head(Pushed(outbox[l], m, MaxQueue)) ELSE writing[l],
           outbox'[l] = IF starts THEN Tail(Pushed(outbox[l], m, MaxQueue))
                        ELSE Pushed(outbox[l], m, MaxQueue)
    PROVE  InARow(l)' /\ Channel!LinkStep(l)
<1> DEFINE p == Pushed(outbox[l], m, MaxQueue)
<1>1. newest[l] \in Nat /\ connected[l] = TRUE
  BY PublicationTyped
<1>3. /\ Row(queue[l], wire[l], writing[l], p, TRUE, got[l], m)
      /\ RowTypes(queue[l], wire[l], writing[l], p, got[l], m)
      /\ p # << >>
      /\ m \in WayOf(queue[l], wire[l], writing[l], p, TRUE)
      /\ WayOf(queue[l], wire[l], writing[l], p, TRUE) \subseteq OnItsWay(l) \cup {m}
  BY OutboxGiven
<1> HIDE DEF p
<1>4. /\ Row(queue[l], wire[l], writing'[l], outbox'[l], TRUE, got[l], m)
      /\ WayOf(queue[l], wire[l], writing'[l], outbox'[l], TRUE)
            = WayOf(queue[l], wire[l], writing[l], p, TRUE)
  <2>1. CASE starts
    <3>1. writing[l] = 0 /\ writing'[l] = Head(p) /\ outbox'[l] = Tail(p)
      BY <2>1 DEF p
    <3>2. RowIdle(queue[l], wire[l], p, got[l], m)
      BY <1>3, <3>1 DEF RowIdle
    <3>3. RowBusy(queue[l], wire[l], p, got[l], m)
      BY <3>2, IdleStarted
    <3>4. /\ Row(queue[l], wire[l], Head(p), Tail(p), TRUE, got[l], m)
          /\ WayOf(queue[l], wire[l], Head(p), Tail(p), TRUE) = WayOf(queue[l], wire[l], 0, p, TRUE)
      BY <3>3 DEF RowBusy
    <3> QED BY <3>1, <3>4
  <2>2. CASE ~starts
    <3>1. writing'[l] = writing[l] /\ outbox'[l] = p
      BY <2>2 DEF p
    <3> QED BY <1>3, <3>1
  <2> QED BY <2>1, <2>2
<1>5. InARow(l)' /\ OnItsWay(l)' \subseteq OnItsWay(l) \cup {newest'[l]} /\ newest'[l] \in OnItsWay(l)'
  BY <1>1, <1>3, <1>4, RowBecomes
<1>6. Gone(l)' = Gone(l) /\ newest'[l] \in Nat /\ newest'[l] > newest[l]
  BY <1>1 DEF Gone
<1> QED BY <1>5, <1>6, IsSend

\* enqueueMessage on the links ls.
LEMMA Enqueued ==
    ASSUME OrderInv, NEW ls \in SUBSET Link, NEW m \in Message, enqueueOnLinks(ls, m)
    PROVE  /\ UNCHANGED <<headerWritten, wire, connected>>
           /\ outbox' \in [Link -> Seq(Message)] /\ writing' \in [Link -> 0 .. MaxPublished]
           /\ \A l \in Link : MaxQueue > 0 => Len(outbox'[l]) <= MaxQueue
           /\ \A l \in Link :
                 IF l \in ls
                 THEN \E starts \in BOOLEAN :
                         /\ starts => writing[l] = 0
                         /\ writing'[l] = IF starts THEN Head(Pushed(outbox[l], m, MaxQueue))
                                          ELSE writing[l]
                         /\ outbox'[l] = IF starts THEN Tail(Pushed(outbox[l], m, MaxQueue))
                                         ELSE Pushed(outbox[l], m, MaxQueue)
                 ELSE writing'[l] = writing[l] /\ outbox'[l] = outbox[l]
<1> DEFINE boxes == [l \in Link |-> IF l \in ls THEN Pushed(outbox[l], m, MaxQueue) ELSE outbox[l]]
           start == {l \in ls : MayStart(l) /\ boxes[l] # << >>}
<1>1. /\ UNCHANGED <<headerWritten, wire, connected>>
      /\ writing' = [l \in Link |-> IF l \in start THEN Head(boxes[l]) ELSE writing[l]]
      /\ outbox' = [l \in Link |-> IF l \in start THEN Tail(boxes[l]) ELSE boxes[l]]
  BY DEF enqueueOnLinks, startMessageWrite
<1>2. \A l \in Link : /\ l \in ls => boxes[l] = Pushed(outbox[l], m, MaxQueue)
                      /\ l \notin ls => boxes[l] = outbox[l]
  OBVIOUS
<1>3. /\ start \subseteq ls
      /\ \A l \in start : writing[l] = 0
  BY DEF MayStart
<1> HIDE DEF boxes, start
<1>4. \A l \in Link : /\ writing'[l] = IF l \in start THEN Head(boxes[l]) ELSE writing[l]
                      /\ outbox'[l] = IF l \in start THEN Tail(boxes[l]) ELSE boxes[l]
  BY <1>1
<1>5. ASSUME NEW l \in Link
      PROVE  /\ writing'[l] \in 0 .. MaxPublished /\ outbox'[l] \in Seq(Message)
             /\ MaxQueue > 0 => Len(outbox'[l]) <= MaxQueue
  <2>1. /\ outbox[l] \in Seq(Message) /\ (MaxQueue > 0 => Len(outbox[l]) <= MaxQueue)
        /\ writing[l] \in 0 .. MaxPublished /\ MaxQueue \in Nat
    BY PublicationTyped
  <2>2. CASE l \in ls
    <3> DEFINE p == Pushed(outbox[l], m, MaxQueue)
    <3>1. boxes[l] = p
      BY <1>2, <2>2
    <3>2. /\ p \in Seq(Message) /\ Head(p) \in Message /\ Tail(p) \in Seq(Message)
          /\ MaxQueue > 0 => Len(p) <= MaxQueue
          /\ Len(Tail(p)) <= Len(p)
      BY <2>1, PushedTypes
    <3>3. Head(p) \in 0 .. MaxPublished
      BY <3>2, PublicationAssumption DEF Message
    <3>4. Len(p) \in Nat /\ Len(Tail(p)) \in Nat
      BY <3>2
    <3> HIDE DEF p
    <3>5. CASE l \in start
      <4>1. writing'[l] = Head(p) /\ outbox'[l] = Tail(p)
        BY <1>4, <3>1, <3>5
      <4>2. MaxQueue > 0 => Len(Tail(p)) <= MaxQueue
        BY <2>1, <3>2, <3>4
      <4> QED BY <3>2, <3>3, <4>1, <4>2
    <3>6. CASE l \notin start
      <4>1. writing'[l] = writing[l] /\ outbox'[l] = p
        BY <1>4, <3>1, <3>6
      <4> QED BY <2>1, <3>2, <4>1
    <3> QED BY <3>5, <3>6
  <2>3. CASE l \notin ls
    <3>1. l \notin start /\ boxes[l] = outbox[l]
      BY <1>2, <1>3, <2>3
    <3> QED BY <1>4, <2>1, <3>1
  <2> QED BY <2>2, <2>3
<1>6. outbox' \in [Link -> Seq(Message)] /\ writing' \in [Link -> 0 .. MaxPublished]
  BY <1>1, <1>5
<1>7. ASSUME NEW l \in Link, l \in ls
      PROVE  \E starts \in BOOLEAN :
                /\ starts => writing[l] = 0
                /\ writing'[l] = IF starts THEN Head(Pushed(outbox[l], m, MaxQueue)) ELSE writing[l]
                /\ outbox'[l] = IF starts THEN Tail(Pushed(outbox[l], m, MaxQueue))
                                ELSE Pushed(outbox[l], m, MaxQueue)
  <2>1. boxes[l] = Pushed(outbox[l], m, MaxQueue)
    BY <1>2, <1>7
  <2>2. CASE l \in start
    <3>1. WITNESS TRUE \in BOOLEAN
    <3> QED BY <1>3, <1>4, <2>1, <2>2
  <2>3. CASE l \notin start
    <3>1. WITNESS FALSE \in BOOLEAN
    <3> QED BY <1>4, <2>1, <2>3
  <2> QED BY <2>2, <2>3
<1>8. ASSUME NEW l \in Link, l \notin ls PROVE writing'[l] = writing[l] /\ outbox'[l] = outbox[l]
  BY <1>2, <1>3, <1>4, <1>8
<1> QED BY <1>1, <1>5, <1>6, <1>7, <1>8

LEMMA PublishKeeps ==
    ASSUME OrderInv, PublishMessage
    PROVE  Kept
<1> DEFINE m == published + 1
<1>1. /\ batch = << >> /\ ~dropped /\ published < options.bound /\ published' = m
      /\ typed' = IF Uncopied # {} THEN typed \cup {m} ELSE typed
      /\ \/ publishQueue' = publishQueue
         \/ publishQueue' = Append(publishQueue, m)
      /\ UNCHANGED <<options, batch, links, lastMessage, dropped, swapped, leaving, joining>>
      /\ UNCHANGED linkVars
      /\ newest' = [l \in Link |-> IF l \in Uncopied THEN m ELSE newest[l]]
      /\ handleMessage(Uncopied \cap Local, m)
  BY DEF PublishMessage, Publish, TopicsUnlocked, Give
<1>2. /\ published \in Nat /\ m \in Nat \ {0} /\ published < m /\ published <= m
      /\ m \in 0 .. MaxPublished /\ m \in Message
  <2>1. options.bound \in 0 .. MaxPublished /\ published \in 0 .. MaxPublished /\ MaxPublished \in Nat
    BY PublicationTyped
  <2> QED BY <1>1, <2>1 DEF Message
<1>3. 0 .. published \subseteq 0 .. m /\ 1 .. published \subseteq 1 .. m /\ m \in 0 .. m /\ m \in 1 .. m
      /\ 1 .. m \subseteq (1 .. published) \cup {m}
  BY <1>2
<1> HIDE DEF m
<1>4. TypeOK /\ Ahead /\ Uncopies /\ Joining /\ Unjoined
  BY DEF OrderInv
<1>5. /\ Uncopied \subseteq links \cap Local /\ Uncopied \cap Local = Uncopied /\ Uncopied \subseteq Link
      /\ options.uncopied => Uncopied = links \cap Local
      /\ ~options.uncopied => Uncopied = {}
  BY PublicationTyped DEF Uncopied
<1>6. /\ SubscriptionTypeOK' /\ UNCHANGED <<got, subscribed, spinning>>
      /\ \A l \in Link : queue'[l] = IF l \in Uncopied /\ subscribed[l] = "yes"
                                     THEN Pushed(queue[l], m, QueueSize) ELSE queue[l]
  BY <1>1, <1>2, <1>4, <1>5, Handled
<1>7. \A l \in Link : newest'[l] = IF l \in Uncopied THEN m ELSE newest[l]
  BY <1>1
<1>8. publishQueue' \in Seq(Message) /\ ToSet(publishQueue') \subseteq ToSet(publishQueue) \cup {m}
      /\ Increasing(publishQueue')
  <2>1. publishQueue \in Seq(Nat \ {0}) /\ publishQueue \in Seq(Message) /\ Increasing(publishQueue)
    BY <1>4, PublicationTyped, MessagesAreNumbers DEF Ahead
  <2>2. Before(ToSet(publishQueue), {m})
    <3> SUFFICES ASSUME NEW k \in ToSet(publishQueue) PROVE k < m
      BY DEF Before
    <3>1. k \in Waiting
      BY DEF Waiting
    <3>2. k \in Nat /\ k <= published
      BY <1>4, <3>1, WaitingTyped DEF Ahead
    <3> QED BY <1>2, <3>2
  <2>3. CASE publishQueue' = publishQueue
    BY <2>1, <2>3
  <2>4. CASE publishQueue' = Append(publishQueue, m)
    <3>1. Append(publishQueue, m) \in Seq(Message)
      BY <1>2, <2>1
    <3>2. ToSet(Append(publishQueue, m)) = ToSet(publishQueue) \cup {m} /\ Increasing(Append(publishQueue, m))
      BY <1>2, <2>1, <2>2, AppendInOrder
    <3> QED BY <2>4, <3>1, <3>2
  <2> QED BY <1>1, <2>3, <2>4
<1>9. TypeOK'
  <2>1. newest' \in [Link -> 0 .. m]
    BY <1>1, <1>3, PublicationTyped
  <2>2. typed' \subseteq 1 .. m /\ lastMessage \in 0 .. m
    BY <1>1, <1>3, PublicationTyped
  <2>3. PublicationTypeOK'
    BY <1>1, <1>2, <1>8, <2>2, PublicationTyped DEF PublicationTypeOK, linkVars
  <2> QED BY <1>1, <1>6, <2>1, <2>3 DEF TypeOK
<1>10. Waiting' \subseteq Waiting \cup {m}
  BY <1>1, <1>8 DEF Waiting
<1>11. /\ ToSet(batch) = {} /\ \A k \in Waiting : k \in Nat /\ lastMessage < k /\ k <= m
       /\ lastMessage < m /\ m <= m
  <2>1. ASSUME NEW k \in Waiting PROVE k \in Nat /\ lastMessage < k /\ k <= m
    <3>1. k \in Nat /\ lastMessage < k /\ k <= published
      BY <1>4, WaitingTyped DEF Ahead
    <3> QED BY <1>2, <3>1
  <2>2. lastMessage \in Nat /\ lastMessage <= published
    BY <1>2, PublicationTyped
  <2>3. lastMessage < m /\ m <= m
    BY <1>2, <2>2
  <2>4. ToSet(batch) = {}
    BY <1>1 DEF ToSet
  <2> QED BY <2>1, <2>3, <2>4
<1>12. \A l \in Link : newest[l] \in Nat /\ newest[l] < m
  <2> SUFFICES ASSUME NEW l \in Link PROVE newest[l] \in Nat /\ newest[l] < m
    OBVIOUS
  <2>1. newest[l] \in 0 .. published
    BY PublicationTyped
  <2> QED BY <1>2, <2>1
<1>13. Ahead'
  <2>1. Increasing(batch') /\ Increasing(publishQueue')
    BY <1>1, <1>4, <1>8 DEF Ahead
  <2>2. Before(ToSet(batch'), ToSet(publishQueue'))
    BY <1>1, <1>11 DEF Before
  <2>3. \A k \in Waiting' : lastMessage' < k /\ k <= published'
    BY <1>1, <1>10, <1>11
  <2>4. ASSUME NEW l \in links' \cap Remote, NEW k \in Waiting' PROVE newest'[l] < k
    <3>1. newest'[l] = newest[l] /\ l \in links \cap Remote
      BY <1>1, <1>5, <1>7, <2>4, PublicationTyped
    <3>2. l \in Link
      BY <2>4, PublicationTyped
    <3> QED BY <1>4, <1>10, <1>12, <3>1, <3>2 DEF Ahead
  <2> QED BY <2>1, <2>2, <2>3, <2>4 DEF Ahead
<1>14. Uncopies'
  <2>1. CASE options.uncopied
    <3> SUFFICES ASSUME NEW l \in links \cap Local PROVE newest'[l] = m /\ 1 .. m \subseteq typed'
      BY <1>1, <2>1 DEF Uncopies
    <3>1. l \in Uncopied /\ l \in Link
      BY <1>5, <2>1
    <3>2. newest'[l] = m
      BY <1>7, <3>1
    <3>3. typed' = typed \cup {m}
      BY <1>1, <3>1
    <3>4. 1 .. published \subseteq typed
      BY <1>4, <2>1 DEF Uncopies
    <3> QED BY <1>3, <3>2, <3>3, <3>4
  <2>2. CASE ~options.uncopied
    <3>1. Uncopied = {} /\ typed' = {}
      BY <1>1, <1>4, <1>5, <2>2 DEF Uncopies
    <3>2. \A l \in links \cap Local, k \in Waiting' : newest'[l] < k
      <4> SUFFICES ASSUME NEW l \in links \cap Local, NEW k \in Waiting' PROVE newest'[l] < k
        OBVIOUS
      <4>1. l \in Link /\ newest'[l] = newest[l]
        BY <1>7, <3>1, PublicationTyped
      <4> QED BY <1>4, <1>10, <1>12, <2>2, <4>1 DEF Uncopies
    <3> QED BY <1>1, <2>2, <3>1, <3>2 DEF Uncopies
  <2> QED BY <2>1, <2>2
<1>15. Joining'
  BY <1>1, <1>4 DEF Joining, linkVars
<1>16. Unjoined'
  <2>1. \A l \in Remote : l \notin Uncopied
    BY <1>5, PublicationTyped
  <2>2. \A l \in Remote : queue'[l] = queue[l] /\ newest'[l] = newest[l]
    BY <1>6, <1>7, <2>1, PublicationTyped
  <2> QED BY <1>1, <1>4, <2>2 DEF Unjoined, NothingSent, linkVars
<1>17. ASSUME NEW l \in Link PROVE InARow(l)' /\ Channel!LinkStep(l)
  <2>1. CASE l \in Uncopied
    <3>1. newest'[l] = m
      BY <1>7, <2>1
    <3>2. queue'[l] = IF subscribed[l] = "yes" THEN Pushed(queue[l], m, QueueSize) ELSE queue[l]
      BY <1>6, <2>1
    <3> QED BY <1>1, <1>2, <1>5, <1>6, <1>12, <2>1, <3>1, <3>2, LocalGiven DEF linkVars
  <2>2. CASE l \notin Uncopied
    <3>1. newest'[l] = newest[l]
      BY <1>7, <2>2
    <3>2. queue'[l] = queue[l]
      BY <1>6, <2>2
    <3>3. LinkSame(l) /\ InARow(l)
      BY <1>1, <1>6, <3>1, <3>2 DEF OrderInv, LinkSame, linkVars
    <3> QED BY <3>3, LinkKept
  <2> QED BY <2>1, <2>2
<1> QED BY <1>9, <1>13, <1>14, <1>15, <1>16, <1>17 DEF OrderInv, Kept

LEMMA ReceiveKeeps ==
    ASSUME OrderInv, NEW l \in Link, Receive(l)
    PROVE  Kept
<1>1. /\ wire[l] # << >> /\ wire' = [wire EXCEPT ![l] = Tail(@)]
      /\ handleMessage({l}, Head(wire[l]))
      /\ UNCHANGED <<links, dropped, swapped, leaving, joining, outbox, headerWritten, writing,
                     connected, newest>>
      /\ UNCHANGED <<options, published, typed, publishQueue, batch, lastMessage>>
  BY DEF Receive, publisherVars
<1>2. TypeOK /\ Joining /\ Unjoined
  BY DEF OrderInv
<1>3. l \in Remote /\ joining[l] = "joined"
  BY <1>1, <1>2, PublicationTyped DEF Unjoined, NothingSent
<1>4. /\ wire[l] \in Seq(Message) /\ Head(wire[l]) \in Message /\ Tail(wire[l]) \in Seq(Message)
      /\ Len(Tail(wire[l])) = Len(wire[l]) - 1 /\ Len(wire[l]) \in Nat /\ Head(wire[l]) \in Nat \ {0}
  <2>1. wire[l] \in Seq(Message)
    BY PublicationTyped
  <2>2. /\ Head(wire[l]) \in Message /\ Tail(wire[l]) \in Seq(Message)
        /\ Len(Tail(wire[l])) = Len(wire[l]) - 1 /\ Len(wire[l]) \in Nat
    BY <1>1, <2>1, HeadTailProperties
  <2> QED BY <2>1, <2>2, MessagesAreNumbers
<1>5. /\ SubscriptionTypeOK' /\ UNCHANGED <<got, subscribed, spinning>>
      /\ \A k \in Link : queue'[k] = IF k \in {l} /\ subscribed[k] = "yes"
                                     THEN Pushed(queue[k], Head(wire[l]), QueueSize) ELSE queue[k]
  BY <1>1, <1>2, <1>4, Handled
<1>6. \A k \in Link : wire'[k] = IF k = l THEN Tail(wire[l]) ELSE wire[k]
  BY <1>1, PublicationTyped
<1>7. TypeOK'
  <2>1. wire' \in [Link -> Seq(Message)]
    BY <1>1, <1>4, PublicationTyped
  <2>2. ASSUME NEW k \in Link PROVE Len(wire'[k]) <= SocketRoom
    <3>1. Len(wire[k]) <= SocketRoom /\ SocketRoom \in Nat
      BY PublicationTyped
    <3>2. CASE k = l
      <4>1. Len(wire'[k]) = Len(wire[l]) - 1
        BY <1>4, <1>6, <3>2
      <4> QED BY <1>4, <3>1, <3>2, <4>1
    <3>3. CASE k # l
      BY <1>6, <3>1, <3>3
    <3> QED BY <3>2, <3>3
  <2>3. PublicationTypeOK'
    BY <1>1, <2>1, <2>2, PublicationTyped DEF PublicationTypeOK
  <2> QED BY <1>1, <1>5, <2>3, PublicationTyped DEF TypeOK
<1>8. Ahead' /\ Uncopies'
  BY <1>1, NothingHandedOut
<1>9. Joining'
  BY <1>1, <1>2 DEF Joining
<1>10. Unjoined'
  <2>1. \A k \in Link : k # l => queue'[k] = queue[k] /\ wire'[k] = wire[k]
    BY <1>5, <1>6
  <2> QED BY <1>1, <1>2, <1>3, <2>1, PublicationTyped DEF Unjoined, NothingSent
<1>11. ASSUME NEW k \in Link PROVE InARow(k)' /\ Channel!LinkStep(k)
  <2>1. CASE k = l
    <3>1. /\ RowTypes(queue[l], wire[l], writing[l], outbox[l], got[l], newest[l])
          /\ Row(queue[l], wire[l], writing[l], outbox[l], connected[l], got[l], newest[l])
          /\ OnItsWay(l) = WayOf(queue[l], wire[l], writing[l], outbox[l], connected[l])
      BY <1>2, TypesOfRow, WayOfLink DEF OrderInv, InARow
    <3>2. /\ queue'[l] = queue[l] \/ queue'[l] = Pushed(queue[l], Head(wire[l]), QueueSize)
          /\ ~Gone(l) => queue'[l] = Pushed(queue[l], Head(wire[l]), QueueSize)
      BY <1>5 DEF Gone
    <3>3. /\ Row(queue'[l], Tail(wire[l]), writing[l], outbox[l], connected[l], got[l], newest[l])
          /\ WayOf(queue'[l], Tail(wire[l]), writing[l], outbox[l], connected[l])
                \subseteq WayOf(queue[l], wire[l], writing[l], outbox[l], connected[l])
          /\ queue'[l] = Pushed(queue[l], Head(wire[l]), QueueSize)
                /\ newest[l] \in WayOf(queue[l], wire[l], writing[l], outbox[l], connected[l])
             => newest[l] \in WayOf(queue'[l], Tail(wire[l]), writing[l], outbox[l], connected[l])
      BY <1>1, <3>1, <3>2, RowReceived, SubscriptionAssumption
    <3>4. /\ wire'[l] = Tail(wire[l]) /\ writing'[l] = writing[l] /\ outbox'[l] = outbox[l]
          /\ connected'[l] = connected[l] /\ got'[l] = got[l] /\ newest'[l] = newest[l]
          /\ Gone(l)' = Gone(l)
      BY <1>1, <1>5, <1>6 DEF Gone
    <3>5. /\ InARow(l)'
          /\ OnItsWay(l)' = WayOf(queue'[l], Tail(wire[l]), writing[l], outbox[l], connected[l])
      BY <3>3, <3>4, RowBecomes
    <3> QED BY <2>1, <3>1, <3>2, <3>3, <3>4, <3>5, IsLose
  <2>2. CASE k # l
    <3>1. queue'[k] = queue[k] /\ wire'[k] = wire[k]
      BY <1>5, <1>6, <2>2
    <3>2. LinkSame(k) /\ InARow(k)
      BY <1>1, <1>5, <3>1 DEF OrderInv, LinkSame
    <3> QED BY <3>2, LinkKept
  <2> QED BY <2>1, <2>2
<1> QED BY <1>7, <1>8, <1>9, <1>10, <1>11 DEF OrderInv, Kept

LEMMA HandOutKeeps ==
    ASSUME OrderInv, HandOut
    PROVE  Kept
<1> DEFINE m == Head(batch)
           R == links \cap Remote
           L == ToLocal(m)
<1>1. /\ batch # << >> /\ batch' = Tail(batch)
      /\ enqueueOnLinks(R, m)
      /\ lastMessage' \in {m, lastMessage}
      /\ UNCHANGED <<options, published, typed, publishQueue, links, dropped, swapped, leaving, joining>>
      /\ newest' = [l \in Link |-> IF l \in R \cup L THEN m ELSE newest[l]]
      /\ handleMessage((R \cup L) \cap Local, m)
  BY DEF HandOut, EnqueueMessage, Give, Latched
<1>2. TypeOK /\ Ahead /\ Uncopies /\ Joining /\ Unjoined
  BY DEF OrderInv
<1>3. /\ Tail(batch) \in Seq(Message) /\ Increasing(Tail(batch)) /\ m \in ToSet(batch)
      /\ ToSet(Tail(batch)) \subseteq ToSet(batch)
      /\ \A k \in ToSet(Tail(batch)) : m < k
  <2>1. batch \in Seq(Message) /\ batch \in Seq(Nat \ {0}) /\ Increasing(batch)
    BY <1>2, PublicationTyped, MessagesAreNumbers DEF Ahead
  <2>2. Tail(batch) \in Seq(Message)
    BY <1>1, <2>1, HeadTailProperties
  <2> QED BY <1>1, <2>1, <2>2, TailInOrder
<1>4. m \in Waiting /\ m \in Message /\ m \in Nat \ {0} /\ lastMessage < m /\ m <= published
  <2>1. m \in Waiting
    BY <1>3 DEF Waiting
  <2> QED BY <1>2, <2>1, WaitingTyped DEF Ahead
<1>5. /\ L \subseteq links \cap Local /\ L \subseteq Link /\ R \subseteq Link /\ R \cap Local = {}
      /\ (R \cup L) \cap Local = L
      /\ L # {} => m \notin typed
      /\ m \notin typed => L = links \cap Local
  BY PublicationTyped DEF ToLocal
<1> HIDE DEF m, R, L
<1>6. options.uncopied => L = {}
  <2> SUFFICES ASSUME options.uncopied, NEW l \in L PROVE FALSE
    OBVIOUS
  <2>1. 1 .. published \subseteq typed
    BY <1>2, <1>5 DEF Uncopies
  <2>2. m \in 1 .. published
    BY <1>4, PublicationTyped
  <2> QED BY <1>5, <2>1, <2>2
<1>7. ~options.uncopied => L = links \cap Local /\ typed = {}
  BY <1>2, <1>5 DEF Uncopies
<1>8. ~dropped /\ \A l \in R : l \in Link /\ connected[l] /\ joining[l] = "joined"
  <2>1. ~dropped
    BY <1>1, <1>2 DEF Joining
  <2>2. ASSUME NEW l \in R PROVE l \in Link /\ connected[l] /\ joining[l] = "joined"
    <3>1. l \in links /\ l \in Remote /\ l \in Link
      BY PublicationTyped DEF R
    <3>2. joining[l] \in {"listed", "joined"} /\ connected[l]
      BY <1>2, <2>1, <3>1 DEF Joining
    <3>3. joining[l] # "listed"
      BY <1>1, <1>2, <3>1 DEF Joining
    <3> QED BY <3>1, <3>2, <3>3
  <2> QED BY <2>1, <2>2
<1>9. \A l \in R \cup L : newest[l] < m
  <2>1. ASSUME NEW l \in R PROVE newest[l] < m
    BY <1>2, <1>4 DEF Ahead, R
  <2>2. ASSUME NEW l \in L PROVE newest[l] < m
    BY <1>2, <1>4, <1>5, <1>6 DEF Uncopies
  <2> QED BY <2>1, <2>2
<1>10. /\ SubscriptionTypeOK' /\ UNCHANGED <<got, subscribed, spinning>>
       /\ \A l \in Link : queue'[l] = IF l \in L /\ subscribed[l] = "yes"
                                      THEN Pushed(queue[l], m, QueueSize) ELSE queue[l]
  BY <1>1, <1>2, <1>4, <1>5, Handled, ZenonT(60)
<1>11. /\ UNCHANGED <<headerWritten, wire, connected>>
       /\ outbox' \in [Link -> Seq(Message)] /\ writing' \in [Link -> 0 .. MaxPublished]
       /\ \A l \in Link : MaxQueue > 0 => Len(outbox'[l]) <= MaxQueue
       /\ \A l \in Link :
             IF l \in R
             THEN \E starts \in BOOLEAN :
                     /\ starts => writing[l] = 0
                     /\ writing'[l] = IF starts THEN Head(Pushed(outbox[l], m, MaxQueue))
                                      ELSE writing[l]
                     /\ outbox'[l] = IF starts THEN Tail(Pushed(outbox[l], m, MaxQueue))
                                     ELSE Pushed(outbox[l], m, MaxQueue)
             ELSE writing'[l] = writing[l] /\ outbox'[l] = outbox[l]
  BY <1>1, <1>4, <1>5, Enqueued
<1>12. \A l \in Link : newest'[l] = IF l \in R \cup L THEN m ELSE newest[l]
  BY <1>1
<1>13. TypeOK'
  <2>1. m \in 0 .. published /\ lastMessage \in 0 .. published
    BY <1>4, PublicationTyped
  <2>2. newest' \in [Link -> 0 .. published] /\ lastMessage' \in 0 .. published
    BY <1>1, <2>1, PublicationTyped
  <2>3. PublicationTypeOK'
    BY <1>1, <1>3, <1>11, <2>2, PublicationTyped DEF PublicationTypeOK
  <2> QED BY <1>1, <1>10, <2>2, <2>3 DEF TypeOK
<1>14. Waiting' \subseteq Waiting /\ \A k \in Waiting' : m < k /\ lastMessage' < k
  <2>1. Waiting' = ToSet(Tail(batch)) \cup ToSet(publishQueue)
    BY <1>1 DEF Waiting
  <2>2. Waiting' \subseteq Waiting
    BY <1>3, <2>1 DEF Waiting
  <2>3. \A k \in ToSet(publishQueue) : m < k
    BY <1>2, <1>3 DEF Ahead, Before
  <2>4. \A k \in Waiting' : m < k
    BY <1>3, <2>1, <2>3
  <2>5. \A k \in Waiting : lastMessage < k
    BY <1>2 DEF Ahead
  <2> QED BY <1>1, <2>2, <2>4, <2>5
<1>15. Ahead'
  <2>1. Increasing(batch') /\ Increasing(publishQueue')
    BY <1>1, <1>2, <1>3 DEF Ahead
  <2>2. Before(ToSet(batch'), ToSet(publishQueue'))
    BY <1>1, <1>2, <1>3 DEF Ahead, Before
  <2>3. \A k \in Waiting' : lastMessage' < k /\ k <= published'
    BY <1>1, <1>2, <1>14 DEF Ahead
  <2>4. ASSUME NEW l \in links' \cap Remote, NEW k \in Waiting' PROVE newest'[l] < k
    <3>1. l \in R /\ l \in Link
      BY <1>1, PublicationTyped DEF R
    <3>2. newest'[l] = m
      BY <1>12, <3>1
    <3> QED BY <1>14, <3>2
  <2> QED BY <2>1, <2>2, <2>3, <2>4 DEF Ahead
<1>16. Uncopies'
  <2>1. CASE options.uncopied
    <3> SUFFICES ASSUME NEW l \in links \cap Local PROVE newest'[l] = published /\ 1 .. published \subseteq typed
      BY <1>1, <2>1 DEF Uncopies
    <3>1. l \notin R \cup L /\ l \in Link
      BY <1>5, <1>6, <2>1, PublicationTyped
    <3>2. newest'[l] = newest[l]
      BY <1>12, <3>1
    <3> QED BY <1>2, <2>1, <3>2 DEF Uncopies
  <2>2. CASE ~options.uncopied
    <3>1. \A l \in links \cap Local, k \in Waiting' : newest'[l] < k
      <4> SUFFICES ASSUME NEW l \in links \cap Local, NEW k \in Waiting' PROVE newest'[l] < k
        OBVIOUS
      <4>1. l \in L /\ l \in Link
        BY <1>7, <2>2, PublicationTyped
      <4>2. newest'[l] = m
        BY <1>12, <4>1
      <4> QED BY <1>14, <4>2
    <3> QED BY <1>1, <1>7, <2>2, <3>1 DEF Uncopies
  <2> QED BY <2>1, <2>2
<1>17. Joining'
  <2>1. \A l \in Remote : joining'[l] \in {"validated", "listed"} => batch' = << >>
    BY <1>1, <1>2 DEF Joining
  <2>2. dropped' => batch' = << >>
    BY <1>1, <1>8
  <2> QED BY <1>1, <1>2, <1>11, <2>1, <2>2 DEF Joining
<1>18. Unjoined'
  <2>1. \A l \in Remote : joining[l] # "joined" => l \notin R \cup L /\ l \in Link
    BY <1>5, <1>8, PublicationTyped
  <2>2. \A l \in Local : l \notin R /\ l \in Link
    BY <1>5, PublicationTyped
  <2>3. \A l \in Link : l \notin R /\ NothingSent(l) => NothingSent(l)'
    BY <1>11 DEF NothingSent
  <2>4. ASSUME NEW l \in Remote, joining'[l] # "joined"
        PROVE  NothingSent(l)' /\ queue'[l] = << >> /\ newest'[l] = 0
    <3>1. joining[l] # "joined" /\ l \notin R /\ l \notin L /\ l \in Link
      BY <1>1, <2>1, <2>4
    <3>2. NothingSent(l) /\ queue[l] = << >> /\ newest[l] = 0
      BY <1>2, <3>1 DEF Unjoined
    <3> QED BY <1>10, <1>12, <2>3, <3>1, <3>2
  <2>5. \A l \in Local : NothingSent(l)'
    BY <1>2, <2>2, <2>3 DEF Unjoined
  <2> QED BY <2>4, <2>5 DEF Unjoined
<1>19. ASSUME NEW l \in Link PROVE InARow(l)' /\ Channel!LinkStep(l)
  <2>1. wire'[l] = wire[l] /\ connected'[l] = connected[l] /\ got'[l] = got[l] /\ subscribed'[l] = subscribed[l]
    BY <1>10, <1>11
  <2>2. CASE l \in R
    <3>1. PICK starts \in BOOLEAN :
             /\ starts => writing[l] = 0
             /\ writing'[l] = IF starts THEN Head(Pushed(outbox[l], m, MaxQueue)) ELSE writing[l]
             /\ outbox'[l] = IF starts THEN Tail(Pushed(outbox[l], m, MaxQueue))
                             ELSE Pushed(outbox[l], m, MaxQueue)
      BY <1>11, <2>2
    <3>2. l \notin L
      BY <1>5, <2>2
    <3>3. newest'[l] = m /\ newest[l] < m /\ connected[l] /\ queue'[l] = queue[l]
      BY <1>8, <1>9, <1>10, <1>12, <2>2, <3>2
    <3> QED BY <1>4, <2>1, <3>1, <3>3, RemoteGiven
  <2>3. CASE l \in L
    <3>1. l \notin R /\ l \in Local
      BY <1>5, <2>3
    <3>2. newest'[l] = m /\ newest[l] < m
      BY <1>9, <1>12, <2>3
    <3>3. queue'[l] = IF subscribed[l] = "yes" THEN Pushed(queue[l], m, QueueSize) ELSE queue[l]
      BY <1>10, <2>3
    <3>4. writing'[l] = writing[l] /\ outbox'[l] = outbox[l]
      BY <1>11, <3>1
    <3> QED BY <1>4, <2>1, <3>1, <3>2, <3>3, <3>4, LocalGiven
  <2>4. CASE l \notin R \cup L
    <3>1. newest'[l] = newest[l] /\ queue'[l] = queue[l] /\ writing'[l] = writing[l] /\ outbox'[l] = outbox[l]
      BY <1>10, <1>11, <1>12, <2>4
    <3>2. LinkSame(l) /\ InARow(l)
      BY <2>1, <3>1 DEF OrderInv, LinkSame
    <3> QED BY <3>2, LinkKept
  <2> QED BY <2>2, <2>3, <2>4
<1> QED BY <1>13, <1>15, <1>16, <1>17, <1>18, <1>19 DEF OrderInv, Kept

LEMMA JoinKeeps ==
    ASSUME OrderInv, NEW l \in Link, Join(l)
    PROVE  Kept
<1> DEFINE m == lastMessage
           R == ToJoiner(l) \cap Remote
           G == {k \in ToJoiner(l) : connected[k]}
<1>1. /\ joining[l] = "listed" /\ joining' = [joining EXCEPT ![l] = "joined"]
      /\ enqueueOnLinks(R, m)
      /\ UNCHANGED <<links, dropped, swapped, leaving>>
      /\ UNCHANGED <<options, published, typed, publishQueue, batch, lastMessage>>
      /\ newest' = [k \in Link |-> IF k \in G THEN m ELSE newest[k]]
      /\ handleMessage(G \cap Local, m)
  BY DEF Join, SendLatched, Give, publisherVars
<1>2. TypeOK /\ Ahead /\ Uncopies /\ Joining /\ Unjoined
  BY DEF OrderInv
<1>3. l \in Remote /\ l \notin Local
  BY <1>1, <1>2, PublicationTyped DEF Joining
<1>4. /\ R \subseteq {l} /\ G \subseteq R /\ G \cap Local = {} /\ R \subseteq Link
      /\ l \in R => m # 0
      /\ l \in R /\ connected[l] => l \in G
      /\ l \in G => connected[l] /\ l \in R
  BY <1>3 DEF ToJoiner
<1>5. m \in Nat /\ m \in 0 .. published /\ m <= published /\ (m # 0 => m \in Message /\ m \in Nat \ {0})
  <2>1. m \in 0 .. published /\ published \in 0 .. MaxPublished /\ MaxPublished \in Nat
    BY PublicationTyped
  <2> QED BY <2>1 DEF Message
<1> HIDE DEF m, R, G
<1>6. newest[l] = 0 /\ queue[l] = << >> /\ NothingSent(l)
  BY <1>1, <1>2, <1>3 DEF Unjoined
<1>7. /\ SubscriptionTypeOK' /\ UNCHANGED svars
  <2>1. \A k \in Link : queue'[k] = queue[k] /\ scheduled'[k] = scheduled[k]
    BY <1>1, <1>4 DEF handleMessage, Schedule
  <2>2. UNCHANGED <<spinning, got, subscribed>>
    BY <1>1 DEF handleMessage
  <2>3. /\ queue' = [k \in Link |-> queue'[k]] /\ scheduled' = [k \in Link |-> scheduled'[k]]
    BY <1>1 DEF handleMessage, Schedule
  <2>4. queue' = queue /\ scheduled' = scheduled
    BY <2>1, <2>3, SubscriptionTyped
  <2>5. SubscriptionTypeOK'
    BY <1>2, <2>2, <2>4 DEF TypeOK, SubscriptionTypeOK
  <2> QED BY <2>2, <2>4, <2>5 DEF svars
<1>8. /\ UNCHANGED <<headerWritten, wire, connected>>
      /\ outbox' \in [Link -> Seq(Message)] /\ writing' \in [Link -> 0 .. MaxPublished]
      /\ \A k \in Link : MaxQueue > 0 => Len(outbox'[k]) <= MaxQueue
      /\ \A k \in Link :
            IF k \in R
            THEN \E starts \in BOOLEAN :
                    /\ starts => writing[k] = 0
                    /\ writing'[k] = IF starts THEN Head(Pushed(outbox[k], m, MaxQueue))
                                     ELSE writing[k]
                    /\ outbox'[k] = IF starts THEN Tail(Pushed(outbox[k], m, MaxQueue))
                                    ELSE Pushed(outbox[k], m, MaxQueue)
            ELSE writing'[k] = writing[k] /\ outbox'[k] = outbox[k]
  <2>1. CASE R = {}
    <3>1. /\ UNCHANGED <<headerWritten, wire, connected>>
          /\ writing' = [k \in Link |-> writing[k]] /\ outbox' = [k \in Link |-> outbox[k]]
      BY <1>1, <2>1 DEF enqueueOnLinks, startMessageWrite
    <3>2. writing' = writing /\ outbox' = outbox
      BY <3>1, PublicationTyped
    <3> QED BY <2>1, <3>1, <3>2, PublicationTyped
  <2>2. CASE R # {}
    <3>1. m \in Message
      BY <1>4, <1>5, <2>2
    <3>2. enqueueOnLinks(R, m) /\ R \in SUBSET Link
      BY <1>1, <1>4
    <3> QED BY <3>1, <3>2, Enqueued
  <2> QED BY <2>1, <2>2
<1>9. \A k \in Link : /\ newest'[k] = IF k \in G THEN m ELSE newest[k]
                      /\ joining'[k] = IF k = l THEN "joined" ELSE joining[k]
  BY <1>1, PublicationTyped
<1>10. TypeOK'
  <2>1. newest' \in [Link -> 0 .. published]
    BY <1>1, <1>5, PublicationTyped
  <2>2. joining' \in [Link -> {"absent", "validated", "listed", "joined", "refused"}]
    BY <1>1, PublicationTyped
  <2>3. PublicationTypeOK'
    BY <1>1, <1>8, <2>2, PublicationTyped DEF PublicationTypeOK
  <2> QED BY <1>1, <1>7, <2>1, <2>3 DEF TypeOK
<1>11. Waiting' = Waiting
  BY <1>1 DEF Waiting
<1>12. Ahead'
  <2>1. ASSUME NEW k \in links \cap Remote, NEW j \in Waiting PROVE newest'[k] < j
    <3>1. k \in Link /\ m < j /\ newest[k] < j
      BY <1>2, PublicationTyped DEF Ahead, m
    <3> QED BY <1>9, <3>1
  <2> QED BY <1>1, <1>2, <1>11, <2>1 DEF Ahead
<1>13. Uncopies'
  <2>1. \A k \in links \cap Local : newest'[k] = newest[k]
    BY <1>3, <1>4, <1>9, PublicationTyped
  <2> QED BY <1>1, <1>2, <1>11, <2>1 DEF Uncopies
<1>14. Joining'
  <2>1. \A k \in Remote : joining'[k] \in {"validated", "listed"} => batch = << >>
    BY <1>2, <1>9, PublicationTyped DEF Joining
  <2>2. \A k \in Link : joining'[k] = "absent" => ~connected[k]
    BY <1>2, <1>9 DEF Joining
  <2>3. \A k \in Link : joining'[k] = "validated" => connected[k]
    BY <1>2, <1>9 DEF Joining
  <2>4. \A k \in Local : joining'[k] \in {"joined", "refused"}
    BY <1>2, <1>9, PublicationTyped DEF Joining
  <2>5. \A k \in leaving : joining'[k] \in {"listed", "joined"}
    BY <1>2, <1>9, PublicationTyped DEF Joining
  <2>6. ASSUME NEW k \in links
        PROVE  /\ joining'[k] \in {"listed", "joined"}
               /\ ~dropped \/ joining'[k] = "listed" => connected[k]
    BY <1>2, <1>9, PublicationTyped DEF Joining
  <2> QED BY <1>1, <1>2, <1>8, <2>1, <2>2, <2>3, <2>4, <2>5, <2>6 DEF Joining
<1>15. Unjoined'
  <2>1. \A k \in Link : k # l /\ NothingSent(k) => NothingSent(k)'
    BY <1>4, <1>8 DEF NothingSent
  <2>2. \A k \in Link : k # l => newest'[k] = newest[k]
    BY <1>4, <1>9
  <2>3. \A k \in Local : NothingSent(k)'
    BY <1>2, <1>3, <2>1, PublicationTyped DEF Unjoined
  <2>4. ASSUME NEW k \in Remote, joining'[k] # "joined"
        PROVE  NothingSent(k)' /\ queue'[k] = << >> /\ newest'[k] = 0
    <3>1. k \in Link /\ k # l /\ joining[k] # "joined"
      BY <1>9, <2>4, PublicationTyped
    <3> QED BY <1>2, <1>7, <2>1, <2>2, <3>1 DEF Unjoined, svars
  <2> QED BY <2>3, <2>4 DEF Unjoined
<1>16. ASSUME NEW k \in Link PROVE InARow(k)' /\ Channel!LinkStep(k)
  <2>1. /\ wire'[k] = wire[k] /\ connected'[k] = connected[k] /\ got'[k] = got[k]
        /\ subscribed'[k] = subscribed[k] /\ queue'[k] = queue[k]
    BY <1>7, <1>8 DEF svars
  <2>2. CASE k \in G
    <3>1. k = l /\ k \in R /\ connected[k] /\ m \in Nat \ {0}
      BY <1>4, <1>5, <2>2
    <3>2. PICK starts \in BOOLEAN :
             /\ starts => writing[k] = 0
             /\ writing'[k] = IF starts THEN Head(Pushed(outbox[k], m, MaxQueue)) ELSE writing[k]
             /\ outbox'[k] = IF starts THEN Tail(Pushed(outbox[k], m, MaxQueue))
                             ELSE Pushed(outbox[k], m, MaxQueue)
      BY <1>8, <3>1
    <3>3. newest'[k] = m /\ newest[k] < m
      BY <1>6, <1>9, <2>2, <3>1
    <3> QED BY <2>1, <3>1, <3>2, <3>3, RemoteGiven
  <2>3. CASE k \notin R
    <3>1. newest'[k] = newest[k] /\ writing'[k] = writing[k] /\ outbox'[k] = outbox[k]
      BY <1>4, <1>8, <1>9, <2>3
    <3>2. LinkSame(k) /\ InARow(k)
      BY <2>1, <3>1 DEF OrderInv, LinkSame
    <3> QED BY <3>2, LinkKept
  <2>4. CASE k \in R /\ k \notin G
    <3>1. k = l /\ connected[k] = FALSE
      BY <1>4, <2>4, PublicationTyped
    <3>2. newest'[k] = newest[k]
      BY <1>9, <2>4
    <3>3. \A x, o : UnsentOf(x, o, FALSE) = {}
      BY DEF UnsentOf
    <3>4. Row(queue[k], wire[k], writing[k], outbox[k], FALSE, got[k], newest[k])
      BY <3>1 DEF OrderInv, InARow
    <3>5. /\ Row(queue[k], wire[k], writing'[k], outbox'[k], FALSE, got[k], newest[k])
          /\ WayOf(queue[k], wire[k], writing'[k], outbox'[k], FALSE)
                = WayOf(queue[k], wire[k], writing[k], outbox[k], FALSE)
      BY <3>3, <3>4 DEF Row, WayOf
    <3>6. InARow(k)' /\ OnItsWay(k)' = OnItsWay(k)
      BY <2>1, <3>1, <3>2, <3>5, RowBecomes, WayOfLink
    <3> QED BY <2>1, <3>2, <3>6, IsSwitch
  <2> QED BY <2>2, <2>3, <2>4
<1> QED BY <1>10, <1>12, <1>13, <1>14, <1>15, <1>16 DEF OrderInv, Kept

-----------------------------------------------------------------------------
LEMMA StartOrder == Start => OrderInv
<1> SUFFICES ASSUME NEW opts \in [latch : BOOLEAN, uncopied : BOOLEAN, bound : 0..MaxPublished],
                    NEW present \in SUBSET Local, NEW late \in SUBSET Remote,
                    Init(opts, present, late)
             PROVE  OrderInv
  BY DEF Start
<1>1. /\ options = opts /\ published = 0 /\ typed = {} /\ publishQueue = << >> /\ batch = << >>
      /\ links = present /\ leaving = {} /\ lastMessage = 0 /\ dropped = FALSE /\ swapped = FALSE
      /\ joining = [l \in Link |-> IF l \in present THEN "joined"
                                   ELSE IF l \in late THEN "absent" ELSE "refused"]
      /\ outbox = [l \in Link |-> << >>] /\ wire = [l \in Link |-> << >>]
      /\ headerWritten = [l \in Link |-> FALSE]
      /\ connected = [l \in Link |-> l \in present]
      /\ writing = [l \in Link |-> 0]
      /\ newest = [l \in Link |-> 0]
  BY DEF Init, PublicationInit
<1>2. /\ queue = [l \in Link |-> << >>] /\ scheduled = [l \in Link |-> 0]
      /\ spinning = [t \in Thread |-> Idle] /\ got = [l \in Link |-> 0]
      /\ subscribed = [l \in Link |-> "yes"]
  BY DEF Init, SubscriptionInit
<1>3. /\ ToSet(<< >>) = {} /\ Increasing(<< >>) /\ Len(<< >>) = 0
      /\ << >> \in Seq(Message) /\ << >> \in Seq(Nat \ {0})
  BY DEF ToSet, Increasing
<1>4. /\ MaxQueue \in Nat /\ MaxPublished \in Nat /\ SocketRoom \in Nat \ {0} /\ QueueSize \in Nat
      /\ Local \subseteq Link /\ Remote = Link \ Local
  BY PublicationAssumption, SubscriptionAssumption, LocalAssumption DEF Remote
<1>5. TypeOK
  <2>1. SubscriptionTypeOK
    BY <1>2, <1>3, <1>4, DoingWhat DEF SubscriptionTypeOK
  <2>2. /\ links \subseteq Link /\ lastMessage \in 0 .. published /\ published \in 0 .. MaxPublished
        /\ typed \subseteq 1 .. published
    BY <1>1, <1>4
  <2>3. joining \in [Link -> {"absent", "validated", "listed", "joined", "refused"}]
    BY <1>1
  <2>4. /\ outbox \in [Link -> Seq(Message)] /\ wire \in [Link -> Seq(Message)]
        /\ headerWritten \in [Link -> BOOLEAN] /\ connected \in [Link -> BOOLEAN]
        /\ writing \in [Link -> 0 .. MaxPublished]
        /\ newest \in [Link -> 0 .. published]
    BY <1>1, <1>3, <1>4
  <2>5. \A l \in Link : /\ MaxQueue > 0 => Len(outbox[l]) <= MaxQueue
                        /\ Len(wire[l]) <= SocketRoom
    BY <1>1, <1>3, <1>4
  <2>6. PublicationTypeOK
    BY <1>1, <1>3, <2>2, <2>3, <2>4, <2>5 DEF PublicationTypeOK
  <2> QED BY <2>1, <2>4, <2>6 DEF TypeOK
<1>6. Waiting = {}
  BY <1>1, <1>3 DEF Waiting
<1>7. Ahead
  BY <1>1, <1>3, <1>6 DEF Ahead, Before
<1>8. Uncopies
  BY <1>1, <1>4, <1>6 DEF Uncopies
<1>9. Joining
  <2>1. \A l \in links : joining[l] = "joined" /\ connected[l]
    BY <1>1, <1>4
  <2>2. \A l \in Local : joining[l] \in {"joined", "refused"}
    BY <1>1, <1>4
  <2>3. \A l \in Link : joining[l] = "absent" => ~connected[l]
    BY <1>1
  <2>4. \A l \in Link : joining[l] # "validated"
    BY <1>1
  <2> QED BY <1>1, <2>1, <2>2, <2>3, <2>4 DEF Joining
<1>10. Unjoined
  BY <1>1, <1>2, <1>4 DEF Unjoined, NothingSent
<1>11. ASSUME NEW l \in Link PROVE InARow(l)
  <2>1. /\ queue[l] = << >> /\ wire[l] = << >> /\ outbox[l] = << >> /\ writing[l] = 0
        /\ got[l] = 0 /\ newest[l] = 0
    BY <1>1, <1>2
  <2>2. UnsentOf(0, << >>, connected[l]) = {}
    BY <1>3 DEF UnsentOf
  <2>3. Row(<< >>, << >>, 0, << >>, connected[l], 0, 0)
    BY <1>3, <2>2 DEF Row, WayOf, Before
  <2> QED BY <2>1, <2>3 DEF InARow
<1> QED BY <1>5, <1>7, <1>8, <1>9, <1>10, <1>11 DEF OrderInv

LEMMA NextKeeps == ASSUME OrderInv, [Next]_vars PROVE Kept
<1>1. CASE PublishMessage  BY <1>1, PublishKeeps
<1>2. CASE HandOut  BY <1>2, HandOutKeeps
<1>3. ASSUME NEW l \in Link, Join(l) \/ Receive(l) PROVE Kept
  BY <1>3, JoinKeeps, ReceiveKeeps
<1>4. CASE PublicationOnly  BY <1>4, PublicationKeeps
<1>5. CASE SubscriptionOnly  BY <1>5, SubscriptionKeeps
<1>6. CASE UNCHANGED vars
  <2>1. UNCHANGED <<pvars, svars, newest>>
    BY <1>6 DEF vars
  <2>2. SubscriptionTypeOK'
    BY <2>1, SubscriptionTyped, SubscriptionTypes DEF svars
  <2> QED BY <2>1, <2>2, SubscriberQuiet DEF svars
<1> QED BY <1>1, <1>2, <1>3, <1>4, <1>5, <1>6 DEF Next

\* On every link, whatever waits at any of the places between publish() and the callback
\* is in the order of publication: newer than what was called, and not newer than what the
\* link was given last.
THEOREM MessagesStandInARow == Spec => []OrderInv
<1>1. OrderInv /\ [Next]_vars => OrderInv'
  BY NextKeeps DEF Kept
<1> QED BY <1>1, StartOrder, PTL DEF Spec

\* Every link is a TopicChannel: the queues, the socket and the threads between
\* publish() and the callback repeat no message, let none overtake another, and never
\* lose the newest of a link that is not cut.
THEOREM LinksAreChannels == Spec => ImplementsChannel
<1>1. Start => Channel!ChannelInit
  <2> SUFFICES ASSUME Start PROVE Channel!ChannelInit
    OBVIOUS
  <2>1. /\ newest = [l \in Link |-> 0] /\ got = [l \in Link |-> 0]
        /\ \A l \in Link : queue[l] = << >> /\ wire[l] = << >> /\ outbox[l] = << >> /\ writing[l] = 0
    BY DEF Start, Init, PublicationInit, SubscriptionInit
  <2>2. \A l \in Link : OnItsWay(l) = {}
    BY <2>1 DEF OnItsWay, Unsent, ToSet
  <2>3. [l \in Link |-> OnItsWay(l)] = [l \in Link |-> {}]
    BY <2>2
  <2>4. \A l \in Link : Gone(l) \in BOOLEAN
    BY DEF Gone
  <2>5. [l \in Link |-> Gone(l)] \in [Link -> BOOLEAN]
    BY <2>4
  <2> QED BY <2>1, <2>3, <2>5 DEF Channel!ChannelInit
<1>2. OrderInv /\ OrderInv' /\ [Next]_vars => [Channel!ChannelNext]_(Channel!cvars)
  <2> SUFFICES ASSUME OrderInv, OrderInv', [Next]_vars PROVE Channel!ChannelNext
    OBVIOUS
  <2>1. \A l \in Link : Channel!LinkStep(l)
    BY NextKeeps DEF Kept
  <2>2. newest' = [l \in Link |-> newest'[l]] /\ got' = [l \in Link |-> got'[l]]
    BY DEF OrderInv, TypeOK, SubscriptionTypeOK
  <2>3. /\ [l \in Link |-> OnItsWay(l)]' = [l \in Link |-> [k \in Link |-> OnItsWay(k)]'[l]]
        /\ [l \in Link |-> Gone(l)]' = [l \in Link |-> [k \in Link |-> Gone(k)]'[l]]
    OBVIOUS
  <2> QED BY <2>1, <2>2, <2>3 DEF Channel!ChannelNext
<1> QED BY <1>1, <1>2, MessagesStandInARow, PTL DEF Spec, ImplementsChannel, Channel!ChannelSpec

-----------------------------------------------------------------------------
(* What it is worth to be a TopicChannel: callbacks are called in the order of *)
(* publication, each message at most once, and on a link that is not cut the   *)
(* newest message is never the one that is lost.                               *)

OnWay == [l \in Link |-> OnItsWay(l)]

\* Everything that is on its way on a link was published after what was called
\* already, and not after the newest message.
ChannelOK(l) ==
    /\ newest[l] \in Nat /\ got[l] \in Nat
    /\ OnWay[l] \subseteq Nat
    /\ \A m \in OnWay[l] : got[l] < m /\ m <= newest[l]
    /\ got[l] <= newest[l]

ChannelInv == \A l \in Link : ChannelOK(l)

\* A step of a link keeps its part of the invariant, calls nothing that was
\* called before, and keeps the newest message unless the link is cut.
LEMMA LinkStepSafe ==
    ASSUME NEW l \in Link, ChannelOK(l), Channel!LinkStep(l)
    PROVE  /\ ChannelOK(l)'
           /\ got'[l] = got[l] \/ got'[l] > got[l]
           /\ Channel!KeepsNewest(l)
<1>1. CASE Channel!Send(l)
  BY <1>1 DEF ChannelOK, OnWay, Channel!Send, Channel!KeepsNewest, Channel!NewestKept
<1>2. CASE Channel!Lose(l)
  BY <1>2 DEF ChannelOK, OnWay, Channel!Lose, Channel!KeepsNewest, Channel!NewestKept
<1>3. CASE Channel!Deliver(l)
  BY <1>3 DEF ChannelOK, OnWay, Channel!Deliver, Channel!KeepsNewest, Channel!NewestKept
<1>4. CASE Channel!Switch(l)
  BY <1>4 DEF ChannelOK, OnWay, Channel!Switch, Channel!KeepsNewest, Channel!NewestKept
<1>5. CASE Channel!Same(l)
  BY <1>5 DEF ChannelOK, OnWay, Channel!Same, Channel!KeepsNewest, Channel!NewestKept
<1> QED BY <1>1, <1>2, <1>3, <1>4, <1>5 DEF Channel!LinkStep

LEMMA InitChannelInv == Channel!ChannelInit => ChannelInv
<1> SUFFICES ASSUME Channel!ChannelInit, NEW l \in Link PROVE ChannelOK(l)
  BY DEF ChannelInv
<1>1. newest[l] = 0 /\ got[l] = 0 /\ OnWay[l] = {}
  BY DEF Channel!ChannelInit, OnWay
<1> QED BY <1>1 DEF ChannelOK

LEMMA EveryLinkSteps ==
    ASSUME [Channel!ChannelNext]_(Channel!cvars), NEW l \in Link
    PROVE  Channel!LinkStep(l)
<1>1. CASE Channel!ChannelNext
  BY <1>1 DEF Channel!ChannelNext
<1>2. CASE UNCHANGED Channel!cvars
  BY <1>2 DEF Channel!cvars, Channel!LinkStep, Channel!Same
<1> QED BY <1>1, <1>2

\* Messages on their way lie between what was called and the newest.
THEOREM ChannelInvariant == Channel!ChannelSpec => []ChannelInv
<1>1. ChannelInv /\ [Channel!ChannelNext]_(Channel!cvars) => ChannelInv'
  BY LinkStepSafe, EveryLinkSteps DEF ChannelInv
<1> QED BY <1>1, InitChannelInv, PTL DEF Channel!ChannelSpec

\* Callbacks are called in the order of publication, none twice.
THEOREM ChannelInOrder == Channel!ChannelSpec => Channel!CalledInOrder
<1>1. ChannelInv /\ [Channel!ChannelNext]_(Channel!cvars)
        => [\A l \in Link : got'[l] = got[l] \/ got'[l] > got[l]]_(Channel!cvars)
  BY LinkStepSafe, EveryLinkSteps DEF ChannelInv
<1> QED BY <1>1, ChannelInvariant, PTL DEF Channel!ChannelSpec, Channel!CalledInOrder

\* While a link is not cut its newest message is on its way or was called.
THEOREM ChannelKeepsNewest == Channel!ChannelSpec => Channel!NeverLosesNewest
<1>1. ChannelInv /\ [Channel!ChannelNext]_(Channel!cvars)
        => [\A l \in Link : Channel!KeepsNewest(l)]_(Channel!cvars)
  BY LinkStepSafe, EveryLinkSteps DEF ChannelInv
<1> QED BY <1>1, ChannelInvariant, PTL DEF Channel!ChannelSpec, Channel!NeverLosesNewest

\* So this is what subscribers are promised: callbacks are called in the order of
\* publication, none twice, and the newest message is called or on its way while the
\* link stays open and subscribed.
THEOREM SubscribersAreServed == Spec => Channel!CalledInOrder /\ Channel!NeverLosesNewest
  BY LinksAreChannels, ChannelInOrder, ChannelKeepsNewest DEF ImplementsChannel

-----------------------------------------------------------------------------
(* What lies in a queue is scheduled, and who joined a latched topic has its last *)
(* message.                                                                       *)

Scheduled == EveryMessageScheduled /\ Cleared

Covered(l) == Len(queue[l]) <= scheduled[l] + Cardinality(ThreadsAt("taken", l))

LEMMA TakenCount ==
    ASSUME NEW l \in Link
    PROVE  /\ IsFiniteSet(ThreadsAt("taken", l)) /\ Cardinality(ThreadsAt("taken", l)) \in Nat
  BY SubscriptionAssumption, FS_Subset, FS_CardinalityType DEF ThreadsAt

LEMMA TakenGains ==
    ASSUME OrderInv, NEW t \in Thread, NEW l \in Link, NEW k \in Link,
           spinning[t] = Idle, spinning' = [spinning EXCEPT ![t] = At("taken", l)]
    PROVE  Cardinality(ThreadsAt("taken", k)') =
              IF k = l THEN Cardinality(ThreadsAt("taken", k)) + 1 ELSE Cardinality(ThreadsAt("taken", k))
<1>1. \A u \in Thread : spinning'[u] = IF u = t THEN At("taken", l) ELSE spinning[u]
  BY SubscriptionTyped
<1>2. /\ Idle # At("taken", k)
      /\ At("taken", l) = At("taken", k) <=> l = k
  BY DEF Idle, At
<1>3. t \notin ThreadsAt("taken", k)
  BY <1>2 DEF ThreadsAt
<1>4. ThreadsAt("taken", k)' = IF k = l THEN ThreadsAt("taken", k) \cup {t} ELSE ThreadsAt("taken", k)
  BY <1>1, <1>2, <1>3 DEF ThreadsAt
<1> QED BY <1>3, <1>4, TakenCount, FS_AddElement

LEMMA TakenLoses ==
    ASSUME OrderInv, NEW t \in Thread, NEW l \in Link, NEW k \in Link, NEW x \in {Idle, At("called", l)},
           t \in ThreadsAt("taken", l), spinning' = [spinning EXCEPT ![t] = x]
    PROVE  Cardinality(ThreadsAt("taken", k)') =
              IF k = l THEN Cardinality(ThreadsAt("taken", k)) - 1 ELSE Cardinality(ThreadsAt("taken", k))
<1>1. \A u \in Thread : spinning'[u] = IF u = t THEN x ELSE spinning[u]
  BY SubscriptionTyped
<1>2. /\ Idle # At("taken", k) /\ At("called", l) # At("taken", k)
      /\ At("taken", l) = At("taken", k) <=> l = k
  BY DEF Idle, At
<1>3. spinning[t] = At("taken", l)
  BY DEF ThreadsAt
<1>4. t \in ThreadsAt("taken", k) <=> k = l
  BY <1>2, <1>3 DEF ThreadsAt
<1>5. ThreadsAt("taken", k)' = IF k = l THEN ThreadsAt("taken", k) \ {t} ELSE ThreadsAt("taken", k)
  BY <1>1, <1>2, <1>4 DEF ThreadsAt
<1> QED BY <1>4, <1>5, TakenCount, FS_RemoveElement

\* Nobody begins or stops to hold an entry of another link than the returning thread's.
LEMMA TakenStays ==
    ASSUME OrderInv, NEW t \in Thread, NEW l \in Link, NEW k \in Link,
           t \in ThreadsAt("called", l), spinning' = [spinning EXCEPT ![t] = Idle]
    PROVE  ThreadsAt("taken", k)' = ThreadsAt("taken", k)
<1>1. \A u \in Thread : spinning'[u] = IF u = t THEN Idle ELSE spinning[u]
  BY SubscriptionTyped
<1>2. Idle # At("taken", k) /\ At("called", l) # At("taken", k)
  BY DEF Idle, At
<1> QED BY <1>1, <1>2 DEF ThreadsAt

\* A message that is queued is scheduled, unless it pushed out one that was.
LEMMA HandledScheduled ==
    ASSUME OrderInv, Scheduled, NEW ls \in SUBSET Link, NEW m \in Nat \ {0}, handleMessage(ls, m)
    PROVE  Scheduled'
<1>1. /\ spinning' = spinning /\ subscribed' = subscribed
      /\ \A l \in Link : queue'[l] = IF l \in ls /\ subscribed[l] = "yes"
                                     THEN Pushed(queue[l], m, QueueSize) ELSE queue[l]
      /\ \A l \in Link : scheduled'[l] =
            IF (l \in ls /\ subscribed[l] = "yes") /\ ~fullNoLock(queue[l], QueueSize)
            THEN scheduled[l] + 1 ELSE scheduled[l]
  BY DEF handleMessage, Schedule
<1>2. ASSUME NEW l \in Link PROVE Covered(l)'
  <2>1. ThreadsAt("taken", l)' = ThreadsAt("taken", l)
    BY <1>1 DEF ThreadsAt
  <2>2. /\ Len(queue[l]) <= scheduled[l] + Cardinality(ThreadsAt("taken", l))
        /\ queue[l] \in Seq(Nat \ {0}) /\ Len(queue[l]) \in Nat /\ scheduled[l] \in Nat
        /\ Cardinality(ThreadsAt("taken", l)) \in Nat
    BY SubscriptionTyped, TakenCount DEF Scheduled, EveryMessageScheduled
  <2>3. CASE l \in ls /\ subscribed[l] = "yes"
    <3>1. queue'[l] = Pushed(queue[l], m, QueueSize)
      BY <1>1, <2>3
    <3>2. Len(Pushed(queue[l], m, QueueSize))
             = IF fullNoLock(queue[l], QueueSize) THEN Len(queue[l]) ELSE Len(queue[l]) + 1
      <4> DEFINE S == Nat \ {0}
      <4>1. queue[l] \in Seq(S) /\ m \in S
        BY <2>2
      <4> HIDE DEF S
      <4> QED BY <4>1, PushedTypes, SubscriptionAssumption
    <3>3. scheduled'[l] = IF ~fullNoLock(queue[l], QueueSize) THEN scheduled[l] + 1 ELSE scheduled[l]
      BY <1>1, <2>3
    <3> QED BY <2>1, <2>2, <3>1, <3>2, <3>3 DEF Covered
  <2>4. CASE ~(l \in ls /\ subscribed[l] = "yes")
    <3>1. queue'[l] = queue[l] /\ scheduled'[l] = scheduled[l]
      BY <1>1, <2>4
    <3> QED BY <2>1, <2>2, <3>1 DEF Covered
  <2> QED BY <2>3, <2>4
<1>3. Cleared'
  BY <1>1 DEF Scheduled, Cleared
<1> QED BY <1>2, <1>3 DEF Scheduled, EveryMessageScheduled, Covered

LEMMA SpinScheduled ==
    ASSUME OrderInv, Scheduled, NEW t \in Thread, Spin(t)
    PROVE  Scheduled'
<1>1. /\ \A l \in Link : /\ Len(queue[l]) <= scheduled[l] + Cardinality(ThreadsAt("taken", l))
                         /\ queue[l] \in Seq(Nat \ {0}) /\ Len(queue[l]) \in Nat /\ scheduled[l] \in Nat
                         /\ Cardinality(ThreadsAt("taken", l)) \in Nat
                         /\ subscribed[l] \in {"cleared", "no"} => queue[l] = << >>
  BY SubscriptionTyped, TakenCount DEF Scheduled, EveryMessageScheduled, Cleared
<1>2. PICK l \in Link : \/ TakeEntry(t, l) \/ TryAgain(t, l) \/ Invalid(t, l)
                        \/ CallOldest(t, l) \/ Return(t, l)
  BY DEF Spin
<1>3. ASSUME NEW k \in Link PROVE Covered(k)'
  <2>1. CASE TakeEntry(t, l)
    <3>1. /\ queue' = queue /\ scheduled'[k] = IF k = l THEN scheduled[k] - 1 ELSE scheduled[k]
          /\ scheduled[l] > 0
      BY <2>1, SubscriptionTyped DEF TakeEntry
    <3>2. Cardinality(ThreadsAt("taken", k)') =
             IF k = l THEN Cardinality(ThreadsAt("taken", k)) + 1 ELSE Cardinality(ThreadsAt("taken", k))
      BY <2>1, TakenGains DEF TakeEntry
    <3> QED BY <1>1, <3>1, <3>2 DEF Covered
  <2>2. CASE TryAgain(t, l)
    <3>1. queue' = queue /\ scheduled'[k] = IF k = l THEN scheduled[k] + 1 ELSE scheduled[k]
      BY <2>2, SubscriptionTyped DEF TryAgain
    <3>2. Cardinality(ThreadsAt("taken", k)') =
             IF k = l THEN Cardinality(ThreadsAt("taken", k)) - 1 ELSE Cardinality(ThreadsAt("taken", k))
      BY <2>2, TakenLoses DEF TryAgain
    <3> QED BY <1>1, <3>1, <3>2 DEF Covered
  <2>3. CASE Invalid(t, l)
    <3>1. queue' = queue /\ scheduled' = scheduled /\ queue[l] = << >>
      BY <2>3 DEF Invalid
    <3>2. Cardinality(ThreadsAt("taken", k)') =
             IF k = l THEN Cardinality(ThreadsAt("taken", k)) - 1 ELSE Cardinality(ThreadsAt("taken", k))
      BY <2>3, TakenLoses DEF Invalid
    <3>3. l = k => Len(queue[k]) = 0 /\ Cardinality(ThreadsAt("taken", k)) > 0
      <4>1. t \in ThreadsAt("taken", l)
        BY <2>3 DEF Invalid
      <4>2. Cardinality(ThreadsAt("taken", l)') \in Nat
        BY SubscriptionAssumption, FS_Subset, FS_CardinalityType DEF ThreadsAt
      <4> QED BY <1>1, <3>1, <3>2, <4>1, <4>2
    <3> QED BY <1>1, <3>1, <3>2, <3>3 DEF Covered
  <2>4. CASE CallOldest(t, l)
    <3>1. /\ queue[l] # << >> /\ queue'[k] = IF k = l THEN Tail(queue[k]) ELSE queue[k]
          /\ scheduled' = scheduled
      BY <2>4, SubscriptionTyped DEF CallOldest
    <3>2. Cardinality(ThreadsAt("taken", k)') =
             IF k = l THEN Cardinality(ThreadsAt("taken", k)) - 1 ELSE Cardinality(ThreadsAt("taken", k))
      BY <2>4, TakenLoses DEF CallOldest
    <3>3. Len(Tail(queue[l])) = Len(queue[l]) - 1
      BY <1>1, <3>1, HeadTailProperties
    <3> QED BY <1>1, <3>1, <3>2, <3>3 DEF Covered
  <2>5. CASE Return(t, l)
    <3>1. queue' = queue /\ scheduled' = scheduled
      BY <2>5 DEF Return
    <3>2. ThreadsAt("taken", k)' = ThreadsAt("taken", k)
      BY <2>5, TakenStays DEF Return
    <3> QED BY <1>1, <3>1, <3>2 DEF Covered
  <2> QED BY <1>2, <2>1, <2>2, <2>3, <2>4, <2>5
<1>4. Cleared'
  <2>1. subscribed' = subscribed
    BY <1>2 DEF TakeEntry, TryAgain, Invalid, CallOldest, Return
  <2>2. \A k \in Link : queue[k] = << >> => queue'[k] = << >>
    BY <1>2, SubscriptionTyped DEF TakeEntry, TryAgain, Invalid, CallOldest, Return
  <2> QED BY <1>1, <2>1, <2>2 DEF Cleared
<1> QED BY <1>3, <1>4 DEF Scheduled, EveryMessageScheduled, Covered

LEMMA RemoveScheduled ==
    ASSUME OrderInv, Scheduled, NEW l \in Link, removeCallback(l)
    PROVE  Scheduled'
<1>1. /\ \A k \in Link : /\ Len(queue[k]) <= scheduled[k] + Cardinality(ThreadsAt("taken", k))
                         /\ queue[k] \in Seq(Nat \ {0}) /\ Len(queue[k]) \in Nat /\ scheduled[k] \in Nat
                         /\ Cardinality(ThreadsAt("taken", k)) \in Nat
                         /\ subscribed[k] \in {"cleared", "no"} => queue[k] = << >>
  BY SubscriptionTyped, TakenCount DEF Scheduled, EveryMessageScheduled, Cleared
<1>2. \A k \in Link : ThreadsAt("taken", k)' = ThreadsAt("taken", k)
  BY DEF removeCallback, RemoveCallback, ClearQueue, RemoveEntries, ThreadsAt
<1>3. Len(<< >>) = 0
  OBVIOUS
<1>4. CASE RemoveCallback(l)
  <2>1. /\ queue' = queue /\ scheduled' = scheduled
        /\ \A k \in Link : subscribed'[k] = IF k = l THEN "removing" ELSE subscribed[k]
    BY <1>4, SubscriptionTyped DEF RemoveCallback
  <2> QED BY <1>1, <1>2, <2>1 DEF Scheduled, EveryMessageScheduled, Cleared
<1>5. CASE ClearQueue(l)
  <2>1. /\ scheduled' = scheduled
        /\ \A k \in Link : /\ queue'[k] = IF k = l THEN << >> ELSE queue[k]
                           /\ subscribed'[k] = IF k = l THEN "cleared" ELSE subscribed[k]
    BY <1>5, SubscriptionTyped DEF ClearQueue
  <2>2. Cleared'
    BY <1>1, <2>1 DEF Cleared
  <2>3. ASSUME NEW k \in Link PROVE Covered(k)'
    <3>1. CASE k = l
      <4>1. Len(queue'[k]) = 0 /\ scheduled'[k] = scheduled[k]
        BY <1>3, <2>1, <3>1
      <4> QED BY <1>1, <1>2, <4>1 DEF Covered
    <3>2. CASE k # l
      <4>1. queue'[k] = queue[k] /\ scheduled'[k] = scheduled[k]
        BY <2>1, <3>2
      <4> QED BY <1>1, <1>2, <4>1 DEF Covered
    <3> QED BY <3>1, <3>2
  <2> QED BY <2>2, <2>3 DEF Scheduled, EveryMessageScheduled, Covered
<1>6. CASE RemoveEntries(l)
  <2>1. /\ queue' = queue /\ subscribed[l] = "cleared"
        /\ \A k \in Link : /\ scheduled'[k] = IF k = l THEN 0 ELSE scheduled[k]
                           /\ subscribed'[k] = IF k = l THEN "no" ELSE subscribed[k]
    BY <1>6, SubscriptionTyped DEF RemoveEntries
  <2>2. Cleared'
    BY <1>1, <2>1 DEF Cleared
  <2>3. ASSUME NEW k \in Link PROVE Covered(k)'
    <3>1. CASE k = l
      <4>1. queue'[k] = << >> /\ scheduled'[k] = 0
        BY <1>1, <2>1, <3>1
      <4>2. Len(queue'[k]) = 0
        BY <1>3, <4>1
      <4> QED BY <1>1, <1>2, <4>1, <4>2 DEF Covered
    <3>2. CASE k # l
      <4>1. queue'[k] = queue[k] /\ scheduled'[k] = scheduled[k]
        BY <2>1, <3>2
      <4> QED BY <1>1, <1>2, <4>1 DEF Covered
    <3> QED BY <3>1, <3>2
  <2> QED BY <2>2, <2>3 DEF Scheduled, EveryMessageScheduled, Covered
<1> QED BY <1>4, <1>5, <1>6 DEF removeCallback

JoinersHaveLast == \A l \in links : options.latch /\ joining[l] = "joined" => newest[l] >= lastMessage

LEMMA QuietForJoiners ==
    ASSUME JoinersHaveLast, UNCHANGED <<options, lastMessage, newest>>,
           \A l \in links' : joining'[l] = "joined" => l \in links /\ joining[l] = "joined"
    PROVE  JoinersHaveLast'
  BY DEF JoinersHaveLast

LEMMA JoinersKeepLast ==
    ASSUME OrderInv, JoinersHaveLast, [Next]_vars
    PROVE  JoinersHaveLast'
<1>1. /\ published \in Nat /\ lastMessage \in Nat /\ lastMessage <= published
      /\ links \subseteq Link /\ \A l \in Link : newest[l] \in Nat
  BY PublicationTyped
<1>2. \A l \in links : options.latch /\ joining[l] = "joined" => newest[l] >= lastMessage
  BY DEF JoinersHaveLast
<1>3. CASE PublishMessage
  <2>1. /\ published' = published + 1
        /\ UNCHANGED <<options, links, joining, lastMessage>>
        /\ newest' = [l \in Link |-> IF l \in Uncopied THEN published + 1 ELSE newest[l]]
    BY <1>3 DEF PublishMessage, Publish, Give
  <2>2. \A l \in links : newest'[l] = newest[l] \/ newest'[l] >= lastMessage
    BY <1>1, <2>1
  <2> QED BY <1>2, <2>1, <2>2 DEF JoinersHaveLast
<1>4. CASE HandOut
  <2> DEFINE m == Head(batch)
             R == links \cap Remote
             L == ToLocal(m)
  <2>1. /\ batch # << >>
        /\ options.latch => lastMessage' = m
        /\ UNCHANGED <<options, links, joining>>
        /\ newest' = [l \in Link |-> IF l \in R \cup L THEN m ELSE newest[l]]
    BY <1>4 DEF HandOut, EnqueueMessage, Give, Latched
  <2>2. m \in Nat /\ m <= published
    <3>1. batch \in Seq(Message)
      BY PublicationTyped
    <3>2. m \in Waiting
      BY <2>1, <3>1, ElementsOf DEF Waiting
    <3> QED BY <3>2, WaitingTyped DEF OrderInv, Ahead
  <2>3. ASSUME NEW l \in links, l \notin R \cup L PROVE newest[l] >= m
    <3>1. l \in links \cap Local /\ m \in typed
      BY <1>1, <2>3, PublicationTyped DEF ToLocal
    <3>2. options.uncopied
      BY <3>1 DEF OrderInv, Uncopies
    <3>3. newest[l] = published
      BY <3>1, <3>2 DEF OrderInv, Uncopies
    <3> QED BY <1>1, <2>2, <3>3
  <2> HIDE DEF m, R, L
  <2>4. \A l \in links : newest'[l] >= m
    <3>1. m >= m
      BY <2>2
    <3>2. \A l \in links : newest'[l] = IF l \in R \cup L THEN m ELSE newest[l]
      BY <1>1, <2>1
    <3> QED BY <2>3, <3>1, <3>2
  <2> QED BY <2>1, <2>4 DEF JoinersHaveLast
<1>5. ASSUME NEW l \in Link, Join(l) PROVE JoinersHaveLast'
  <2> DEFINE G == {k \in ToJoiner(l) : connected[k]}
  <2>1. /\ joining[l] = "listed" /\ joining' = [joining EXCEPT ![l] = "joined"]
        /\ UNCHANGED <<links, options, lastMessage>>
        /\ newest' = [k \in Link |-> IF k \in G THEN lastMessage ELSE newest[k]]
    BY <1>5 DEF Join, SendLatched, Give, publisherVars
  <2>2. l \in links => connected[l]
    BY <2>1 DEF OrderInv, Joining
  <2>3. G \subseteq {l} /\ (options.latch /\ lastMessage # 0 /\ l \in links => l \in G)
    BY <2>2 DEF ToJoiner
  <2> HIDE DEF G
  <2>4. ASSUME NEW k \in links, options.latch, joining'[k] = "joined" PROVE newest'[k] >= lastMessage
    <3>1. newest'[k] = IF k \in G THEN lastMessage ELSE newest[k]
      BY <1>1, <2>1
    <3>2. CASE k = l
      <4>1. k \in G \/ lastMessage = 0
        BY <2>3, <2>4, <3>2
      <4>2. newest[k] \in Nat
        BY <1>1
      <4> QED BY <1>1, <3>1, <4>1, <4>2
    <3>3. CASE k # l
      <4>1. newest'[k] = newest[k] /\ joining[k] = "joined"
        BY <1>1, <2>1, <2>3, <2>4, <3>1, <3>3, PublicationTyped
      <4> QED BY <1>2, <2>4, <4>1
    <3> QED BY <3>2, <3>3
  <2> QED BY <2>1, <2>4 DEF JoinersHaveLast
<1>6. ASSUME NEW l \in Link, Receive(l) PROVE JoinersHaveLast'
  BY <1>6, QuietForJoiners DEF Receive, publisherVars
<1>7. CASE PublicationOnly
  <2>1. UNCHANGED newest
    BY <1>7 DEF PublicationOnly
  <2>2. CASE TakeBatch \/ Drop
    BY <2>1, <2>2, QuietForJoiners DEF TakeBatch, Drop, publisherVars
  <2>3. CASE SwapLinks
    BY <2>1, <2>3, QuietForJoiners DEF SwapLinks, publisherVars
  <2>4. ASSUME NEW l \in Link, AcceptHeader(l) PROVE JoinersHaveLast'
    <3>1. /\ UNCHANGED <<links, options, lastMessage>>
          /\ \A k \in Link : joining'[k] = IF k = l THEN "validated" ELSE joining[k]
      BY <2>4, PublicationTyped DEF AcceptHeader, publisherVars
    <3> QED BY <1>1, <2>1, <3>1, QuietForJoiners
  <2>5. ASSUME NEW l \in Link, ListLink(l) PROVE JoinersHaveLast'
    <3>1. /\ UNCHANGED <<options, lastMessage>>
          /\ links' \subseteq links \cup {l} /\ joining'[l] # "joined"
          /\ \A k \in Link : k # l => joining'[k] = joining[k]
      BY <2>5, PublicationTyped DEF ListLink, publisherVars
    <3> QED BY <1>1, <2>1, <3>1, QuietForJoiners
  <2>6. ASSUME NEW l \in Link, WriteHeader(l) \/ WriteMessage(l) PROVE JoinersHaveLast'
    BY <2>1, <2>6, QuietForJoiners DEF WriteHeader, WriteMessage, publisherVars
  <2>7. ASSUME NEW l \in Link, ConnectionLost(l) \/ DropLink(l) PROVE JoinersHaveLast'
    <3>1. UNCHANGED <<options, lastMessage, joining>> /\ links' \subseteq links
      BY <2>7 DEF ConnectionLost, DropLink, publisherVars
    <3> QED BY <2>1, <3>1, QuietForJoiners
  <2> QED BY <1>7, <2>2, <2>3, <2>4, <2>5, <2>6, <2>7 DEF PublicationOnly
<1>8. CASE SubscriptionOnly \/ UNCHANGED vars
  <2>1. UNCHANGED <<options, lastMessage, newest, links, joining>>
    BY <1>8 DEF SubscriptionOnly, vars, pvars
  <2> QED BY <2>1, QuietForJoiners
<1> QED BY <1>3, <1>4, <1>5, <1>6, <1>7, <1>8 DEF Next

\* handleMessage queues a message that is a number.
LEMMA ScheduledKept ==
    ASSUME OrderInv, Scheduled, [Next]_vars
    PROVE  Scheduled'
<1>1. ASSUME UNCHANGED svars PROVE Scheduled'
  BY <1>1 DEF svars, Scheduled, EveryMessageScheduled, Cleared, ThreadsAt
<1>2. CASE PublishMessage
  <2>1. handleMessage(Uncopied \cap Local, published + 1)
    BY <1>2 DEF PublishMessage, Publish, Give
  <2>2. published + 1 \in Nat \ {0} /\ Uncopied \cap Local \in SUBSET Link
    BY PublicationTyped
  <2> QED BY <2>1, <2>2, HandledScheduled
<1>3. CASE HandOut
  <2> DEFINE ls == ((links \cap Remote) \cup ToLocal(Head(batch))) \cap Local
  <2>1. batch # << >> /\ handleMessage(ls, Head(batch))
    BY <1>3 DEF HandOut, EnqueueMessage, Give
  <2>2. Head(batch) \in Nat \ {0}
    <3>1. Head(batch) \in Waiting
      BY <2>1, PublicationTyped, ElementsOf DEF Waiting
    <3> QED BY <3>1, WaitingTyped
  <2>3. ls \in SUBSET Link
    BY PublicationTyped
  <2> HIDE DEF ls
  <2> QED BY <2>1, <2>2, <2>3, HandledScheduled
<1>4. ASSUME NEW l \in Link, Join(l) PROVE Scheduled'
  <2> DEFINE ls == {k \in ToJoiner(l) : connected[k]} \cap Local
  <2>1. handleMessage(ls, lastMessage)
    BY <1>4 DEF Join, Give
  <2>2. ls \in SUBSET Link
    BY PublicationTyped
  <2>3. CASE lastMessage # 0
    <3>1. lastMessage \in Nat \ {0}
      BY <2>3, PublicationTyped
    <3> HIDE DEF ls
    <3> QED BY <2>1, <2>2, <3>1, HandledScheduled
  <2>4. CASE lastMessage = 0
    <3>1. ls = {}
      BY <2>4 DEF ToJoiner
    <3>2. /\ UNCHANGED <<spinning, got, subscribed>>
          /\ queue' = [k \in Link |-> queue[k]] /\ scheduled' = [k \in Link |-> scheduled[k]]
      BY <2>1, <3>1 DEF handleMessage, Schedule
    <3>3. queue' = queue /\ scheduled' = scheduled
      BY <3>2, SubscriptionTyped
    <3> QED BY <1>1, <3>2, <3>3 DEF svars
  <2> QED BY <2>3, <2>4
<1>5. ASSUME NEW l \in Link, Receive(l) PROVE Scheduled'
  <2>1. wire[l] # << >> /\ handleMessage({l}, Head(wire[l]))
    BY <1>5 DEF Receive
  <2>2. Head(wire[l]) \in Nat \ {0}
    <3>1. wire[l] \in Seq(Message)
      BY PublicationTyped
    <3>2. Head(wire[l]) \in Message
      BY <2>1, <3>1, HeadTailProperties
    <3> QED BY <3>2, MessagesAreNumbers
  <2> QED BY <2>1, <2>2, HandledScheduled
<1>6. CASE PublicationOnly
  BY <1>1, <1>6 DEF PublicationOnly
<1>7. CASE SubscriptionOnly
  BY <1>7, SpinScheduled, RemoveScheduled DEF SubscriptionOnly
<1>8. CASE UNCHANGED vars
  BY <1>1, <1>8 DEF vars, svars
<1> QED BY <1>2, <1>3, <1>4, <1>5, <1>6, <1>7, <1>8 DEF Next

LEMMA StartScheduled == Start => Scheduled /\ JoinersHaveLast
<1> SUFFICES ASSUME Start PROVE Scheduled /\ JoinersHaveLast
  OBVIOUS
<1>1. /\ lastMessage = 0 /\ newest = [l \in Link |-> 0] /\ links \subseteq Link
      /\ queue = [l \in Link |-> << >>] /\ scheduled = [l \in Link |-> 0]
  BY LocalAssumption DEF Start, Init, PublicationInit, SubscriptionInit
<1>2. Len(<< >>) = 0
  OBVIOUS
<1>3. ASSUME NEW l \in Link PROVE Covered(l)
  <2>1. Len(queue[l]) = 0 /\ scheduled[l] = 0 /\ Cardinality(ThreadsAt("taken", l)) \in Nat
    BY <1>1, <1>2, TakenCount
  <2> QED BY <2>1 DEF Covered
<1> QED BY <1>1, <1>3 DEF Scheduled, EveryMessageScheduled, Covered, Cleared, JoinersHaveLast

\* A subscriber that has connected to a latched topic was given the last message, and no
\* message lies in a queue without an entry of the callback queue that will call it.
THEOREM AlwaysGivenAndScheduled == Spec => []GivenAndScheduled
<1> DEFINE IInv == OrderInv /\ Scheduled /\ JoinersHaveLast
<1>1. Start => IInv
  BY StartOrder, StartScheduled
<1>2. IInv /\ [Next]_vars => IInv'
  BY NextKeeps, ScheduledKept, JoinersKeepLast DEF Kept
<1>3. IInv => GivenAndScheduled
  BY DEF OrderInv, Scheduled, JoinersHaveLast, GivenAndScheduled
<1> QED BY <1>1, <1>2, <1>3, PTL DEF Spec
=============================================================================
