-------------------------- MODULE CallbackQueueProofs --------------------------
(***************************************************************************)
(* InOnePlace of CallbackQueue, for any number of threads, callbacks and   *)
(* owners, any nesting of the calls and whoever calls what.                *)
(*                                                                         *)
(* A step changes one frame of one thread (OnlyFrame).  The invariant says *)
(* therefore of every frame what it says of the topmost: which fields are  *)
(* set at which place (Shape); that queue, lists and calls hold different  *)
(* callbacks, whose fate tells where they are (QueueInv, HeldInv, RunInv); *)
(* that calling_ counts what is held or running, and what a frame still    *)
(* has to take off (CountInv); and whose the shared locks are.             *)
(***************************************************************************)
EXTENDS CallbackQueue, FilterProofs, TLAPS

Removing == {"rm_lock", "rm_wait", "rm_relock", "rm_forget"}

\* What holds of the frame at each place.
FrameOK(f, list) ==
  /\ f.pc \in {"add_info", "calling"} => f.cb \in Callbacks
  /\ f.pc \in Removing \union {"call_lock", "calling"} => f.obj \in Objects
  /\ f.pc \in Removing => f.id \in Ids
  /\ f.pc \in {"call_head", "call_lock"} => list # <<>>
  /\ f.unlocked => f.pc \in Removing
  /\ f.pc = "rm_relock" => f.unlocked
  /\ f.pc \in Removing \union {"add_info"} => f.called = 0

Has(t, i) == i \in 1 .. Len(stack[t])
Shape ==
  \A t \in Threads :
    /\ Len(stack[t]) <= MaxDepth
    /\ \A i \in 1 .. Len(stack[t]) :
         /\ FrameOK(stack[t][i], tls[t])
         /\ i < Len(stack[t]) => stack[t][i].pc = "calling"

\* Each callback makes at most one IDInfo: when its addCallback is over.
Adding(t, i, c) == Has(t, i) /\ stack[t][i].pc = "add_info" /\ stack[t][i].cb = c
InfoInv ==
  /\ objects <= Cardinality(added)
  /\ \A c \in added : fate[c] # "new"
  /\ \A t \in Threads, i \in 1 .. MaxDepth, c \in Callbacks :
       Adding(t, i, c) =>
         /\ fate[c] # "new" /\ c \notin added
         /\ \A u \in Threads, j \in 1 .. MaxDepth : Adding(u, j, c) => u = t

Distinct(s) == \A i, j \in 1 .. Len(s) : i < j => s[i] # s[j]
QueueInv ==
  /\ Distinct(callbacks)
  /\ \A c \in Callbacks : fate[c] = "queued" <=> \E i \in 1 .. Len(callbacks) : callbacks[i] = c

Holds(t, i, c) == i \in 1 .. Len(tls[t]) /\ tls[t][i].cb = c
HeldInv ==
  /\ \A t, u \in Threads, i, j \in Nat, c \in Callbacks :
       Holds(t, i, c) /\ Holds(u, j, c) => t = u /\ i = j
  /\ \A c \in Callbacks : fate[c] = "held" <=> \E t \in Threads, i \in Nat : Holds(t, i, c)

In(t, i) == Has(t, i) /\ stack[t][i].pc = "calling"
Runs(t, i, c) == In(t, i) /\ stack[t][i].cb = c
RunInv ==
  /\ \A t, u \in Threads, i, j \in Nat, c \in Callbacks :
       Runs(t, i, c) /\ Runs(u, j, c) => t = u /\ i = j
  /\ \A c \in Callbacks : fate[c] = "running" <=> \E t \in Threads, i \in Nat : Runs(t, i, c)

\* What the frames have counted but not yet taken off calling_, and what is not yet over.
Counts(t, i, k) == Has(t, i) /\ k \in 1 .. stack[t][i].called
Counted == {p \in Threads \X Nat \X Nat : Counts(p[1], p[2], p[3])}
Busy == {c \in Callbacks : fate[c] \in {"held", "running"}}
CountInv == IsFiniteSet(Counted) /\ Cardinality(Counted) + Cardinality(Busy) <= calling

\* A removal knows only callbacks that have been added.
VictimInv == \A t \in Threads, i \in Nat : Has(t, i) => stack[t][i].victims \subseteq added

IInv == /\ TypeOK /\ Shape /\ InfoInv /\ VictimInv /\ QueueInv /\ HeldInv /\ RunInv /\ CountInv
        /\ SharedLocks

-----------------------------------------------------------------------------
(* The steps on a stack: each changes one frame. *)

OnlyFrame(t, k) ==
  /\ k \in Nat \ {0}
  /\ \A u \in Threads, i \in Nat :
       (u # t \/ i # k) => /\ Has(u, i)' <=> Has(u, i)
                           /\ Has(u, i) => stack'[u][i] = stack[u][i]
  /\ Len(stack[t]) = k \/ Len(stack'[t]) = k
  /\ Len(stack[t]) \in {k - 1, k} /\ Len(stack'[t]) \in {k - 1, k}

LEMMA Pushes ==
  ASSUME TypeOK, NEW t \in Threads, NEW f \in Frame, Push(t, f), NEW k, k = Len(stack[t]) + 1
  PROVE  /\ OnlyFrame(t, k) /\ stack' \in [Threads -> Seq(Frame)]
         /\ ~ Has(t, k) /\ Has(t, k)' /\ Len(stack'[t]) = k /\ stack'[t][k] = f
<1>1. stack \in [Threads -> Seq(Frame)] /\ stack' = [stack EXCEPT ![t] = Append(stack[t], f)]
  BY DEF TypeOK, Push
<1>2. stack[t] \in Seq(Frame) /\ Len(stack[t]) \in Nat /\ k \in Nat \ {0} /\ k - 1 = Len(stack[t])
  BY <1>1
<1>3. /\ Append(stack[t], f) \in Seq(Frame) /\ Len(Append(stack[t], f)) = k
      /\ \A i \in 1 .. k - 1 : Append(stack[t], f)[i] = stack[t][i]
      /\ Append(stack[t], f)[k] = f
  BY <1>2, AppendProperties
<1>4. stack'[t] = Append(stack[t], f) /\ \A u \in Threads : u # t => stack'[u] = stack[u]
  BY <1>1
<1>5. stack' \in [Threads -> Seq(Frame)]
  BY <1>1, <1>3
<1>6. ASSUME NEW u \in Threads, NEW i \in Nat, u # t \/ i # k
      PROVE  /\ Has(u, i)' <=> Has(u, i)
             /\ Has(u, i) => stack'[u][i] = stack[u][i]
  <2>1. CASE u # t
    BY <1>4, <2>1 DEF Has
  <2>2. CASE u = t /\ i # k
    BY <1>2, <1>3, <1>4, <2>2 DEF Has
  <2> QED BY <1>6, <2>1, <2>2
<1> QED BY <1>2, <1>3, <1>4, <1>5, <1>6 DEF OnlyFrame, Has

LEMMA Becomes ==
  ASSUME TypeOK, NEW t \in Threads, NEW f \in Frame, stack[t] # <<>>, Become(t, f),
         NEW k, k = Len(stack[t])
  PROVE  /\ OnlyFrame(t, k) /\ stack' \in [Threads -> Seq(Frame)]
         /\ Has(t, k) /\ Has(t, k)' /\ Len(stack'[t]) = k /\ stack'[t][k] = f
         /\ stack[t][k] = Top(t) /\ Top(t) \in Frame
<1>1. stack \in [Threads -> Seq(Frame)] /\ stack' = [stack EXCEPT ![t] = Append(Front(stack[t]), f)]
  BY DEF TypeOK, Become
<1>2. stack[t] \in Seq(Frame) /\ Len(stack[t]) \in Nat /\ k \in Nat \ {0}
  BY <1>1, EmptySeq
<1>3. /\ Front(stack[t]) \in Seq(Frame) /\ Len(Front(stack[t])) = k - 1
      /\ \A i \in 1 .. k - 1 : Front(stack[t])[i] = stack[t][i]
  BY <1>2, SubSeqProperties DEF Front
<1>4. /\ Append(Front(stack[t]), f) \in Seq(Frame) /\ Len(Append(Front(stack[t]), f)) = k
      /\ \A i \in 1 .. k - 1 : Append(Front(stack[t]), f)[i] = stack[t][i]
      /\ Append(Front(stack[t]), f)[k] = f
  <2>1. k - 1 + 1 = k
    BY <1>2
  <2> QED BY <1>3, <2>1, AppendProperties
<1>5. stack'[t] = Append(Front(stack[t]), f) /\ \A u \in Threads : u # t => stack'[u] = stack[u]
  BY <1>1
<1>6. stack' \in [Threads -> Seq(Frame)]
  BY <1>1, <1>4
<1>7. ASSUME NEW u \in Threads, NEW i \in Nat, u # t \/ i # k
      PROVE  /\ Has(u, i)' <=> Has(u, i)
             /\ Has(u, i) => stack'[u][i] = stack[u][i]
  <2>1. CASE u # t
    BY <1>5, <2>1 DEF Has
  <2>2. CASE u = t /\ i # k
    BY <1>2, <1>4, <1>5, <2>2 DEF Has
  <2> QED BY <1>7, <2>1, <2>2
<1>8. stack[t][k] = Top(t) /\ Top(t) \in Frame
  BY <1>2, ElementOfSeq DEF Top, Last
<1> QED BY <1>2, <1>4, <1>5, <1>6, <1>7, <1>8 DEF OnlyFrame, Has

LEMMA Returns ==
  ASSUME TypeOK, NEW t \in Threads, stack[t] # <<>>, Return(t), NEW k, k = Len(stack[t])
  PROVE  /\ OnlyFrame(t, k) /\ stack' \in [Threads -> Seq(Frame)]
         /\ Has(t, k) /\ ~ Has(t, k)' /\ Len(stack'[t]) = k - 1
         /\ stack[t][k] = Top(t) /\ Top(t) \in Frame
<1>1. stack \in [Threads -> Seq(Frame)] /\ stack' = [stack EXCEPT ![t] = Front(stack[t])]
  BY DEF TypeOK, Return
<1>2. stack[t] \in Seq(Frame) /\ Len(stack[t]) \in Nat /\ k \in Nat \ {0}
  BY <1>1, EmptySeq
<1>3. /\ Front(stack[t]) \in Seq(Frame) /\ Len(Front(stack[t])) = k - 1
      /\ \A i \in 1 .. k - 1 : Front(stack[t])[i] = stack[t][i]
  BY <1>2, SubSeqProperties DEF Front
<1>5. stack'[t] = Front(stack[t]) /\ \A u \in Threads : u # t => stack'[u] = stack[u]
  BY <1>1
<1>6. stack' \in [Threads -> Seq(Frame)]
  BY <1>1, <1>3
<1>7. ASSUME NEW u \in Threads, NEW i \in Nat, u # t \/ i # k
      PROVE  /\ Has(u, i)' <=> Has(u, i)
             /\ Has(u, i) => stack'[u][i] = stack[u][i]
  <2>1. CASE u # t
    BY <1>5, <2>1 DEF Has
  <2>2. CASE u = t /\ i # k
    BY <1>2, <1>3, <1>5, <2>2 DEF Has
  <2> QED BY <1>7, <2>1, <2>2
<1>8. stack[t][k] = Top(t) /\ Top(t) \in Frame
  BY <1>2, ElementOfSeq DEF Top, Last
<1> QED BY <1>2, <1>3, <1>5, <1>6, <1>7, <1>8 DEF OnlyFrame, Has

-----------------------------------------------------------------------------
(* What follows for the calls, the locks and the counts. *)

\* Frames of stacks other than the one that changes are as they were.
LEMMA OtherFrames ==
  ASSUME NEW t \in Threads, NEW k, OnlyFrame(t, k), NEW u \in Threads, NEW i \in Nat, u # t \/ i # k
  PROVE  /\ In(u, i)' <=> In(u, i)
         /\ In(u, i) => stack'[u][i] = stack[u][i]
         /\ \A c : Runs(u, i, c)' <=> Runs(u, i, c)
         /\ \A n : Counts(u, i, n)' <=> Counts(u, i, n)
<1>1. /\ Has(u, i)' <=> Has(u, i)
      /\ Has(u, i) => stack'[u][i] = stack[u][i]
  BY DEF OnlyFrame
<1>2. /\ In(u, i)' <=> In(u, i)
      /\ In(u, i) => stack'[u][i] = stack[u][i]
  BY <1>1 DEF In
<1>3. \A c : Runs(u, i, c)' <=> Runs(u, i, c)
  BY <1>2 DEF Runs
<1>4. \A n : Counts(u, i, n)' <=> Counts(u, i, n)
  BY <1>1 DEF Counts
<1> QED BY <1>2, <1>3, <1>4

LEMMA InCallIs ==
  /\ InCall = {p \in Threads \X (1 .. MaxDepth) : In(p[1], p[2])}
  /\ InCall' = {p \in Threads \X (1 .. MaxDepth) : In(p[1], p[2])'}
<1>1. ASSUME NEW p \in Threads \X (1 .. MaxDepth)
      PROVE  /\ In(p[1], p[2]) <=>
                  p[2] <= Len(stack[p[1]]) /\ stack[p[1]][p[2]].pc = "calling"
             /\ In(p[1], p[2])' <=>
                  p[2] <= Len(stack'[p[1]]) /\ stack'[p[1]][p[2]].pc = "calling"
  <2>1. PICK d \in 1 .. MaxDepth, u \in Threads : p = <<u, d>>
    OBVIOUS
  <2> QED BY <2>1 DEF In, Has
<1> QED BY <1>1 DEF InCall

\* When no call begins or ends, the calls and whom they lock are as they were.
LEMMA CallsStay ==
  ASSUME NEW t \in Threads, NEW k, OnlyFrame(t, k), ~ In(t, k), ~ In(t, k)'
  PROVE  /\ \A o : CallsOn(o)' = CallsOn(o)
         /\ \A u \in Threads, i \in Nat : \A c : Runs(u, i, c)' <=> Runs(u, i, c)
<1>1. ASSUME NEW u \in Threads, NEW i \in Nat
      PROVE  /\ In(u, i)' <=> In(u, i)
             /\ In(u, i) => stack'[u][i] = stack[u][i]
             /\ \A c : Runs(u, i, c)' <=> Runs(u, i, c)
  <2>1. CASE u = t /\ i = k
    BY <2>1 DEF Runs
  <2>2. CASE u # t \/ i # k
    BY <2>2, OtherFrames
  <2> QED BY <2>1, <2>2
<1>2. ASSUME NEW p \in Threads \X (1 .. MaxDepth)
      PROVE  /\ In(p[1], p[2])' <=> In(p[1], p[2])
             /\ In(p[1], p[2]) => stack'[p[1]][p[2]] = stack[p[1]][p[2]]
  <2>1. p[1] \in Threads /\ p[2] \in Nat
    OBVIOUS
  <2> QED BY <1>1, <2>1
<1>3. InCall' = InCall /\ \A p \in InCall : stack'[p[1]][p[2]] = stack[p[1]][p[2]]
  BY <1>2, InCallIs
<1>4. \A o : CallsOn(o)' = CallsOn(o)
  BY <1>3 DEF CallsOn
<1> QED BY <1>1, <1>4

LEMMA RunStays ==
  ASSUME RunInv, \A u \in Threads, i \in Nat : \A c : Runs(u, i, c)' <=> Runs(u, i, c),
         \A c \in Callbacks : fate'[c] = "running" <=> fate[c] = "running"
  PROVE  RunInv'
BY SMTT(30) DEF RunInv

LEMMA HeldStays ==
  ASSUME HeldInv, tls' = tls, \A c \in Callbacks : fate'[c] = "held" <=> fate[c] = "held"
  PROVE  HeldInv'
BY DEF HeldInv, Holds

LEMMA QueueStays ==
  ASSUME QueueInv, callbacks' = callbacks,
         \A c \in Callbacks : fate'[c] = "queued" <=> fate[c] = "queued"
  PROVE  QueueInv'
BY DEF QueueInv, Distinct

\* When the frame counts what it counted before, so do all together.
LEMMA CountedStays ==
  ASSUME NEW t \in Threads, NEW k, OnlyFrame(t, k), \A n : Counts(t, k, n)' <=> Counts(t, k, n)
  PROVE  Counted' = Counted
<1>1. ASSUME NEW u \in Threads, NEW i \in Nat, NEW n \in Nat
      PROVE  Counts(u, i, n)' <=> Counts(u, i, n)
  <2>1. CASE u = t /\ i = k
    BY <2>1
  <2>2. CASE u # t \/ i # k
    BY <2>2, OtherFrames
  <2> QED BY <2>1, <2>2
<1>2. \A p \in Threads \X Nat \X Nat : Counts(p[1], p[2], p[3])' <=> Counts(p[1], p[2], p[3])
  <2> SUFFICES ASSUME NEW p \in Threads \X Nat \X Nat
               PROVE  Counts(p[1], p[2], p[3])' <=> Counts(p[1], p[2], p[3])
    OBVIOUS
  <2>1. p[1] \in Threads /\ p[2] \in Nat /\ p[3] \in Nat
    OBVIOUS
  <2> QED BY <1>1, <2>1
<1> QED BY <1>2 DEF Counted

-----------------------------------------------------------------------------
\* Frame i of thread t is a removal that has given up the shared lock of o.
Gave(t, i, o) ==
  Has(t, i) /\ stack[t][i].unlocked /\ stack[t][i].pc # "rm_forget" /\ stack[t][i].obj = o

\* Only the topmost frame of a thread can be one.
LEMMA GivenUpStep ==
  ASSUME TypeOK, stack' \in [Threads -> Seq(Frame)], Shape, Shape',
         NEW t \in Threads, NEW k, OnlyFrame(t, k), NEW o
  PROVE  /\ t \in GivenUp(o) <=> Gave(t, k, o)
         /\ GivenUp(o)' = (GivenUp(o) \ {t}) \union (IF Gave(t, k, o)' THEN {t} ELSE {})
<1>1. /\ stack \in [Threads -> Seq(Frame)] /\ k \in Nat \ {0}
      /\ Len(stack[t]) = k \/ Len(stack'[t]) = k
      /\ Len(stack[t]) = k - 1 \/ Len(stack[t]) = k
      /\ Len(stack'[t]) = k - 1 \/ Len(stack'[t]) = k
  BY DEF TypeOK, OnlyFrame
<1>2. stack[t] \in Seq(Frame) /\ stack'[t] \in Seq(Frame)
  BY <1>1
<1>3. ASSUME NEW i \in 1 .. k - 1
      PROVE  stack'[t][i] = stack[t][i] /\ ~ stack[t][i].unlocked
  <2>1. i \in Nat /\ i # k /\ i < k /\ Has(t, i) /\ i \in 1 .. Len(stack'[t])
    BY <1>1 DEF Has
  <2>2. stack'[t][i] = stack[t][i]
    BY <2>1 DEF OnlyFrame
  <2>3. stack[t][i].pc = "calling" /\ FrameOK(stack[t][i], tls[t])
    <3>1. FrameOK(stack[t][i], tls[t])
      BY <2>1 DEF Has, Shape
    <3>2. CASE Len(stack[t]) = k
      BY <2>1, <3>1, <3>2 DEF Has, Shape
    <3>3. CASE Len(stack'[t]) = k
      BY <2>1, <2>2, <3>1, <3>3 DEF Shape
    <3> QED BY <1>1, <3>1, <3>2, <3>3
  <2>4. ~ stack[t][i].unlocked
    BY <2>3 DEF FrameOK, Removing
  <2> QED BY <2>2, <2>4
<1>4. ASSUME NEW s \in Seq(Frame), Len(s) = k - 1 \/ Len(s) = k, \A i \in 1 .. k - 1 : ~ s[i].unlocked
      PROVE  (s # <<>> /\ Last(s).unlocked /\ Last(s).pc # "rm_forget" /\ Last(s).obj = o)
               <=> (k \in 1 .. Len(s) /\ s[k].unlocked /\ s[k].pc # "rm_forget" /\ s[k].obj = o)
  <2>1. CASE Len(s) = k
    <3>1. s # <<>> /\ k \in 1 .. Len(s) /\ Last(s) = s[k]
      BY <1>1, <2>1 DEF Last
    <3> QED BY <3>1
  <2>2. CASE Len(s) = k - 1
    <3>1. k \notin 1 .. Len(s)
      BY <1>1, <2>2
    <3>2. s # <<>> => ~ Last(s).unlocked
      <4>1. s # <<>> => k - 1 \in 1 .. k - 1
        BY <1>1, <1>4, <2>2, EmptySeq
      <4> QED BY <1>4, <2>2, <4>1 DEF Last
    <3> QED BY <3>1, <3>2
  <2> QED BY <1>4, <2>1, <2>2
<1>5. t \in GivenUp(o) <=> Gave(t, k, o)
  BY <1>1, <1>2, <1>3, <1>4 DEF GivenUp, Gave, Has, Top
<1>6. t \in GivenUp(o)' <=> Gave(t, k, o)'
  <2>1. /\ \A i \in 1 .. k - 1 : ~ stack'[t][i].unlocked
        /\ Len(stack'[t]) = k - 1 \/ Len(stack'[t]) = k
    BY <1>1, <1>3
  <2>2. (stack'[t] # <<>> /\ Last(stack'[t]).unlocked /\ Last(stack'[t]).pc # "rm_forget" /\ Last(stack'[t]).obj = o)
               <=> (k \in 1 .. Len(stack'[t]) /\ stack'[t][k].unlocked /\ stack'[t][k].pc # "rm_forget" /\ stack'[t][k].obj = o)
    BY <1>2, <1>4, <2>1
  <2> QED BY <2>2 DEF GivenUp, Gave, Has, Top
<1>7. ASSUME NEW u \in Threads, u # t PROVE u \in GivenUp(o)' <=> u \in GivenUp(o)
  <2>1. stack[u] \in Seq(Frame) /\ stack'[u] \in Seq(Frame)
    BY <1>1
  <2>2. \A i \in Nat : /\ i \in 1 .. Len(stack'[u]) <=> i \in 1 .. Len(stack[u])
                       /\ i \in 1 .. Len(stack[u]) => stack'[u][i] = stack[u][i]
    BY <1>7 DEF OnlyFrame, Has
  <2>3. Len(stack'[u]) = Len(stack[u])
    <3>1. PICK m \in Nat, n \in Nat : m = Len(stack[u]) /\ n = Len(stack'[u])
      BY <2>1
    <3>2. (m \in 1 .. n <=> m \in 1 .. m) /\ (n \in 1 .. n <=> n \in 1 .. m)
      BY <2>2, <3>1
    <3> QED BY <3>1, <3>2
  <2>4. stack'[u] = stack[u]
    BY <2>1, <2>2, <2>3, SeqEqual
  <2> QED BY <2>4 DEF GivenUp, Top
<1> QED BY <1>5, <1>6, <1>7 DEF GivenUp

-----------------------------------------------------------------------------
(* The shared locks. *)

LEMMA LockersFinite ==
  ASSUME TypeOK, NEW o
  PROVE  /\ IsFiniteSet(CallsOn(o)) /\ Cardinality(CallsOn(o)) \in Nat
         /\ IsFiniteSet(GivenUp(o)) /\ Cardinality(GivenUp(o)) \in Nat
<1>1. IsFiniteSet(Threads) /\ IsFiniteSet(1 .. MaxDepth)
  BY CallbackQueueAssumption, FS_Interval
<1>2. IsFiniteSet(Threads \X (1 .. MaxDepth))
  BY <1>1, FS_Product
<1>3. CallsOn(o) \subseteq Threads \X (1 .. MaxDepth) /\ GivenUp(o) \subseteq Threads
  BY DEF CallsOn, InCall, GivenUp
<1> QED BY <1>1, <1>2, <1>3, FS_Subset, FS_CardinalityType

\* A frame that is not in a call before or after a step leaves the calls as they are.
LEMMA LocksStay ==
  ASSUME TypeOK, stack' \in [Threads -> Seq(Frame)], Shape, Shape', SharedLocks,
         NEW t \in Threads, NEW k, OnlyFrame(t, k), ~ In(t, k), ~ In(t, k)',
         \A o : Gave(t, k, o)' <=> Gave(t, k, o), shared' = shared
  PROVE  SharedLocks'
<1> SUFFICES ASSUME NEW o \in Objects
             PROVE  shared'[o] = Cardinality(CallsOn(o)') - Cardinality(GivenUp(o)')
  BY DEF SharedLocks, Objects
<1>1. CallsOn(o)' = CallsOn(o)
  BY CallsStay
<1>2. GivenUp(o)' = (GivenUp(o) \ {t}) \union (IF Gave(t, k, o)' THEN {t} ELSE {})
  BY GivenUpStep
<1>3. t \in GivenUp(o) <=> Gave(t, k, o)
  BY GivenUpStep
<1>4. GivenUp(o)' = GivenUp(o)
  BY <1>2, <1>3
<1> QED BY <1>1, <1>4 DEF SharedLocks

\* A removal gives a shared lock up, or takes it again.
LEMMA LocksMove ==
  ASSUME TypeOK, stack' \in [Threads -> Seq(Frame)], Shape, Shape', SharedLocks,
         NEW t \in Threads, NEW k, OnlyFrame(t, k), ~ In(t, k), ~ In(t, k)',
         NEW q \in Objects, NEW d \in {1, -1},
         \A o : o # q => ~ Gave(t, k, o) /\ ~ Gave(t, k, o)',
         d = 1 => Gave(t, k, q) /\ ~ Gave(t, k, q)',
         d = -1 => ~ Gave(t, k, q) /\ Gave(t, k, q)',
         shared' = [shared EXCEPT ![q] = shared[q] + d]
  PROVE  SharedLocks'
<1> SUFFICES ASSUME NEW o \in Objects
             PROVE  shared'[o] = Cardinality(CallsOn(o)') - Cardinality(GivenUp(o)')
  BY DEF SharedLocks, Objects
<1>1. CallsOn(o)' = CallsOn(o)
  BY CallsStay
<1>2. GivenUp(o)' = (GivenUp(o) \ {t}) \union (IF Gave(t, k, o)' THEN {t} ELSE {})
  BY GivenUpStep
<1>3. t \in GivenUp(o) <=> Gave(t, k, o)
  BY GivenUpStep
<1>4. shared \in [Objects -> Int] /\ shared[o] = Cardinality(CallsOn(o)) - Cardinality(GivenUp(o))
  BY DEF SharedLocks, TypeOK
<1>5. /\ IsFiniteSet(GivenUp(o)) /\ Cardinality(GivenUp(o)) \in Nat
      /\ Cardinality(CallsOn(o)) \in Nat
  BY LockersFinite
<1>6. CASE o # q
  <2>1. GivenUp(o)' = GivenUp(o)
    BY <1>2, <1>3, <1>6
  <2>2. shared'[o] = shared[o]
    BY <1>4, <1>6
  <2> QED BY <1>1, <1>4, <2>1, <2>2
<1>7. CASE o = q /\ d = 1
  <2>1. GivenUp(o)' = GivenUp(o) \ {t} /\ t \in GivenUp(o)
    BY <1>2, <1>3, <1>7
  <2>2. Cardinality(GivenUp(o)') = Cardinality(GivenUp(o)) - 1
    BY <1>5, <2>1, FS_RemoveElement
  <2>3. shared'[o] = shared[o] + 1
    BY <1>4, <1>7
  <2> QED BY <1>1, <1>4, <1>5, <2>2, <2>3
<1>8. CASE o = q /\ d = -1
  <2>1. GivenUp(o)' = GivenUp(o) \union {t} /\ t \notin GivenUp(o)
    BY <1>2, <1>3, <1>8
  <2>2. Cardinality(GivenUp(o)') = Cardinality(GivenUp(o)) + 1
    BY <1>5, <2>1, FS_AddElement
  <2>3. shared'[o] = shared[o] - 1
    BY <1>4, <1>8
  <2> QED BY <1>1, <1>4, <1>5, <2>2, <2>3
<1> QED BY <1>6, <1>7, <1>8

\* A callback begins (d = 1) or returns (d = -1) in frame k, under the lock of q.
LEMMA CallMoves ==
  ASSUME NEW t \in Threads, NEW k, OnlyFrame(t, k), k \in 1 .. MaxDepth,
         NEW q, NEW d \in {1, -1},
         d = 1 => ~ In(t, k) /\ In(t, k)' /\ stack'[t][k].obj = q,
         d = -1 => In(t, k) /\ ~ In(t, k)' /\ stack[t][k].obj = q
  PROVE  /\ \A o : o # q => CallsOn(o)' = CallsOn(o)
         /\ d = 1 => <<t, k>> \notin CallsOn(q) /\ CallsOn(q)' = CallsOn(q) \union {<<t, k>>}
         /\ d = -1 => <<t, k>> \in CallsOn(q) /\ CallsOn(q)' = CallsOn(q) \ {<<t, k>>}
<1>1. ASSUME NEW p \in Threads \X (1 .. MaxDepth), p # <<t, k>>
      PROVE  /\ In(p[1], p[2])' <=> In(p[1], p[2])
             /\ In(p[1], p[2]) => stack'[p[1]][p[2]] = stack[p[1]][p[2]]
  <2>1. p[1] \in Threads /\ p[2] \in Nat /\ (p[1] # t \/ p[2] # k)
    BY <1>1
  <2> QED BY <2>1, OtherFrames
<1>2. <<t, k>> \in Threads \X (1 .. MaxDepth)
  OBVIOUS
<1>3. /\ InCall = {p \in Threads \X (1 .. MaxDepth) : In(p[1], p[2])}
      /\ InCall' = {p \in Threads \X (1 .. MaxDepth) : In(p[1], p[2])'}
  BY InCallIs
<1>4. /\ \A p : p # <<t, k>> => (p \in InCall' <=> p \in InCall)
      /\ \A p \in InCall : p # <<t, k>> => stack'[p[1]][p[2]] = stack[p[1]][p[2]]
      /\ <<t, k>> \in InCall <=> In(t, k)
      /\ <<t, k>> \in InCall' <=> In(t, k)'
  BY <1>1, <1>2, <1>3
<1>5. CASE d = 1
  <2>1. ~ In(t, k) /\ In(t, k)' /\ stack'[t][k].obj = q
    BY <1>5
  <2>2. InCall' = InCall \union {<<t, k>>} /\ <<t, k>> \notin InCall
    BY <1>4, <2>1
  <2>3. \A p \in InCall : stack'[p[1]][p[2]].obj = stack[p[1]][p[2]].obj
    BY <1>4, <2>2
  <2>4. <<t, k>>[1] = t /\ <<t, k>>[2] = k
    OBVIOUS
  <2>5. \A o : CallsOn(o)' = CallsOn(o) \union (IF o = q THEN {<<t, k>>} ELSE {})
    BY <2>1, <2>2, <2>3, <2>4 DEF CallsOn
  <2>6. <<t, k>> \notin CallsOn(q)
    BY <2>2 DEF CallsOn
  <2> QED BY <1>5, <2>5, <2>6
<1>6. CASE d = -1
  <2>1. In(t, k) /\ ~ In(t, k)' /\ stack[t][k].obj = q
    BY <1>6
  <2>2. InCall' = InCall \ {<<t, k>>} /\ <<t, k>> \in InCall
    BY <1>4, <2>1
  <2>3. \A p \in InCall' : stack'[p[1]][p[2]].obj = stack[p[1]][p[2]].obj
    BY <1>4, <2>2
  <2>4. <<t, k>>[1] = t /\ <<t, k>>[2] = k
    OBVIOUS
  <2>5. \A o : CallsOn(o)' = CallsOn(o) \ (IF o = q THEN {<<t, k>>} ELSE {})
    BY <2>1, <2>2, <2>3, <2>4 DEF CallsOn
  <2>6. <<t, k>> \in CallsOn(q)
    BY <2>1, <2>2, <2>4 DEF CallsOn
  <2> QED BY <1>6, <2>5, <2>6
<1> QED BY <1>5, <1>6

\* The calls that begin or return take or release a shared lock.
LEMMA LocksCall ==
  ASSUME TypeOK, stack' \in [Threads -> Seq(Frame)], Shape, Shape', SharedLocks,
         NEW t \in Threads, NEW k, OnlyFrame(t, k), k \in 1 .. MaxDepth,
         NEW q \in Objects, NEW d \in {1, -1},
         d = 1 => ~ In(t, k) /\ In(t, k)' /\ stack'[t][k].obj = q,
         d = -1 => In(t, k) /\ ~ In(t, k)' /\ stack[t][k].obj = q,
         \A o : Gave(t, k, o)' <=> Gave(t, k, o),
         shared' = [shared EXCEPT ![q] = shared[q] + d]
  PROVE  SharedLocks'
<1> SUFFICES ASSUME NEW o \in Objects
             PROVE  shared'[o] = Cardinality(CallsOn(o)') - Cardinality(GivenUp(o)')
  BY DEF SharedLocks, Objects
<1>1. /\ \A r : r # q => CallsOn(r)' = CallsOn(r)
      /\ d = 1 => <<t, k>> \notin CallsOn(q) /\ CallsOn(q)' = CallsOn(q) \union {<<t, k>>}
      /\ d = -1 => <<t, k>> \in CallsOn(q) /\ CallsOn(q)' = CallsOn(q) \ {<<t, k>>}
  BY CallMoves
<1>2. GivenUp(o)' = (GivenUp(o) \ {t}) \union (IF Gave(t, k, o)' THEN {t} ELSE {})
  BY GivenUpStep
<1>3. t \in GivenUp(o) <=> Gave(t, k, o)
  BY GivenUpStep
<1>4. GivenUp(o)' = GivenUp(o)
  BY <1>2, <1>3
<1>5. shared \in [Objects -> Int] /\ shared[o] = Cardinality(CallsOn(o)) - Cardinality(GivenUp(o))
  BY DEF SharedLocks, TypeOK
<1>6. /\ IsFiniteSet(CallsOn(o)) /\ Cardinality(GivenUp(o)) \in Nat
      /\ Cardinality(CallsOn(o)) \in Nat
  BY LockersFinite
<1>7. CASE o # q
  BY <1>1, <1>4, <1>5, <1>7
<1>8. CASE o = q /\ d = 1
  <2>1. Cardinality(CallsOn(o)') = Cardinality(CallsOn(o)) + 1
    BY <1>1, <1>6, <1>8, FS_AddElement
  <2>2. shared'[o] = shared[o] + 1
    BY <1>5, <1>8
  <2> QED BY <1>4, <1>5, <1>6, <2>1, <2>2
<1>9. CASE o = q /\ d = -1
  <2>1. Cardinality(CallsOn(o)') = Cardinality(CallsOn(o)) - 1
    BY <1>1, <1>6, <1>9, FS_RemoveElement, ZenonT(60)
  <2>2. shared'[o] = shared[o] - 1
    BY <1>5, <1>9
  <2> QED BY <1>4, <1>5, <1>6, <2>1, <2>2
<1> QED BY <1>7, <1>8, <1>9

-----------------------------------------------------------------------------
(* The shape of the stacks. *)

LEMMA ShapeStep ==
  ASSUME TypeOK, Shape, NEW t \in Threads, NEW k, OnlyFrame(t, k),
         stack' \in [Threads -> Seq(Frame)],
         Has(t, k)' => k <= MaxDepth /\ FrameOK(stack'[t][k], tls'[t]),
         \A i \in 1 .. k - 1 : stack[t][i].pc = "calling",
         \A u \in Threads : u # t => tls'[u] = tls[u]
  PROVE  Shape'
<1>0. /\ k \in Nat \ {0} /\ Len(stack'[t]) \in {k - 1, k} /\ Len(stack[t]) \in {k - 1, k}
      /\ MaxDepth \in Nat /\ stack \in [Threads -> Seq(Frame)]
  BY CallbackQueueAssumption DEF OnlyFrame, TypeOK
<1>1. ASSUME NEW u \in Threads, u # t
      PROVE  /\ Len(stack'[u]) <= MaxDepth
             /\ \A i \in 1 .. Len(stack'[u]) :
                  /\ FrameOK(stack'[u][i], tls'[u])
                  /\ i < Len(stack'[u]) => stack'[u][i].pc = "calling"
  <2>1. \A i \in Nat : /\ i \in 1 .. Len(stack'[u]) <=> i \in 1 .. Len(stack[u])
                       /\ i \in 1 .. Len(stack[u]) => stack'[u][i] = stack[u][i]
    BY <1>1 DEF OnlyFrame, Has
  <2>2. stack[u] \in Seq(Frame) /\ stack'[u] \in Seq(Frame)
    BY <1>0
  <2>3. PICK m \in Nat, n \in Nat : m = Len(stack[u]) /\ n = Len(stack'[u])
    BY <2>2
  <2>4. (m \in 1 .. n <=> m \in 1 .. m) /\ (n \in 1 .. n <=> n \in 1 .. m)
    BY <2>1, <2>3
  <2>5. Len(stack'[u]) = Len(stack[u])
    BY <2>3, <2>4
  <2>6. stack'[u] = stack[u] /\ tls'[u] = tls[u]
    BY <1>1, <2>1, <2>2, <2>5, SeqEqual
  <2> QED BY <2>6 DEF Shape
<1>2. /\ Len(stack'[t]) <= MaxDepth
      /\ \A i \in 1 .. Len(stack'[t]) :
           /\ FrameOK(stack'[t][i], tls'[t])
           /\ i < Len(stack'[t]) => stack'[t][i].pc = "calling"
  <2>1. ASSUME NEW i \in 1 .. k - 1
        PROVE  /\ stack'[t][i].pc = "calling" /\ FrameOK(stack'[t][i], tls'[t])
    <3>1. i \in Nat /\ i # k /\ i \in 1 .. Len(stack[t]) /\ Has(t, i)
      BY <1>0 DEF Has
    <3>2. stack'[t][i] = stack[t][i]
      BY <3>1 DEF OnlyFrame
    <3>3. FrameOK(stack[t][i], tls[t]) /\ stack[t][i].pc = "calling"
      BY <3>1 DEF Shape
    <3> QED BY <3>2, <3>3 DEF FrameOK, Removing
  <2>2. Len(stack'[t]) = k => k <= MaxDepth /\ FrameOK(stack'[t][k], tls'[t])
    BY <1>0 DEF Has
  <2>3. Len(stack'[t]) <= MaxDepth
    <3>1. Len(stack[t]) <= MaxDepth
      BY DEF Shape
    <3>2. Len(stack[t]) = k \/ Len(stack'[t]) = k
      BY DEF OnlyFrame
    <3> QED BY <1>0, <2>2, <3>1, <3>2
  <2>4. ASSUME NEW i \in 1 .. Len(stack'[t])
        PROVE  i \in 1 .. k - 1 \/ (i = k /\ Len(stack'[t]) = k)
    BY <1>0
  <2>5. ASSUME NEW i \in 1 .. Len(stack'[t])
        PROVE  /\ FrameOK(stack'[t][i], tls'[t])
               /\ i < Len(stack'[t]) => stack'[t][i].pc = "calling"
    BY <1>0, <2>1, <2>2, <2>4
  <2> QED BY <2>3, <2>5
<1> QED BY <1>1, <1>2 DEF Shape

\* Below the topmost frame, and below one that a thread may push, are only callbacks.
LEMMA Below ==
  ASSUME TypeOK, Shape, NEW t \in Threads
  PROVE  /\ \A i \in 1 .. Len(stack[t]) - 1 : stack[t][i].pc = "calling"
         /\ Free(t) => /\ \A i \in 1 .. Len(stack[t]) : stack[t][i].pc = "calling"
                       /\ Len(stack[t]) + 1 <= MaxDepth
         /\ stack[t] # <<>> => /\ Len(stack[t]) \in 1 .. MaxDepth
                               /\ Top(t) \in Frame /\ FrameOK(Top(t), tls[t])
                               /\ Top(t) = stack[t][Len(stack[t])]
<1>0. stack[t] \in Seq(Frame) /\ Len(stack[t]) \in Nat /\ MaxDepth \in Nat \ {0}
  BY CallbackQueueAssumption DEF TypeOK
<1>1. /\ \A i \in 1 .. Len(stack[t]) - 1 : stack[t][i].pc = "calling"
      /\ Len(stack[t]) <= MaxDepth
  BY <1>0 DEF Shape
<1>2. ASSUME stack[t] # <<>>
      PROVE  /\ Len(stack[t]) \in 1 .. MaxDepth
             /\ Top(t) \in Frame /\ FrameOK(Top(t), tls[t]) /\ Top(t) = stack[t][Len(stack[t])]
  <2>1. Len(stack[t]) \in 1 .. Len(stack[t]) /\ Top(t) = stack[t][Len(stack[t])]
    BY <1>0, <1>2, EmptySeq DEF Top, Last
  <2> QED BY <1>0, <1>1, <2>1, ElementOfSeq DEF Shape
<1>3. ASSUME Free(t)
      PROVE  /\ \A i \in 1 .. Len(stack[t]) : stack[t][i].pc = "calling"
             /\ Len(stack[t]) + 1 <= MaxDepth
  <2>1. CASE stack[t] = <<>>
    BY <1>0, <2>1
  <2>2. CASE At(t, "calling") /\ Len(stack[t]) < MaxDepth
    <3>1. stack[t][Len(stack[t])].pc = "calling"
      BY <1>2, <2>2 DEF At, Top
    <3> QED BY <1>0, <1>1, <2>2, <3>1
  <2> QED BY <1>3, <2>1, <2>2 DEF Free
<1> QED BY <1>1, <1>2, <1>3

-----------------------------------------------------------------------------
(* The callbacks that run, those held, and those counted. *)

LEMMA RunBegins ==
  ASSUME RunInv, NEW t \in Threads, NEW k, OnlyFrame(t, k), ~ In(t, k), In(t, k)',
         NEW c \in Callbacks, stack'[t][k].cb = c, fate[c] # "running",
         \A d \in Callbacks : fate'[d] = "running" <=> fate[d] = "running" \/ d = c
  PROVE  RunInv'
<1>0. k \in Nat
  BY DEF OnlyFrame
<1>1. \A u \in Threads, i \in Nat : \A d : u # t \/ i # k => (Runs(u, i, d)' <=> Runs(u, i, d))
  BY OtherFrames
<1>2. \A d : ~ Runs(t, k, d) /\ (Runs(t, k, d)' <=> d = c)
  BY DEF Runs
<1>3. \A u \in Threads, i \in Nat : ~ Runs(u, i, c)
  BY DEF RunInv
<1>4. \A u \in Threads, i \in Nat : \A d : Runs(u, i, d)' <=> Runs(u, i, d) \/ (u = t /\ i = k /\ d = c)
  BY <1>1, <1>2
<1>5. ASSUME NEW u \in Threads, NEW v \in Threads, NEW i \in Nat, NEW j \in Nat,
             NEW d \in Callbacks, Runs(u, i, d)', Runs(v, j, d)'
      PROVE  u = v /\ i = j
  <2>1. CASE d = c
    BY <1>3, <1>4, <1>5, <2>1
  <2>2. CASE d # c
    BY <1>4, <1>5, <2>2 DEF RunInv
  <2> QED BY <2>1, <2>2
<1>6. ASSUME NEW d \in Callbacks
      PROVE  fate'[d] = "running" <=> \E u \in Threads, i \in Nat : Runs(u, i, d)'
  <2>1. fate[d] = "running" <=> \E u \in Threads, i \in Nat : Runs(u, i, d)
    BY DEF RunInv
  <2> QED BY <1>0, <1>4, <2>1
<1> QED BY <1>5, <1>6 DEF RunInv

LEMMA RunEnds ==
  ASSUME RunInv, NEW t \in Threads, NEW k, OnlyFrame(t, k), In(t, k), ~ In(t, k)',
         NEW c \in Callbacks, stack[t][k].cb = c,
         \A d \in Callbacks : fate'[d] = "running" <=> fate[d] = "running" /\ d # c
  PROVE  RunInv' /\ fate[c] = "running"
<1>0. k \in Nat
  BY DEF OnlyFrame
<1>1. \A u \in Threads, i \in Nat : \A d : u # t \/ i # k => (Runs(u, i, d)' <=> Runs(u, i, d))
  BY OtherFrames
<1>2. \A d : ~ Runs(t, k, d)' /\ (Runs(t, k, d) <=> d = c)
  BY DEF Runs
<1>3. \A u \in Threads, i \in Nat : Runs(u, i, c) => u = t /\ i = k
  BY <1>0, <1>2 DEF RunInv
<1>4. \A u \in Threads, i \in Nat : \A d : Runs(u, i, d)' <=> Runs(u, i, d) /\ d # c
  <2> SUFFICES ASSUME NEW u \in Threads, NEW i \in Nat, NEW d
               PROVE  Runs(u, i, d)' <=> Runs(u, i, d) /\ d # c
    OBVIOUS
  <2>1. CASE u = t /\ i = k
    BY <1>2, <2>1
  <2>2. CASE u # t \/ i # k
    BY <1>1, <1>3, <2>2
  <2> QED BY <2>1, <2>2
<1>5. ASSUME NEW u \in Threads, NEW v \in Threads, NEW i \in Nat, NEW j \in Nat,
             NEW d \in Callbacks, Runs(u, i, d)', Runs(v, j, d)'
      PROVE  u = v /\ i = j
  BY <1>4, <1>5 DEF RunInv
<1>6. ASSUME NEW d \in Callbacks
      PROVE  fate'[d] = "running" <=> \E u \in Threads, i \in Nat : Runs(u, i, d)'
  <2>1. fate[d] = "running" <=> \E u \in Threads, i \in Nat : Runs(u, i, d)
    BY DEF RunInv
  <2> QED BY <1>4, <2>1
<1>7. fate[c] = "running"
  BY <1>0, <1>2 DEF RunInv
<1> QED BY <1>5, <1>6, <1>7 DEF RunInv

LEMMA BusyFinite ==
  /\ IsFiniteSet(Busy) /\ Cardinality(Busy) \in Nat
  /\ IsFiniteSet(Busy') /\ Cardinality(Busy') \in Nat
BY CallbackQueueAssumption, FS_Subset, FS_CardinalityType DEF Busy

LEMMA CountStays ==
  ASSUME CountInv, Counted' = Counted, calling' = calling,
         \A c \in Callbacks : fate'[c] \in {"held", "running"} <=> fate[c] \in {"held", "running"}
  PROVE  CountInv'
<1>1. Busy' = Busy
  BY DEF Busy
<1> QED BY <1>1 DEF CountInv

\* A callback is over: what was busy is now counted.
LEMMA CountGrows ==
  ASSUME CountInv, TypeOK, calling' = calling, stack' \in [Threads -> Seq(Frame)],
         NEW t \in Threads, NEW k, OnlyFrame(t, k),
         Has(t, k), Has(t, k)', stack'[t][k].called = stack[t][k].called + 1,
         NEW c \in Busy, \A d \in Callbacks : d \in Busy' <=> d \in Busy /\ d # c
  PROVE  CountInv'
<1>0. stack[t][k] \in Frame /\ k \in Nat
  BY DEF TypeOK, Has, OnlyFrame
<1>1. PICK n \in Nat : n = stack[t][k].called
  BY <1>0 DEF Frame
<1>2. stack'[t][k].called = n + 1
  BY <1>1
<1>3. \A m : /\ Counts(t, k, m) <=> m \in 1 .. n
             /\ Counts(t, k, m)' <=> m \in 1 .. n + 1
  BY <1>1, <1>2 DEF Counts
<1>4. \A u \in Threads, i \in Nat : \A m : u # t \/ i # k => (Counts(u, i, m)' <=> Counts(u, i, m))
  BY OtherFrames
<1>5. \A u \in Threads, i \in Nat, m \in Nat :
        Counts(u, i, m)' <=> Counts(u, i, m) \/ (u = t /\ i = k /\ m = n + 1)
  <2> SUFFICES ASSUME NEW u \in Threads, NEW i \in Nat, NEW m \in Nat
               PROVE  Counts(u, i, m)' <=> Counts(u, i, m) \/ (u = t /\ i = k /\ m = n + 1)
    OBVIOUS
  <2>1. CASE u = t /\ i = k
    BY <1>3, <2>1
  <2>2. CASE u # t \/ i # k
    BY <1>4, <2>2
  <2> QED BY <2>1, <2>2
<1>6. <<t, k, n + 1>> \in Threads \X Nat \X Nat
  BY <1>0
<1>7. ASSUME NEW p \in Threads \X Nat \X Nat
      PROVE  p \in Counted' <=> p \in Counted \/ p = <<t, k, n + 1>>
  <2>1. PICK u \in Threads, i \in Nat, m \in Nat : p = <<u, i, m>>
    OBVIOUS
  <2>2. p[1] = u /\ p[2] = i /\ p[3] = m
    BY <2>1
  <2> QED BY <1>5, <2>1, <2>2 DEF Counted
<1>8. Counted' = Counted \union {<<t, k, n + 1>>}
  BY <1>6, <1>7 DEF Counted
<1>9. <<t, k, n + 1>> \notin Counted
  BY <1>1, <1>3 DEF Counted
<1>10. /\ IsFiniteSet(Counted') /\ Cardinality(Counted') = Cardinality(Counted) + 1
       /\ Cardinality(Counted) \in Nat
  BY <1>8, <1>9, FS_AddElement, FS_CardinalityType DEF CountInv
<1>11. Cardinality(Busy') = Cardinality(Busy) - 1
  <2>1. Busy' = Busy \ {c}
    BY DEF Busy
  <2> QED BY <2>1, BusyFinite, FS_RemoveElement
<1> QED BY <1>10, <1>11, BusyFinite DEF CountInv, TypeOK

\* callAvailable or callOne is over and takes off what it has counted.
LEMMA CountEnds ==
  ASSUME CountInv, TypeOK,
         NEW t \in Threads, NEW k, OnlyFrame(t, k), Has(t, k), ~ Has(t, k)',
         calling' = calling - stack[t][k].called, fate' = fate
  PROVE  CountInv' /\ calling' \in Nat
<1>0. stack[t][k] \in Frame /\ k \in Nat
  BY DEF TypeOK, Has, OnlyFrame
<1>1. PICK n \in Nat : n = stack[t][k].called
  BY <1>0 DEF Frame
<1> DEFINE D == {<<t, k, m>> : m \in 1 .. n}
<1>2. \A m : ~ Counts(t, k, m)' /\ (Counts(t, k, m) <=> m \in 1 .. n)
  BY <1>1 DEF Counts
<1>3. \A u \in Threads, i \in Nat : \A m : u # t \/ i # k => (Counts(u, i, m)' <=> Counts(u, i, m))
  BY OtherFrames
<1>4. ASSUME NEW p \in Threads \X Nat \X Nat
      PROVE  /\ p \in Counted' <=> p \in Counted /\ p \notin D
             /\ p \in D => p \in Counted
  <2>1. PICK u \in Threads, i \in Nat, m \in Nat : p = <<u, i, m>>
    OBVIOUS
  <2>2. p[1] = u /\ p[2] = i /\ p[3] = m
    BY <2>1
  <2>3. /\ p \in Counted <=> Counts(u, i, m)
        /\ p \in Counted' <=> Counts(u, i, m)'
        /\ p \in D <=> u = t /\ i = k /\ m \in 1 .. n
    BY <2>1, <2>2 DEF Counted
  <2> QED BY <1>2, <1>3, <2>3
<1>5. D \subseteq Threads \X Nat \X Nat
  BY <1>0
<1>6. Counted' = Counted \ D /\ D \subseteq Counted /\ Counted \intersect D = D
  <2>1. Counted \subseteq Threads \X Nat \X Nat /\ Counted' \subseteq Threads \X Nat \X Nat
    BY DEF Counted
  <2> QED BY <1>4, <1>5, <2>1
<1>7. IsFiniteSet(Counted) /\ Cardinality(Counted) \in Nat
  BY FS_CardinalityType DEF CountInv
<1>8. Cardinality(D) = n
  <2> DEFINE f == [m \in 1 .. n |-> <<t, k, m>>]
  <2>1. f \in [1 .. n -> D] /\ (\A x, y \in 1 .. n : f[x] = f[y] => x = y)
    OBVIOUS
  <2>2. \A d \in D : \E m \in 1 .. n : f[m] = d
    OBVIOUS
  <2>3. ExistsBijection(1 .. n, D)
    BY <2>1, <2>2 DEF ExistsBijection, Bijection, Injection, Surjection, IsInjective
  <2> QED BY <2>3, FS_CountingElements
<1> HIDE DEF D
<1>9. IsFiniteSet(Counted \ D) /\ Cardinality(Counted \ D) = Cardinality(Counted) - n
  BY <1>6, <1>7, <1>8, FS_Difference, ZenonT(60)
<1>10. n <= Cardinality(Counted)
  BY <1>6, <1>7, <1>8, FS_Subset
<1>11. Busy' = Busy
  BY DEF Busy
<1>12. calling \in Nat /\ calling' = calling - n /\ Cardinality(Counted) + Cardinality(Busy) <= calling
  BY <1>1 DEF TypeOK, CountInv
<1>13. calling' \in Nat
  BY <1>7, <1>10, <1>12, BusyFinite
<1>14. Cardinality(Counted') + Cardinality(Busy') <= calling'
  BY <1>6, <1>7, <1>9, <1>11, <1>12, BusyFinite
<1> QED BY <1>6, <1>9, <1>13, <1>14 DEF CountInv

\* Callbacks are popped, as many as calling_ grows by at least.
LEMMA CountPops ==
  ASSUME CountInv, TypeOK, Counted' = Counted, NEW n \in Nat, calling' = calling + n,
         NEW s \in Seq(Callbacks), Len(s) <= n,
         \A d \in Callbacks : d \in Busy' <=> d \in Busy \/ \E i \in 1 .. Len(s) : s[i] = d
  PROVE  CountInv' /\ calling' \in Nat
<1> DEFINE S == {s[i] : i \in 1 .. Len(s)}
           f == [i \in 1 .. Len(s) |-> s[i]]
<1>1. Len(s) \in Nat /\ \A i \in 1 .. Len(s) : s[i] \in Callbacks
  BY ElementOfSeq
<1>2. S \subseteq Callbacks /\ Busy' = Busy \union S
  BY <1>1 DEF Busy
<1>3. Cardinality(S) <= Len(s) /\ IsFiniteSet(S)
  <2>1. f \in [1 .. Len(s) -> S] /\ \A d \in S : \E i \in 1 .. Len(s) : f[i] = d
    OBVIOUS
  <2>2. f \in Surjection(1 .. Len(s), S)
    BY <2>1 DEF Surjection
  <2>3. ExistsSurjection(1 .. Len(s), S)
    BY <2>2 DEF ExistsSurjection
  <2>4. IsFiniteSet(S)
    BY <1>2, CallbackQueueAssumption, FS_Subset
  <2> QED BY <1>1, <2>3, <2>4, FS_SurjCardinalityBound
<1> HIDE DEF S, f
<1>4. Cardinality(Busy') <= Cardinality(Busy) + Cardinality(S)
  <2>1. Cardinality(Busy \union S)
           = Cardinality(Busy) + Cardinality(S) - Cardinality(Busy \intersect S)
    BY <1>3, BusyFinite, FS_Union
  <2>2. Cardinality(Busy \intersect S) \in Nat /\ Cardinality(S) \in Nat
    BY <1>3, FS_Intersection, FS_CardinalityType
  <2> QED BY <1>2, <2>1, <2>2, BusyFinite
<1>5. Cardinality(Counted) \in Nat /\ Cardinality(S) \in Nat /\ calling \in Nat
  BY <1>3, FS_CardinalityType DEF CountInv, TypeOK
<1> QED BY <1>1, <1>3, <1>4, <1>5, BusyFinite DEF CountInv

-----------------------------------------------------------------------------
(* The lists of popped callbacks. *)

Entry == [cb : Callbacks, marked : BOOLEAN]
Lists == [Threads -> Seq(Entry)]
Takes(t, h) == tls' = [tls EXCEPT ![t] = tls[t] \o h]


LEMMA HeldGrows ==
  ASSUME HeldInv, tls \in Lists, NEW t \in Threads, NEW h \in Seq(Entry), Takes(t, h),
         \A i, j \in 1 .. Len(h) : i < j => h[i].cb # h[j].cb,
         \A i \in 1 .. Len(h) : fate[h[i].cb] # "held",
         \A c \in Callbacks :
           fate'[c] = "held" <=> fate[c] = "held" \/ \E i \in 1 .. Len(h) : h[i].cb = c
  PROVE  HeldInv' /\ tls' \in Lists /\ Len(tls'[t]) = Len(tls[t]) + Len(h)
<1>1. tls[t] \in Seq(Entry) /\ Len(tls[t]) \in Nat /\ Len(h) \in Nat
  BY DEF Lists
<1>2. PICK n \in Nat, l \in Nat : n = Len(tls[t]) /\ l = Len(h)
  BY <1>1
<1>3. /\ tls'[t] = tls[t] \o h /\ tls' \in Lists
      /\ \A u \in Threads : u # t => tls'[u] = tls[u]
  BY <1>1 DEF Lists, Takes
<1>4. /\ Len(tls'[t]) = n + l
      /\ \A i \in 1 .. n : tls'[t][i] = tls[t][i]
      /\ \A i \in 1 .. l : tls'[t][n + i] = h[i]
  BY <1>1, <1>2, <1>3, ConcatProperties
<1>5. ASSUME NEW i \in 1 .. l PROVE h[i].cb \in Callbacks
  <2>1. h[i] \in Entry
    BY <1>2, ElementOfSeq
  <2> QED BY <2>1 DEF Entry
<1>6. ASSUME NEW u \in Threads, NEW i \in Nat, NEW c
      PROVE  Holds(u, i, c)' <=>
               Holds(u, i, c) \/ (u = t /\ i - n \in 1 .. l /\ h[i - n].cb = c)
  <2>1. CASE u # t
    BY <1>3, <2>1 DEF Holds
  <2>2. CASE u = t /\ i \in 1 .. n
    BY <1>2, <1>4, <2>2 DEF Holds
  <2>3. CASE u = t /\ i > n
    <3>1. ~ Holds(u, i, c)
      BY <1>2, <2>3 DEF Holds
    <3>2. Holds(u, i, c)' <=> i \in 1 .. n + l /\ tls'[t][i].cb = c
      BY <1>4, <2>3 DEF Holds
    <3>3. i \in 1 .. n + l <=> i - n \in 1 .. l
      BY <1>2, <2>3
    <3>4. i - n \in 1 .. l => tls'[t][i] = h[i - n]
      BY <1>2, <1>4, <2>3
    <3> QED BY <2>3, <3>1, <3>2, <3>3, <3>4
  <2>4. CASE u = t /\ i = 0
    BY <1>2, <1>4, <2>4 DEF Holds
  <2>5. i \in 1 .. n \/ i > n \/ i = 0
    BY <1>2
  <2> QED BY <2>1, <2>2, <2>3, <2>4, <2>5
<1>7. ASSUME NEW u \in Threads, NEW i \in Nat, NEW j \in Nat, j - n \in 1 .. l
      PROVE  ~ Holds(u, i, h[j - n].cb)
  <2>1. h[j - n].cb \in Callbacks /\ fate[h[j - n].cb] # "held"
    BY <1>2, <1>5, <1>7
  <2> QED BY <2>1 DEF HeldInv
<1>8. ASSUME NEW u \in Threads, NEW v \in Threads, NEW i \in Nat, NEW j \in Nat,
             NEW c \in Callbacks, Holds(u, i, c)', Holds(v, j, c)'
      PROVE  u = v /\ i = j
  <2>1. CASE Holds(u, i, c) /\ Holds(v, j, c)
    BY <2>1 DEF HeldInv
  <2>2. CASE ~ Holds(u, i, c) /\ ~ Holds(v, j, c)
    <3>1. u = t /\ i - n \in 1 .. l /\ h[i - n].cb = c
      BY <1>6, <1>8, <2>2
    <3>2. v = t /\ j - n \in 1 .. l /\ h[j - n].cb = c
      BY <1>6, <1>8, <2>2
    <3>3. i - n = j - n
      BY <1>2, <3>1, <3>2, SMTT(30)
    <3> QED BY <1>2, <3>1, <3>2, <3>3
  <2>3. CASE Holds(u, i, c) /\ ~ Holds(v, j, c)
    <3>1. j - n \in 1 .. l /\ h[j - n].cb = c
      BY <1>6, <1>8, <2>3
    <3>2. ~ Holds(u, i, h[j - n].cb)
      BY <1>7, <3>1
    <3> QED BY <2>3, <3>1, <3>2
  <2>4. CASE ~ Holds(u, i, c) /\ Holds(v, j, c)
    <3>1. i - n \in 1 .. l /\ h[i - n].cb = c
      BY <1>6, <1>8, <2>4
    <3>2. ~ Holds(v, j, h[i - n].cb)
      BY <1>7, <3>1
    <3> QED BY <2>4, <3>1, <3>2
  <2> QED BY <2>1, <2>2, <2>3, <2>4
<1>9. ASSUME NEW c \in Callbacks
      PROVE  fate'[c] = "held" <=> \E u \in Threads, i \in Nat : Holds(u, i, c)'
  <2>1. (\E i \in 1 .. Len(h) : h[i].cb = c)
           <=> \E i \in Nat : i - n \in 1 .. l /\ h[i - n].cb = c
    <3>1. ASSUME NEW i \in 1 .. Len(h), h[i].cb = c
          PROVE  \E j \in Nat : j - n \in 1 .. l /\ h[j - n].cb = c
      <4>1. n + i \in Nat /\ (n + i) - n = i /\ i \in 1 .. l
        BY <1>2
      <4>2. (n + i) - n \in 1 .. l /\ h[(n + i) - n].cb = c
        BY <3>1, <4>1
      <4> QED BY <4>1, <4>2
    <3>2. ASSUME NEW i \in Nat, i - n \in 1 .. l, h[i - n].cb = c
          PROVE  \E j \in 1 .. Len(h) : h[j].cb = c
      BY <1>2, <3>2
    <3> QED BY <3>1, <3>2
  <2>2. fate[c] = "held" <=> \E u \in Threads, i \in Nat : Holds(u, i, c)
    BY DEF HeldInv
  <2>3. (\E u \in Threads, i \in Nat : Holds(u, i, c)')
          <=> \/ \E u \in Threads, i \in Nat : Holds(u, i, c)
              \/ \E i \in Nat : i - n \in 1 .. l /\ h[i - n].cb = c
    BY <1>6
  <2> QED BY <2>1, <2>2, <2>3
<1>10. HeldInv'
  BY <1>8, <1>9 DEF HeldInv
<1> QED BY <1>2, <1>3, <1>4, <1>10

LEMMA HeldShrinks ==
  ASSUME HeldInv, tls \in Lists, NEW t \in Threads, tls[t] # <<>>,
         tls' = [tls EXCEPT ![t] = Tail(tls[t])],
         NEW c \in Callbacks, c = Head(tls[t]).cb,
         \A d \in Callbacks : fate'[d] = "held" <=> fate[d] = "held" /\ d # c
  PROVE  HeldInv' /\ tls' \in Lists
<1>1. tls[t] \in Seq(Entry)
  BY DEF Lists
<1>2. PICK n \in Nat : Len(tls[t]) = n + 1
  <2>1. Len(tls[t]) \in Nat \ {0}
    BY <1>1, EmptySeq
  <2>2. (Len(tls[t]) - 1) + 1 = Len(tls[t]) /\ Len(tls[t]) - 1 \in Nat
    BY <2>1
  <2> QED BY <2>2
<1>3. /\ tls'[t] = Tail(tls[t]) /\ tls' \in Lists
      /\ \A u \in Threads : u # t => tls'[u] = tls[u]
  BY <1>1, HeadTailProperties DEF Lists
<1>4. /\ Len(tls'[t]) = n /\ tls[t][1].cb = c
      /\ \A i \in 1 .. n : tls'[t][i] = tls[t][i + 1]
  <2>1. /\ Head(tls[t]) = tls[t][1]
        /\ Len(Tail(tls[t])) = Len(tls[t]) - 1
        /\ \A i \in 1 .. Len(Tail(tls[t])) : Tail(tls[t])[i] = tls[t][i + 1]
    BY <1>1, HeadTailProperties
  <2>2. Len(Tail(tls[t])) = n
    BY <1>2, <2>1
  <2> QED BY <1>3, <2>1, <2>2
<1>5. ASSUME NEW d
      PROVE  /\ \A u \in Threads, i \in Nat : u # t => (Holds(u, i, d)' <=> Holds(u, i, d))
             /\ \A i \in Nat : Holds(t, i, d)' <=> i # 0 /\ Holds(t, i + 1, d)
  <2>1. \A u \in Threads, i \in Nat : u # t => (Holds(u, i, d)' <=> Holds(u, i, d))
    BY <1>3 DEF Holds
  <2>2. ASSUME NEW i \in Nat PROVE Holds(t, i, d)' <=> i # 0 /\ Holds(t, i + 1, d)
    <3>1. i \in 1 .. n <=> i # 0 /\ i + 1 \in 1 .. n + 1
      BY <1>2
    <3>2. Holds(t, i, d)' <=> i \in 1 .. n /\ tls'[t][i].cb = d
      BY <1>4 DEF Holds
    <3>3. Holds(t, i + 1, d) <=> i + 1 \in 1 .. n + 1 /\ tls[t][i + 1].cb = d
      BY <1>2 DEF Holds
    <3> QED BY <1>4, <3>1, <3>2, <3>3
  <2> QED BY <2>1, <2>2
<1>6. Holds(t, 1, c)
  BY <1>2, <1>4 DEF Holds
<1>7. \A u \in Threads, i \in Nat : Holds(u, i, c) => u = t /\ i = 1
  BY <1>6 DEF HeldInv
<1>8. ASSUME NEW u \in Threads, NEW v \in Threads, NEW i \in Nat, NEW j \in Nat,
             NEW d \in Callbacks, Holds(u, i, d)', Holds(v, j, d)'
      PROVE  u = v /\ i = j
  <2>1. PICK m \in Nat : Holds(u, m, d) /\ m = IF u = t THEN i + 1 ELSE i
    <3>1. CASE u = t
      <4>1. Holds(u, i + 1, d) /\ i + 1 \in Nat
        BY <1>5, <1>8, <3>1
      <4> QED BY <3>1, <4>1
    <3>2. CASE u # t
      BY <1>5, <1>8, <3>2
    <3> QED BY <3>1, <3>2
  <2>2. PICK o \in Nat : Holds(v, o, d) /\ o = IF v = t THEN j + 1 ELSE j
    <3>1. CASE v = t
      <4>1. Holds(v, j + 1, d) /\ j + 1 \in Nat
        BY <1>5, <1>8, <3>1
      <4> QED BY <3>1, <4>1
    <3>2. CASE v # t
      BY <1>5, <1>8, <3>2
    <3> QED BY <3>1, <3>2
  <2>3. u = v /\ m = o
    BY <2>1, <2>2 DEF HeldInv
  <2> QED BY <2>1, <2>2, <2>3
<1>9. ASSUME NEW d \in Callbacks
      PROVE  fate'[d] = "held" <=> \E u \in Threads, i \in Nat : Holds(u, i, d)'
  <2>1. ASSUME NEW u \in Threads, NEW i \in Nat, Holds(u, i, d), d # c
        PROVE  \E j \in Nat : Holds(u, j, d)'
    <3>1. CASE u # t
      BY <1>5, <2>1, <3>1
    <3>2. CASE u = t
      <4>1. i \in 1 .. n + 1 /\ tls[t][i].cb = d
        BY <1>2, <2>1, <3>2 DEF Holds
      <4>2. i # 1
        BY <1>4, <2>1, <4>1
      <4>3. i - 1 \in Nat /\ i - 1 # 0 /\ (i - 1) + 1 = i
        BY <1>2, <4>1, <4>2
      <4> QED BY <1>5, <2>1, <3>2, <4>3
    <3> QED BY <3>1, <3>2
  <2>2. ASSUME NEW u \in Threads, NEW i \in Nat, Holds(u, i, d)'
        PROVE  d # c /\ \E j \in Nat : Holds(u, j, d)
    <3>1. CASE u # t
      BY <1>5, <1>7, <2>2, <3>1
    <3>2. CASE u = t
      <4>1. i # 0 /\ Holds(t, i + 1, d) /\ i + 1 \in Nat /\ i + 1 # 1
        BY <1>5, <2>2, <3>2
      <4> QED BY <1>7, <3>2, <4>1
    <3> QED BY <3>1, <3>2
  <2>3. fate[d] = "held" <=> \E u \in Threads, i \in Nat : Holds(u, i, d)
    BY DEF HeldInv
  <2> QED BY <2>1, <2>2, <2>3
<1>10. HeldInv'
  BY <1>8, <1>9 DEF HeldInv
<1> QED BY <1>3, <1>10

\* The head of a list is held.
LEMMA HeadIsHeld ==
  ASSUME HeldInv, tls \in Lists, NEW t \in Threads, tls[t] # <<>>
  PROVE  /\ Head(tls[t]) \in Entry /\ Head(tls[t]).cb \in Callbacks
         /\ fate[Head(tls[t]).cb] = "held"
<1>1. tls[t] \in Seq(Entry)
  BY DEF Lists
<1>2. Len(tls[t]) \in Nat \ {0} /\ Head(tls[t]) = tls[t][1]
  BY <1>1, EmptySeq
<1>3. Head(tls[t]) \in Entry /\ Head(tls[t]).cb \in Callbacks
  <2>1. tls[t][1] \in Entry
    BY <1>1, <1>2, ElementOfSeq
  <2> QED BY <1>2, <2>1 DEF Entry
<1>4. Holds(t, 1, Head(tls[t]).cb)
  BY <1>2 DEF Holds
<1> QED BY <1>3, <1>4 DEF HeldInv

\* Marks leave the lists hold what they hold.
LEMMA HeldMarked ==
  ASSUME HeldInv, tls \in Lists, NEW t \in Threads, NEW id,
         tls' = [tls EXCEPT ![t] = [i \in 1 .. Len(tls[t]) |->
                   [tls[t][i] EXCEPT !.marked = tls[t][i].marked \/ Owner[tls[t][i].cb] = id]]],
         fate' = fate
  PROVE  HeldInv' /\ tls' \in Lists /\ Len(tls'[t]) = Len(tls[t])
<1>1. tls[t] \in Seq(Entry)
  BY DEF Lists
<1>2. PICK n \in Nat : n = Len(tls[t])
  BY <1>1
<1> DEFINE e(i) == [tls[t][i] EXCEPT !.marked = tls[t][i].marked \/ Owner[tls[t][i].cb] = id]
<1>3. ASSUME NEW i \in 1 .. n PROVE e(i) \in Entry /\ e(i).cb = tls[t][i].cb
  <2>1. tls[t][i] \in Entry
    BY <1>1, <1>2, ElementOfSeq
  <2> QED BY <2>1 DEF Entry
<1>4. /\ tls'[t] = [i \in 1 .. n |-> e(i)]
      /\ \A u \in Threads : u # t => tls'[u] = tls[u]
  BY <1>2 DEF Lists
<1>5. /\ \A i \in 1 .. n : tls'[t][i].cb = tls[t][i].cb /\ tls'[t][i] \in Entry
      /\ Len(tls'[t]) = n
  BY <1>3, <1>4
<1> HIDE DEF e
<1>6. tls'[t] \in Seq(Entry)
  <2>1. [i \in 1 .. n |-> e(i)] \in [1 .. n -> Entry]
    BY <1>3
  <2>2. tls'[t] \in [1 .. n -> Entry]
    BY <1>4, <2>1
  <2> QED BY <2>2, SeqDef
<1>7. tls' \in Lists
  BY <1>6 DEF Lists
<1>8. ASSUME NEW u \in Threads, NEW i \in Nat, NEW c PROVE Holds(u, i, c)' <=> Holds(u, i, c)
  <2>1. CASE u = t
    BY <1>2, <1>5, <2>1 DEF Holds
  <2>2. CASE u # t
    BY <1>4, <2>2 DEF Holds
  <2> QED BY <2>1, <2>2
<1> QED BY <1>2, <1>5, <1>7, <1>8 DEF HeldInv

-----------------------------------------------------------------------------
(* The shared queue. *)

LEMMA RemoveAtSelects ==
  ASSUME NEW T, NEW s \in Seq(T), NEW i \in 1 .. Len(s)
  PROVE  /\ RemoveAt(s, i) \in Seq(T) /\ Len(RemoveAt(s, i)) = Len(s) - 1
         /\ \A j \in 1 .. Len(s) - 1 : RemoveAt(s, i)[j] = IF j < i THEN s[j] ELSE s[j + 1]
<1>1. PICK n \in Nat : n = Len(s)
  OBVIOUS
<1> DEFINE a == SubSeq(s, 1, i - 1)
           b == SubSeq(s, i + 1, n)
<1>2. /\ a \in Seq(T) /\ Len(a) = i - 1
      /\ \A j \in 1 .. i - 1 : a[j] = s[j]
  BY <1>1, SubSeqProperties
<1>3. /\ b \in Seq(T) /\ Len(b) = n - i
      /\ \A j \in 1 .. n - i : b[j] = s[i + j]
  <2>1. b \in Seq(T) /\ Len(b) = IF i + 1 <= n THEN n - (i + 1) + 1 ELSE 0
    BY <1>1, SubSeqProperties
  <2>2. \A j \in 1 .. n - (i + 1) + 1 : b[j] = s[(i + 1) + j - 1]
    BY <1>1, SubSeqProperties
  <2>3. n - (i + 1) + 1 = n - i /\ \A j \in 1 .. n - i : (i + 1) + j - 1 = i + j
    BY <1>1
  <2> QED BY <1>1, <2>1, <2>2, <2>3
<1> HIDE DEF a, b
<1>4. RemoveAt(s, i) = a \o b
  BY <1>1 DEF RemoveAt, a, b
<1>5. /\ a \o b \in Seq(T) /\ Len(a \o b) = (i - 1) + (n - i)
      /\ \A j \in 1 .. (i - 1) + (n - i) : (a \o b)[j] = IF j <= i - 1 THEN a[j] ELSE b[j - (i - 1)]
  <2>1. /\ a \o b \in Seq(T) /\ Len(a \o b) = Len(a) + Len(b)
        /\ \A j \in 1 .. Len(a) + Len(b) : (a \o b)[j] = IF j <= Len(a) THEN a[j] ELSE b[j - Len(a)]
    BY <1>2, <1>3, ConcatProperties
  <2> QED BY <1>2, <1>3, <2>1
<1>6. (i - 1) + (n - i) = n - 1
  BY <1>1
<1>7. ASSUME NEW j \in 1 .. n - 1 PROVE (a \o b)[j] = IF j < i THEN s[j] ELSE s[j + 1]
  <2>1. CASE j < i
    BY <1>1, <1>2, <1>5, <1>6, <2>1
  <2>2. CASE ~ (j < i)
    <3>1. ~ (j <= i - 1) /\ j - (i - 1) \in 1 .. n - i /\ i + (j - (i - 1)) = j + 1
      BY <1>1, <2>2
    <3> QED BY <1>3, <1>5, <1>6, <2>2, <3>1
  <2> QED BY <2>1, <2>2
<1> QED BY <1>1, <1>4, <1>5, <1>6, <1>7

LEMMA QueuePushes ==
  ASSUME QueueInv, callbacks \in Seq(Callbacks), NEW c \in Callbacks, fate[c] # "queued",
         callbacks' = Append(callbacks, c),
         \A d \in Callbacks : fate'[d] = "queued" <=> fate[d] = "queued" \/ d = c
  PROVE  QueueInv' /\ callbacks' \in Seq(Callbacks)
<1>1. PICK n \in Nat : n = Len(callbacks)
  OBVIOUS
<1>2. /\ callbacks' \in Seq(Callbacks) /\ Len(callbacks') = n + 1
      /\ \A i \in 1 .. n : callbacks'[i] = callbacks[i]
      /\ callbacks'[n + 1] = c
  BY <1>1, AppendProperties
<1>3. \A i \in 1 .. n : callbacks[i] # c
  BY <1>1 DEF QueueInv
<1>4. ASSUME NEW i \in 1 .. n + 1, NEW j \in 1 .. n + 1, i < j
      PROVE  callbacks'[i] # callbacks'[j]
  <2>1. i \in 1 .. n /\ (j \in 1 .. n \/ j = n + 1)
    BY <1>4
  <2>2. CASE j = n + 1
    BY <1>2, <1>3, <2>1, <2>2
  <2>3. CASE j \in 1 .. n
    BY <1>1, <1>2, <1>4, <2>1, <2>3 DEF QueueInv, Distinct
  <2> QED BY <2>1, <2>2, <2>3
<1>5. ASSUME NEW d \in Callbacks
      PROVE  fate'[d] = "queued" <=> \E i \in 1 .. n + 1 : callbacks'[i] = d
  <2>1. fate[d] = "queued" <=> \E i \in 1 .. n : callbacks[i] = d
    BY <1>1 DEF QueueInv
  <2>2. \A i \in 1 .. n + 1 : i \in 1 .. n \/ i = n + 1
    OBVIOUS
  <2>3. (\E i \in 1 .. n + 1 : callbacks'[i] = d) <=> d = c \/ \E i \in 1 .. n : callbacks[i] = d
    <3>1. 1 .. n \subseteq 1 .. n + 1 /\ n + 1 \in 1 .. n + 1
      OBVIOUS
    <3> QED BY <1>2, <2>2, <3>1
  <2> QED BY <2>1, <2>3
<1> QED BY <1>2, <1>4, <1>5 DEF QueueInv, Distinct

LEMMA QueuePops ==
  ASSUME QueueInv, callbacks \in Seq(Callbacks), NEW i \in 1 .. Len(callbacks),
         callbacks' = RemoveAt(callbacks, i),
         \A d \in Callbacks : fate'[d] = "queued" <=> fate[d] = "queued" /\ d # callbacks[i]
  PROVE  QueueInv' /\ callbacks' \in Seq(Callbacks)
<1>1. PICK n \in Nat : n = Len(callbacks)
  OBVIOUS
<1> DEFINE old(j) == IF j < i THEN j ELSE j + 1
<1>2. /\ callbacks' \in Seq(Callbacks) /\ Len(callbacks') = n - 1
      /\ \A j \in 1 .. n - 1 : callbacks'[j] = callbacks[old(j)]
  <2>1. /\ callbacks' \in Seq(Callbacks) /\ Len(callbacks') = n - 1
        /\ \A j \in 1 .. n - 1 : callbacks'[j] = IF j < i THEN callbacks[j] ELSE callbacks[j + 1]
    BY <1>1, RemoveAtSelects
  <2> QED BY <2>1
<1>3. /\ \A j \in 1 .. n - 1 : old(j) \in 1 .. n /\ old(j) # i
      /\ \A j, k \in 1 .. n - 1 : j < k => old(j) < old(k)
      /\ \A m \in 1 .. n : m # i => \E j \in 1 .. n - 1 : old(j) = m
  <2>1. ASSUME NEW m \in 1 .. n, m # i PROVE \E j \in 1 .. n - 1 : old(j) = m
    <3>1. CASE m < i
      BY <1>1, <3>1
    <3>2. CASE m > i
      <4>1. m - 1 \in 1 .. n - 1 /\ ~ (m - 1 < i) /\ (m - 1) + 1 = m
        BY <1>1, <3>2
      <4> QED BY <4>1
    <3> QED BY <1>1, <2>1, <3>1, <3>2
  <2> QED BY <1>1, <2>1
<1> HIDE DEF old
<1>4. \A j, k \in 1 .. n : j < k => callbacks[j] # callbacks[k]
  BY <1>1 DEF QueueInv, Distinct
<1>5. ASSUME NEW j \in 1 .. n, j # i PROVE callbacks[j] # callbacks[i]
  BY <1>1, <1>4, <1>5
<1>6. ASSUME NEW d \in Callbacks
      PROVE  fate'[d] = "queued" <=> \E j \in 1 .. n - 1 : callbacks'[j] = d
  <2>1. fate[d] = "queued" <=> \E m \in 1 .. n : callbacks[m] = d
    BY <1>1 DEF QueueInv
  <2>2. (\E j \in 1 .. n - 1 : callbacks'[j] = d)
           <=> \E m \in 1 .. n : m # i /\ callbacks[m] = d
    <3>1. ASSUME NEW j \in 1 .. n - 1, callbacks'[j] = d
          PROVE  \E m \in 1 .. n : m # i /\ callbacks[m] = d
      <4>1. old(j) \in 1 .. n /\ old(j) # i /\ callbacks[old(j)] = d
        BY <1>2, <1>3, <3>1
      <4> QED BY <4>1
    <3>2. ASSUME NEW m \in 1 .. n, m # i, callbacks[m] = d
          PROVE  \E j \in 1 .. n - 1 : callbacks'[j] = d
      <4>1. PICK j \in 1 .. n - 1 : old(j) = m
        BY <1>3, <3>2
      <4>2. callbacks'[j] = d
        BY <1>2, <3>2, <4>1
      <4> QED BY <4>2
    <3> QED BY <3>1, <3>2
  <2> QED BY <1>1, <1>5, <2>1, <2>2
<1>7. ASSUME NEW j \in 1 .. n - 1, NEW k \in 1 .. n - 1, j < k
      PROVE  callbacks'[j] # callbacks'[k]
  <2>1. old(j) \in 1 .. n /\ old(k) \in 1 .. n /\ old(j) < old(k)
    BY <1>3, <1>7
  <2>2. callbacks'[j] = callbacks[old(j)] /\ callbacks'[k] = callbacks[old(k)]
    BY <1>2
  <2> QED BY <1>4, <2>1, <2>2
<1> QED BY <1>2, <1>6, <1>7 DEF QueueInv, Distinct

LEMMA QueueErases ==
  ASSUME QueueInv, callbacks \in Seq(Callbacks), NEW S, callbacks' = Filter(callbacks, S),
         \A d \in Callbacks : fate'[d] = "queued" <=> fate[d] = "queued" /\ d \in S
  PROVE  QueueInv' /\ callbacks' \in Seq(Callbacks)
<1>1. /\ callbacks' \in Seq(Callbacks) /\ Len(callbacks') \in Nat
      /\ \A i \in 1 .. Len(callbacks') :
           callbacks'[i] \in S /\ \E k \in 1 .. Len(callbacks) : callbacks[k] = callbacks'[i]
      /\ \A k \in 1 .. Len(callbacks) :
           callbacks[k] \in S => \E i \in 1 .. Len(callbacks') : callbacks'[i] = callbacks[k]
      /\ Distinct(callbacks) => Distinct(callbacks')
  <2> DEFINE F == Filter(callbacks, S)
  <2>1. /\ F \in Seq(Callbacks) /\ Len(F) \in Nat
        /\ \A i \in 1 .. Len(F) : F[i] \in S /\ \E k \in 1 .. Len(callbacks) : callbacks[k] = F[i]
        /\ \A k \in 1 .. Len(callbacks) :
             callbacks[k] \in S => \E i \in 1 .. Len(F) : F[i] = callbacks[k]
        /\ (\A k, l \in 1 .. Len(callbacks) : k < l => callbacks[k] # callbacks[l])
             => \A i, j \in 1 .. Len(F) : i < j => F[i] # F[j]
    BY FilterSelects, ZenonT(60)
  <2>2. callbacks' = F
    OBVIOUS
  <2> HIDE DEF F
  <2> QED BY <2>1, <2>2 DEF Distinct
<1>2. ASSUME NEW d \in Callbacks
      PROVE  fate'[d] = "queued" <=> \E i \in 1 .. Len(callbacks') : callbacks'[i] = d
  <2>1. fate[d] = "queued" <=> \E i \in 1 .. Len(callbacks) : callbacks[i] = d
    BY DEF QueueInv
  <2>2. ASSUME NEW i \in 1 .. Len(callbacks'), callbacks'[i] = d
        PROVE  d \in S /\ \E k \in 1 .. Len(callbacks) : callbacks[k] = d
    BY <1>1, <2>2
  <2>3. ASSUME NEW k \in 1 .. Len(callbacks), callbacks[k] = d, d \in S
        PROVE  \E i \in 1 .. Len(callbacks') : callbacks'[i] = d
    BY <1>1, <2>3
  <2> QED BY <2>1, <2>2, <2>3
<1>3. Distinct(callbacks')
  BY <1>1 DEF QueueInv
<1> QED BY <1>1, <1>2, <1>3 DEF QueueInv

LEMMA QueueEmpties ==
  ASSUME callbacks' = <<>>, \A d \in Callbacks : fate'[d] # "queued"
  PROVE  QueueInv' /\ callbacks' \in Seq(Callbacks)
<1>1. Len(callbacks') = 0 /\ callbacks' \in Seq(Callbacks)
  OBVIOUS
<1> QED BY <1>1 DEF QueueInv, Distinct

-----------------------------------------------------------------------------
(* What the lemmas above say of a step that begins and ends no call.  Same(t, k) leaves   *)
(* also alone what frame k has given up and counted.                                      *)

Silent(t, k) ==
  /\ OnlyFrame(t, k) /\ stack' \in [Threads -> Seq(Frame)] /\ Shape'
  /\ ~ In(t, k) /\ ~ In(t, k)'
Same(t, k) ==
  /\ Silent(t, k)
  /\ \A o : Gave(t, k, o)' <=> Gave(t, k, o)
  /\ \A n : Counts(t, k, n)' <=> Counts(t, k, n)

LEMMA SilentRuns ==
  ASSUME RunInv, NEW t \in Threads, NEW k, Silent(t, k),
         \A c \in Callbacks : fate'[c] = "running" <=> fate[c] = "running"
  PROVE  RunInv'
<1>1. OnlyFrame(t, k) /\ ~ In(t, k) /\ ~ In(t, k)'
  BY DEF Silent
<1>2. \A u \in Threads, i \in Nat : \A c : Runs(u, i, c)' <=> Runs(u, i, c)
  BY <1>1, CallsStay
<1> QED BY <1>2, RunStays

LEMMA SameLocks ==
  ASSUME TypeOK, Shape, SharedLocks, NEW t \in Threads, NEW k, Same(t, k), shared' = shared
  PROVE  SharedLocks'
BY LocksStay DEF Same, Silent

LEMMA SameCounts ==
  ASSUME NEW t \in Threads, NEW k, Same(t, k)
  PROVE  Counted' = Counted
BY CountedStays DEF Same, Silent

\* The callbacks that are being added.
LEMMA InfoStays ==
  ASSUME InfoInv, NEW t \in Threads, NEW k, OnlyFrame(t, k),
         \A c \in Callbacks : Adding(t, k, c)' => Adding(t, k, c),
         \A c \in Callbacks : fate[c] # "new" => fate'[c] # "new",
         added' = added, added \subseteq Callbacks, objects' = objects
  PROVE  InfoInv'
<1>0. 1 .. MaxDepth \subseteq Nat
  BY CallbackQueueAssumption
<1>1. ASSUME NEW u \in Threads, NEW i \in 1 .. MaxDepth, NEW c \in Callbacks, Adding(u, i, c)'
      PROVE  Adding(u, i, c)
  <2>1. CASE u = t /\ i = k
    BY <1>1, <2>1
  <2>2. CASE u # t \/ i # k
    BY <1>0, <1>1, <2>2 DEF OnlyFrame, Adding
  <2> QED BY <2>1, <2>2
<1>2. objects' <= Cardinality(added') /\ \A c \in added' : fate'[c] # "new"
  BY DEF InfoInv
<1>3. ASSUME NEW u \in Threads, NEW i \in 1 .. MaxDepth, NEW c \in Callbacks, Adding(u, i, c)'
      PROVE  /\ fate'[c] # "new" /\ c \notin added'
             /\ \A v \in Threads, j \in 1 .. MaxDepth : Adding(v, j, c)' => v = u
  BY <1>1, <1>3 DEF InfoInv
<1> QED BY <1>2, <1>3 DEF InfoInv

LEMMA VictimsStay ==
  ASSUME VictimInv, NEW t \in Threads, NEW k, OnlyFrame(t, k), added \subseteq added',
         Has(t, k)' => stack'[t][k].victims \subseteq added'
  PROVE  VictimInv'
<1> SUFFICES ASSUME NEW u \in Threads, NEW i \in Nat, Has(u, i)'
             PROVE  stack'[u][i].victims \subseteq added'
  BY DEF VictimInv
<1>1. CASE u = t /\ i = k
  BY <1>1
<1>2. CASE u # t \/ i # k
  <2>1. Has(u, i) /\ stack'[u][i] = stack[u][i]
    BY <1>2 DEF OnlyFrame
  <2> QED BY <2>1 DEF VictimInv
<1> QED BY <1>1, <1>2

\* A step that leaves the stacks alone.
LEMMA StacksStay ==
  ASSUME stack' = stack
  PROVE  /\ Counted' = Counted /\ (added' = added /\ VictimInv => VictimInv')
         /\ \A u, i, c : Runs(u, i, c)' <=> Runs(u, i, c)
         /\ \A u, i, c : Adding(u, i, c)' <=> Adding(u, i, c)
         /\ tls' = tls => (Shape => Shape')
         /\ shared' = shared => (SharedLocks => SharedLocks')
<1>1. Counted' = Counted
  BY DEF Counted, Counts, Has
<1>2. \A u, i, c : Runs(u, i, c)' <=> Runs(u, i, c)
  BY DEF Runs, In, Has
<1>3. \A u, i, c : Adding(u, i, c)' <=> Adding(u, i, c)
  BY DEF Adding, Has
<1>4. tls' = tls => (Shape => Shape')
  BY DEF Shape
<1>5. shared' = shared => (SharedLocks => SharedLocks')
  BY DEF SharedLocks, CallsOn, GivenUp, InCall, Top
<1>6. added' = added /\ VictimInv => VictimInv'
  BY DEF VictimInv, Has
<1> QED BY <1>1, <1>2, <1>3, <1>4, <1>5, <1>6

\* Of the frame that a thread is in.
LEMMA InFrame ==
  ASSUME TypeOK, Shape, NEW t \in Threads, NEW pc, At(t, pc)
  PROVE  /\ stack[t] # <<>> /\ Len(stack[t]) \in 1 .. MaxDepth /\ Top(t).pc = pc
         /\ Top(t) \in Frame /\ FrameOK(Top(t), tls[t])
         /\ Top(t) = stack[t][Len(stack[t])] /\ Has(t, Len(stack[t]))
         /\ \A i \in 1 .. Len(stack[t]) - 1 : stack[t][i].pc = "calling"
<1>1. stack[t] # <<>> /\ Top(t).pc = pc
  BY DEF At, Top
<1> QED BY <1>1, Below DEF Has

LEMMA NextCallOK ==
  ASSUME NEW f \in Frame, NEW list, FrameOK(f, list), f.pc \in {"call_head", "call_lock", "calling"},
         NEW rest
  PROVE  /\ NextCall(f, rest) \in Frame /\ FrameOK(NextCall(f, rest), rest)
         /\ NextCall(f, rest).pc \in {"call_head", "call_done"}
         /\ NextCall(f, rest).called = f.called + 1
         /\ ~ NextCall(f, rest).unlocked /\ ~ f.unlocked
<1> DEFINE g == NextCall(f, rest)
<1>1. ~ f.unlocked
  BY DEF FrameOK, Removing
<1>2. /\ g.pc = IF f.all /\ rest # <<>> THEN "call_head" ELSE "call_done"
      /\ g.called = f.called + 1 /\ g.unlocked = f.unlocked
  BY DEF NextCall, Frame
<1>3. g \in Frame
  <2>1. PICK n \in Nat, pc \in {"call_head", "call_done"} :
           n = f.called + 1 /\ pc = IF f.all /\ rest # <<>> THEN "call_head" ELSE "call_done"
    BY DEF Frame
  <2>2. g = [f EXCEPT !.called = n, !.cb = None, !.obj = None, !.pc = pc]
    BY <2>1 DEF NextCall
  <2>3. [f EXCEPT !.called = n, !.cb = None, !.obj = None, !.pc = pc] \in Frame
    BY DEF Frame
  <2> QED BY <2>2, <2>3
<1> HIDE DEF g
<1>4. FrameOK(g, rest)
  BY <1>1, <1>2 DEF FrameOK, Removing
<1> QED BY <1>1, <1>2, <1>3, <1>4 DEF g

-----------------------------------------------------------------------------
(* The three ways in which a stack changes, outside of the beginnings and ends of calls. *)

GaveIn(f, o) == f.unlocked /\ f.pc # "rm_forget" /\ f.obj = o

LEMMA Pushed ==
  ASSUME TypeOK, Shape, NEW t \in Threads, Free(t), NEW f \in Frame, Push(t, f),
         f.pc # "calling", f.called = 0, FrameOK(f, tls'[t]),
         \A u \in Threads : u # t => tls'[u] = tls[u],
         NEW k, k = Len(stack[t]) + 1
  PROVE  /\ OnlyFrame(t, k) /\ Silent(t, k) /\ (~ f.unlocked => Same(t, k))
         /\ \A o : ~ Gave(t, k, o) /\ (Gave(t, k, o)' <=> GaveIn(f, o))
         /\ Counted' = Counted
         /\ \A c : ~ Adding(t, k, c) /\ (Adding(t, k, c)' <=> f.pc = "add_info" /\ f.cb = c)
         /\ k \in 1 .. MaxDepth
         /\ VictimInv /\ added' = added /\ f.victims \subseteq added => VictimInv'
<1>1. /\ OnlyFrame(t, k) /\ stack' \in [Threads -> Seq(Frame)]
      /\ ~ Has(t, k) /\ Has(t, k)' /\ Len(stack'[t]) = k /\ stack'[t][k] = f
  BY Pushes
<1>2. k - 1 = Len(stack[t]) /\ k \in 1 .. MaxDepth
  <2>1. Len(stack[t]) \in Nat /\ MaxDepth \in Nat
    BY CallbackQueueAssumption DEF TypeOK
  <2>2. Len(stack[t]) + 1 <= MaxDepth
    BY Below
  <2> QED BY <2>1, <2>2
<1>3. \A i \in 1 .. k - 1 : stack[t][i].pc = "calling"
  BY <1>2, Below
<1>4. Shape'
  BY <1>1, <1>2, <1>3, ShapeStep
<1>5. ~ In(t, k) /\ ~ In(t, k)'
  BY <1>1 DEF In
<1>6. Silent(t, k)
  BY <1>1, <1>4, <1>5 DEF Silent
<1>7. \A o : ~ Gave(t, k, o) /\ (Gave(t, k, o)' <=> GaveIn(f, o))
  BY <1>1 DEF Gave, GaveIn
<1>8. \A n : ~ Counts(t, k, n) /\ ~ Counts(t, k, n)'
  BY <1>1 DEF Counts
<1>9. Counted' = Counted
  BY <1>1, <1>8, CountedStays
<1>10. ~ f.unlocked => Same(t, k)
  BY <1>6, <1>7, <1>8 DEF Same, GaveIn
<1>11. \A c : ~ Adding(t, k, c) /\ (Adding(t, k, c)' <=> f.pc = "add_info" /\ f.cb = c)
  BY <1>1 DEF Adding
<1>12. VictimInv /\ added' = added /\ f.victims \subseteq added => VictimInv'
  BY <1>1, VictimsStay
<1> QED BY <1>1, <1>2, <1>6, <1>7, <1>9, <1>10, <1>11, <1>12

LEMMA Became ==
  ASSUME TypeOK, Shape, NEW t \in Threads, stack[t] # <<>>, NEW f \in Frame, Become(t, f),
         f.pc \notin {"calling", "add_info"}, Top(t).pc # "calling", FrameOK(f, tls'[t]),
         \A u \in Threads : u # t => tls'[u] = tls[u],
         NEW k, k = Len(stack[t])
  PROVE  /\ OnlyFrame(t, k) /\ Silent(t, k)
         /\ \A o : (Gave(t, k, o) <=> GaveIn(Top(t), o)) /\ (Gave(t, k, o)' <=> GaveIn(f, o))
         /\ f.called = Top(t).called => Counted' = Counted
         /\ (\A o : GaveIn(Top(t), o) <=> GaveIn(f, o)) /\ f.called = Top(t).called => Same(t, k)
         /\ \A c : ~ Adding(t, k, c)'
         /\ Has(t, k) /\ Has(t, k)' /\ stack'[t][k] = f /\ stack[t][k] = Top(t)
         /\ VictimInv /\ added' = added /\ f.victims = Top(t).victims => VictimInv'
<1>1. /\ OnlyFrame(t, k) /\ stack' \in [Threads -> Seq(Frame)]
      /\ Has(t, k) /\ Has(t, k)' /\ Len(stack'[t]) = k /\ stack'[t][k] = f
      /\ stack[t][k] = Top(t)
  BY Becomes
<1>2. k \in 1 .. MaxDepth /\ \A i \in 1 .. k - 1 : stack[t][i].pc = "calling"
  BY Below
<1>3. k <= MaxDepth
  BY <1>2
<1>4. Shape'
  BY <1>1, <1>2, <1>3, ShapeStep
<1>5. ~ In(t, k) /\ ~ In(t, k)'
  BY <1>1 DEF In
<1>6. Silent(t, k)
  BY <1>1, <1>4, <1>5 DEF Silent
<1>7. \A o : (Gave(t, k, o) <=> GaveIn(Top(t), o)) /\ (Gave(t, k, o)' <=> GaveIn(f, o))
  BY <1>1 DEF Gave, GaveIn
<1>8. f.called = Top(t).called => \A n : Counts(t, k, n)' <=> Counts(t, k, n)
  BY <1>1 DEF Counts
<1>9. f.called = Top(t).called => Counted' = Counted
  BY <1>1, <1>8, CountedStays
<1>10. (\A o : GaveIn(Top(t), o) <=> GaveIn(f, o)) /\ f.called = Top(t).called => Same(t, k)
  BY <1>6, <1>7, <1>8 DEF Same
<1>11. \A c : ~ Adding(t, k, c)'
  BY <1>1 DEF Adding
<1>12. VictimInv /\ added' = added /\ f.victims = Top(t).victims => VictimInv'
  <2>1. VictimInv => Top(t).victims \subseteq added
    BY <1>1, <1>2 DEF VictimInv
  <2> QED BY <1>1, <2>1, VictimsStay
<1> QED BY <1>1, <1>6, <1>7, <1>9, <1>10, <1>11, <1>12

LEMMA Returned ==
  ASSUME TypeOK, Shape, NEW t \in Threads, stack[t] # <<>>, Return(t),
         Top(t).pc # "calling", \A o : ~ GaveIn(Top(t), o),
         \A u \in Threads : u # t => tls'[u] = tls[u],
         NEW k, k = Len(stack[t])
  PROVE  /\ OnlyFrame(t, k) /\ Silent(t, k)
         /\ \A o : Gave(t, k, o)' <=> Gave(t, k, o)
         /\ Top(t).called = 0 => Same(t, k)
         /\ \A c : ~ Adding(t, k, c)'
         /\ Has(t, k) /\ ~ Has(t, k)' /\ stack[t][k] = Top(t)
         /\ VictimInv /\ added \subseteq added' => VictimInv'
<1>1. /\ OnlyFrame(t, k) /\ stack' \in [Threads -> Seq(Frame)]
      /\ Has(t, k) /\ ~ Has(t, k)' /\ Len(stack'[t]) = k - 1
      /\ stack[t][k] = Top(t)
  BY Returns
<1>2. k \in 1 .. MaxDepth /\ \A i \in 1 .. k - 1 : stack[t][i].pc = "calling"
  BY Below
<1>3. Shape'
  BY <1>1, <1>2, ShapeStep
<1>4. ~ In(t, k) /\ ~ In(t, k)'
  BY <1>1 DEF In
<1>5. Silent(t, k)
  BY <1>1, <1>3, <1>4 DEF Silent
<1>6. \A o : ~ Gave(t, k, o) /\ ~ Gave(t, k, o)'
  BY <1>1 DEF Gave, GaveIn
<1>7. Top(t).called = 0 => \A n : ~ Counts(t, k, n) /\ ~ Counts(t, k, n)'
  BY <1>1 DEF Counts
<1>8. Top(t).called = 0 => Same(t, k)
  BY <1>5, <1>6, <1>7 DEF Same
<1>9. \A c : ~ Adding(t, k, c)'
  BY <1>1 DEF Adding
<1>10. VictimInv /\ added \subseteq added' => VictimInv'
  BY <1>1, VictimsStay
<1> QED BY <1>1, <1>5, <1>6, <1>8, <1>9, <1>10

-----------------------------------------------------------------------------
(* addCallback *)

LEMMA AddCallbackStep ==
  ASSUME IInv, NEW t \in Threads, NEW c \in Callbacks, AddCallback(t, c)
  PROVE  IInv'
<1>1. /\ TypeOK /\ Shape /\ InfoInv /\ QueueInv /\ HeldInv /\ RunInv /\ CountInv /\ SharedLocks
      /\ VictimInv
      /\ callbacks \in Seq(Callbacks) /\ fate \in [Callbacks -> Fates] /\ added \subseteq Callbacks
  BY DEF IInv, TypeOK
<1>2. /\ Free(t) /\ fate[c] = "new"
      /\ UNCHANGED <<calling, enabled, id_info, objects, shared, tls, added, gone>>
  BY DEF AddCallback
<1>3. CASE enabled
  <2>0. PICK k, f : k = Len(stack[t]) + 1 /\ f = [NewFrame("add_info") EXCEPT !.cb = c]
    OBVIOUS
  <2>1. /\ callbacks' = Append(callbacks, c) /\ Push(t, f)
        /\ fate' = [fate EXCEPT ![c] = "queued"]
    BY <1>3, <2>0 DEF AddCallback
  <2>2. /\ f \in Frame /\ f.pc = "add_info" /\ f.cb = c /\ f.called = 0 /\ ~ f.unlocked
        /\ f.victims = {}
    BY <2>0 DEF Frame, NewFrame, None
  <2>3. FrameOK(f, tls'[t])
    BY <2>2 DEF FrameOK, Removing
  <2>4. /\ OnlyFrame(t, k) /\ Silent(t, k) /\ Same(t, k)
        /\ \A d : ~ Adding(t, k, d) /\ (Adding(t, k, d)' <=> d = c)
        /\ k \in 1 .. MaxDepth /\ VictimInv'
    <3>1. f.pc # "calling" /\ \A u \in Threads : u # t => tls'[u] = tls[u]
      BY <1>2, <2>2
    <3>2. /\ TypeOK /\ Shape /\ Free(t) /\ Push(t, f)
          /\ k = Len(stack[t]) + 1 /\ f \in Frame /\ f.called = 0
      BY <1>1, <1>2, <2>0, <2>1, <2>2
    <3>3. /\ OnlyFrame(t, k) /\ Silent(t, k) /\ (~ f.unlocked => Same(t, k))
          /\ \A o : ~ Gave(t, k, o) /\ (Gave(t, k, o)' <=> GaveIn(f, o))
          /\ Counted' = Counted
          /\ \A d : ~ Adding(t, k, d) /\ (Adding(t, k, d)' <=> f.pc = "add_info" /\ f.cb = d)
          /\ k \in 1 .. MaxDepth
          /\ VictimInv /\ added' = added /\ f.victims \subseteq added => VictimInv'
      BY <2>3, <3>1, <3>2, Pushed
    <3>4. VictimInv'
      BY <1>1, <1>2, <2>2, <3>3
    <3> QED BY <2>2, <3>3, <3>4
  <2>5. \A d \in Callbacks : fate'[d] = IF d = c THEN "queued" ELSE fate[d]
    BY <1>1, <2>1
  <2>6. InfoInv'
    <3>1. objects' <= Cardinality(added') /\ \A d \in added' : fate'[d] # "new"
      BY <1>1, <1>2, <2>5 DEF InfoInv
    <3>2. ASSUME NEW u \in Threads, NEW i \in 1 .. MaxDepth, NEW d \in Callbacks, Adding(u, i, d)'
          PROVE  Adding(u, i, d) \/ (u = t /\ d = c)
      <4>1. i \in Nat
        BY CallbackQueueAssumption
      <4>2. CASE u = t /\ i = k
        BY <2>4, <3>2, <4>2
      <4>3. CASE u # t \/ i # k
        BY <2>4, <3>2, <4>1, <4>3 DEF OnlyFrame, Adding
      <4> QED BY <4>2, <4>3
    <3>3. c \notin added /\ \A u \in Threads, i \in 1 .. MaxDepth : ~ Adding(u, i, c)
      BY <1>1, <1>2 DEF InfoInv
    <3>4. ASSUME NEW u \in Threads, NEW i \in 1 .. MaxDepth, NEW d \in Callbacks, Adding(u, i, d)'
          PROVE  /\ fate'[d] # "new" /\ d \notin added'
                 /\ \A v \in Threads, j \in 1 .. MaxDepth : Adding(v, j, d)' => v = u
      <4>1. CASE d = c
        BY <1>2, <2>5, <3>2, <3>3, <3>4, <4>1
      <4>2. CASE d # c
        BY <1>1, <1>2, <2>5, <3>2, <3>4, <4>2 DEF InfoInv
      <4> QED BY <4>1, <4>2
    <3> QED BY <3>1, <3>4 DEF InfoInv
  <2>7. QueueInv' /\ callbacks' \in Seq(Callbacks)
    BY <1>1, <1>2, <2>1, <2>5, QueuePushes
  <2>8. HeldInv'
    BY <1>1, <1>2, <2>5, HeldStays
  <2>9. RunInv'
    BY <1>1, <1>2, <2>4, <2>5, SilentRuns
  <2>10. CountInv'
    BY <1>1, <1>2, <2>4, <2>5, SameCounts, CountStays
  <2>11. SharedLocks'
    BY <1>1, <1>2, <2>4, SameLocks
  <2>12. Shape' /\ stack' \in [Threads -> Seq(Frame)]
    BY <2>4 DEF Silent
  <2>13. fate' \in [Callbacks -> Fates]
    BY <1>1, <2>1 DEF Fates
  <2>14. TypeOK'
    BY <1>1, <1>2, <2>7, <2>12, <2>13 DEF TypeOK
  <2> QED BY <2>4, <2>6, <2>7, <2>8, <2>9, <2>10, <2>11, <2>12, <2>14 DEF IInv
<1>4. CASE ~ enabled
  <2>1. fate' = [fate EXCEPT ![c] = "rejected"] /\ callbacks' = callbacks /\ stack' = stack
    BY <1>4 DEF AddCallback
  <2>2. \A d \in Callbacks : fate'[d] = IF d = c THEN "rejected" ELSE fate[d]
    BY <1>1, <2>1
  <2>3. Shape' /\ SharedLocks' /\ Counted' = Counted /\ VictimInv'
    BY <1>1, <1>2, <2>1, StacksStay
  <2>4. /\ \A u, i, d : Runs(u, i, d)' <=> Runs(u, i, d)
        /\ \A u, i, d : Adding(u, i, d)' <=> Adding(u, i, d)
    BY <2>1, StacksStay
  <2>5. InfoInv'
    BY <1>1, <1>2, <2>2, <2>4 DEF InfoInv
  <2>6. QueueInv' /\ HeldInv'
    BY <1>1, <1>2, <2>1, <2>2, QueueStays, HeldStays
  <2>7. RunInv'
    BY <1>1, <1>2, <2>2, <2>4, RunStays
  <2>8. CountInv'
    BY <1>1, <1>2, <2>2, <2>3, CountStays
  <2>9. fate' \in [Callbacks -> Fates]
    BY <1>1, <2>1 DEF Fates
  <2>10. TypeOK'
    BY <1>1, <1>2, <2>1, <2>9 DEF TypeOK
  <2> QED BY <2>3, <2>5, <2>6, <2>7, <2>8, <2>10 DEF IInv
<1> QED BY <1>3, <1>4

LEMMA AddIDInfoStep ==
  ASSUME IInv, NEW t \in Threads, AddIDInfo(t)
  PROVE  IInv'
<1>0. PICK k, c : k = Len(stack[t]) /\ c = Top(t).cb
  OBVIOUS
<1>1. /\ TypeOK /\ Shape /\ InfoInv /\ QueueInv /\ HeldInv /\ RunInv /\ CountInv /\ SharedLocks
      /\ VictimInv
      /\ added \subseteq Callbacks /\ id_info \in [Ids -> Objects \union {None}] /\ objects \in Nat
  <2>1. Cardinality(Callbacks) \in Nat
    BY CallbackQueueAssumption, FS_CardinalityType
  <2>2. 0 .. Cardinality(Callbacks) \subseteq Nat
    BY <2>1
  <2> QED BY <2>2 DEF IInv, TypeOK
<1>2. /\ At(t, "add_info") /\ Return(t) /\ added' = added \union {c}
      /\ IF id_info[Owner[c]] = None
         THEN objects' = objects + 1 /\ id_info' = [id_info EXCEPT ![Owner[c]] = objects + 1]
         ELSE UNCHANGED <<objects, id_info>>
      /\ UNCHANGED <<callbacks, calling, enabled, shared, tls, fate, gone>>
  BY <1>0 DEF AddIDInfo
<1>3. /\ stack[t] # <<>> /\ k \in 1 .. MaxDepth /\ Top(t).pc = "add_info"
      /\ FrameOK(Top(t), tls[t]) /\ Top(t) = stack[t][k] /\ Has(t, k)
      /\ \A i \in 1 .. k - 1 : stack[t][i].pc = "calling"
  BY <1>0, <1>1, <1>2, InFrame
<1>4. c \in Callbacks /\ Top(t).called = 0 /\ ~ Top(t).unlocked
  BY <1>0, <1>3 DEF FrameOK, Removing
<1>5. /\ OnlyFrame(t, k) /\ Silent(t, k) /\ Same(t, k) /\ \A d : ~ Adding(t, k, d)'
      /\ VictimInv'
  <2>1. Top(t).pc # "calling" /\ \A o : ~ GaveIn(Top(t), o)
    BY <1>3, <1>4 DEF GaveIn
  <2>2. \A u \in Threads : u # t => tls'[u] = tls[u]
    BY <1>2
  <2>3. /\ OnlyFrame(t, k) /\ Silent(t, k) /\ (Top(t).called = 0 => Same(t, k))
        /\ \A d : ~ Adding(t, k, d)'
        /\ VictimInv /\ added \subseteq added' => VictimInv'
    BY <1>0, <1>1, <1>2, <1>3, <2>1, <2>2, Returned
  <2> QED BY <1>1, <1>2, <1>4, <2>3
<1>6. Adding(t, k, c)
  BY <1>0, <1>3 DEF Adding
<1>7. c \notin added /\ fate[c] # "new"
  BY <1>1, <1>3, <1>4, <1>6 DEF InfoInv
<1>8. /\ IsFiniteSet(added') /\ Cardinality(added') = Cardinality(added) + 1
      /\ Cardinality(added') <= Cardinality(Callbacks) /\ Cardinality(Callbacks) \in Nat
      /\ Cardinality(added) \in Nat /\ added' \subseteq Callbacks
  <2>1. IsFiniteSet(added) /\ added' \subseteq Callbacks /\ IsFiniteSet(Callbacks)
    BY <1>1, <1>2, <1>4, CallbackQueueAssumption, FS_Subset
  <2> QED BY <1>2, <1>7, <2>1, FS_AddElement, FS_Subset, FS_CardinalityType
<1>9. objects <= Cardinality(added)
  BY <1>1 DEF InfoInv
<1>10. /\ objects' \in 0 .. Cardinality(Callbacks) /\ objects' <= Cardinality(added')
       /\ id_info' \in [Ids -> Objects \union {None}]
  <2>1. CASE id_info[Owner[c]] = None
    <3>1. objects + 1 \in Objects /\ objects' = objects + 1
      BY <1>1, <1>2, <1>8, <1>9, <2>1 DEF Objects
    <3> QED BY <1>1, <1>2, <1>8, <1>9, <2>1, <3>1 DEF Objects
  <2>2. CASE id_info[Owner[c]] # None
    BY <1>1, <1>2, <1>8, <1>9, <2>2
  <2> QED BY <2>1, <2>2
<1>11. InfoInv'
  <2>1. ASSUME NEW u \in Threads, NEW i \in 1 .. MaxDepth, NEW d \in Callbacks, Adding(u, i, d)'
        PROVE  Adding(u, i, d) /\ d # c
    <3>1. i \in Nat /\ (u # t \/ i # k)
      <4>1. i \in Nat
        BY CallbackQueueAssumption
      <4>2. ASSUME u = t, i = k PROVE FALSE
        BY <1>5, <2>1, <4>2
      <4> QED BY <4>1, <4>2
    <3>2. Adding(u, i, d)
      BY <1>5, <2>1, <3>1 DEF OnlyFrame, Adding
    <3>3. d = c => u = t
      BY <1>1, <1>3, <1>4, <1>6, <3>2 DEF InfoInv
    <3>4. ASSUME u = t PROVE FALSE
      <4>1. i \in 1 .. Len(stack[t]) /\ stack[t][i].pc = "add_info"
        BY <3>2, <3>4 DEF Adding, Has
      <4>2. i \in 1 .. k - 1
        BY <1>0, <1>3, <3>1, <3>4, <4>1
      <4> QED BY <1>3, <4>1, <4>2
    <3> QED BY <3>2, <3>3, <3>4
  <2>2. \A d \in added' : fate'[d] # "new"
    BY <1>1, <1>2, <1>7 DEF InfoInv
  <2>3. ASSUME NEW u \in Threads, NEW i \in 1 .. MaxDepth, NEW d \in Callbacks, Adding(u, i, d)'
        PROVE  /\ fate'[d] # "new" /\ d \notin added'
               /\ \A v \in Threads, j \in 1 .. MaxDepth : Adding(v, j, d)' => v = u
    BY <1>1, <1>2, <2>1, <2>3 DEF InfoInv
  <2> QED BY <1>10, <2>2, <2>3 DEF InfoInv
<1>12. QueueInv' /\ HeldInv'
  BY <1>1, <1>2, QueueStays, HeldStays
<1>13. RunInv'
  BY <1>1, <1>2, <1>5, SilentRuns
<1>14. CountInv' /\ SharedLocks'
  BY <1>1, <1>2, <1>5, SameCounts, CountStays, SameLocks
<1>15. Shape' /\ stack' \in [Threads -> Seq(Frame)]
  BY <1>5 DEF Silent
<1>16. TypeOK'
  BY <1>1, <1>2, <1>8, <1>10, <1>15 DEF TypeOK
<1> QED BY <1>5, <1>11, <1>12, <1>13, <1>14, <1>15, <1>16 DEF IInv

-----------------------------------------------------------------------------
(* removeByID *)

\* Of a step that only moves one frame, nothing but the frame's own account is left to show.
LEMMA SameStep ==
  ASSUME IInv, NEW t \in Threads, NEW k, Silent(t, k), Counted' = Counted,
         \A c : ~ Adding(t, k, c)',
         UNCHANGED <<callbacks, calling, objects, tls, fate, added>>
  PROVE  /\ InfoInv' /\ QueueInv' /\ HeldInv' /\ RunInv' /\ CountInv' /\ Shape'
         /\ stack' \in [Threads -> Seq(Frame)]
<1>1. OnlyFrame(t, k) /\ added \subseteq Callbacks
  BY DEF Silent, IInv, TypeOK
<1>2. InfoInv'
  BY <1>1, InfoStays DEF IInv
<1>3. QueueInv' /\ HeldInv'
  BY QueueStays, HeldStays DEF IInv
<1>4. RunInv' /\ CountInv'
  BY SilentRuns, CountStays DEF IInv
<1> QED BY <1>2, <1>3, <1>4 DEF Silent

LEMMA RemoveByIDStep ==
  ASSUME IInv, NEW t \in Threads, NEW id \in Ids, RemoveByID(t, id)
  PROVE  IInv'
<1>0. PICK k, o, inner : k = Len(stack[t]) + 1 /\ o = id_info[id] /\ inner = Inside(t, id)
  OBVIOUS
<1>1. /\ TypeOK /\ Shape /\ InfoInv /\ QueueInv /\ HeldInv /\ RunInv /\ CountInv /\ SharedLocks
      /\ VictimInv
      /\ id_info \in [Ids -> Objects \union {None}] /\ shared \in [Objects -> Int]
      /\ gone \subseteq added /\ added \subseteq Callbacks
  BY DEF IInv, TypeOK
<1>2. /\ Free(t)
      /\ UNCHANGED <<callbacks, calling, enabled, id_info, objects, tls, fate, added>>
  BY DEF RemoveByID
<1>3. Victims(id) \subseteq added /\ inner \in BOOLEAN /\ o \in Objects \union {None}
  BY <1>0, <1>1 DEF Victims, Inside
<1>4. CASE o = None
  <2>1. gone' = gone \union Victims(id) /\ stack' = stack /\ shared' = shared
    BY <1>0, <1>4 DEF RemoveByID
  <2>2. /\ Shape' /\ SharedLocks' /\ Counted' = Counted /\ VictimInv'
        /\ \A u, i, d : Runs(u, i, d)' <=> Runs(u, i, d)
        /\ \A u, i, d : Adding(u, i, d)' <=> Adding(u, i, d)
    BY <1>1, <1>2, <2>1, StacksStay
  <2>3. InfoInv'
    BY <1>1, <1>2, <2>2 DEF InfoInv
  <2>4. QueueInv' /\ HeldInv' /\ RunInv'
    BY <1>1, <1>2, <2>2, QueueStays, HeldStays, RunStays
  <2>5. CountInv'
    BY <1>1, <1>2, <2>2, CountStays
  <2>6. TypeOK'
    BY <1>1, <1>2, <1>3, <2>1 DEF TypeOK
  <2> QED BY <2>2, <2>3, <2>4, <2>5, <2>6 DEF IInv
<1>5. CASE o # None
  <2>0. PICK f : f = [NewFrame("rm_lock") EXCEPT !.id = id, !.obj = o, !.unlocked = inner,
                                                 !.victims = Victims(id)]
    OBVIOUS
  <2>1. /\ Push(t, f) /\ gone' = gone
        /\ shared' = [shared EXCEPT ![o] = shared[o] - IF inner THEN 1 ELSE 0]
    BY <1>0, <1>5, <2>0 DEF RemoveByID
  <2>2. o \in Objects
    BY <1>3, <1>5
  <2>3. /\ f.pc = "rm_lock" /\ f.id = id /\ f.obj = o /\ f.unlocked = inner /\ f.called = 0
        /\ f.victims = Victims(id)
    BY <2>0 DEF NewFrame
  <2>4. f \in Frame
    <3>1. NewFrame("rm_lock") \in Frame
      BY DEF NewFrame, Frame, None
    <3>2. Victims(id) \in SUBSET Callbacks
      BY <1>1, <1>3
    <3>3. PICK V \in SUBSET Callbacks : V = Victims(id)
      BY <3>2
    <3>4. PICK g \in Frame : g = NewFrame("rm_lock")
      BY <3>1
    <3>5. [g EXCEPT !.id = id, !.obj = o, !.unlocked = inner, !.victims = V] \in Frame
      BY <1>3, <2>2 DEF Frame
    <3> QED BY <2>0, <3>3, <3>4, <3>5
  <2>5. FrameOK(f, tls'[t])
    BY <1>3, <2>2, <2>3 DEF FrameOK, Removing
  <2>6. /\ OnlyFrame(t, k) /\ Silent(t, k) /\ (~ f.unlocked => Same(t, k))
        /\ \A q : ~ Gave(t, k, q) /\ (Gave(t, k, q)' <=> GaveIn(f, q))
        /\ Counted' = Counted
        /\ \A d : ~ Adding(t, k, d) /\ (Adding(t, k, d)' <=> f.pc = "add_info" /\ f.cb = d)
        /\ k \in 1 .. MaxDepth
        /\ VictimInv /\ added' = added /\ f.victims \subseteq added => VictimInv'
    <3>1. f.pc # "calling" /\ \A u \in Threads : u # t => tls'[u] = tls[u]
      BY <1>2, <2>3
    <3>2. /\ TypeOK /\ Shape /\ Free(t) /\ Push(t, f)
          /\ k = Len(stack[t]) + 1 /\ f \in Frame /\ f.called = 0
      BY <1>0, <1>1, <1>2, <2>1, <2>3, <2>4
    <3> QED BY <2>5, <3>1, <3>2, Pushed
  <2>7. \A d : ~ Adding(t, k, d)'
    BY <2>3, <2>6
  <2>8. /\ InfoInv' /\ QueueInv' /\ HeldInv' /\ RunInv' /\ CountInv' /\ Shape'
        /\ stack' \in [Threads -> Seq(Frame)]
    BY <1>2, <2>6, <2>7, SameStep
  <2>9. SharedLocks'
    <3>1. CASE inner
      <4>1. /\ \A q : q # o => ~ Gave(t, k, q) /\ ~ Gave(t, k, q)'
            /\ ~ Gave(t, k, o) /\ Gave(t, k, o)'
        BY <2>3, <2>6, <3>1 DEF GaveIn
      <4>2. PICK d \in {1, -1} : d = -1
        OBVIOUS
      <4>3. shared' = [shared EXCEPT ![o] = shared[o] + d]
        BY <1>1, <2>1, <2>2, <3>1, <4>2
      <4>4. ~ In(t, k) /\ ~ In(t, k)' /\ OnlyFrame(t, k)
        BY <2>6 DEF Silent
      <4>5. /\ d = 1 => Gave(t, k, o) /\ ~ Gave(t, k, o)'
            /\ d = -1 => ~ Gave(t, k, o) /\ Gave(t, k, o)'
        BY <4>1, <4>2
      <4>6. TypeOK /\ Shape /\ SharedLocks /\ Shape' /\ stack' \in [Threads -> Seq(Frame)]
        BY <1>1, <2>8
      <4> QED BY <2>2, <4>1, <4>3, <4>4, <4>5, <4>6, LocksMove
    <3>2. CASE ~ inner
      <4>1. shared' = shared
        BY <1>1, <2>1, <2>2, <3>2
      <4> QED BY <1>1, <2>3, <2>6, <3>2, <4>1, SameLocks
    <3> QED BY <1>3, <3>1, <3>2
  <2>10. shared' \in [Objects -> Int]
    BY <1>1, <2>1, <2>2
  <2>11. TypeOK'
    BY <1>1, <1>2, <2>1, <2>8, <2>10 DEF TypeOK
  <2>12. VictimInv'
    BY <1>1, <1>2, <1>3, <2>3, <2>6
  <2> QED BY <2>8, <2>9, <2>11, <2>12 DEF IInv
<1> QED BY <1>4, <1>5

LEMMA RemoveWaitStep ==
  ASSUME IInv, NEW t \in Threads, RemoveWait(t)
  PROVE  IInv'
<1>0. PICK k, f : k = Len(stack[t]) /\ f = [Top(t) EXCEPT !.pc = "rm_wait"]
  OBVIOUS
<1>1. TypeOK /\ Shape /\ SharedLocks
  BY DEF IInv
<1>2. /\ At(t, "rm_lock") /\ Become(t, f)
      /\ UNCHANGED <<callbacks, calling, enabled, id_info, objects, shared, tls, fate, added, gone>>
  BY <1>0 DEF RemoveWait, Step
<1>3. /\ stack[t] # <<>> /\ Top(t).pc = "rm_lock"
      /\ Top(t) \in Frame /\ FrameOK(Top(t), tls[t])
  BY <1>1, <1>2, InFrame
<1>4. /\ f \in Frame /\ f.pc = "rm_wait" /\ f.id = Top(t).id /\ f.obj = Top(t).obj
      /\ f.unlocked = Top(t).unlocked /\ f.called = Top(t).called /\ f.victims = Top(t).victims
  BY <1>0, <1>3 DEF Frame
<1>5. FrameOK(f, tls'[t])
  BY <1>3, <1>4 DEF FrameOK, Removing
<1>6. \A o : GaveIn(Top(t), o) <=> GaveIn(f, o)
  BY <1>3, <1>4 DEF GaveIn
<1>7. /\ OnlyFrame(t, k) /\ Silent(t, k) /\ Same(t, k) /\ Counted' = Counted
      /\ \A c : ~ Adding(t, k, c)' /\ VictimInv'
  <2>1. /\ f.pc \notin {"calling", "add_info"} /\ Top(t).pc # "calling"
        /\ \A u \in Threads : u # t => tls'[u] = tls[u]
    BY <1>2, <1>3, <1>4
  <2>2. /\ TypeOK /\ Shape /\ stack[t] # <<>> /\ f \in Frame /\ Become(t, f) /\ k = Len(stack[t])
        /\ f.called = Top(t).called /\ f.victims = Top(t).victims
    BY <1>0, <1>1, <1>2, <1>3, <1>4
  <2>3. /\ OnlyFrame(t, k) /\ Silent(t, k)
        /\ f.called = Top(t).called => Counted' = Counted
        /\ (\A o : GaveIn(Top(t), o) <=> GaveIn(f, o)) /\ f.called = Top(t).called => Same(t, k)
        /\ \A c : ~ Adding(t, k, c)'
        /\ VictimInv /\ added' = added /\ f.victims = Top(t).victims => VictimInv'
    BY <1>5, <2>1, <2>2, Became
  <2>4. VictimInv /\ added' = added
    BY <1>2 DEF IInv
  <2> QED BY <1>6, <2>2, <2>3, <2>4
<1>8. /\ InfoInv' /\ QueueInv' /\ HeldInv' /\ RunInv' /\ CountInv' /\ Shape'
      /\ stack' \in [Threads -> Seq(Frame)]
  BY <1>2, <1>7, SameStep
<1>9. SharedLocks'
  BY <1>1, <1>2, <1>7, SameLocks
<1>10. TypeOK'
  BY <1>1, <1>2, <1>8 DEF TypeOK
<1> QED BY <1>7, <1>8, <1>9, <1>10 DEF IInv

LEMMA RemoveEraseStep ==
  ASSUME IInv, NEW t \in Threads, RemoveErase(t)
  PROVE  IInv'
<1>0. PICK k, f, id, pc : /\ k = Len(stack[t]) /\ f = [Top(t) EXCEPT !.pc = pc] /\ id = Top(t).id
                          /\ pc = AfterErase(Top(t))
  OBVIOUS
<1>1. /\ TypeOK /\ Shape /\ SharedLocks /\ InfoInv /\ QueueInv /\ HeldInv /\ RunInv /\ CountInv
      /\ callbacks \in Seq(Callbacks) /\ fate \in [Callbacks -> Fates] /\ added \subseteq Callbacks
  BY DEF IInv, TypeOK
<1>2. /\ At(t, "rm_lock") \/ At(t, "rm_wait")
      /\ callbacks' = Erased(id) /\ Become(t, f)
      /\ fate' = [c \in Callbacks |->
                    IF Owner[c] = id /\ fate[c] = "queued" THEN "removed" ELSE fate[c]]
      /\ UNCHANGED <<calling, enabled, id_info, objects, shared, tls, added, gone>>
  BY <1>0 DEF RemoveErase, Step
<1>3. /\ stack[t] # <<>> /\ Top(t).pc \in {"rm_lock", "rm_wait"}
      /\ Top(t) \in Frame /\ FrameOK(Top(t), tls[t])
  BY <1>1, <1>2, InFrame
<1>4. /\ f \in Frame /\ f.pc = pc /\ f.id = Top(t).id /\ f.obj = Top(t).obj
      /\ f.unlocked = Top(t).unlocked /\ f.called = Top(t).called /\ f.victims = Top(t).victims
      /\ pc = IF Top(t).unlocked THEN "rm_relock" ELSE "rm_forget"
  <2>1. pc = IF Top(t).unlocked THEN "rm_relock" ELSE "rm_forget"
    BY <1>0 DEF AfterErase
  <2>2. pc \in {"rm_relock", "rm_forget"}
    BY <2>1
  <2> QED BY <1>0, <1>3, <2>1, <2>2 DEF Frame
<1>5. FrameOK(f, tls'[t])
  BY <1>3, <1>4 DEF FrameOK, Removing
<1>6. \A o : GaveIn(Top(t), o) <=> GaveIn(f, o)
  BY <1>3, <1>4 DEF GaveIn
<1>7. /\ OnlyFrame(t, k) /\ Silent(t, k) /\ Same(t, k) /\ Counted' = Counted
      /\ \A c : ~ Adding(t, k, c)' /\ VictimInv'
  <2>1. /\ f.pc \notin {"calling", "add_info"} /\ Top(t).pc # "calling"
        /\ \A u \in Threads : u # t => tls'[u] = tls[u]
    BY <1>2, <1>3, <1>4
  <2>2. /\ TypeOK /\ Shape /\ stack[t] # <<>> /\ f \in Frame /\ Become(t, f) /\ k = Len(stack[t])
        /\ f.called = Top(t).called /\ f.victims = Top(t).victims
    BY <1>0, <1>1, <1>2, <1>3, <1>4
  <2>3. /\ OnlyFrame(t, k) /\ Silent(t, k)
        /\ f.called = Top(t).called => Counted' = Counted
        /\ (\A o : GaveIn(Top(t), o) <=> GaveIn(f, o)) /\ f.called = Top(t).called => Same(t, k)
        /\ \A c : ~ Adding(t, k, c)'
        /\ VictimInv /\ added' = added /\ f.victims = Top(t).victims => VictimInv'
    BY <1>5, <2>1, <2>2, Became
  <2>4. VictimInv /\ added' = added
    BY <1>2 DEF IInv
  <2> QED BY <1>6, <2>2, <2>3, <2>4
<1>8. \A c \in Callbacks :
        fate'[c] = IF Owner[c] = id /\ fate[c] = "queued" THEN "removed" ELSE fate[c]
  BY <1>2
<1>9. QueueInv' /\ callbacks' \in Seq(Callbacks)
  <2>1. PICK S : S = {c \in Callbacks : Owner[c] # id}
    OBVIOUS
  <2>2. callbacks' = Filter(callbacks, S)
    BY <1>2, <2>1 DEF Erased
  <2>3. \A c \in Callbacks : fate'[c] = "queued" <=> fate[c] = "queued" /\ c \in S
    BY <1>8, <2>1
  <2> QED BY <1>1, <2>2, <2>3, QueueErases
<1>10. /\ \A c \in Callbacks : fate[c] # "new" => fate'[c] # "new"
       /\ \A c \in Callbacks : fate'[c] = "held" <=> fate[c] = "held"
       /\ \A c \in Callbacks : fate'[c] = "running" <=> fate[c] = "running"
       /\ \A c \in Callbacks : fate'[c] \in {"held", "running"} <=> fate[c] \in {"held", "running"}
  BY <1>8
<1>11. InfoInv'
  <2>1. added' = added /\ objects' = objects /\ \A c \in Callbacks : Adding(t, k, c)' => Adding(t, k, c)
    BY <1>2, <1>7
  <2> QED BY <1>1, <1>7, <1>10, <2>1, InfoStays
<1>12. HeldInv'
  BY <1>1, <1>2, <1>10, HeldStays
<1>13. RunInv'
  BY <1>1, <1>7, <1>10, SilentRuns
<1>14. CountInv'
  BY <1>1, <1>2, <1>7, <1>10, CountStays
<1>15. SharedLocks'
  BY <1>1, <1>2, <1>7, SameLocks
<1>16. Shape' /\ stack' \in [Threads -> Seq(Frame)]
  BY <1>7 DEF Silent
<1>17. fate' \in [Callbacks -> Fates]
  BY <1>1, <1>2 DEF Fates
<1>18. TypeOK'
  BY <1>1, <1>2, <1>9, <1>16, <1>17 DEF TypeOK
<1> QED BY <1>7, <1>9, <1>11, <1>12, <1>13, <1>14, <1>15, <1>16, <1>18 DEF IInv

LEMMA RemoveRelockStep ==
  ASSUME IInv, NEW t \in Threads, RemoveRelock(t)
  PROVE  IInv'
<1>0. PICK k, f, q : k = Len(stack[t]) /\ f = [Top(t) EXCEPT !.pc = "rm_forget"] /\ q = Top(t).obj
  OBVIOUS
<1>1. TypeOK /\ Shape /\ SharedLocks /\ shared \in [Objects -> Int]
  BY DEF IInv, TypeOK
<1>2. /\ At(t, "rm_relock") /\ Become(t, f) /\ shared' = [shared EXCEPT ![q] = shared[q] + 1]
      /\ UNCHANGED <<callbacks, calling, enabled, id_info, objects, tls, fate, added, gone>>
  BY <1>0 DEF RemoveRelock, Step
<1>3. /\ stack[t] # <<>> /\ Top(t).pc = "rm_relock"
      /\ Top(t) \in Frame /\ FrameOK(Top(t), tls[t])
  BY <1>1, <1>2, InFrame
<1>4. /\ f \in Frame /\ f.pc = "rm_forget" /\ f.id = Top(t).id /\ f.obj = Top(t).obj
      /\ f.unlocked = Top(t).unlocked /\ f.called = Top(t).called /\ f.victims = Top(t).victims
  BY <1>0, <1>3 DEF Frame
<1>5. FrameOK(f, tls'[t])
  BY <1>3, <1>4 DEF FrameOK, Removing
<1>6. q \in Objects /\ \A o : ~ GaveIn(f, o) /\ (GaveIn(Top(t), o) <=> o = q)
  BY <1>0, <1>3, <1>4 DEF GaveIn, FrameOK, Removing
<1>7. /\ OnlyFrame(t, k) /\ Silent(t, k) /\ Counted' = Counted
      /\ \A o : ~ Gave(t, k, o)' /\ (Gave(t, k, o) <=> o = q)
      /\ \A c : ~ Adding(t, k, c)' /\ VictimInv'
  <2>1. /\ f.pc \notin {"calling", "add_info"} /\ Top(t).pc # "calling"
        /\ \A u \in Threads : u # t => tls'[u] = tls[u]
    BY <1>2, <1>3, <1>4
  <2>2. /\ TypeOK /\ Shape /\ stack[t] # <<>> /\ f \in Frame /\ Become(t, f) /\ k = Len(stack[t])
        /\ f.called = Top(t).called /\ f.victims = Top(t).victims
    BY <1>0, <1>1, <1>2, <1>3, <1>4
  <2>3. /\ OnlyFrame(t, k) /\ Silent(t, k)
        /\ \A o : (Gave(t, k, o) <=> GaveIn(Top(t), o)) /\ (Gave(t, k, o)' <=> GaveIn(f, o))
        /\ f.called = Top(t).called => Counted' = Counted
        /\ \A c : ~ Adding(t, k, c)'
        /\ VictimInv /\ added' = added /\ f.victims = Top(t).victims => VictimInv'
    BY <1>5, <2>1, <2>2, Became
  <2>4. VictimInv /\ added' = added
    BY <1>2 DEF IInv
  <2> QED BY <1>6, <2>2, <2>3, <2>4
<1>8. /\ InfoInv' /\ QueueInv' /\ HeldInv' /\ RunInv' /\ CountInv' /\ Shape'
      /\ stack' \in [Threads -> Seq(Frame)]
  BY <1>2, <1>7, SameStep
<1>9. SharedLocks'
  <2>1. PICK d \in {1, -1} : d = 1
    OBVIOUS
  <2>2. /\ shared' = [shared EXCEPT ![q] = shared[q] + d]
        /\ \A o : o # q => ~ Gave(t, k, o) /\ ~ Gave(t, k, o)'
        /\ d = 1 => Gave(t, k, q) /\ ~ Gave(t, k, q)'
        /\ d = -1 => ~ Gave(t, k, q) /\ Gave(t, k, q)'
    BY <1>2, <1>7, <2>1
  <2>3. ~ In(t, k) /\ ~ In(t, k)' /\ OnlyFrame(t, k)
    BY <1>7 DEF Silent
  <2>4. TypeOK /\ Shape /\ SharedLocks /\ Shape' /\ stack' \in [Threads -> Seq(Frame)]
    BY <1>1, <1>8
  <2> QED BY <1>6, <2>2, <2>3, <2>4, LocksMove
<1>10. shared' \in [Objects -> Int]
  BY <1>1, <1>2, <1>6
<1>11. TypeOK'
  BY <1>1, <1>2, <1>8, <1>10 DEF TypeOK
<1> QED BY <1>7, <1>8, <1>9, <1>11 DEF IInv

LEMMA RemoveForgetStep ==
  ASSUME IInv, NEW t \in Threads, RemoveForget(t)
  PROVE  IInv'
<1>0. PICK k, id : k = Len(stack[t]) /\ id = Top(t).id
  OBVIOUS
<1>1. /\ TypeOK /\ Shape /\ SharedLocks /\ InfoInv /\ QueueInv /\ HeldInv /\ RunInv /\ CountInv
      /\ VictimInv
      /\ tls \in Lists /\ gone \subseteq added /\ added \subseteq Callbacks
      /\ id_info \in [Ids -> Objects \union {None}]
  BY DEF IInv, TypeOK, Lists, Entry
<1>2. /\ At(t, "rm_forget") /\ Return(t) /\ gone' = gone \union Top(t).victims
      /\ tls' = [tls EXCEPT ![t] = [i \in 1 .. Len(tls[t]) |->
                  [tls[t][i] EXCEPT !.marked = tls[t][i].marked \/ Owner[tls[t][i].cb] = id]]]
      /\ id_info' = [id_info EXCEPT ![id] = None]
      /\ UNCHANGED <<callbacks, calling, enabled, objects, shared, fate, added>>
  BY <1>0 DEF RemoveForget
<1>3. /\ stack[t] # <<>> /\ Top(t).pc = "rm_forget" /\ Top(t) = stack[t][k] /\ Has(t, k) /\ k \in Nat
      /\ Top(t) \in Frame /\ FrameOK(Top(t), tls[t])
  BY <1>0, <1>1, <1>2, InFrame
<1>4. HeldInv' /\ tls' \in Lists
  BY <1>1, <1>2, HeldMarked
<1>5. Top(t).called = 0 /\ \A o : ~ GaveIn(Top(t), o)
  BY <1>3 DEF FrameOK, Removing, GaveIn
<1>6. \A u \in Threads : u # t => tls'[u] = tls[u]
  BY <1>1, <1>2 DEF Lists
<1>7. /\ OnlyFrame(t, k) /\ Silent(t, k) /\ Same(t, k) /\ \A c : ~ Adding(t, k, c)'
      /\ VictimInv'
  <2>1. Top(t).pc # "calling" /\ TypeOK /\ Shape /\ stack[t] # <<>> /\ Return(t) /\ k = Len(stack[t])
    BY <1>0, <1>1, <1>2, <1>3
  <2>2. /\ OnlyFrame(t, k) /\ Silent(t, k) /\ (Top(t).called = 0 => Same(t, k))
        /\ \A c : ~ Adding(t, k, c)'
        /\ VictimInv /\ added \subseteq added' => VictimInv'
    BY <1>5, <1>6, <2>1, Returned
  <2> QED BY <1>1, <1>2, <1>5, <2>2
<1>8. Counted' = Counted
  BY <1>7, SameCounts
<1>9. InfoInv'
  <2>1. /\ added' = added /\ objects' = objects /\ fate' = fate
        /\ \A c \in Callbacks : Adding(t, k, c)' => Adding(t, k, c)
    BY <1>2, <1>7
  <2> QED BY <1>1, <1>7, <2>1, InfoStays
<1>10. QueueInv'
  BY <1>1, <1>2, QueueStays
<1>11. RunInv'
  BY <1>1, <1>2, <1>7, SilentRuns
<1>12. CountInv'
  BY <1>1, <1>2, <1>8, CountStays
<1>13. SharedLocks'
  BY <1>1, <1>2, <1>7, SameLocks
<1>14. Shape' /\ stack' \in [Threads -> Seq(Frame)]
  BY <1>7 DEF Silent
<1>15. gone' \subseteq added'
  BY <1>1, <1>2, <1>3 DEF VictimInv
<1>16. id_info' \in [Ids -> Objects \union {None}]
  BY <1>1, <1>2
<1>17. tls' \in [Threads -> Seq([cb : Callbacks, marked : BOOLEAN])]
  BY <1>4 DEF Lists, Entry
<1>18. TypeOK'
  BY <1>1, <1>2, <1>14, <1>15, <1>16, <1>17 DEF TypeOK
<1> QED BY <1>4, <1>7, <1>9, <1>10, <1>11, <1>12, <1>13, <1>14, <1>18 DEF IInv

-----------------------------------------------------------------------------
(* callOne and callAvailable *)

\* What is common to both: the callbacks s leave the queue for the list of t, as h.
Pops(t, f, s, h, n) ==
  /\ Push(t, f) /\ f.pc = "call_head" /\ f.called = 0 /\ ~ f.unlocked /\ f.victims = {}
  /\ s # <<>> /\ Distinct(s) /\ \A i \in 1 .. Len(s) : fate[s[i]] = "queued"
  /\ Len(h) = Len(s) /\ \A i \in 1 .. Len(s) : h[i].cb = s[i]
  /\ Takes(t, h)
  /\ Len(s) <= n /\ calling' = calling + n
  /\ \A c \in Callbacks :
       fate'[c] = IF \E i \in 1 .. Len(s) : s[i] = c THEN "held" ELSE fate[c]
  /\ fate' \in [Callbacks -> Fates]
  /\ UNCHANGED <<enabled, id_info, objects, shared, added, gone>>

LEMMA PopStep ==
  ASSUME IInv, NEW t \in Threads, Free(t), NEW f \in Frame, NEW s \in Seq(Callbacks),
         NEW h \in Seq(Entry), NEW n \in Nat, Pops(t, f, s, h, n),
         QueueInv', callbacks' \in Seq(Callbacks)
  PROVE  IInv'
<1>0. PICK k, l : k = Len(stack[t]) + 1 /\ l = Len(s)
  OBVIOUS
<1>1. /\ TypeOK /\ Shape /\ SharedLocks /\ InfoInv /\ QueueInv /\ HeldInv /\ RunInv /\ CountInv
      /\ VictimInv /\ tls \in Lists /\ added \subseteq Callbacks
  BY DEF IInv, TypeOK, Lists, Entry
<1>2. l \in Nat \ {0}
  BY <1>0, EmptySeq DEF Pops
<1>3. /\ Len(h) = l /\ \A i \in 1 .. l : h[i].cb = s[i] /\ s[i] \in Callbacks
  BY <1>0, ElementOfSeq DEF Pops
<1>4. HeldInv' /\ tls' \in Lists /\ Len(tls'[t]) = Len(tls[t]) + l
  <2>1. \A i, j \in 1 .. Len(h) : i < j => h[i].cb # h[j].cb
    BY <1>0, <1>3 DEF Pops, Distinct
  <2>2. \A i \in 1 .. Len(h) : fate[h[i].cb] # "held"
    BY <1>0, <1>3 DEF Pops
  <2>3. \A c \in Callbacks :
          fate'[c] = "held" <=> fate[c] = "held" \/ \E i \in 1 .. Len(h) : h[i].cb = c
    <3>1. \A c \in Callbacks :
            (\E i \in 1 .. Len(s) : s[i] = c) <=> \E i \in 1 .. Len(h) : h[i].cb = c
      BY <1>0, <1>3
    <3> QED BY <3>1 DEF Pops
  <2>4. HeldInv /\ tls \in Lists /\ Takes(t, h)
    BY <1>1 DEF Pops
  <2>5. HeldInv' /\ tls' \in Lists /\ Len(tls'[t]) = Len(tls[t]) + Len(h)
    BY <2>1, <2>2, <2>3, <2>4, HeldGrows
  <2> QED BY <1>3, <2>5
<1>5. tls'[t] # <<>> /\ \A u \in Threads : u # t => tls'[u] = tls[u]
  <2>1. tls[t] \in Seq(Entry) /\ tls'[t] \in Seq(Entry)
    BY <1>1, <1>4 DEF Lists
  <2>2. Len(tls'[t]) # 0
    BY <1>2, <1>4, <2>1
  <2> QED BY <1>1, <2>2 DEF Lists, Takes, Pops
<1>6. FrameOK(f, tls'[t])
  BY <1>5 DEF FrameOK, Removing, Pops
<1>7. /\ OnlyFrame(t, k) /\ Silent(t, k) /\ Same(t, k) /\ Counted' = Counted
      /\ \A c : ~ Adding(t, k, c)'
      /\ VictimInv'
  <2>1. f.pc # "calling" /\ f.called = 0 /\ Free(t) /\ Push(t, f) /\ k = Len(stack[t]) + 1 /\ TypeOK /\ Shape
    BY <1>0, <1>1 DEF Pops
  <2>2. /\ OnlyFrame(t, k) /\ Silent(t, k) /\ (~ f.unlocked => Same(t, k))
        /\ \A o : ~ Gave(t, k, o) /\ (Gave(t, k, o)' <=> GaveIn(f, o))
        /\ Counted' = Counted
        /\ \A d : ~ Adding(t, k, d) /\ (Adding(t, k, d)' <=> f.pc = "add_info" /\ f.cb = d)
        /\ k \in 1 .. MaxDepth
        /\ VictimInv /\ added' = added /\ f.victims \subseteq added => VictimInv'
    BY <1>5, <1>6, <2>1, Pushed, ZenonT(60)
  <2>3. VictimInv /\ added' = added /\ f.victims = {} /\ f.pc = "call_head" /\ ~ f.unlocked
    BY <1>1 DEF Pops
  <2> QED BY <2>2, <2>3
<1>8. /\ \A c \in Callbacks : fate[c] # "new" => fate'[c] # "new"
      /\ \A c \in Callbacks : fate'[c] = "running" <=> fate[c] = "running"
  <2> SUFFICES ASSUME NEW c \in Callbacks
               PROVE  /\ fate[c] # "new" => fate'[c] # "new"
                      /\ fate'[c] = "running" <=> fate[c] = "running"
    OBVIOUS
  <2>1. CASE \E i \in 1 .. Len(s) : s[i] = c
    BY <2>1 DEF Pops
  <2>2. CASE ~ \E i \in 1 .. Len(s) : s[i] = c
    BY <2>2 DEF Pops
  <2> QED BY <2>1, <2>2
<1>9. InfoInv'
  <2>1. added' = added /\ objects' = objects /\ \A c \in Callbacks : Adding(t, k, c)' => Adding(t, k, c)
    BY <1>7 DEF Pops
  <2> QED BY <1>1, <1>7, <1>8, <2>1, InfoStays
<1>10. RunInv'
  BY <1>1, <1>7, <1>8, SilentRuns
<1>11. CountInv' /\ calling' \in Nat
  <2>1. ASSUME NEW d \in Callbacks
        PROVE  d \in Busy' <=> d \in Busy \/ \E i \in 1 .. Len(s) : s[i] = d
    BY DEF Busy, Pops
  <2>2. CountInv /\ TypeOK /\ Counted' = Counted /\ Len(s) <= n /\ calling' = calling + n
    BY <1>1, <1>7 DEF Pops
  <2> QED BY <2>1, <2>2, CountPops
<1>12. SharedLocks'
  BY <1>1, <1>7, SameLocks DEF Pops
<1>13. Shape' /\ stack' \in [Threads -> Seq(Frame)]
  BY <1>7 DEF Silent
<1>14. tls' \in [Threads -> Seq([cb : Callbacks, marked : BOOLEAN])]
  BY <1>4 DEF Lists, Entry
<1>15. TypeOK'
  BY <1>1, <1>11, <1>13, <1>14 DEF TypeOK, Pops
<1> QED BY <1>4, <1>7, <1>9, <1>10, <1>11, <1>12, <1>13, <1>15 DEF IInv

LEMMA FirstFrame ==
  /\ NewFrame("call_head") \in Frame
  /\ NewFrame("call_head").pc = "call_head" /\ NewFrame("call_head").called = 0
  /\ ~ NewFrame("call_head").unlocked /\ NewFrame("call_head").victims = {}
<1>1. NewFrame("call_head") \in Frame
  BY DEF NewFrame, Frame, None
<1>2. /\ NewFrame("call_head").pc = "call_head" /\ NewFrame("call_head").called = 0
      /\ ~ NewFrame("call_head").unlocked /\ NewFrame("call_head").victims = {}
  BY DEF NewFrame
<1> QED BY <1>1, <1>2

LEMMA HeldSeq ==
  ASSUME NEW s \in Seq(Callbacks), NEW h, h = [i \in 1 .. Len(s) |-> Held(s[i])]
  PROVE  h \in Seq(Entry) /\ Len(h) = Len(s) /\ \A i \in 1 .. Len(s) : h[i].cb = s[i]
<1>1. PICK l \in Nat : l = Len(s)
  OBVIOUS
<1>2. h = [i \in 1 .. l |-> Held(s[i])] /\ \A i \in 1 .. l : s[i] \in Callbacks
  BY <1>1, ElementOfSeq
<1>3. h \in [1 .. l -> Entry] /\ Len(h) = l /\ \A i \in 1 .. l : h[i].cb = s[i]
  BY <1>2 DEF Held, Entry
<1>4. h \in Seq(Entry)
  BY <1>3, SeqDef
<1> QED BY <1>1, <1>3, <1>4

LEMMA CallOneStep ==
  ASSUME IInv, NEW t \in Threads, CallOne(t)
  PROVE  IInv'
<1>1. /\ QueueInv /\ callbacks \in Seq(Callbacks) /\ fate \in [Callbacks -> Fates]
      /\ tls \in Lists
  BY DEF IInv, TypeOK, Lists, Entry
<1>2. PICK i \in 1 .. Len(callbacks) :
        /\ callbacks' = RemoveAt(callbacks, i)
        /\ tls' = [tls EXCEPT ![t] = Append(tls[t], Held(callbacks[i]))]
        /\ fate' = [fate EXCEPT ![callbacks[i]] = "held"]
  BY DEF CallOne
<1>3. /\ Free(t) /\ calling' = calling + 1 /\ Push(t, NewFrame("call_head"))
      /\ UNCHANGED <<enabled, id_info, objects, shared, added, gone>>
  BY DEF CallOne, MayCall, Popped
<1>4. PICK c \in Callbacks : c = callbacks[i]
  BY <1>1, ElementOfSeq
<1>5. PICK s : s = <<c>>
  OBVIOUS
<1>6. s \in Seq(Callbacks) /\ s # <<>> /\ Len(s) = 1 /\ s[1] = c /\ 1 .. Len(s) = {1}
  BY <1>5
<1>7. fate[c] = "queued"
  BY <1>1, <1>4 DEF QueueInv
<1>8. PICK h \in Seq(Entry) :
        /\ Len(h) = Len(s) /\ \A j \in 1 .. Len(s) : h[j].cb = s[j]
        /\ Takes(t, h)
  <2>1. /\ <<Held(c)>> \in Seq(Entry) /\ Len(<<Held(c)>>) = Len(s)
        /\ \A j \in 1 .. Len(s) : <<Held(c)>>[j].cb = s[j]
    BY <1>6 DEF Held, Entry
  <2>2. Held(c) \in Entry /\ tls[t] \in Seq(Entry)
    BY <1>1 DEF Held, Entry, Lists
  <2>3. Append(tls[t], Held(c)) = tls[t] \o <<Held(c)>>
    BY <2>2, AppendIsConcat
  <2> QED BY <1>2, <1>4, <2>1, <2>3 DEF Takes
<1>9. ASSUME NEW d \in Callbacks
      PROVE  fate'[d] = IF \E j \in 1 .. Len(s) : s[j] = d THEN "held" ELSE fate[d]
  BY <1>1, <1>2, <1>4, <1>6
<1>10. QueueInv' /\ callbacks' \in Seq(Callbacks)
  <2>1. \A d \in Callbacks : fate'[d] = "queued" <=> fate[d] = "queued" /\ d # callbacks[i]
    BY <1>1, <1>2, <1>4
  <2> QED BY <1>1, <1>2, <2>1, QueuePops
<1>11. PICK f \in Frame :
         /\ f = NewFrame("call_head") /\ f.pc = "call_head" /\ f.called = 0 /\ ~ f.unlocked
         /\ f.victims = {}
  BY FirstFrame
<1>12. fate' \in [Callbacks -> Fates]
  BY <1>1, <1>2 DEF Fates
<1>13. \A j, k \in 1 .. Len(s) : j < k => s[j] # s[k]
  BY <1>6
<1>14. \A j \in 1 .. Len(s) : fate[s[j]] = "queued"
  BY <1>6, <1>7
<1>15. PICK n \in Nat : Len(s) <= n /\ calling' = calling + n
  BY <1>3, <1>6
<1>16. Push(t, f)
  BY <1>3, <1>11
<1>17. Pops(t, f, s, h, n)
  BY <1>3, <1>6, <1>8, <1>9, <1>11, <1>12, <1>13, <1>14, <1>15, <1>16 DEF Pops, Distinct
<1> QED BY <1>3, <1>6, <1>10, <1>17, PopStep

LEMMA CallAvailableStep ==
  ASSUME IInv, NEW t \in Threads, CallAvailable(t)
  PROVE  IInv'
<1>1. /\ QueueInv /\ callbacks \in Seq(Callbacks) /\ fate \in [Callbacks -> Fates]
      /\ tls \in Lists
  BY DEF IInv, TypeOK, Lists, Entry
<1>0. PICK s, n, h : /\ s = callbacks /\ n = Len(tls'[t])
                     /\ h = [i \in 1 .. Len(s) |-> Held(s[i])]
  OBVIOUS
<1>2. /\ Free(t) /\ callbacks' = <<>> /\ s # <<>> /\ calling' = calling + n
      /\ Takes(t, h)
      /\ fate' = [c \in Callbacks |-> IF Contains(s, c) THEN "held" ELSE fate[c]]
      /\ Push(t, [NewFrame("call_head") EXCEPT !.all = TRUE])
      /\ UNCHANGED <<enabled, id_info, objects, shared, added, gone>>
  BY <1>0 DEF CallAvailable, MayCall, Popped, Takes
<1>3. /\ s \in Seq(Callbacks) /\ \A i, j \in 1 .. Len(s) : i < j => s[i] # s[j]
      /\ \A i \in 1 .. Len(s) : fate[s[i]] = "queued"
  <2>1. \A i \in 1 .. Len(s) : s[i] \in Callbacks
    BY <1>0, <1>1, ElementOfSeq
  <2> QED BY <1>0, <1>1, <2>1 DEF QueueInv, Distinct
<1>4. ASSUME NEW c \in Callbacks
      PROVE  fate'[c] = IF \E i \in 1 .. Len(s) : s[i] = c THEN "held" ELSE fate[c]
  BY <1>2 DEF Contains
<1>5. fate' \in [Callbacks -> Fates]
  BY <1>1, <1>2 DEF Fates
<1>6. QueueInv' /\ callbacks' \in Seq(Callbacks)
  <2>1. ASSUME NEW c \in Callbacks PROVE fate'[c] # "queued"
    <3>1. fate[c] = "queued" => \E i \in 1 .. Len(s) : s[i] = c
      BY <1>0, <1>1 DEF QueueInv
    <3> QED BY <1>4, <3>1
  <2> QED BY <1>2, <2>1, QueueEmpties
<1>7. n \in Nat /\ Len(s) <= n
  <2>1. h \in Seq(Entry) /\ Len(h) = Len(s) /\ Len(s) \in Nat
    BY <1>0, <1>3, HeldSeq
  <2>2. tls[t] \in Seq(Entry) /\ tls'[t] = tls[t] \o h
    BY <1>1, <1>2 DEF Lists, Takes
  <2>3. Len(tls[t] \o h) = Len(tls[t]) + Len(h)
    BY <2>1, <2>2, ConcatProperties, Zenon
  <2>4. Len(tls[t]) \in Nat
    BY <2>2, LenProperties
  <2> QED BY <1>0, <2>1, <2>2, <2>3, <2>4
<1>8. PICK f \in Frame :
        /\ f = [NewFrame("call_head") EXCEPT !.all = TRUE]
        /\ f.pc = "call_head" /\ f.called = 0 /\ ~ f.unlocked /\ f.victims = {}
  <2>1. PICK g \in Frame :
          /\ g = NewFrame("call_head") /\ g.pc = "call_head" /\ g.called = 0 /\ ~ g.unlocked
          /\ g.victims = {}
    BY FirstFrame
  <2>2. [g EXCEPT !.all = TRUE] \in Frame
    BY DEF Frame
  <2> QED BY <2>1, <2>2 DEF Frame
<1>9. Push(t, f)
  BY <1>2, <1>8
<1>10. h \in Seq(Entry) /\ Len(h) = Len(s) /\ \A i \in 1 .. Len(s) : h[i].cb = s[i]
  BY <1>0, <1>3, HeldSeq
<1>11. Pops(t, f, s, h, n)
  BY <1>2, <1>3, <1>4, <1>5, <1>7, <1>8, <1>9, <1>10 DEF Pops, Distinct
<1> QED BY <1>2, <1>3, <1>6, <1>7, <1>10, <1>11, PopStep

\* A popped callback that is not called: it is dropped, or was marked for removal.
Skips(t, c, x) ==
  /\ At(t, "call_head") \/ At(t, "call_lock")
  /\ c = Head(tls[t]).cb /\ x \in {"dropped", "removed"}
  /\ tls' = [tls EXCEPT ![t] = Tail(tls[t])]
  /\ fate' = [fate EXCEPT ![c] = x]
  /\ Become(t, NextCall(Top(t), Tail(tls[t])))
  /\ UNCHANGED <<callbacks, calling, enabled, id_info, objects, shared, added, gone>>

LEMMA SkipStep ==
  ASSUME IInv, NEW t \in Threads, NEW c, NEW x, Skips(t, c, x)
  PROVE  IInv'
<1>0. PICK k, f : k = Len(stack[t]) /\ f = NextCall(Top(t), Tail(tls[t]))
  OBVIOUS
<1>1. /\ TypeOK /\ Shape /\ SharedLocks /\ InfoInv /\ QueueInv /\ HeldInv /\ RunInv /\ CountInv
      /\ VictimInv /\ tls \in Lists /\ fate \in [Callbacks -> Fates] /\ added \subseteq Callbacks
  BY DEF IInv, TypeOK, Lists, Entry
<1>2. /\ stack[t] # <<>> /\ Top(t).pc \in {"call_head", "call_lock"}
      /\ Top(t) \in Frame /\ FrameOK(Top(t), tls[t])
  BY <1>1, InFrame DEF Skips
<1>3. tls[t] # <<>>
  BY <1>2 DEF FrameOK
<1>4. c \in Callbacks /\ fate[c] = "held"
  BY <1>1, <1>3, HeadIsHeld DEF Skips
<1>5. \A d \in Callbacks : fate'[d] = IF d = c THEN x ELSE fate[d]
  BY <1>1 DEF Skips
<1>6. x \in {"dropped", "removed"}
  BY DEF Skips
<1>7. HeldInv' /\ tls' \in Lists
  <2>1. \A d \in Callbacks : fate'[d] = "held" <=> fate[d] = "held" /\ d # c
    BY <1>5, <1>6
  <2> QED BY <1>1, <1>3, <1>4, <2>1, HeldShrinks DEF Skips
<1>8. /\ f \in Frame /\ FrameOK(f, tls'[t]) /\ f.pc \in {"call_head", "call_done"}
      /\ f.called = Top(t).called + 1 /\ ~ f.unlocked /\ ~ Top(t).unlocked
      /\ f.victims = Top(t).victims
  <2>1. /\ f \in Frame /\ FrameOK(f, Tail(tls[t])) /\ f.pc \in {"call_head", "call_done"}
        /\ f.called = Top(t).called + 1 /\ ~ f.unlocked /\ ~ Top(t).unlocked
    BY <1>0, <1>2, NextCallOK
  <2>2. tls'[t] = Tail(tls[t])
    BY <1>1 DEF Skips, Lists
  <2>3. f.victims = Top(t).victims
    BY <1>0, <1>2 DEF NextCall, Frame
  <2> QED BY <2>1, <2>2, <2>3
<1>9. \A o : GaveIn(Top(t), o) <=> GaveIn(f, o)
  BY <1>8 DEF GaveIn
<1>10. /\ OnlyFrame(t, k) /\ Silent(t, k)
       /\ \A o : Gave(t, k, o)' <=> Gave(t, k, o)
       /\ Has(t, k) /\ Has(t, k)' /\ stack'[t][k] = f /\ stack[t][k] = Top(t)
       /\ \A d : ~ Adding(t, k, d)'
       /\ VictimInv'
  <2>1. /\ f.pc \notin {"calling", "add_info"} /\ Top(t).pc # "calling"
        /\ \A u \in Threads : u # t => tls'[u] = tls[u]
    BY <1>1, <1>2, <1>8 DEF Skips, Lists
  <2>2. TypeOK /\ Shape /\ stack[t] # <<>> /\ f \in Frame /\ Become(t, f) /\ k = Len(stack[t])
    BY <1>0, <1>1, <1>2, <1>8 DEF Skips
  <2>3. /\ OnlyFrame(t, k) /\ Silent(t, k)
        /\ \A o : (Gave(t, k, o) <=> GaveIn(Top(t), o)) /\ (Gave(t, k, o)' <=> GaveIn(f, o))
        /\ \A d : ~ Adding(t, k, d)'
        /\ Has(t, k) /\ Has(t, k)' /\ stack'[t][k] = f /\ stack[t][k] = Top(t)
        /\ VictimInv /\ added' = added /\ f.victims = Top(t).victims => VictimInv'
    BY <1>8, <2>1, <2>2, Became
  <2>4. VictimInv /\ added' = added
    BY <1>1 DEF Skips
  <2> QED BY <1>8, <1>9, <2>3, <2>4
<1>11. InfoInv'
  <2>1. /\ added' = added /\ objects' = objects /\ \A d \in Callbacks : Adding(t, k, d)' => Adding(t, k, d)
        /\ \A d \in Callbacks : fate[d] # "new" => fate'[d] # "new"
    BY <1>5, <1>6, <1>10 DEF Skips
  <2> QED BY <1>1, <1>10, <2>1, InfoStays
<1>12. QueueInv'
  <2>1. \A d \in Callbacks : fate'[d] = "queued" <=> fate[d] = "queued"
    BY <1>4, <1>5, <1>6
  <2> QED BY <1>1, <2>1, QueueStays DEF Skips
<1>13. RunInv'
  <2>1. \A d \in Callbacks : fate'[d] = "running" <=> fate[d] = "running"
    BY <1>4, <1>5, <1>6
  <2> QED BY <1>1, <1>10, <2>1, SilentRuns
<1>14. Shape' /\ stack' \in [Threads -> Seq(Frame)] /\ ~ In(t, k) /\ ~ In(t, k)'
  BY <1>10 DEF Silent
<1>15. CountInv'
  <2>1. c \in Busy
    BY <1>4 DEF Busy
  <2>2. \A d \in Callbacks : d \in Busy' <=> d \in Busy /\ d # c
    BY <1>4, <1>5, <1>6 DEF Busy
  <2>3. calling' = calling /\ stack'[t][k].called = stack[t][k].called + 1
    BY <1>8, <1>10 DEF Skips
  <2> QED BY <1>1, <1>10, <1>14, <2>1, <2>2, <2>3, CountGrows
<1>16. SharedLocks'
  <2>1. shared' = shared
    BY DEF Skips
  <2> QED BY <1>1, <1>10, <1>14, <2>1, LocksStay
<1>17. fate' \in [Callbacks -> Fates]
  BY <1>1, <1>6 DEF Skips, Fates
<1>18. tls' \in [Threads -> Seq([cb : Callbacks, marked : BOOLEAN])]
  BY <1>7 DEF Lists, Entry
<1>19. TypeOK'
  BY <1>1, <1>14, <1>17, <1>18 DEF TypeOK, Skips
<1> QED BY <1>7, <1>10, <1>11, <1>12, <1>13, <1>14, <1>15, <1>16, <1>19 DEF IInv

LEMMA CallHeadStep ==
  ASSUME IInv, NEW t \in Threads, CallHead(t)
  PROVE  IInv'
<1>0. PICK c, q, k, f : /\ c = Head(tls[t]).cb /\ q = id_info[Owner[c]] /\ k = Len(stack[t])
                        /\ f = [Top(t) EXCEPT !.pc = "call_lock", !.obj = q]
  OBVIOUS
<1>1. CASE q = None
  <2>1. Skips(t, c, "dropped")
    BY <1>0, <1>1 DEF CallHead, Skips
  <2> QED BY <2>1, SkipStep
<1>2. CASE q # None
  <2>1. /\ At(t, "call_head") /\ Become(t, f)
        /\ UNCHANGED <<callbacks, calling, enabled, id_info, objects, shared, tls, fate, added, gone>>
    BY <1>0, <1>2 DEF CallHead
  <2>2. TypeOK /\ Shape /\ SharedLocks /\ HeldInv /\ tls \in Lists /\ VictimInv
    BY DEF IInv, TypeOK, Lists, Entry
  <2>3. /\ stack[t] # <<>> /\ Top(t).pc = "call_head"
        /\ Top(t) \in Frame /\ FrameOK(Top(t), tls[t])
    BY <2>1, <2>2, InFrame
  <2>4. tls[t] # <<>> /\ ~ Top(t).unlocked
    BY <2>3 DEF FrameOK, Removing
  <2>5. q \in Objects
    <3>1. c \in Callbacks
      BY <1>0, <2>2, <2>4, HeadIsHeld
    <3> QED BY <1>0, <1>2, <2>2, <3>1, CallbackQueueAssumption DEF TypeOK
  <2>6. /\ f \in Frame /\ f.pc = "call_lock" /\ f.obj = q /\ f.called = Top(t).called
        /\ f.unlocked = Top(t).unlocked /\ f.victims = Top(t).victims
    BY <1>0, <2>3, <2>5 DEF Frame
  <2>7. FrameOK(f, tls'[t])
    BY <2>1, <2>4, <2>5, <2>6 DEF FrameOK, Removing
  <2>8. \A o : GaveIn(Top(t), o) <=> GaveIn(f, o)
    BY <2>4, <2>6 DEF GaveIn
  <2>9. /\ Silent(t, k) /\ Same(t, k) /\ Counted' = Counted /\ \A d : ~ Adding(t, k, d)'
        /\ VictimInv'
    <3>1. /\ f.pc \notin {"calling", "add_info"} /\ Top(t).pc # "calling"
          /\ \A u \in Threads : u # t => tls'[u] = tls[u]
      BY <2>1, <2>3, <2>6
    <3>2. TypeOK /\ Shape /\ stack[t] # <<>> /\ f \in Frame /\ Become(t, f) /\ k = Len(stack[t])
      BY <1>0, <2>1, <2>2, <2>3, <2>6
    <3>3. /\ OnlyFrame(t, k) /\ Silent(t, k)
          /\ f.called = Top(t).called => Counted' = Counted
          /\ (\A o : GaveIn(Top(t), o) <=> GaveIn(f, o)) /\ f.called = Top(t).called => Same(t, k)
          /\ \A d : ~ Adding(t, k, d)'
          /\ VictimInv /\ added' = added /\ f.victims = Top(t).victims => VictimInv'
      BY <2>7, <3>1, <3>2, Became
    <3> QED BY <2>1, <2>2, <2>6, <2>8, <3>3
  <2>10. /\ InfoInv' /\ QueueInv' /\ HeldInv' /\ RunInv' /\ CountInv' /\ Shape'
         /\ stack' \in [Threads -> Seq(Frame)]
    BY <2>1, <2>9, SameStep
  <2>11. SharedLocks'
    BY <2>1, <2>2, <2>9, SameLocks
  <2>12. TypeOK'
    BY <2>1, <2>2, <2>10 DEF TypeOK
  <2> QED BY <2>9, <2>10, <2>11, <2>12 DEF IInv
<1> QED BY <1>1, <1>2

LEMMA CallStartStep ==
  ASSUME IInv, NEW t \in Threads, CallStart(t)
  PROVE  IInv'
<1>0. PICK h, c, q, k, f : /\ h = Head(tls[t]) /\ c = h.cb /\ q = Top(t).obj /\ k = Len(stack[t])
                           /\ f = [Top(t) EXCEPT !.pc = "calling", !.cb = c]
  OBVIOUS
<1>1. CASE h.marked
  <2>1. Skips(t, c, "removed")
    BY <1>0, <1>1 DEF CallStart, Skips
  <2> QED BY <2>1, SkipStep
<1>2. CASE ~ h.marked
  <2>1. /\ At(t, "call_lock") /\ Become(t, f)
        /\ tls' = [tls EXCEPT ![t] = Tail(tls[t])]
        /\ fate' = [fate EXCEPT ![c] = "running"]
        /\ shared' = [shared EXCEPT ![q] = shared[q] + 1]
        /\ UNCHANGED <<callbacks, calling, enabled, id_info, objects, added, gone>>
    BY <1>0, <1>2 DEF CallStart
  <2>2. /\ TypeOK /\ Shape /\ SharedLocks /\ InfoInv /\ QueueInv /\ HeldInv /\ RunInv /\ CountInv
        /\ VictimInv /\ tls \in Lists /\ fate \in [Callbacks -> Fates] /\ added \subseteq Callbacks
        /\ shared \in [Objects -> Int]
    BY DEF IInv, TypeOK, Lists, Entry
  <2>3. /\ stack[t] # <<>> /\ Top(t).pc = "call_lock" /\ k \in 1 .. MaxDepth
        /\ Top(t) \in Frame /\ FrameOK(Top(t), tls[t])
        /\ \A i \in 1 .. k - 1 : stack[t][i].pc = "calling"
    BY <1>0, <2>1, <2>2, InFrame
  <2>4. tls[t] # <<>> /\ q \in Objects /\ ~ Top(t).unlocked
    BY <1>0, <2>3 DEF FrameOK, Removing
  <2>5. c \in Callbacks /\ fate[c] = "held"
    BY <1>0, <2>2, <2>4, HeadIsHeld
  <2>6. /\ f \in Frame /\ f.pc = "calling" /\ f.cb = c /\ f.obj = q /\ f.called = Top(t).called
        /\ ~ f.unlocked /\ f.victims = Top(t).victims
    BY <1>0, <2>3, <2>4, <2>5 DEF Frame
  <2>7. FrameOK(f, tls'[t])
    BY <2>4, <2>5, <2>6 DEF FrameOK, Removing
  <2>8. \A d \in Callbacks : fate'[d] = IF d = c THEN "running" ELSE fate[d]
    BY <2>1, <2>2
  <2>9. HeldInv' /\ tls' \in Lists
    <3>1. \A d \in Callbacks : fate'[d] = "held" <=> fate[d] = "held" /\ d # c
      BY <2>8
    <3>2. c = Head(tls[t]).cb
      BY <1>0
    <3> QED BY <2>1, <2>2, <2>4, <2>5, <3>1, <3>2, HeldShrinks
  <2>10. /\ OnlyFrame(t, k) /\ stack' \in [Threads -> Seq(Frame)]
         /\ Has(t, k) /\ Has(t, k)' /\ stack'[t][k] = f /\ stack[t][k] = Top(t)
    <3>1. TypeOK /\ stack[t] # <<>> /\ Become(t, f) /\ k = Len(stack[t]) /\ f \in Frame
      BY <1>0, <2>1, <2>2, <2>3, <2>6
    <3> QED BY <3>1, Becomes
  <2>11. Shape'
    <3>1. \A u \in Threads : u # t => tls'[u] = tls[u]
      BY <2>1, <2>2 DEF Lists
    <3>2. k <= MaxDepth
      BY <2>3
    <3> QED BY <2>2, <2>3, <2>7, <2>10, <3>1, <3>2, ShapeStep
  <2>12. ~ In(t, k) /\ In(t, k)'
    BY <2>3, <2>6, <2>10 DEF In
  <2>13. \A o : ~ Gave(t, k, o) /\ ~ Gave(t, k, o)'
    BY <2>4, <2>6, <2>10 DEF Gave
  <2>14. InfoInv'
    <3>1. /\ added' = added /\ objects' = objects
          /\ \A d \in Callbacks : Adding(t, k, d)' => Adding(t, k, d)
      BY <2>1, <2>6, <2>10 DEF Adding
    <3>2. \A d \in Callbacks : fate[d] # "new" => fate'[d] # "new"
      BY <2>8
    <3> QED BY <2>2, <2>10, <3>1, <3>2, InfoStays
  <2>15. VictimInv'
    <3>1. Top(t).victims \subseteq added
      BY <2>2, <2>3, <2>10 DEF VictimInv
    <3> QED BY <2>1, <2>2, <2>6, <2>10, <3>1, VictimsStay
  <2>16. QueueInv'
    <3>1. \A d \in Callbacks : fate'[d] = "queued" <=> fate[d] = "queued"
      BY <2>5, <2>8
    <3> QED BY <2>1, <2>2, <3>1, QueueStays
  <2>17. RunInv'
    <3>1. \A d \in Callbacks : fate'[d] = "running" <=> fate[d] = "running" \/ d = c
      BY <2>8
    <3>2. stack'[t][k].cb = c /\ fate[c] # "running"
      BY <2>5, <2>6, <2>10
    <3> QED BY <2>2, <2>5, <2>10, <2>12, <3>1, <3>2, RunBegins
  <2>18. CountInv'
    <3>1. \A n : Counts(t, k, n)' <=> Counts(t, k, n)
      BY <2>6, <2>10 DEF Counts
    <3>2. Counted' = Counted
      BY <2>10, <3>1, CountedStays
    <3>3. \A d \in Callbacks : fate'[d] \in {"held", "running"} <=> fate[d] \in {"held", "running"}
      BY <2>5, <2>8
    <3> QED BY <2>1, <2>2, <3>2, <3>3, CountStays
  <2>19. SharedLocks'
    <3>1. PICK d \in {1, -1} : d = 1
      OBVIOUS
    <3>2. /\ d = 1 => ~ In(t, k) /\ In(t, k)' /\ stack'[t][k].obj = q
          /\ d = -1 => In(t, k) /\ ~ In(t, k)' /\ stack[t][k].obj = q
          /\ shared' = [shared EXCEPT ![q] = shared[q] + d]
      BY <2>1, <2>6, <2>10, <2>12, <3>1
    <3>3. \A o : Gave(t, k, o)' <=> Gave(t, k, o)
      BY <2>13
    <3> QED BY <2>2, <2>3, <2>4, <2>10, <2>11, <3>2, <3>3, LocksCall
  <2>20. fate' \in [Callbacks -> Fates] /\ shared' \in [Objects -> Int]
    <3>1. fate' \in [Callbacks -> Fates]
      BY <2>1, <2>2 DEF Fates
    <3>2. shared[q] + 1 \in Int
      BY <2>2, <2>4
    <3> QED BY <2>1, <2>2, <3>1, <3>2
  <2>21. tls' \in [Threads -> Seq([cb : Callbacks, marked : BOOLEAN])]
    BY <2>9 DEF Lists, Entry
  <2>22. TypeOK'
    BY <2>1, <2>2, <2>10, <2>20, <2>21 DEF TypeOK
  <2> QED BY <2>9, <2>11, <2>14, <2>15, <2>16, <2>17, <2>18, <2>19, <2>22 DEF IInv
<1> QED BY <1>1, <1>2

LEMMA CallReturnStep ==
  ASSUME IInv, NEW t \in Threads, NEW again \in BOOLEAN, CallReturn(t, again)
  PROVE  IInv'
<1>0. PICK c, q, k, f, x : /\ c = Top(t).cb /\ q = Top(t).obj /\ k = Len(stack[t])
                           /\ f = NextCall(Top(t), tls[t])
                           /\ x = IF again THEN "queued" ELSE "done"
  OBVIOUS
<1>1. /\ At(t, "calling") /\ Become(t, f)
      /\ callbacks' = PushBack(c, again) /\ fate' = [fate EXCEPT ![c] = x]
      /\ shared' = [shared EXCEPT ![q] = shared[q] - 1]
      /\ UNCHANGED <<calling, enabled, id_info, objects, tls, added, gone>>
  BY <1>0 DEF CallReturn
<1>2. /\ TypeOK /\ Shape /\ SharedLocks /\ InfoInv /\ QueueInv /\ HeldInv /\ RunInv /\ CountInv
      /\ VictimInv /\ fate \in [Callbacks -> Fates] /\ added \subseteq Callbacks
      /\ shared \in [Objects -> Int] /\ callbacks \in Seq(Callbacks)
  BY DEF IInv, TypeOK
<1>3. /\ stack[t] # <<>> /\ Top(t).pc = "calling" /\ k \in 1 .. MaxDepth
      /\ Top(t) \in Frame /\ FrameOK(Top(t), tls[t])
      /\ \A i \in 1 .. k - 1 : stack[t][i].pc = "calling"
  BY <1>0, <1>1, <1>2, InFrame
<1>4. c \in Callbacks /\ q \in Objects
  BY <1>0, <1>3 DEF FrameOK
<1>5. /\ f \in Frame /\ FrameOK(f, tls'[t]) /\ f.pc \in {"call_head", "call_done"}
      /\ f.called = Top(t).called + 1 /\ ~ f.unlocked /\ ~ Top(t).unlocked
      /\ f.victims = Top(t).victims
  <2>1. /\ f \in Frame /\ FrameOK(f, tls[t]) /\ f.pc \in {"call_head", "call_done"}
        /\ f.called = Top(t).called + 1 /\ ~ f.unlocked /\ ~ Top(t).unlocked
    BY <1>0, <1>3, NextCallOK
  <2>2. f.victims = Top(t).victims
    BY <1>0, <1>3 DEF NextCall, Frame
  <2> QED BY <1>1, <2>1, <2>2
<1>6. /\ OnlyFrame(t, k) /\ stack' \in [Threads -> Seq(Frame)]
      /\ Has(t, k) /\ Has(t, k)' /\ stack'[t][k] = f /\ stack[t][k] = Top(t)
  <2>1. TypeOK /\ stack[t] # <<>> /\ Become(t, f) /\ k = Len(stack[t]) /\ f \in Frame
    BY <1>0, <1>1, <1>2, <1>3, <1>5
  <2> QED BY <2>1, Becomes
<1>7. Shape'
  <2>1. k <= MaxDepth /\ \A u \in Threads : u # t => tls'[u] = tls[u]
    BY <1>1, <1>3
  <2> QED BY <1>2, <1>3, <1>5, <1>6, <2>1, ShapeStep
<1>8. In(t, k) /\ ~ In(t, k)'
  BY <1>3, <1>5, <1>6 DEF In
<1>9. \A o : ~ Gave(t, k, o) /\ ~ Gave(t, k, o)'
  BY <1>5, <1>6 DEF Gave
<1>10. x \in {"queued", "done"} /\ \A d \in Callbacks : fate'[d] = IF d = c THEN x ELSE fate[d]
  BY <1>0, <1>1, <1>2
<1>11. RunInv' /\ fate[c] = "running"
  <2>1. \A d \in Callbacks : fate'[d] = "running" <=> fate[d] = "running" /\ d # c
    BY <1>10
  <2>2. stack[t][k].cb = c
    BY <1>0, <1>6
  <2> QED BY <1>2, <1>4, <1>6, <1>8, <2>1, <2>2, RunEnds
<1>12. InfoInv'
  <2>1. /\ added' = added /\ objects' = objects
        /\ \A d \in Callbacks : Adding(t, k, d)' => Adding(t, k, d)
    BY <1>1, <1>5, <1>6 DEF Adding
  <2>2. \A d \in Callbacks : fate[d] # "new" => fate'[d] # "new"
    BY <1>10
  <2> QED BY <1>2, <1>6, <2>1, <2>2, InfoStays
<1>13. VictimInv'
  <2>1. Top(t).victims \subseteq added
    BY <1>2, <1>3, <1>6 DEF VictimInv
  <2> QED BY <1>1, <1>2, <1>5, <1>6, <2>1, VictimsStay
<1>14. QueueInv' /\ callbacks' \in Seq(Callbacks)
  <2>1. CASE again
    <3>1. callbacks' = Append(callbacks, c) /\ x = "queued"
      BY <1>0, <1>1, <2>1 DEF PushBack
    <3>2. /\ fate[c] # "queued"
          /\ \A d \in Callbacks : fate'[d] = "queued" <=> fate[d] = "queued" \/ d = c
      BY <1>10, <1>11, <3>1
    <3> QED BY <1>2, <1>4, <3>1, <3>2, QueuePushes
  <2>2. CASE ~ again
    <3>1. callbacks' = callbacks /\ x = "done"
      BY <1>0, <1>1, <2>2 DEF PushBack
    <3>2. \A d \in Callbacks : fate'[d] = "queued" <=> fate[d] = "queued"
      BY <1>10, <1>11, <3>1
    <3> QED BY <1>2, <3>1, <3>2, QueueStays
  <2> QED BY <2>1, <2>2
<1>15. HeldInv'
  <2>1. \A d \in Callbacks : fate'[d] = "held" <=> fate[d] = "held"
    BY <1>10, <1>11
  <2> QED BY <1>1, <1>2, <2>1, HeldStays
<1>16. CountInv'
  <2>1. c \in Busy
    BY <1>4, <1>11 DEF Busy
  <2>2. \A d \in Callbacks : d \in Busy' <=> d \in Busy /\ d # c
    BY <1>10, <1>11 DEF Busy
  <2>3. calling' = calling /\ stack'[t][k].called = stack[t][k].called + 1
    BY <1>1, <1>5, <1>6
  <2> QED BY <1>2, <1>6, <2>1, <2>2, <2>3, CountGrows
<1>17. SharedLocks'
  <2>1. PICK d \in {1, -1} : d = -1
    OBVIOUS
  <2>2. /\ d = 1 => ~ In(t, k) /\ In(t, k)' /\ stack'[t][k].obj = q
        /\ d = -1 => In(t, k) /\ ~ In(t, k)' /\ stack[t][k].obj = q
    BY <1>0, <1>6, <1>8, <2>1
  <2>3. shared' = [shared EXCEPT ![q] = shared[q] + d]
    BY <1>1, <1>2, <1>4, <2>1
  <2>4. \A o : Gave(t, k, o)' <=> Gave(t, k, o)
    BY <1>9
  <2> QED BY <1>2, <1>3, <1>4, <1>6, <1>7, <2>2, <2>3, <2>4, LocksCall
<1>18. fate' \in [Callbacks -> Fates] /\ shared' \in [Objects -> Int]
  BY <1>1, <1>2, <1>4, <1>10 DEF Fates
<1>19. TypeOK'
  BY <1>1, <1>2, <1>6, <1>14, <1>18 DEF TypeOK
<1> QED BY <1>7, <1>11, <1>12, <1>13, <1>14, <1>15, <1>16, <1>17, <1>19 DEF IInv

LEMMA CallDoneStep ==
  ASSUME IInv, NEW t \in Threads, CallDone(t)
  PROVE  IInv'
<1>0. PICK k : k = Len(stack[t])
  OBVIOUS
<1>1. /\ At(t, "call_done") /\ Return(t) /\ calling' = calling - Top(t).called
      /\ UNCHANGED <<callbacks, enabled, id_info, objects, shared, tls, fate, added, gone>>
  BY DEF CallDone
<1>2. /\ TypeOK /\ Shape /\ SharedLocks /\ InfoInv /\ QueueInv /\ HeldInv /\ RunInv /\ CountInv
      /\ VictimInv /\ added \subseteq Callbacks
  BY DEF IInv, TypeOK
<1>3. stack[t] # <<>> /\ Top(t).pc = "call_done" /\ FrameOK(Top(t), tls[t])
  BY <1>1, <1>2, InFrame
<1>4. \A o : ~ GaveIn(Top(t), o)
  BY <1>3 DEF FrameOK, Removing, GaveIn
<1>5. /\ OnlyFrame(t, k) /\ Silent(t, k)
      /\ \A o : Gave(t, k, o)' <=> Gave(t, k, o)
      /\ \A c : ~ Adding(t, k, c)'
      /\ Has(t, k) /\ ~ Has(t, k)' /\ stack[t][k] = Top(t) /\ VictimInv'
  <2>1. /\ Top(t).pc # "calling" /\ TypeOK /\ Shape /\ stack[t] # <<>> /\ Return(t) /\ k = Len(stack[t])
        /\ \A u \in Threads : u # t => tls'[u] = tls[u]
    BY <1>0, <1>1, <1>2, <1>3
  <2>2. /\ OnlyFrame(t, k) /\ Silent(t, k)
        /\ \A o : Gave(t, k, o)' <=> Gave(t, k, o)
        /\ \A c : ~ Adding(t, k, c)'
        /\ Has(t, k) /\ ~ Has(t, k)' /\ stack[t][k] = Top(t)
        /\ VictimInv /\ added \subseteq added' => VictimInv'
    BY <1>4, <2>1, Returned
  <2> QED BY <1>1, <1>2, <2>2
<1>6. InfoInv'
  <2>1. /\ added' = added /\ objects' = objects /\ fate' = fate
        /\ \A c \in Callbacks : Adding(t, k, c)' => Adding(t, k, c)
    BY <1>1, <1>5
  <2> QED BY <1>2, <1>5, <2>1, InfoStays
<1>7. QueueInv' /\ HeldInv' /\ RunInv'
  BY <1>1, <1>2, <1>5, QueueStays, HeldStays, SilentRuns
<1>8. CountInv' /\ calling' \in Nat
  <2>1. calling' = calling - stack[t][k].called /\ fate' = fate
    BY <1>1, <1>5
  <2> QED BY <1>2, <1>5, <2>1, CountEnds
<1>9. Shape' /\ stack' \in [Threads -> Seq(Frame)] /\ ~ In(t, k) /\ ~ In(t, k)'
  BY <1>5 DEF Silent
<1>10. SharedLocks'
  <2>1. shared' = shared
    BY <1>1
  <2> QED BY <1>2, <1>5, <1>9, <2>1, LocksStay
<1>11. TypeOK'
  BY <1>1, <1>2, <1>8, <1>9 DEF TypeOK
<1> QED BY <1>5, <1>6, <1>7, <1>8, <1>9, <1>10, <1>11 DEF IInv

-----------------------------------------------------------------------------
(* enable, disable and clear; and the steps of anybody else *)

LEMMA ClearStep ==
  ASSUME IInv, Clear
  PROVE  IInv'
<1>1. /\ callbacks' = <<>>
      /\ fate' = [c \in Callbacks |-> IF fate[c] = "queued" THEN "cleared" ELSE fate[c]]
      /\ UNCHANGED <<calling, enabled, id_info, objects, shared, tls, stack, added, gone>>
  BY DEF Clear
<1>2. /\ TypeOK /\ Shape /\ SharedLocks /\ InfoInv /\ QueueInv /\ HeldInv /\ RunInv /\ CountInv
      /\ VictimInv /\ fate \in [Callbacks -> Fates] /\ added \subseteq Callbacks
  BY DEF IInv, TypeOK
<1>3. \A c \in Callbacks : fate'[c] = IF fate[c] = "queued" THEN "cleared" ELSE fate[c]
  BY <1>1
<1>4. /\ Shape' /\ SharedLocks' /\ Counted' = Counted /\ VictimInv'
      /\ \A u, i, d : Runs(u, i, d)' <=> Runs(u, i, d)
      /\ \A u, i, d : Adding(u, i, d)' <=> Adding(u, i, d)
  BY <1>1, <1>2, StacksStay
<1>5. InfoInv'
  BY <1>1, <1>2, <1>3, <1>4 DEF InfoInv
<1>6. QueueInv' /\ callbacks' \in Seq(Callbacks)
  <2>1. \A d \in Callbacks : fate'[d] # "queued"
    BY <1>3
  <2> QED BY <1>1, <2>1, QueueEmpties
<1>7. HeldInv' /\ RunInv'
  <2>1. \A c \in Callbacks : /\ fate'[c] = "held" <=> fate[c] = "held"
                             /\ fate'[c] = "running" <=> fate[c] = "running"
    BY <1>3
  <2> QED BY <1>1, <1>2, <1>4, <2>1, HeldStays, RunStays
<1>8. CountInv'
  <2>1. \A c \in Callbacks : fate'[c] \in {"held", "running"} <=> fate[c] \in {"held", "running"}
    BY <1>3
  <2> QED BY <1>1, <1>2, <1>4, <2>1, CountStays
<1>9. fate' \in [Callbacks -> Fates]
  BY <1>1, <1>2 DEF Fates
<1>10. TypeOK'
  BY <1>1, <1>2, <1>6, <1>9 DEF TypeOK
<1> QED BY <1>4, <1>5, <1>6, <1>7, <1>8, <1>10 DEF IInv

LEMMA IdleStep ==
  ASSUME IInv, enabled' \in BOOLEAN,
         UNCHANGED <<callbacks, calling, id_info, objects, shared, tls, stack, fate, added, gone>>
  PROVE  IInv'
<1>1. /\ TypeOK /\ Shape /\ SharedLocks /\ InfoInv /\ QueueInv /\ HeldInv /\ RunInv /\ CountInv
      /\ VictimInv
  BY DEF IInv
<1>2. /\ Shape' /\ SharedLocks' /\ Counted' = Counted /\ VictimInv'
      /\ \A u, i, d : Runs(u, i, d)' <=> Runs(u, i, d)
      /\ \A u, i, d : Adding(u, i, d)' <=> Adding(u, i, d)
  BY <1>1, StacksStay
<1>3. InfoInv' /\ QueueInv' /\ HeldInv' /\ RunInv' /\ CountInv'
  BY <1>1, <1>2, QueueStays, HeldStays, RunStays, CountStays DEF InfoInv
<1>4. TypeOK'
  BY <1>1 DEF TypeOK
<1> QED BY <1>2, <1>3, <1>4 DEF IInv

-----------------------------------------------------------------------------
(* The invariant *)

LEMMA InitIInv == Init => IInv
<1> SUFFICES ASSUME Init PROVE IInv
  OBVIOUS
<1>1. /\ callbacks = <<>> /\ calling = 0 /\ enabled = TRUE
      /\ id_info = [id \in Ids |-> None] /\ objects = 0 /\ shared = [o \in Objects |-> 0]
      /\ tls = [t \in Threads |-> <<>>] /\ stack = [t \in Threads |-> <<>>]
      /\ fate = [c \in Callbacks |-> "new"] /\ added = {} /\ gone = {}
  BY DEF Init
<1>2. /\ \A t \in Threads : tls[t] = <<>> /\ stack[t] = <<>>
      /\ \A c \in Callbacks : fate[c] = "new"
  BY <1>1
<1>3. /\ \A t \in Threads : \A i : ~ Has(t, i)
      /\ \A t \in Threads : \A i, c : ~ Holds(t, i, c)
  BY <1>2 DEF Has, Holds
<1>4. TypeOK
  <2>1. callbacks \in Seq(Callbacks)
    BY <1>1
  <2>2. tls \in [Threads -> Seq([cb : Callbacks, marked : BOOLEAN])]
    BY <1>1
  <2>3. stack \in [Threads -> Seq(Frame)]
    BY <1>1
  <2>4. objects \in 0 .. Cardinality(Callbacks)
    BY <1>1, CallbackQueueAssumption, FS_CardinalityType
  <2>5. fate \in [Callbacks -> Fates]
    BY <1>1 DEF Fates
  <2>6. id_info \in [Ids -> Objects \union {None}] /\ shared \in [Objects -> Int]
    BY <1>1
  <2>7. calling \in Nat /\ enabled \in BOOLEAN /\ gone \subseteq added /\ added \subseteq Callbacks
    BY <1>1
  <2> QED BY <2>1, <2>2, <2>3, <2>4, <2>5, <2>6, <2>7 DEF TypeOK
<1>5. Shape
  BY <1>2, CallbackQueueAssumption DEF Shape
<1>6. InfoInv
  BY <1>1, <1>2, <1>3, FS_EmptySet DEF InfoInv, Adding
<1>7. VictimInv
  BY <1>3 DEF VictimInv
<1>8. QueueInv
  BY <1>1, <1>2 DEF QueueInv, Distinct
<1>9. HeldInv
  BY <1>2, <1>3 DEF HeldInv
<1>10. RunInv
  BY <1>2, <1>3 DEF RunInv, Runs, In
<1>11. CountInv
  <2>1. \A p \in Threads \X Nat \X Nat : ~ Counts(p[1], p[2], p[3])
    BY <1>3 DEF Counts
  <2>2. Counted = {} /\ Busy = {}
    BY <1>2, <2>1 DEF Counted, Busy
  <2> QED BY <1>1, <2>2, FS_EmptySet DEF CountInv
<1>12. SharedLocks
  <2>1. \A p \in Threads \X (1 .. MaxDepth) : ~ In(p[1], p[2])
    BY <1>3 DEF In
  <2>2. \A o : CallsOn(o) = {} /\ GivenUp(o) = {}
    BY <1>2, <2>1, InCallIs DEF CallsOn, GivenUp
  <2>3. \A o \in Objects : shared[o] = 0
    BY <1>1
  <2> QED BY <2>2, <2>3, FS_EmptySet DEF SharedLocks
<1> QED BY <1>4, <1>5, <1>6, <1>7, <1>8, <1>9, <1>10, <1>11, <1>12 DEF IInv

LEMMA NextIInv == IInv /\ [Next]_vars => IInv'
<1> SUFFICES ASSUME IInv, [Next]_vars PROVE IInv'
  OBVIOUS
<1>1. ASSUME NEW t \in Threads, NEW c \in Callbacks, AddCallback(t, c) PROVE IInv'
  BY <1>1, AddCallbackStep
<1>2. ASSUME NEW t \in Threads, NEW id \in Ids, RemoveByID(t, id) PROVE IInv'
  BY <1>2, RemoveByIDStep
<1>3. ASSUME NEW t \in Threads, CallOne(t) PROVE IInv'
  BY <1>3, CallOneStep
<1>4. ASSUME NEW t \in Threads, CallAvailable(t) PROVE IInv'
  BY <1>4, CallAvailableStep
<1>5. ASSUME NEW t \in Threads, NEW again \in BOOLEAN, CallReturn(t, again) PROVE IInv'
  BY <1>5, CallReturnStep
<1>6. ASSUME NEW t \in Threads, Progress(t) PROVE IInv'
  <2>1. CASE AddIDInfo(t)
    BY <2>1, AddIDInfoStep
  <2>2. CASE RemoveWait(t)
    BY <2>2, RemoveWaitStep
  <2>3. CASE RemoveErase(t)
    BY <2>3, RemoveEraseStep
  <2>4. CASE RemoveRelock(t)
    BY <2>4, RemoveRelockStep
  <2>5. CASE RemoveForget(t)
    BY <2>5, RemoveForgetStep
  <2>6. CASE CallHead(t)
    BY <2>6, CallHeadStep
  <2>7. CASE CallStart(t)
    BY <2>7, CallStartStep
  <2>8. CASE CallDone(t)
    BY <2>8, CallDoneStep
  <2>9. CASE CallReturn(t, FALSE)
    BY <1>5, <2>9
  <2> QED BY <1>6, <2>1, <2>2, <2>3, <2>4, <2>5, <2>6, <2>7, <2>8, <2>9 DEF Progress
<1>7. ASSUME NEW b \in BOOLEAN, SetEnabled(b) PROVE IInv'
  BY <1>7, IdleStep DEF SetEnabled
<1>8. CASE Clear
  BY <1>8, ClearStep
<1>9. CASE UNCHANGED vars
  <2>1. enabled' \in BOOLEAN
    BY <1>9 DEF vars, IInv, TypeOK
  <2> QED BY <1>9, <2>1, IdleStep DEF vars
<1> QED BY <1>1, <1>2, <1>3, <1>4, <1>5, <1>6, <1>7, <1>8, <1>9 DEF Next

-----------------------------------------------------------------------------
(* From the invariant to the property *)

\* A list holds different callbacks: no more than there are.
LEMMA ListsAreShort ==
  ASSUME TypeOK, HeldInv, NEW t \in Threads
  PROVE  Len(tls[t]) <= Cardinality(Callbacks)
<1>1. tls[t] \in Seq([cb : Callbacks, marked : BOOLEAN])
  BY DEF TypeOK
<1>2. PICK n \in Nat : n = Len(tls[t])
  BY <1>1
<1> DEFINE f == [i \in 1 .. n |-> tls[t][i].cb]
<1>3. f \in [1 .. n -> Callbacks]
  <2>1. \A i \in 1 .. n : tls[t][i] \in [cb : Callbacks, marked : BOOLEAN]
    BY <1>1, <1>2, ElementOfSeq
  <2>2. \A i \in 1 .. n : tls[t][i].cb \in Callbacks
    BY <2>1
  <2> QED BY <2>2
<1>4. \A x, y \in 1 .. n : f[x] = f[y] => x = y
  <2> SUFFICES ASSUME NEW x \in 1 .. n, NEW y \in 1 .. n, f[x] = f[y] PROVE x = y
    OBVIOUS
  <2>1. PICK c \in Callbacks : c = tls[t][x].cb /\ c = tls[t][y].cb
    BY <1>3
  <2>2. Holds(t, x, c) /\ Holds(t, y, c) /\ x \in Nat /\ y \in Nat
    BY <1>2, <2>1 DEF Holds
  <2> QED BY <2>2 DEF HeldInv
<1> HIDE DEF f
<1>5. IsFiniteSet(1 .. n) /\ Cardinality(1 .. n) = n
  <2>1. /\ IsFiniteSet(1 .. n)
        /\ Cardinality(1 .. n) = IF 1 > n THEN 0 ELSE n - 1 + 1
    BY FS_Interval
  <2> QED BY <2>1
<1>6. IsFiniteSet(Callbacks) /\ Cardinality(Callbacks) \in Nat
  BY CallbackQueueAssumption, FS_CardinalityType
<1>7. ~ Cardinality(Callbacks) < Cardinality(1 .. n)
  BY <1>3, <1>4, <1>5, <1>6, FS_PigeonHole
<1> QED BY <1>2, <1>5, <1>6, <1>7

\* The number of elements of a set that is known to be empty or to have one.
LEMMA OneOrNone ==
  ASSUME NEW S, NEW b \in BOOLEAN, b <=> S # {}, \A p, q \in S : p = q
  PROVE  Cardinality(S) = IF b THEN 1 ELSE 0
<1>1. CASE S = {}
  BY <1>1, FS_EmptySet
<1>2. CASE S # {}
  <2>1. PICK p : S = {p}
    BY <1>2
  <2> QED BY <1>2, <2>1, FS_Singleton
<1> QED BY <1>1, <1>2

LEMMA IInvInOnePlace == IInv => InOnePlace
<1> SUFFICES ASSUME IInv PROVE InOnePlace
  OBVIOUS
<1>1. /\ TypeOK /\ Shape /\ SharedLocks /\ QueueInv /\ HeldInv /\ RunInv /\ CountInv
  BY DEF IInv
<1>2. ASSUME NEW c \in Callbacks
      PROVE  Cardinality(Queued(c)) = IF fate[c] = "queued" THEN 1 ELSE 0
  <2>1. (fate[c] = "queued") <=> Queued(c) # {}
    BY <1>1 DEF QueueInv, Queued
  <2>2. \A p, q \in Queued(c) : p = q
    <3>1. \A p, q \in Queued(c) : ~ p < q /\ ~ q < p
      BY <1>1 DEF QueueInv, Distinct, Queued
    <3>2. Queued(c) \subseteq Int
      BY DEF Queued
    <3> QED BY <3>1, <3>2
  <2> QED BY <2>1, <2>2, OneOrNone
<1>3. ASSUME NEW c \in Callbacks
      PROVE  Cardinality(HeldBy(c)) = IF fate[c] = "held" THEN 1 ELSE 0
  <2>1. \A p \in Threads \X (1 .. Cardinality(Callbacks)) :
          /\ p[1] \in Threads /\ p[2] \in Nat /\ p = <<p[1], p[2]>>
          /\ p \in HeldBy(c) <=> Holds(p[1], p[2], c)
    <3> SUFFICES ASSUME NEW p \in Threads \X (1 .. Cardinality(Callbacks))
                 PROVE  /\ p[1] \in Threads /\ p[2] \in Nat /\ p = <<p[1], p[2]>>
                        /\ p \in HeldBy(c) <=> Holds(p[1], p[2], c)
      OBVIOUS
    <3>1. p[1] \in Threads /\ p[2] \in 1 .. Cardinality(Callbacks) /\ p = <<p[1], p[2]>>
      OBVIOUS
    <3>2. Len(tls[p[1]]) \in Nat
      BY <1>1, <3>1 DEF TypeOK
    <3>3. p \in HeldBy(c) <=> p[2] <= Len(tls[p[1]]) /\ tls[p[1]][p[2]].cb = c
      BY DEF HeldBy
    <3> QED BY <3>1, <3>2, <3>3 DEF Holds
  <2>2. \A p \in HeldBy(c) : p \in Threads \X (1 .. Cardinality(Callbacks))
    BY DEF HeldBy
  <2>3. \A p, q \in HeldBy(c) : p = q
    <3> SUFFICES ASSUME NEW p \in HeldBy(c), NEW q \in HeldBy(c) PROVE p = q
      OBVIOUS
    <3>1. /\ p[1] \in Threads /\ p[2] \in Nat /\ p = <<p[1], p[2]>> /\ Holds(p[1], p[2], c)
          /\ q[1] \in Threads /\ q[2] \in Nat /\ q = <<q[1], q[2]>> /\ Holds(q[1], q[2], c)
      BY <2>1, <2>2
    <3>2. p[1] = q[1] /\ p[2] = q[2]
      BY <1>1, <3>1 DEF HeldInv
    <3> QED BY <3>1, <3>2
  <2>4. \A t \in Threads, i \in Nat : Holds(t, i, c) => <<t, i>> \in HeldBy(c)
    <3> SUFFICES ASSUME NEW t \in Threads, NEW i \in Nat, Holds(t, i, c)
                 PROVE  <<t, i>> \in HeldBy(c)
      OBVIOUS
    <3>1. Len(tls[t]) <= Cardinality(Callbacks)
      BY <1>1, ListsAreShort
    <3>3. Len(tls[t]) \in Nat
      BY <1>1 DEF TypeOK
    <3>2. i \in 1 .. Cardinality(Callbacks)
      BY <3>1, <3>3, CallbackQueueAssumption, FS_CardinalityType DEF Holds
    <3> QED BY <3>1, <3>2, <3>3 DEF HeldBy, Holds
  <2>5. (fate[c] = "held") <=> \E t \in Threads, i \in Nat : Holds(t, i, c)
    BY <1>1 DEF HeldInv
  <2>6. (fate[c] = "held") <=> HeldBy(c) # {}
    BY <2>1, <2>2, <2>4, <2>5
  <2> QED BY <2>3, <2>6, OneOrNone
<1>4. ASSUME NEW c \in Callbacks
      PROVE  Cardinality(Frames(c)) = IF fate[c] = "running" THEN 1 ELSE 0
  <2>1. \A p \in Threads \X (1 .. MaxDepth) :
          /\ p[1] \in Threads /\ p[2] \in Nat /\ p = <<p[1], p[2]>>
          /\ p \in Frames(c) <=> Runs(p[1], p[2], c)
    <3>1. \A p \in Threads \X (1 .. MaxDepth) : p \in Frames(c) <=> Runs(p[1], p[2], c)
      BY InCallIs DEF Frames, Runs
    <3> QED BY <3>1
  <2>2. \A p \in Frames(c) : p \in Threads \X (1 .. MaxDepth)
    BY InCallIs DEF Frames
  <2>3. \A p, q \in Frames(c) : p = q
    <3> SUFFICES ASSUME NEW p \in Frames(c), NEW q \in Frames(c) PROVE p = q
      OBVIOUS
    <3>1. /\ p[1] \in Threads /\ p[2] \in Nat /\ p = <<p[1], p[2]>> /\ Runs(p[1], p[2], c)
          /\ q[1] \in Threads /\ q[2] \in Nat /\ q = <<q[1], q[2]>> /\ Runs(q[1], q[2], c)
      BY <2>1, <2>2
    <3>2. p[1] = q[1] /\ p[2] = q[2]
      BY <1>1, <3>1 DEF RunInv
    <3> QED BY <3>1, <3>2
  <2>4. \A t \in Threads, i \in Nat : Runs(t, i, c) => <<t, i>> \in Frames(c)
    <3> SUFFICES ASSUME NEW t \in Threads, NEW i \in Nat, Runs(t, i, c)
                 PROVE  <<t, i>> \in Frames(c)
      OBVIOUS
    <3>1. Len(stack[t]) <= MaxDepth /\ Len(stack[t]) \in Nat
      BY <1>1 DEF Shape, TypeOK
    <3>2. i \in 1 .. MaxDepth
      BY <3>1, CallbackQueueAssumption DEF Runs, In, Has
    <3> QED BY <2>1, <3>2
  <2>5. (fate[c] = "running") <=> \E t \in Threads, i \in Nat : Runs(t, i, c)
    BY <1>1 DEF RunInv
  <2>6. (fate[c] = "running") <=> Frames(c) # {}
    BY <2>1, <2>2, <2>4, <2>5
  <2> QED BY <2>3, <2>6, OneOrNone
<1>5. EmptyMeansQuiet
  <2> SUFFICES ASSUME callbacks = <<>>, calling = 0, NEW c \in Callbacks
               PROVE  fate[c] \notin {"queued", "held", "running"}
    BY DEF EmptyMeansQuiet
  <2>1. fate[c] # "queued"
    BY <1>1 DEF QueueInv
  <2>2. Cardinality(Busy) = 0
    <3>1. Cardinality(Counted) \in Nat /\ Cardinality(Busy) \in Nat
      BY <1>1, BusyFinite, FS_CardinalityType DEF CountInv
    <3> QED BY <1>1, <3>1 DEF CountInv
  <2>3. Busy = {}
    BY <2>2, BusyFinite, FS_EmptySet
  <2> QED BY <2>1, <2>3 DEF Busy
<1> QED BY <1>1, <1>2, <1>3, <1>4, <1>5 DEF InOnePlace

\* A callback that was added is, until it is over, in exactly one place: in the shared queue,
\* in the list of one thread or in one call (callback_queue.cpp: addCallback, removeByID,
\* callOne, callAvailable and callOneCB); isEmpty() sees it wherever it is; and the shared
\* locks on each calling_rw_mutex are those of the calls, less those given up by removeByID.
THEOREM CallbacksAreInOnePlace == Spec => []InOnePlace
<1>1. Init => IInv
  BY InitIInv
<1>2. IInv /\ [Next]_vars => IInv'
  BY NextIInv
<1>3. IInv => InOnePlace
  BY IInvInOnePlace
<1> QED BY <1>1, <1>2, <1>3, PTL DEF Spec
=============================================================================
