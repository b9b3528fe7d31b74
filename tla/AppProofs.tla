------------------------------ MODULE AppProofs ------------------------------
(***************************************************************************)
(* Theorems about the parts of the app, each by itself.                    *)
(*                                                                         *)
(* Recorder, for any number of recordings, samples, seconds and replays:   *)
(* what its three invariants say.  What makes them inductive: the session  *)
(* queue is cut by its open and close blocks into runs of publish blocks.  *)
(* The run behind an open block holds the samples of that recording, none  *)
(* more and none less, and so do the file that is being written, the block *)
(* that is half done and the run at the head of the queue (Accounted); and *)
(* a run is still open at its end exactly when the sign of its recording   *)
(* is on (Switched).                                                       *)
(*                                                                         *)
(* ImuPairing: the samples handed to the session queue are in order, and   *)
(* each is interpolated between its true neighbours, for any number of     *)
(* samples and any toggling of the flags.  None of the properties is       *)
(* inductive: they need what processIMU relies on, that the buffers are in *)
(* time order, that what was already handed over is older than what is     *)
(* still to pair (Behind), and that the accelerometer buffer has no gaps   *)
(* (NoGap).  That no gyroscope sample is lost needs a second layer, on top *)
(* of those: what the loop has passed over without an interval lies        *)
(* outside the buffer (Visited), and what Trim cut off the buffer is older *)
(* than every sample still to pair (Kept).                                 *)
(*                                                                         *)
(* RosTime, the clock the samples are stamped by: its arithmetic is exact  *)
(* for seconds of any length and numbers of any width.  It rests on that a *)
(* number is so many seconds and a rest in one way (OneWay), which the     *)
(* carry in normalizeSecNSec finds also of a negative number               *)
(* (CarriedExact).                                                         *)
(***************************************************************************)
EXTENDS Recorder, ImuPairing, RosTime, FiniteSetTheorems, SequenceTheorems, WellFoundedInduction,
        TLAPS

Increasing(s) == \A i, j \in 1 .. Len(s) : i < j => s[i] < s[j]

-----------------------------------------------------------------------------
(* Recorder.                                                                    *)

\* Behind position j of the queue q only publish blocks follow; and sample k is
\* published there before q opens or closes a bag.
OpenEnded(q, j) == \A h \in 1 .. Len(q) : j < h => q[h].op = "publish"
Due(q, j, k) ==
    \E i \in 1 .. Len(q) :
       /\ j < i /\ q[i].op = "publish" /\ q[i].id = k
       /\ \A h \in 1 .. Len(q) : j < h /\ h < i => q[h].op = "publish"

\* The last open block in the queue, and the bag, belong to the recording whose sign is on.
IsOn(n) == isRecordOn /\ n = Len(asked)

SwitchOf(j) ==
    LET t == sessionQueue[j]
    IN /\ t.op = "open" => /\ t.rec <= Len(asked)
                           /\ OpenEnded(sessionQueue, j) <=> IsOn(t.rec)
       /\ t.op = "close" /\ OpenEnded(sessionQueue, j) => ~isRecordOn

Switched ==
    /\ \A j \in 1 .. Len(sessionQueue) : SwitchOf(j)
    /\ bag.mode = "write" => /\ bag.rec <= Len(asked)
                             /\ OpenEnded(sessionQueue, 0) <=> IsOn(bag.rec)
    /\ replays = 0 /\ OpenEnded(sessionQueue, 0) /\ isRecordOn => bag.mode = "write"
    /\ replay # "none" => replays # 0
    /\ isRecordOn => asked # <<>>

\* Sample k is one of a recording's, and in the file with messages m.
Has(a, k) == \E i \in 1 .. Len(a) : a[i] = k
Wrote(m, k) == \E i \in 1 .. Len(m) : m[i].id = k

\* The file of the bag is still there.
Writing == bag.mode = "write" /\ bag.file \in DOMAIN disk /\ disk[bag.file].rec = bag.rec
InHand(k) == worker # <<>> /\ worker[1].id = k

\* Where the samples of a recording are.
Accounted ==
    /\ \A j \in 1 .. Len(sessionQueue) :
          sessionQueue[j].op = "open" =>
             \A k \in Nat : Has(asked[sessionQueue[j].rec], k) <=> Due(sessionQueue, j, k)
    /\ Writing =>
          \A k \in Nat : Has(asked[bag.rec], k) <=>
             Wrote(disk[bag.file].msgs, k) \/ InHand(k) \/ Due(sessionQueue, 0, k)

Published(i) == i \in 1 .. Len(sessionQueue) /\ sessionQueue[i].op = "publish"

\* Samples are numbered in the order they are asked for, queued and written.
InOrder ==
    /\ \A n \in 1 .. Len(asked) :
          Increasing(asked[n]) /\ \A i \in 1 .. Len(asked[n]) : asked[n][i] <= samples
    /\ \A i, j \in Nat : Published(i) /\ Published(j) /\ i < j => sessionQueue[i].id < sessionQueue[j].id
    /\ \A i \in Nat : Published(i) =>
          /\ sessionQueue[i].id <= samples /\ imgCount < sessionQueue[i].id
          /\ worker # <<>> => worker[1].id < sessionQueue[i].id
          /\ \A f \in DOMAIN disk, k \in Nat : Wrote(disk[f].msgs, k) => k < sessionQueue[i].id
    /\ worker # <<>> =>
          /\ worker[1].id <= samples /\ imgCount < worker[1].id
          /\ \A f \in DOMAIN disk, k \in Nat : Wrote(disk[f].msgs, k) => k < worker[1].id
    /\ imgCount <= samples

\* A message that follows another, each of a kind, has a stamp that follows its.
Stamped(m, n) == m.kind = n.kind => StampFollows(m, n)
QueuedStamp(i) ==
    sessionQueue[i].kind = "imu" =>
       /\ sessionQueue[i].seq < imuCount
       /\ worker # << >> /\ worker[1].kind = "imu" => worker[1].seq < sessionQueue[i].seq
HandStamp ==
    worker # << >> =>
       /\ worker[1].kind = "img" => worker[1].seq = imgCount
       /\ worker[1].kind = "imu" => worker[1].seq < imuCount
       /\ worker[1].kind = "gps" => worker[1].seq <= gpsCount
FileStamp(f, h) ==
    LET m == disk[f].msgs[h]
    IN /\ m.kind = "img" => m.seq < imgCount
       /\ m.kind = "imu" => m.seq < imuCount
       /\ m.kind = "gps" => m.seq <= gpsCount
       /\ worker # << >> => Stamped(m, worker[1])
       /\ m.kind = "imu" => \A i \in Nat : Published(i) /\ sessionQueue[i].kind = "imu" =>
                                m.seq < sessionQueue[i].seq
Stamps ==
    /\ \A i, j \in Nat : Published(i) /\ Published(j) /\ i < j
          /\ sessionQueue[i].kind = "imu" /\ sessionQueue[j].kind = "imu"
             => sessionQueue[i].seq < sessionQueue[j].seq
    /\ \A i \in Nat : Published(i) => QueuedStamp(i)
    /\ HandStamp
    /\ \A f \in DOMAIN disk : \A h \in 1 .. Len(disk[f].msgs) : FileStamp(f, h)

\* Every file is a prefix of its recording, and complete when a close block finished it.
Prefix(s, t) == Len(s) <= Len(t) /\ \A i \in 1 .. Len(s) : s[i] = t[i]
FilesArePrefixes ==
    \A f \in DOMAIN disk :
       /\ disk[f].rec <= Len(asked)
       /\ Prefix(Ids(disk[f].msgs), asked[disk[f].rec])
       /\ replays = 0 /\ disk[f].readable =>
             Ids(disk[f].msgs) = asked[disk[f].rec] /\ ~IsOn(disk[f].rec)

RecInv == TypeOK /\ Switched /\ Accounted /\ InOrder /\ Stamps /\ StampsIncrease /\ FilesArePrefixes

-----------------------------------------------------------------------------
(* The blocks, and the queue of them. *)

\* What is in the queue: publish blocks, which are messages, and the two others.
LEMMA TaskFacts ==
    /\ \A t \in Tasks : t.op = "publish" => t \in Messages
    /\ \A t \in Tasks : t.op = "open" => t.rec \in 1 .. MaxRecs
    /\ \A t \in Messages : /\ t \in Tasks /\ t.op = "publish" /\ t.kind \in Kinds
                           /\ t.id \in 1 .. MaxSamples /\ t.seq \in 0 .. MaxSamples
    /\ Close \in Tasks /\ Close.op = "close"
    /\ \A n \in 1 .. MaxRecs : Open(n) \in Tasks /\ Open(n).op = "open" /\ Open(n).rec = n
    /\ \A c \in Kinds, n \in 1 .. MaxSamples, s \in 0 .. MaxSamples :
          LET t == Publish(c, n, s)
          IN t \in Messages /\ t.op = "publish" /\ t.kind = c /\ t.id = n /\ t.seq = s
<1>1. \A t \in Messages : /\ t \in Tasks /\ t.op = "publish" /\ t.kind \in Kinds
                         /\ t.id \in 1 .. MaxSamples /\ t.seq \in 0 .. MaxSamples
  BY DEF Tasks, Messages
<1>2. \A n \in 1 .. MaxRecs : Open(n) \in Tasks /\ Open(n).op = "open" /\ Open(n).rec = n
  BY DEF Tasks, Open
<1>3. Close \in Tasks /\ Close.op = "close"
  BY DEF Tasks, Close
<1>4. ASSUME NEW t \in Tasks
      PROVE  t \in Messages \/ t = Close \/ \E n \in 1 .. MaxRecs : t = Open(n)
  BY DEF Tasks
<1>5. \A t \in Tasks : t.op = "publish" => t \in Messages
  BY <1>2, <1>3, <1>4
<1>6. \A t \in Tasks : t.op = "open" => t.rec \in 1 .. MaxRecs
  BY <1>1, <1>2, <1>3, <1>4
<1>7. \A c \in Kinds, n \in 1 .. MaxSamples, s \in 0 .. MaxSamples :
          LET t == Publish(c, n, s)
          IN t \in Messages /\ t.op = "publish" /\ t.kind = c /\ t.id = n /\ t.seq = s
  BY DEF Messages, Publish
<1> QED
  BY <1>1, <1>2, <1>3, <1>5, <1>6, <1>7

\* A publish block at the end joins every run that was open there.
LEMMA AppendPublish ==
    ASSUME NEW q \in Seq(Tasks), NEW t \in Tasks, t.op = "publish"
    PROVE  /\ \A j \in 0 .. Len(q) : OpenEnded(Append(q, t), j) <=> OpenEnded(q, j)
           /\ \A j \in 0 .. Len(q), k \in Nat :
                 Due(Append(q, t), j, k) <=> Due(q, j, k) \/ (OpenEnded(q, j) /\ k = t.id)
<1> DEFINE r == Append(q, t)
<1> DEFINE n == Len(q)
<1>1. /\ n \in Nat /\ Len(r) = n + 1 /\ r[n + 1] = t
      /\ \A i \in 1 .. n : r[i] = q[i]
  BY AppendProperties, LenProperties
<1> HIDE DEF r
<1>2. ASSUME NEW j \in 0 .. n
      PROVE  OpenEnded(r, j) <=> OpenEnded(q, j)
  BY <1>1, <1>2 DEF OpenEnded
<1>3. ASSUME NEW j \in 0 .. n, NEW k \in Nat, Due(r, j, k)
      PROVE  Due(q, j, k) \/ (OpenEnded(q, j) /\ k = t.id)
  <2>1. PICK i \in 1 .. Len(r) : /\ j < i /\ r[i].op = "publish" /\ r[i].id = k
                                 /\ \A h \in 1 .. Len(r) : j < h /\ h < i => r[h].op = "publish"
    BY <1>3 DEF Due
  <2>2. CASE i = n + 1
    <3>1. \A h \in 1 .. n : j < h => q[h].op = "publish"
      BY <2>1, <2>2, <1>1
    <3> QED
      BY <2>1, <2>2, <1>1, <3>1 DEF OpenEnded
  <2>3. CASE i # n + 1
    <3>1. i \in 1 .. Len(q) /\ q[i] = r[i]
      BY <2>3, <1>1
    <3>2. \A h \in 1 .. Len(q) : j < h /\ h < i => q[h].op = "publish"
      BY <2>1, <1>1
    <3> QED
      BY <2>1, <3>1, <3>2 DEF Due
  <2> QED
    BY <2>2, <2>3
<1>4. ASSUME NEW j \in 0 .. n, NEW k \in Nat, Due(q, j, k)
      PROVE  Due(r, j, k)
  <2>1. PICK i \in 1 .. Len(q) : /\ j < i /\ q[i].op = "publish" /\ q[i].id = k
                                 /\ \A h \in 1 .. Len(q) : j < h /\ h < i => q[h].op = "publish"
    BY <1>4 DEF Due
  <2>2. i \in 1 .. Len(r) /\ q[i] = r[i]
    BY <1>1
  <2>3. \A h \in 1 .. Len(r) : j < h /\ h < i => r[h].op = "publish"
    BY <2>1, <1>1
  <2> QED
    BY <2>1, <2>2, <2>3 DEF Due
<1>5. ASSUME NEW j \in 0 .. n, OpenEnded(q, j)
      PROVE  Due(r, j, t.id)
  <2>1. n + 1 \in 1 .. Len(r) /\ j < n + 1 /\ r[n + 1].op = "publish" /\ r[n + 1].id = t.id
    BY <1>1
  <2>2. \A h \in 1 .. Len(r) : j < h /\ h < n + 1 => r[h].op = "publish"
    BY <1>5, <1>1 DEF OpenEnded
  <2> QED
    BY <2>1, <2>2 DEF Due
<1> QED
  BY <1>2, <1>3, <1>4, <1>5 DEF r

\* An open or close block at the end closes every run, and begins an empty one.
LEMMA AppendSwitch ==
    ASSUME NEW q \in Seq(Tasks), NEW t \in Tasks, t.op # "publish"
    PROVE  /\ \A j \in 0 .. Len(q) : ~OpenEnded(Append(q, t), j)
           /\ \A j \in 0 .. Len(q), k \in Nat : Due(Append(q, t), j, k) <=> Due(q, j, k)
           /\ OpenEnded(Append(q, t), Len(q) + 1)
           /\ \A k \in Nat : ~Due(Append(q, t), Len(q) + 1, k)
<1> DEFINE r == Append(q, t)
<1> DEFINE n == Len(q)
<1>1. /\ n \in Nat /\ Len(r) = n + 1 /\ r[n + 1] = t
      /\ \A i \in 1 .. n : r[i] = q[i]
  BY AppendProperties, LenProperties
<1> HIDE DEF r
<1>2. \A j \in 0 .. n : ~OpenEnded(r, j)
  BY <1>1 DEF OpenEnded
<1>3. ASSUME NEW j \in 0 .. n, NEW k \in Nat, Due(r, j, k)
      PROVE  Due(q, j, k)
  <2>1. PICK i \in 1 .. Len(r) : /\ j < i /\ r[i].op = "publish" /\ r[i].id = k
                                 /\ \A h \in 1 .. Len(r) : j < h /\ h < i => r[h].op = "publish"
    BY <1>3 DEF Due
  <2>2. i \in 1 .. Len(q) /\ q[i] = r[i]
    BY <2>1, <1>1
  <2>3. \A h \in 1 .. Len(q) : j < h /\ h < i => q[h].op = "publish"
    BY <2>1, <1>1
  <2> QED
    BY <2>1, <2>2, <2>3 DEF Due
<1>4. ASSUME NEW j \in 0 .. n, NEW k \in Nat, Due(q, j, k)
      PROVE  Due(r, j, k)
  <2>1. PICK i \in 1 .. Len(q) : /\ j < i /\ q[i].op = "publish" /\ q[i].id = k
                                 /\ \A h \in 1 .. Len(q) : j < h /\ h < i => q[h].op = "publish"
    BY <1>4 DEF Due
  <2>2. i \in 1 .. Len(r) /\ q[i] = r[i]
    BY <1>1
  <2>3. \A h \in 1 .. Len(r) : j < h /\ h < i => r[h].op = "publish"
    BY <2>1, <1>1
  <2> QED
    BY <2>1, <2>2, <2>3 DEF Due
<1>5. OpenEnded(r, n + 1) /\ \A k \in Nat : ~Due(r, n + 1, k)
  BY <1>1 DEF OpenEnded, Due
<1> QED
  BY <1>2, <1>3, <1>4, <1>5 DEF r

\* The head leaves: every position moves up.
LEMMA TailQueue ==
    ASSUME NEW q \in Seq(Tasks), q # << >>
    PROVE  /\ \A j \in 0 .. Len(q) - 1 : OpenEnded(Tail(q), j) <=> OpenEnded(q, j + 1)
           /\ \A j \in 0 .. Len(q) - 1, k \in Nat : Due(Tail(q), j, k) <=> Due(q, j + 1, k)
<1> DEFINE r == Tail(q)
<1> DEFINE n == Len(q)
<1>1. /\ n \in Nat \ {0} /\ Len(r) = n - 1
      /\ \A i \in 1 .. n - 1 : r[i] = q[i + 1]
  BY HeadTailProperties, LenProperties, EmptySeq
<1>2. \A i \in 2 .. n : i - 1 \in 1 .. n - 1 /\ r[i - 1] = q[i]
  <2> SUFFICES ASSUME NEW i \in 2 .. n PROVE i - 1 \in 1 .. n - 1 /\ r[i - 1] = q[i]
    OBVIOUS
  <2>1. i - 1 \in 1 .. n - 1 /\ (i - 1) + 1 = i
    BY <1>1
  <2> QED
    BY <1>1, <2>1
<1> HIDE DEF r
<1>3. ASSUME NEW j \in 0 .. n - 1
      PROVE  OpenEnded(r, j) <=> OpenEnded(q, j + 1)
  <2>1. ASSUME OpenEnded(r, j), NEW h \in 1 .. n, j + 1 < h PROVE q[h].op = "publish"
    <3>1. h \in 2 .. n /\ j < h - 1
      BY <2>1, <1>1
    <3> QED
      BY <2>1, <3>1, <1>1, <1>2 DEF OpenEnded
  <2>2. ASSUME OpenEnded(q, j + 1), NEW h \in 1 .. n - 1, j < h PROVE r[h].op = "publish"
    <3>1. h + 1 \in 1 .. n /\ j + 1 < h + 1
      BY <2>2, <1>1
    <3> QED
      BY <2>2, <3>1, <1>1 DEF OpenEnded
  <2> QED
    BY <2>1, <2>2, <1>1 DEF OpenEnded
<1>4. ASSUME NEW j \in 0 .. n - 1, NEW k \in Nat, Due(r, j, k)
      PROVE  Due(q, j + 1, k)
  <2>1. PICK i \in 1 .. Len(r) : /\ j < i /\ r[i].op = "publish" /\ r[i].id = k
                                 /\ \A h \in 1 .. Len(r) : j < h /\ h < i => r[h].op = "publish"
    BY <1>4 DEF Due
  <2>2. i + 1 \in 1 .. Len(q) /\ q[i + 1] = r[i] /\ j + 1 < i + 1
    BY <1>1, <2>1
  <2>3. ASSUME NEW h \in 1 .. Len(q), j + 1 < h, h < i + 1 PROVE q[h].op = "publish"
    <3>1. h \in 2 .. n /\ h - 1 \in 1 .. Len(r) /\ j < h - 1 /\ h - 1 < i
      BY <2>3, <1>1
    <3> QED
      BY <2>1, <3>1, <1>2
  <2> QED
    BY <2>1, <2>2, <2>3 DEF Due
<1>5. ASSUME NEW j \in 0 .. n - 1, NEW k \in Nat, Due(q, j + 1, k)
      PROVE  Due(r, j, k)
  <2>1. PICK i \in 1 .. Len(q) : /\ j + 1 < i /\ q[i].op = "publish" /\ q[i].id = k
                                 /\ \A h \in 1 .. Len(q) : j + 1 < h /\ h < i => q[h].op = "publish"
    BY <1>5 DEF Due
  <2>2. i \in 2 .. n /\ i - 1 \in 1 .. Len(r) /\ j < i - 1
    BY <1>1, <2>1
  <2>3. r[i - 1] = q[i]
    BY <1>2, <2>2
  <2>4. ASSUME NEW h \in 1 .. Len(r), j < h, h < i - 1 PROVE r[h].op = "publish"
    <3>1. h + 1 \in 1 .. Len(q) /\ j + 1 < h + 1 /\ h + 1 < i
      BY <2>4, <1>1
    <3> QED
      BY <2>1, <3>1, <1>1
  <2> QED
    BY <2>1, <2>2, <2>3, <2>4 DEF Due
<1> QED
  BY <1>3, <1>4, <1>5 DEF r

\* What is due at the head: the head itself, and what is due behind it; or nothing.
LEMMA HeadPublish ==
    ASSUME NEW q \in Seq(Tasks), q # << >>, Head(q).op = "publish"
    PROVE  /\ OpenEnded(q, 0) <=> OpenEnded(q, 1)
           /\ \A k \in Nat : Due(q, 0, k) <=> k = Head(q).id \/ Due(q, 1, k)
<1>1. Len(q) \in Nat \ {0}
  BY EmptySeq
<1>2. q[1] = Head(q)
  OBVIOUS
<1>3. OpenEnded(q, 0) <=> OpenEnded(q, 1)
  BY <1>1, <1>2 DEF OpenEnded
<1>4. ASSUME NEW k \in Nat, Due(q, 0, k), k # Head(q).id
      PROVE  Due(q, 1, k)
  <2>1. PICK i \in 1 .. Len(q) : /\ 0 < i /\ q[i].op = "publish" /\ q[i].id = k
                                 /\ \A h \in 1 .. Len(q) : 0 < h /\ h < i => q[h].op = "publish"
    BY <1>4 DEF Due
  <2>2. 1 < i
    BY <2>1, <1>1, <1>2, <1>4
  <2> QED
    BY <2>1, <2>2 DEF Due
<1>5. ASSUME NEW k \in Nat, k = Head(q).id
      PROVE  Due(q, 0, k)
  <2>1. 1 \in 1 .. Len(q) /\ q[1].op = "publish" /\ q[1].id = k
    BY <1>1, <1>2, <1>5
  <2> QED
    BY <2>1 DEF Due
<1>6. ASSUME NEW k \in Nat, Due(q, 1, k)
      PROVE  Due(q, 0, k)
  <2>1. PICK i \in 1 .. Len(q) : /\ 1 < i /\ q[i].op = "publish" /\ q[i].id = k
                                 /\ \A h \in 1 .. Len(q) : 1 < h /\ h < i => q[h].op = "publish"
    BY <1>6 DEF Due
  <2>2. \A h \in 1 .. Len(q) : 0 < h /\ h < i => q[h].op = "publish"
    BY <2>1, <1>1, <1>2
  <2> QED
    BY <2>1, <2>2 DEF Due
<1> QED
  BY <1>3, <1>4, <1>5, <1>6

LEMMA HeadSwitch ==
    ASSUME NEW q \in Seq(Tasks), q # << >>, Head(q).op # "publish"
    PROVE  ~OpenEnded(q, 0) /\ \A k \in Nat : ~Due(q, 0, k)
<1>1. Len(q) \in Nat \ {0}
  BY EmptySeq
<1>2. q[1] = Head(q)
  OBVIOUS
<1> QED
  BY <1>1, <1>2 DEF OpenEnded, Due

-----------------------------------------------------------------------------
(* Starts *)

\* The next of a, when what is not in the prefix s of a is w or comes after it.
LEMMA PrefixGrows ==
    ASSUME NEW s \in Seq(Nat), NEW a \in Seq(Nat), NEW w \in Nat,
           Increasing(a), Prefix(s, a),
           \E i \in 1 .. Len(a) : a[i] = w,
           \A i \in 1 .. Len(a) : w <= a[i] \/ \E h \in 1 .. Len(s) : s[h] = a[i],
           \A h \in 1 .. Len(s) : s[h] < w
    PROVE  Prefix(Append(s, w), a)
<1> DEFINE n == Len(s)
<1>1. n \in Nat /\ Len(a) \in Nat /\ n <= Len(a) /\ \A i \in 1 .. n : s[i] = a[i]
  BY LenProperties DEF Prefix
<1>2. PICK i \in 1 .. Len(a) : a[i] = w
  OBVIOUS
<1>3. /\ \A j \in 1 .. Len(a) : a[j] \in Nat
      /\ \A j \in 1 .. n : s[j] \in Nat
  BY ElementOfSeq
<1>4. n < i
  <2> SUFFICES ASSUME i <= n PROVE FALSE
    BY <1>1, <1>2
  <2>1. i \in 1 .. n /\ s[i] = w
    BY <1>1, <1>2
  <2> QED
    BY <2>1
<1>5. i = n + 1
  <2> SUFFICES ASSUME n + 1 < i PROVE FALSE
    BY <1>1, <1>2, <1>4
  <2>1. n + 1 \in 1 .. Len(a) /\ a[n + 1] < w
    BY <1>1, <1>2, <1>4 DEF Increasing
  <2>2. PICK h \in 1 .. n : s[h] = a[n + 1]
    BY <2>1, <1>2, <1>3, SMTT(30)
  <2>3. h \in 1 .. Len(a) /\ h < n + 1 /\ a[h] = a[n + 1]
    BY <2>2, <1>1, SMTT(30)
  <2> QED
    BY <2>1, <2>3, <1>3, SMTT(30) DEF Increasing
<1>6. /\ Len(Append(s, w)) = n + 1 /\ Append(s, w)[n + 1] = w
      /\ \A j \in 1 .. n : Append(s, w)[j] = s[j]
  BY AppendProperties
<1> QED
  BY <1>1, <1>2, <1>5, <1>6 DEF Prefix

\* A prefix that has all there is.
LEMMA PrefixComplete ==
    ASSUME NEW s \in Seq(Nat), NEW a \in Seq(Nat), Increasing(a), Prefix(s, a),
           \A i \in 1 .. Len(a) : \E h \in 1 .. Len(s) : s[h] = a[i]
    PROVE  s = a
<1> DEFINE n == Len(s)
<1>1. n \in Nat /\ Len(a) \in Nat /\ n <= Len(a) /\ \A i \in 1 .. n : s[i] = a[i]
  BY LenProperties DEF Prefix
<1>2. \A j \in 1 .. Len(a) : a[j] \in Nat
  BY ElementOfSeq
<1>3. n = Len(a)
  <2> SUFFICES ASSUME n + 1 \in 1 .. Len(a) PROVE FALSE
    BY <1>1
  <2>1. PICK h \in 1 .. n : s[h] = a[n + 1]
    OBVIOUS
  <2>2. h \in 1 .. Len(a) /\ h < n + 1 /\ a[h] = a[n + 1]
    BY <2>1, <1>1, SMTT(30)
  <2>3. a[h] < a[n + 1] /\ a[h] \in Nat
    BY <2>2, <1>2 DEF Increasing
  <2>4. ~(a[h] < a[h])
    BY <2>3
  <2> QED
    BY <2>2, <2>3, <2>4, Zenon
<1> QED
  BY <1>1, <1>3, SeqEqual

\* Prefix is the IsPrefix of the community modules.
LEMMA PrefixIsPrefix ==
    ASSUME NEW s \in Seq(Nat), NEW t \in Seq(Nat), Prefix(s, t)
    PROVE  IsPrefix(s, t)
<1> DEFINE n == Len(s)
<1>1. n \in Nat /\ Len(t) \in Nat /\ n <= Len(t) /\ \A i \in 1 .. n : s[i] = t[i]
  BY LenProperties DEF Prefix
<1>2. \A i \in 1 .. n : s[i] \in Nat /\ t[i] \in Nat
  BY <1>1, ElementOfSeq
<1>3. /\ SubSeq(s, 1, n) \in Seq(Nat) /\ SubSeq(t, 1, n) \in Seq(Nat)
      /\ Len(SubSeq(s, 1, n)) = n /\ Len(SubSeq(t, 1, n)) = n
      /\ \A i \in 1 .. n : SubSeq(s, 1, n)[i] = s[i]
      /\ \A i \in 1 .. n : SubSeq(t, 1, n)[i] = t[i]
  <2>1. ASSUME NEW x \in Seq(Nat), \A i \in 1 .. n : x[i] \in Nat
        PROVE  /\ SubSeq(x, 1, n) \in Seq(Nat) /\ Len(SubSeq(x, 1, n)) = n
               /\ \A i \in 1 .. n : SubSeq(x, 1, n)[i] = x[i]
    <3>1. /\ SubSeq(x, 1, n) \in Seq(Nat)
          /\ Len(SubSeq(x, 1, n)) = IF 1 <= n THEN n - 1 + 1 ELSE 0
          /\ \A i \in 1 .. n - 1 + 1 : SubSeq(x, 1, n)[i] = x[1 + i - 1]
      BY <2>1, <1>1, SubSeqProperties
    <3>2. \A i \in 1 .. n : i \in 1 .. n - 1 + 1 /\ 1 + i - 1 = i
      BY <1>1
    <3> QED
      BY <3>1, <3>2, <1>1
  <2> QED
    BY <2>1, <1>2
<1>4. SubSeq(s, 1, n) = SubSeq(t, 1, n)
  BY <1>1, <1>3, SeqEqual
<1> QED
  BY <1>1, <1>4 DEF IsPrefix

-----------------------------------------------------------------------------
(* Types *)

LEMMA BagFacts ==
    /\ \A b \in Bags : b.rec \in 1 .. MaxRecs /\ b.msgs \in Seq(Messages) /\ b.readable \in BOOLEAN
    /\ \A n \in 1 .. MaxRecs : LET b == [rec |-> n, msgs |-> << >>, readable |-> FALSE]
                               IN b \in Bags /\ b.rec = n /\ b.msgs = << >> /\ b.readable = FALSE
    /\ \A b \in Bags : LET c == [b EXCEPT !.readable = TRUE]
                       IN c \in Bags /\ c.rec = b.rec /\ c.msgs = b.msgs /\ c.readable = TRUE
    /\ \A b \in Bags, m \in Seq(Messages) :
          LET c == [b EXCEPT !.msgs = m]
          IN c \in Bags /\ c.rec = b.rec /\ c.msgs = m /\ c.readable = b.readable
<1>1. \A b \in Bags : b.rec \in 1 .. MaxRecs /\ b.msgs \in Seq(Messages) /\ b.readable \in BOOLEAN
  BY DEF Bags
<1>2. << >> \in Seq(Messages)
  BY EmptySeq
<1>3. \A n \in 1 .. MaxRecs : LET b == [rec |-> n, msgs |-> << >>, readable |-> FALSE]
                              IN b \in Bags /\ b.rec = n /\ b.msgs = << >> /\ b.readable = FALSE
  BY <1>2 DEF Bags
<1>4. \A b \in Bags : LET c == [b EXCEPT !.readable = TRUE]
                       IN c \in Bags /\ c.rec = b.rec /\ c.msgs = b.msgs /\ c.readable = TRUE
  BY DEF Bags
<1>5. \A b \in Bags, m \in Seq(Messages) :
          LET c == [b EXCEPT !.msgs = m]
          IN c \in Bags /\ c.rec = b.rec /\ c.msgs = m /\ c.readable = b.readable
  BY DEF Bags
<1> QED
  BY <1>1, <1>3, <1>4, <1>5

\* What the type invariant says of each variable.
LEMMA Typed ==
    ASSUME TypeOK
    PROVE  /\ sessionQueue \in Seq(Tasks) /\ Len(sessionQueue) \in Nat
           /\ \A j \in 1 .. Len(sessionQueue) : sessionQueue[j] \in Tasks
           /\ worker # << >> => worker[1] \in Messages /\ worker = <<worker[1]>>
           /\ bag.mode # "closed" =>
                 bag.mode \in {"read", "write"} /\ bag.rec \in 1 .. MaxRecs /\ bag.file \in Files
           /\ disk \in [DOMAIN disk -> Bags]
           /\ \A f \in DOMAIN disk : /\ f \in Files /\ disk[f] \in Bags
                                     /\ disk[f].rec \in 1 .. MaxRecs
                                     /\ disk[f].msgs \in Seq(Messages)
                                     /\ Len(disk[f].msgs) \in Nat
                                     /\ \A h \in 1 .. Len(disk[f].msgs) : disk[f].msgs[h] \in Messages
           /\ asked \in Seq(Seq(1 .. MaxSamples)) /\ Len(asked) \in Nat
           /\ \A n \in 1 .. Len(asked) : /\ asked[n] \in Seq(1 .. MaxSamples) /\ asked[n] \in Seq(Nat)
                                         /\ Len(asked[n]) \in Nat
                                         /\ \A i \in 1 .. Len(asked[n]) : asked[n][i] \in 1 .. MaxSamples
           /\ imgCount \in Nat /\ imuCount \in Nat /\ gpsCount \in Nat
           /\ samples \in Nat /\ replays \in Nat
           /\ isRecordOn \in BOOLEAN
<1>1. /\ sessionQueue \in Seq(Tasks)
      /\ worker = << >> \/ \E t \in Messages : worker = <<t>>
      /\ bag = Closed \/ bag \in [mode : {"read", "write"}, rec : 1 .. MaxRecs, file : Files]
      /\ disk \in [DOMAIN disk -> Bags] /\ DOMAIN disk \subseteq Files
      /\ asked \in Seq(Seq(1 .. MaxSamples))
      /\ imgCount \in 0 .. MaxSamples /\ imuCount \in 0 .. MaxSamples /\ gpsCount \in 0 .. MaxSamples
      /\ samples \in 0 .. MaxSamples /\ replays \in 0 .. MaxReplays
      /\ isRecordOn \in BOOLEAN
  BY DEF TypeOK
<1>2. Len(sessionQueue) \in Nat /\ \A j \in 1 .. Len(sessionQueue) : sessionQueue[j] \in Tasks
  BY <1>1, LenProperties, ElementOfSeq
<1>3. worker # << >> => worker[1] \in Messages /\ worker = <<worker[1]>>
  BY <1>1
<1>4. bag.mode # "closed" =>
                 bag.mode \in {"read", "write"} /\ bag.rec \in 1 .. MaxRecs /\ bag.file \in Files
  BY <1>1 DEF Closed
<1>5. ASSUME NEW f \in DOMAIN disk
      PROVE  /\ f \in Files /\ disk[f] \in Bags
             /\ disk[f].rec \in 1 .. MaxRecs
             /\ disk[f].msgs \in Seq(Messages)
             /\ Len(disk[f].msgs) \in Nat
             /\ \A h \in 1 .. Len(disk[f].msgs) : disk[f].msgs[h] \in Messages
  <2>1. f \in Files /\ disk[f] \in Bags
    BY <1>1
  <2>2. disk[f].rec \in 1 .. MaxRecs /\ disk[f].msgs \in Seq(Messages)
    BY <2>1, BagFacts
  <2> QED
    BY <2>1, <2>2, LenProperties, ElementOfSeq
<1>6. Len(asked) \in Nat
  BY <1>1, LenProperties
<1>7. ASSUME NEW n \in 1 .. Len(asked)
      PROVE  /\ asked[n] \in Seq(1 .. MaxSamples) /\ asked[n] \in Seq(Nat) /\ Len(asked[n]) \in Nat
             /\ \A i \in 1 .. Len(asked[n]) : asked[n][i] \in 1 .. MaxSamples
  <2>1. asked[n] \in Seq(1 .. MaxSamples)
    BY <1>1, ElementOfSeq
  <2>2. asked[n] \in Seq(Nat)
    <3>1. 1 .. MaxSamples \subseteq Nat
      OBVIOUS
    <3> QED
      BY <2>1, <3>1, SeqMonotonic
  <2> QED
    BY <2>1, <2>2, LenProperties, ElementOfSeq
<1>8. /\ imgCount \in Nat /\ imuCount \in Nat /\ gpsCount \in Nat
      /\ samples \in Nat /\ replays \in Nat
  BY <1>1
<1> QED
  BY <1>1, <1>2, <1>3, <1>4, <1>5, <1>6, <1>7, <1>8

\* Closing the bag makes the file that is being written readable, and nothing else.
LEMMA SealedFacts ==
    ASSUME TypeOK
    PROVE  /\ DOMAIN Sealed(disk) = DOMAIN disk
           /\ Sealed(disk) \in [DOMAIN disk -> Bags]
           /\ \A f \in DOMAIN disk :
                 /\ Sealed(disk)[f] \in Bags
                 /\ Sealed(disk)[f].rec = disk[f].rec
                 /\ Sealed(disk)[f].msgs = disk[f].msgs
                 /\ Sealed(disk)[f].readable => disk[f].readable \/ (Writing /\ f = bag.file)
<1>1. disk \in [DOMAIN disk -> Bags]
  BY Typed
<1>2. CASE Writing
  <2> DEFINE g == bag.file
  <2> DEFINE b == [disk[g] EXCEPT !.readable = TRUE]
  <2>1. g \in DOMAIN disk /\ disk[g] \in Bags
    BY <1>1, <1>2 DEF Writing
  <2>2. b \in Bags /\ b.rec = disk[g].rec /\ b.msgs = disk[g].msgs
    BY <2>1, BagFacts
  <2>3. Sealed(disk) = [disk EXCEPT ![g] = b]
    BY <1>2 DEF Sealed, Writing
  <2> HIDE DEF b
  <2>4. /\ [disk EXCEPT ![g] = b] \in [DOMAIN disk -> Bags]
        /\ [disk EXCEPT ![g] = b][g] = b
        /\ \A f \in DOMAIN disk : f # g => [disk EXCEPT ![g] = b][f] = disk[f]
    BY <1>1, <2>1, <2>2
  <2>5. \A f \in DOMAIN disk : disk[f] \in Bags
    BY <1>1
  <2>6. DOMAIN Sealed(disk) = DOMAIN disk
    BY <2>3
  <2> QED
    BY <1>2, <2>1, <2>2, <2>3, <2>4, <2>5, <2>6
<1>3. CASE ~Writing
  <2>1. Sealed(disk) = disk
    BY <1>3 DEF Sealed, Writing
  <2>2. \A f \in DOMAIN disk : disk[f] \in Bags
    BY <1>1
  <2> QED
    BY <1>1, <2>1, <2>2
<1> QED
  BY <1>2, <1>3

\* Writing appends to the messages of the file that is being written.
LEMMA WriteFacts ==
    ASSUME TypeOK, Writing, NEW w \in Messages
    PROVE  LET d == [disk EXCEPT ![bag.file].msgs = Append(@, w)]
           IN /\ DOMAIN d = DOMAIN disk /\ d \in [DOMAIN disk -> Bags]
              /\ d[bag.file].msgs = Append(disk[bag.file].msgs, w)
              /\ d[bag.file].rec = disk[bag.file].rec
              /\ d[bag.file].readable = disk[bag.file].readable
              /\ \A f \in DOMAIN disk : f # bag.file => d[f] = disk[f]
<1> DEFINE g == bag.file
<1> DEFINE m == Append(disk[g].msgs, w)
<1> DEFINE b == [disk[g] EXCEPT !.msgs = m]
<1>1. disk \in [DOMAIN disk -> Bags]
  BY Typed
<1>2. g \in DOMAIN disk /\ disk[g] \in Bags
  BY <1>1 DEF Writing
<1>3. disk[g].msgs \in Seq(Messages)
  BY <1>2, BagFacts
<1>4. m \in Seq(Messages)
  BY <1>3, AppendProperties
<1>5. b \in Bags /\ b.rec = disk[g].rec /\ b.msgs = m /\ b.readable = disk[g].readable
  BY <1>2, <1>4, BagFacts
<1>6. [disk EXCEPT ![bag.file].msgs = Append(@, w)] = [disk EXCEPT ![g] = b]
  BY <1>1, <1>2
<1> HIDE DEF b
<1>7. /\ [disk EXCEPT ![g] = b] \in [DOMAIN disk -> Bags]
      /\ DOMAIN [disk EXCEPT ![g] = b] = DOMAIN disk
      /\ [disk EXCEPT ![g] = b][g] = b
      /\ \A f \in DOMAIN disk : f # g => [disk EXCEPT ![g] = b][f] = disk[f]
  BY <1>1, <1>2, <1>5
<1> QED
  BY <1>5, <1>6, <1>7

\* A recording's new file takes the place of one that has its name, and closes the bag.
LEMMA OpenFacts ==
    ASSUME TypeOK, NEW n \in 1 .. MaxRecs
    PROVE  LET new == [rec |-> n, msgs |-> << >>, readable |-> FALSE]
               d == [f \in DOMAIN disk \union {clock} |-> IF f = clock THEN new ELSE Sealed(disk)[f]]
           IN /\ DOMAIN d = DOMAIN disk \union {clock} /\ d \in [DOMAIN d -> Bags]
              /\ d[clock].rec = n /\ d[clock].msgs = << >> /\ d[clock].readable = FALSE
              /\ \A f \in DOMAIN disk : f # clock => d[f] = Sealed(disk)[f]
<1> DEFINE new == [rec |-> n, msgs |-> << >>, readable |-> FALSE]
<1> DEFINE d == [f \in DOMAIN disk \union {clock} |-> IF f = clock THEN new ELSE Sealed(disk)[f]]
<1>1. new \in Bags /\ new.rec = n /\ new.msgs = << >> /\ new.readable = FALSE
  BY BagFacts
<1>2. \A f \in DOMAIN disk : Sealed(disk)[f] \in Bags
  BY SealedFacts
<1> HIDE DEF new
<1>3. DOMAIN d = DOMAIN disk \union {clock} /\ d \in [DOMAIN d -> Bags]
  BY <1>1, <1>2
<1>4. d[clock] = new /\ \A f \in DOMAIN disk : f # clock => d[f] = Sealed(disk)[f]
  OBVIOUS
<1> QED
  BY <1>1, <1>3, <1>4 DEF new

\* The head of the queue.
LEMMA HeadFacts ==
    ASSUME TypeOK, sessionQueue # << >>
    PROVE  /\ Task \in Tasks /\ Tail(sessionQueue) \in Seq(Tasks)
           /\ 1 \in 1 .. Len(sessionQueue) /\ Task = sessionQueue[1]
           /\ Len(Tail(sessionQueue)) = Len(sessionQueue) - 1
           /\ Len(sessionQueue) \in Nat \ {0}
           /\ \A i \in 1 .. Len(Tail(sessionQueue)) :
                 i + 1 \in 1 .. Len(sessionQueue) /\ Tail(sessionQueue)[i] = sessionQueue[i + 1]
<1>1. sessionQueue \in Seq(Tasks)
  BY Typed
<1>2. /\ Task \in Tasks /\ Tail(sessionQueue) \in Seq(Tasks)
      /\ Len(Tail(sessionQueue)) = Len(sessionQueue) - 1
      /\ \A i \in 1 .. Len(Tail(sessionQueue)) : Tail(sessionQueue)[i] = sessionQueue[i + 1]
  BY <1>1, HeadTailProperties DEF Task
<1>3. Len(sessionQueue) \in Nat \ {0}
  BY <1>1, EmptySeq
<1>4. Task = sessionQueue[1]
  BY DEF Task
<1> QED
  BY <1>2, <1>3, <1>4

LEMMA ClockIsFile ==
    ASSUME TypeOK
    PROVE  clock \in Files /\ NoFile \notin Files
BY DEF TypeOK, Files, NoFile

\* What TypeOK says of the variables, part by part.
LEMMA Types ==
    ASSUME app' \in {"running", "exited", "assert_failed", "terminated"},
           isRecordOn' \in BOOLEAN, isRecordingBag' \in BOOLEAN, isPublishing' \in BOOLEAN,
           sessionQueue' \in Seq(Tasks),
           worker' = << >> \/ \E t \in Messages : worker' = <<t>>,
           bag' = Closed \/ bag' \in [mode : {"read", "write"}, rec : 1 .. MaxRecs, file : Files],
           disk' \in [DOMAIN disk' -> Bags], DOMAIN disk' \subseteq Files,
           clock' \in Files, fileListData' \subseteq Files, selectedFile' \in Files \union {NoFile},
           imgCount' \in 0 .. MaxSamples, imuCount' \in 0 .. MaxSamples, gpsCount' \in 0 .. MaxSamples,
           replay' \in {"none", "loading", "shown"},
           asked' \in Seq(Seq(1 .. MaxSamples)), Len(asked') <= MaxRecs,
           samples' \in 0 .. MaxSamples, replays' \in 0 .. MaxReplays
    PROVE  TypeOK'
BY DEF TypeOK

\* A sample joins the recording that is on, or none.
LEMMA EnqueueTypes ==
    ASSUME RecInv, samples < MaxSamples, NEW c \in Kinds, NEW s \in 0 .. MaxSamples, Enqueue(c, s)
    PROVE  /\ sessionQueue' \in Seq(Tasks) /\ samples' \in 0 .. MaxSamples
           /\ asked' \in Seq(Seq(1 .. MaxSamples)) /\ Len(asked') = Len(asked)
<1> USE BoundsAssumption
<1>1. /\ sessionQueue \in Seq(Tasks) /\ samples \in Nat
      /\ asked \in Seq(Seq(1 .. MaxSamples)) /\ Len(asked) \in Nat
  BY Typed DEF RecInv
<1>2. samples + 1 \in 1 .. MaxSamples /\ samples' = samples + 1
  BY <1>1 DEF Enqueue
<1>3. Publish(c, samples + 1, s) \in Tasks
  BY <1>2, TaskFacts
<1>4. sessionQueue' \in Seq(Tasks)
  BY <1>1, <1>3, AppendProperties DEF Enqueue
<1>5. CASE isRecordOn
  <2> DEFINE n == Len(asked)
  <2>1. n \in 1 .. Len(asked)
    BY <1>1, <1>5, EmptySeq DEF RecInv, Switched
  <2>2. Append(asked[n], samples + 1) \in Seq(1 .. MaxSamples)
    BY <1>1, <1>2, <2>1, Typed, AppendProperties DEF RecInv
  <2>3. asked' = [asked EXCEPT ![n] = Append(asked[n], samples + 1)]
    BY <1>5, <1>1 DEF Enqueue
  <2> QED
    BY <1>1, <1>2, <1>4, <2>1, <2>2, <2>3, ExceptSeq
<1>6. CASE ~isRecordOn
  BY <1>1, <1>2, <1>4, <1>6 DEF Enqueue
<1> QED
  BY <1>5, <1>6, Typed DEF RecInv

LEMMA TypesKept ==
    ASSUME RecInv, Next
    PROVE  TypeOK'
<1> USE BoundsAssumption
<1>1. TypeOK
  BY DEF RecInv
<1>2. /\ app \in {"running", "exited", "assert_failed", "terminated"}
      /\ isRecordOn \in BOOLEAN /\ isRecordingBag \in BOOLEAN /\ isPublishing \in BOOLEAN
      /\ sessionQueue \in Seq(Tasks)
      /\ worker = << >> \/ \E t \in Messages : worker = <<t>>
      /\ bag = Closed \/ bag \in [mode : {"read", "write"}, rec : 1 .. MaxRecs, file : Files]
      /\ disk \in [DOMAIN disk -> Bags] /\ DOMAIN disk \subseteq Files
      /\ clock \in Files /\ fileListData \subseteq Files /\ selectedFile \in Files \union {NoFile}
      /\ imgCount \in 0 .. MaxSamples /\ imuCount \in 0 .. MaxSamples /\ gpsCount \in 0 .. MaxSamples
      /\ replay \in {"none", "loading", "shown"}
      /\ asked \in Seq(Seq(1 .. MaxSamples)) /\ Len(asked) <= MaxRecs
      /\ samples \in 0 .. MaxSamples /\ replays \in 0 .. MaxReplays
  BY <1>1 DEF TypeOK
<1> USE DEF queues, files, list, counts
<1>3. CASE StartRecord
  <2>1. Len(asked) + 1 \in 1 .. MaxRecs
    BY <1>1, <1>3, Typed DEF StartRecord
  <2>2. Append(sessionQueue, Open(Len(asked) + 1)) \in Seq(Tasks)
    BY <1>2, <2>1, TaskFacts, AppendProperties
  <2>3. << >> \in Seq(1 .. MaxSamples)
    BY EmptySeq
  <2>4. Append(asked, << >>) \in Seq(Seq(1 .. MaxSamples)) /\ Len(Append(asked, << >>)) = Len(asked) + 1
    BY <1>2, <2>3, AppendProperties
  <2> QED
    BY <1>2, <1>3, <2>1, <2>2, <2>4, Types DEF StartRecord, OpenRecording
<1>4. CASE StopRecord
  <2>1. Append(sessionQueue, Close) \in Seq(Tasks)
    BY <1>2, TaskFacts, AppendProperties
  <2> QED
    BY <1>2, <1>4, <2>1, Types DEF StopRecord, CloseRecording, UpdateBagList
<1>5. CASE TogglePublish
  BY <1>2, <1>5, Types DEF TogglePublish
<1>6. CASE \E f \in Files : Select(f)
  BY <1>2, <1>6, Types DEF Select
<1>7. ASSUME NEW gone, Delete(gone) PROVE TypeOK'
  <2> DEFINE d == [f \in DOMAIN disk \ gone |-> disk[f]]
  <2>1. d \in [DOMAIN d -> Bags] /\ DOMAIN d \subseteq Files
    BY <1>2
  <2>2. disk' = d
    BY <1>7 DEF Delete
  <2> HIDE DEF d
  <2> QED
    BY <1>2, <1>7, <2>1, <2>2, Types DEF Delete
<1>8. CASE CaptureOutput
  <2>1. "img" \in Kinds /\ 0 \in 0 .. MaxSamples
    BY DEF Kinds
  <2>2. samples < MaxSamples /\ Enqueue("img", 0)
    BY <1>8 DEF CaptureOutput
  <2>3. /\ sessionQueue' \in Seq(Tasks) /\ samples' \in 0 .. MaxSamples
        /\ asked' \in Seq(Seq(1 .. MaxSamples)) /\ Len(asked') = Len(asked)
    BY <2>1, <2>2, EnqueueTypes
  <2> QED
    BY <1>2, <1>8, <2>3, Types DEF CaptureOutput
<1>9. CASE ProcessGPS
  <2>1. "gps" \in Kinds /\ 0 \in 0 .. MaxSamples
    BY DEF Kinds
  <2>2. samples < MaxSamples /\ gpsCount' \in 0 .. MaxSamples
    BY <1>2, <1>9 DEF ProcessGPS
  <2>3. /\ sessionQueue' \in Seq(Tasks) /\ samples' \in 0 .. MaxSamples
        /\ asked' \in Seq(Seq(1 .. MaxSamples)) /\ Len(asked') = Len(asked)
    <3>1. CASE Wanted
      <4>1. Enqueue("gps", 0)
        BY <1>9, <3>1 DEF ProcessGPS
      <4> QED
        BY <2>1, <2>2, <4>1, EnqueueTypes
    <3>2. CASE ~Wanted
      BY <1>2, <1>9, <3>2 DEF ProcessGPS
    <3> QED
      BY <3>1, <3>2
  <2> QED
    BY <1>2, <1>9, <2>2, <2>3, Types DEF ProcessGPS
<1>10. CASE ProcessIMU
  <2>1. "imu" \in Kinds
    BY DEF Kinds
  <2>2. samples < MaxSamples /\ imuCount' \in 0 .. MaxSamples
    BY <1>2, <1>10 DEF ProcessIMU
  <2>3. /\ sessionQueue' \in Seq(Tasks) /\ samples' \in 0 .. MaxSamples
        /\ asked' \in Seq(Seq(1 .. MaxSamples)) /\ Len(asked') = Len(asked)
    <3>1. CASE Wanted
      <4>1. Enqueue("imu", imuCount)
        BY <1>10, <3>1 DEF ProcessIMU
      <4> QED
        BY <1>2, <2>1, <2>2, <4>1, EnqueueTypes
    <3>2. CASE ~Wanted
      BY <1>2, <1>10, <3>2 DEF ProcessIMU
    <3> QED
      BY <3>1, <3>2
  <2> QED
    BY <1>2, <1>10, <2>2, <2>3, Types DEF ProcessIMU
<1>11. CASE RunOpen
  <2>1. sessionQueue # << >> /\ Task.op = "open" /\ sessionQueue' = Tail(sessionQueue)
    BY <1>11 DEF RunOpen, Dequeue
  <2>2. sessionQueue' \in Seq(Tasks) /\ Task.rec \in 1 .. MaxRecs
    BY <1>1, <2>1, HeadFacts, TaskFacts
  <2>3. disk' \in [DOMAIN disk' -> Bags] /\ DOMAIN disk' = DOMAIN disk \union {clock}
    BY <1>1, <1>11, <2>2, OpenFacts DEF RunOpen
  <2>4. bag' \in [mode : {"read", "write"}, rec : 1 .. MaxRecs, file : Files]
    BY <1>2, <1>11, <2>2 DEF RunOpen
  <2>5. DOMAIN disk' \subseteq Files
    BY <1>2, <2>3
  <2> QED
    BY <1>2, <1>11, <2>2, <2>3, <2>4, <2>5, Types DEF RunOpen
<1>12. CASE RunClose
  <2>1. sessionQueue # << >> /\ sessionQueue' = Tail(sessionQueue)
    BY <1>12 DEF RunClose, Dequeue
  <2>2. sessionQueue' \in Seq(Tasks)
    BY <1>1, <2>1, HeadFacts
  <2>3. disk' \in [DOMAIN disk' -> Bags] /\ DOMAIN disk' = DOMAIN disk
    BY <1>1, <1>12, SealedFacts DEF RunClose
  <2> QED
    BY <1>2, <1>12, <2>2, <2>3, Types DEF RunClose
<1>13. CASE RunPublish
  <2>1. sessionQueue # << >> /\ Task.op = "publish" /\ sessionQueue' = Tail(sessionQueue)
    BY <1>13 DEF RunPublish, Dequeue
  <2>2. sessionQueue' \in Seq(Tasks) /\ Task \in Messages
    BY <1>1, <2>1, HeadFacts, TaskFacts
  <2>3. HeaderSeq(Task) \in 0 .. MaxSamples
    <3>1. Task.kind \in {"img", "imu", "gps"} /\ Task.seq \in 0 .. MaxSamples
      BY <2>2, TaskFacts DEF Kinds
    <3> QED
      BY <1>2, <3>1 DEF HeaderSeq
  <2>4. [Task EXCEPT !.seq = HeaderSeq(Task)] \in Messages
    BY <2>2, <2>3 DEF Messages
  <2>5. Published(1) /\ sessionQueue[1].id = Task.id
    BY <1>1, <2>1, HeadFacts DEF Published
  <2>6. imgCount < Task.id /\ Task.id \in 1 .. MaxSamples
    BY <2>5, <2>2, TaskFacts DEF RecInv, InOrder
  <2>7. imgCount' \in 0 .. MaxSamples
    BY <1>2, <1>13, <2>6 DEF RunPublish, Counted
  <2>8. worker' = << >> \/ \E t \in Messages : worker' = <<t>>
    BY <1>2, <1>13, <2>4 DEF RunPublish
  <2> QED
    BY <1>2, <1>13, <2>2, <2>7, <2>8, Types DEF RunPublish
<1>14. CASE RunWrite
  <2>1. worker # << >> /\ worker[1] \in Messages
    BY <1>1, <1>14, Typed DEF RunWrite
  <2>2. imgCount < worker[1].id /\ worker[1].id \in 1 .. MaxSamples
    BY <2>1, TaskFacts DEF RecInv, InOrder
  <2>3. imgCount' \in 0 .. MaxSamples
    BY <1>2, <1>14, <2>2 DEF RunWrite, Counted
  <2>4. disk' \in [DOMAIN disk' -> Bags] /\ DOMAIN disk' = DOMAIN disk
    <3>1. CASE Writing
      <4>1. disk' = [disk EXCEPT ![bag.file].msgs = Append(@, worker[1])]
        BY <1>14, <3>1 DEF RunWrite, Writing
      <4> QED
        BY <1>1, <2>1, <3>1, <4>1, WriteFacts
    <3>2. CASE ~Writing
      BY <1>2, <1>14, <3>2 DEF RunWrite, Writing
    <3> QED
      BY <3>1, <3>2
  <2> QED
    BY <1>2, <1>14, <2>3, <2>4, Types DEF RunWrite
<1>15. CASE TouchReplay
  <2>1. disk' \in [DOMAIN disk' -> Bags] /\ DOMAIN disk' = DOMAIN disk
    BY <1>1, <1>2, <1>15, SealedFacts DEF TouchReplay
  <2>2. bag' = Closed \/ bag' \in [mode : {"read", "write"}, rec : 1 .. MaxRecs, file : Files]
    <3>1. selectedFile \in DOMAIN disk => disk[selectedFile].rec \in 1 .. MaxRecs /\ selectedFile \in Files
      BY <1>1, Typed
    <3> QED
      BY <1>2, <1>15, <3>1 DEF TouchReplay
  <2>3. replays' \in 0 .. MaxReplays
    BY <1>2, <1>15 DEF TouchReplay
  <2>4. replay' \in {"none", "loading", "shown"} /\ app' \in {"running", "exited", "assert_failed", "terminated"}
    BY <1>2, <1>15 DEF TouchReplay
  <2> QED
    BY <1>2, <1>15, <2>1, <2>2, <2>3, <2>4, Types DEF TouchReplay
<1>16. CASE LoadFrames
  BY <1>2, <1>16, Types DEF LoadFrames
<1>17. CASE TouchReturn
  <2>1. disk' \in [DOMAIN disk' -> Bags] /\ DOMAIN disk' = DOMAIN disk
    BY <1>1, <1>17, SealedFacts DEF TouchReturn
  <2> QED
    BY <1>2, <1>17, <2>1, Types DEF TouchReturn
<1>18. CASE Tick
  <2>1. clock' \in Files
    BY <1>2, <1>18 DEF Tick, Files
  <2> QED
    BY <1>2, <1>18, <2>1, Types DEF Tick
<1> QED
  BY <1>3, <1>4, <1>5, <1>6, <1>7, <1>8, <1>9, <1>10, <1>11, <1>12, <1>13, <1>14, <1>15, <1>16,
     <1>17, <1>18 DEF Next

-----------------------------------------------------------------------------
(* The steps, by what they do to the samples *)

\* Nothing to the samples: at most a file goes, or a replay takes the bag.
Quiet ==
    /\ UNCHANGED <<isRecordOn, sessionQueue, worker, asked, samples, imgCount>>
    /\ imuCount <= imuCount' /\ gpsCount <= gpsCount' /\ replays <= replays'
    /\ replay' # "none" => replay # "none" \/ replays' # 0
    /\ bag' = bag \/ (bag'.mode # "write" /\ replays' # 0)
    /\ \A f \in DOMAIN disk' :
          /\ f \in DOMAIN disk
          /\ disk'[f].rec = disk[f].rec /\ disk'[f].msgs = disk[f].msgs
          /\ disk'[f].readable => disk[f].readable \/ replays' # 0

\* A sample is queued.
Sampled(c, s) ==
    /\ samples < MaxSamples /\ Enqueue(c, s)
    /\ UNCHANGED <<isRecordOn, worker, bag, disk, replay, replays, imgCount>>
    /\ c = "imu" => s = imuCount /\ imuCount' = imuCount + 1
    /\ imuCount <= imuCount' /\ gpsCount <= gpsCount'

LEMMA Steps ==
    ASSUME RecInv, Next
    PROVE  \/ Quiet \/ \E c \in Kinds, s \in 0 .. MaxSamples : Sampled(c, s)
           \/ StartRecord \/ StopRecord \/ RunOpen \/ RunClose \/ RunPublish \/ RunWrite
<1>1. TypeOK
  BY DEF RecInv
<1>2. /\ imgCount \in Nat /\ imuCount \in Nat /\ gpsCount \in Nat
      /\ samples \in Nat /\ replays \in Nat
  BY <1>1, Typed
<1> USE DEF queues, files, list, counts
<1>3. ASSUME disk' = disk, bag' = bag, replays' = replays,
             UNCHANGED <<isRecordOn, sessionQueue, worker, asked, samples, imgCount>>,
             imuCount <= imuCount', gpsCount <= gpsCount', replay' # "none" => replay # "none"
      PROVE  Quiet
  BY <1>2, <1>3 DEF Quiet
<1>4. CASE TogglePublish
  BY <1>2, <1>3, <1>4 DEF TogglePublish
<1>5. CASE \E f \in Files : Select(f)
  BY <1>2, <1>3, <1>5 DEF Select
<1>6. CASE LoadFrames
  BY <1>2, <1>3, <1>6 DEF LoadFrames
<1>7. CASE Tick
  BY <1>2, <1>3, <1>7 DEF Tick
<1>8. ASSUME NEW gone, Delete(gone) PROVE Quiet
  <2>1. \A f \in DOMAIN disk' : f \in DOMAIN disk /\ disk'[f] = disk[f]
    BY <1>8 DEF Delete
  <2> QED
    BY <1>2, <1>8, <2>1 DEF Delete, Quiet
<1>9. CASE TouchReturn
  <2>1. replays # 0
    BY <1>9 DEF TouchReturn, RecInv, Switched
  <2>2. \A f \in DOMAIN disk' : f \in DOMAIN disk /\ disk'[f].rec = disk[f].rec /\ disk'[f].msgs = disk[f].msgs
    BY <1>1, <1>9, SealedFacts DEF TouchReturn
  <2>3. bag'.mode # "write"
    BY <1>9 DEF TouchReturn, Closed
  <2> QED
    BY <1>2, <1>9, <2>1, <2>2, <2>3 DEF TouchReturn, Quiet
<1>10. CASE TouchReplay
  <2>1. replays' # 0 /\ replays <= replays'
    BY <1>2, <1>10 DEF TouchReplay
  <2>2. \A f \in DOMAIN disk' : f \in DOMAIN disk /\ disk'[f].rec = disk[f].rec /\ disk'[f].msgs = disk[f].msgs
    BY <1>1, <1>10, SealedFacts DEF TouchReplay
  <2>3. bag' = bag \/ bag'.mode # "write"
    BY <1>10 DEF TouchReplay, Closed
  <2> QED
    BY <1>2, <1>10, <2>1, <2>2, <2>3 DEF TouchReplay, Quiet
<1>11. CASE CaptureOutput
  <2>1. "img" \in Kinds /\ 0 \in 0 .. MaxSamples
    BY BoundsAssumption DEF Kinds
  <2>2. Sampled("img", 0)
    BY <1>2, <1>11 DEF CaptureOutput, Sampled
  <2> QED
    BY <2>1, <2>2
<1>12. CASE ProcessGPS
  <2>1. CASE Wanted
    <3>1. "gps" \in Kinds /\ 0 \in 0 .. MaxSamples
      BY BoundsAssumption DEF Kinds
    <3>2. Sampled("gps", 0)
      BY <1>2, <1>12, <2>1 DEF ProcessGPS, Sampled
    <3> QED
      BY <3>1, <3>2
  <2>2. CASE ~Wanted
    BY <1>2, <1>3, <1>12, <2>2 DEF ProcessGPS
  <2> QED
    BY <2>1, <2>2
<1>13. CASE ProcessIMU
  <2>1. CASE Wanted
    <3>1. "imu" \in Kinds /\ imuCount \in 0 .. MaxSamples
      BY <1>1, BoundsAssumption DEF Kinds, TypeOK
    <3>2. Sampled("imu", imuCount)
      BY <1>2, <1>13, <2>1 DEF ProcessIMU, Sampled
    <3> QED
      BY <3>1, <3>2
  <2>2. CASE ~Wanted
    BY <1>2, <1>3, <1>13, <2>2 DEF ProcessIMU
  <2> QED
    BY <2>1, <2>2
<1> QED
  BY <1>4, <1>5, <1>6, <1>7, <1>8, <1>9, <1>10, <1>11, <1>12, <1>13 DEF Next

\* What each of them does to the queue: a publish block comes,
LEMMA SampledFacts ==
    ASSUME RecInv, NEW c \in Kinds, NEW s \in 0 .. MaxSamples, Sampled(c, s)
    PROVE  /\ Len(sessionQueue') = Len(sessionQueue) + 1
           /\ \A j \in 1 .. Len(sessionQueue) : sessionQueue'[j] = sessionQueue[j]
           /\ LET t == sessionQueue'[Len(sessionQueue) + 1]
              IN t.op = "publish" /\ t.kind = c /\ t.id = samples + 1 /\ t.seq = s
           /\ \A j \in 0 .. Len(sessionQueue) :
                 OpenEnded(sessionQueue', j) <=> OpenEnded(sessionQueue, j)
           /\ \A j \in 0 .. Len(sessionQueue), k \in Nat :
                 Due(sessionQueue', j, k) <=>
                    Due(sessionQueue, j, k) \/ (OpenEnded(sessionQueue, j) /\ k = samples + 1)
           /\ Len(asked') = Len(asked)
<1> DEFINE t == Publish(c, samples + 1, s)
<1>1. sessionQueue \in Seq(Tasks) /\ samples \in Nat
  BY Typed DEF RecInv
<1>2. samples + 1 \in 1 .. MaxSamples /\ sessionQueue' = Append(sessionQueue, t)
  BY <1>1, BoundsAssumption DEF Sampled, Enqueue
<1>3. t \in Tasks /\ t.op = "publish" /\ t.kind = c /\ t.id = samples + 1 /\ t.seq = s
  BY <1>2, TaskFacts
<1> HIDE DEF t
<1>4. /\ Len(sessionQueue') = Len(sessionQueue) + 1
      /\ \A j \in 1 .. Len(sessionQueue) : sessionQueue'[j] = sessionQueue[j]
      /\ sessionQueue'[Len(sessionQueue) + 1] = t
  BY <1>1, <1>2, <1>3, AppendProperties
<1>5. /\ \A j \in 0 .. Len(sessionQueue) :
                 OpenEnded(sessionQueue', j) <=> OpenEnded(sessionQueue, j)
      /\ \A j \in 0 .. Len(sessionQueue), k \in Nat :
                 Due(sessionQueue', j, k) <=>
                    Due(sessionQueue, j, k) \/ (OpenEnded(sessionQueue, j) /\ k = t.id)
  BY <1>1, <1>2, <1>3, AppendPublish
<1>6. Len(asked') = Len(asked)
  BY EnqueueTypes DEF Sampled
<1> QED
  BY <1>3, <1>4, <1>5, <1>6

\* or one that opens or closes the bag,
LEMMA SwitchFacts ==
    ASSUME RecInv, NEW t \in Tasks, t.op # "publish", sessionQueue' = Append(sessionQueue, t)
    PROVE  /\ Len(sessionQueue') = Len(sessionQueue) + 1
           /\ \A j \in 1 .. Len(sessionQueue) : sessionQueue'[j] = sessionQueue[j]
           /\ sessionQueue'[Len(sessionQueue) + 1] = t
           /\ \A j \in 0 .. Len(sessionQueue) : ~OpenEnded(sessionQueue', j)
           /\ \A j \in 0 .. Len(sessionQueue), k \in Nat :
                 Due(sessionQueue', j, k) <=> Due(sessionQueue, j, k)
           /\ OpenEnded(sessionQueue', Len(sessionQueue) + 1)
           /\ \A k \in Nat : ~Due(sessionQueue', Len(sessionQueue) + 1, k)
<1>1. sessionQueue \in Seq(Tasks)
  BY Typed DEF RecInv
<1>2. /\ Len(sessionQueue') = Len(sessionQueue) + 1
      /\ \A j \in 1 .. Len(sessionQueue) : sessionQueue'[j] = sessionQueue[j]
      /\ sessionQueue'[Len(sessionQueue) + 1] = t
  BY <1>1, AppendProperties
<1>3. /\ \A j \in 0 .. Len(sessionQueue) : ~OpenEnded(sessionQueue', j)
      /\ \A j \in 0 .. Len(sessionQueue), k \in Nat :
                 Due(sessionQueue', j, k) <=> Due(sessionQueue, j, k)
      /\ OpenEnded(sessionQueue', Len(sessionQueue) + 1)
      /\ \A k \in Nat : ~Due(sessionQueue', Len(sessionQueue) + 1, k)
  BY <1>1, AppendSwitch
<1> QED
  BY <1>2, <1>3

\* or the head goes.
LEMMA DequeueFacts ==
    ASSUME RecInv, NEW op, Dequeue(op)
    PROVE  /\ sessionQueue # << >> /\ Task \in Tasks /\ Task.op = op /\ worker = << >>
           /\ Task = sessionQueue[1] /\ 1 \in 1 .. Len(sessionQueue)
           /\ Len(sessionQueue') = Len(sessionQueue) - 1 /\ Len(sessionQueue) \in Nat \ {0}
           /\ \A i \in 1 .. Len(sessionQueue') :
                 i + 1 \in 1 .. Len(sessionQueue) /\ sessionQueue'[i] = sessionQueue[i + 1]
           /\ \A j \in 0 .. Len(sessionQueue') : OpenEnded(sessionQueue', j) <=> OpenEnded(sessionQueue, j + 1)
           /\ \A j \in 0 .. Len(sessionQueue'), k \in Nat :
                 Due(sessionQueue', j, k) <=> Due(sessionQueue, j + 1, k)
           /\ op = "publish" =>
                 /\ OpenEnded(sessionQueue, 0) <=> OpenEnded(sessionQueue, 1)
                 /\ \A k \in Nat : Due(sessionQueue, 0, k) <=> k = Task.id \/ Due(sessionQueue, 1, k)
           /\ op # "publish" => ~OpenEnded(sessionQueue, 0) /\ \A k \in Nat : ~Due(sessionQueue, 0, k)
<1>1. sessionQueue \in Seq(Tasks) /\ TypeOK
  BY Typed DEF RecInv
<1>2. /\ sessionQueue # << >> /\ Task.op = op /\ worker = << >>
      /\ sessionQueue' = Tail(sessionQueue)
  BY DEF Dequeue
<1>3. /\ Task \in Tasks /\ Task = sessionQueue[1] /\ 1 \in 1 .. Len(sessionQueue)
      /\ Len(sessionQueue') = Len(sessionQueue) - 1 /\ Len(sessionQueue) \in Nat \ {0}
      /\ \A i \in 1 .. Len(sessionQueue') :
            i + 1 \in 1 .. Len(sessionQueue) /\ sessionQueue'[i] = sessionQueue[i + 1]
  BY <1>1, <1>2, HeadFacts
<1>4. /\ \A j \in 0 .. Len(sessionQueue) - 1 :
            OpenEnded(sessionQueue', j) <=> OpenEnded(sessionQueue, j + 1)
      /\ \A j \in 0 .. Len(sessionQueue) - 1, k \in Nat :
            Due(sessionQueue', j, k) <=> Due(sessionQueue, j + 1, k)
  BY <1>1, <1>2, TailQueue
<1>5. op = "publish" =>
         /\ OpenEnded(sessionQueue, 0) <=> OpenEnded(sessionQueue, 1)
         /\ \A k \in Nat : Due(sessionQueue, 0, k) <=> k = Task.id \/ Due(sessionQueue, 1, k)
  BY <1>1, <1>2, HeadPublish DEF Task
<1>6. op # "publish" => ~OpenEnded(sessionQueue, 0) /\ \A k \in Nat : ~Due(sessionQueue, 0, k)
  BY <1>1, <1>2, HeadSwitch DEF Task
<1> QED
  BY <1>2, <1>3, <1>4, <1>5, <1>6

-----------------------------------------------------------------------------
(* The runs of the queue and the sign *)

LEMMA SwitchedKept ==
    ASSUME RecInv, Next
    PROVE  Switched'
<1>1. /\ Len(sessionQueue) \in Nat /\ Len(asked) \in Nat /\ replays \in Nat
      /\ asked \in Seq(Seq(1 .. MaxSamples))
      /\ \A j \in 1 .. Len(sessionQueue) : sessionQueue[j] \in Tasks
      /\ bag.mode # "closed" => bag.rec \in 1 .. MaxRecs
  BY Typed DEF RecInv
<1>2. /\ \A j \in 1 .. Len(sessionQueue) : SwitchOf(j)
      /\ bag.mode = "write" => /\ bag.rec <= Len(asked)
                               /\ OpenEnded(sessionQueue, 0) <=> IsOn(bag.rec)
      /\ replays = 0 /\ OpenEnded(sessionQueue, 0) /\ isRecordOn => bag.mode = "write"
      /\ replay # "none" => replays # 0
      /\ isRecordOn => asked # << >>
  BY DEF RecInv, Switched
<1>0. ASSUME \A j \in 1 .. Len(sessionQueue') : SwitchOf(j)',
             bag'.mode = "write" =>
                /\ bag'.rec <= Len(asked')
                /\ OpenEnded(sessionQueue', 0) <=> isRecordOn' /\ bag'.rec = Len(asked'),
             replays' = 0 /\ OpenEnded(sessionQueue', 0) /\ isRecordOn' => bag'.mode = "write",
             replay' # "none" => replays' # 0,
             isRecordOn' => asked' # << >>
      PROVE  Switched'
  BY <1>0 DEF Switched, IsOn
<1> USE DEF queues, files, list, counts
<1>3. CASE Quiet
  BY <1>1, <1>2, <1>3, <1>0 DEF Quiet, SwitchOf, IsOn
<1>4. ASSUME NEW c \in Kinds, NEW s \in 0 .. MaxSamples, Sampled(c, s)
      PROVE  Switched'
  <2>1. /\ Len(sessionQueue') = Len(sessionQueue) + 1 /\ Len(asked') = Len(asked)
        /\ \A j \in 1 .. Len(sessionQueue) : sessionQueue'[j] = sessionQueue[j]
        /\ sessionQueue'[Len(sessionQueue) + 1].op = "publish"
        /\ \A j \in 0 .. Len(sessionQueue) :
              OpenEnded(sessionQueue', j) <=> OpenEnded(sessionQueue, j)
    BY <1>4, SampledFacts
  <2>2. asked' # << >> <=> asked # << >>
    <3>1. asked' \in Seq(Seq(1 .. MaxSamples))
      BY TypesKept, Typed DEF TypeOK
    <3> QED
      BY <1>1, <2>1, <3>1, EmptySeq
  <2>3. UNCHANGED <<isRecordOn, bag, replay, replays>>
    BY <1>4 DEF Sampled
  <2>4. ASSUME NEW j \in 1 .. Len(sessionQueue') PROVE SwitchOf(j)'
    <3>1. CASE j \in 1 .. Len(sessionQueue)
      BY <1>1, <1>2, <2>1, <2>3, <3>1, SMTT(60) DEF SwitchOf, IsOn
    <3>2. CASE j = Len(sessionQueue) + 1
      BY <2>1, <3>2 DEF SwitchOf
    <3> QED
      BY <1>1, <2>1, <3>1, <3>2
  <2>5. OpenEnded(sessionQueue', 0) <=> OpenEnded(sessionQueue, 0)
    BY <1>1, <2>1
  <2> QED
    BY <1>2, <2>1, <2>2, <2>3, <2>4, <2>5, <1>0 DEF IsOn
<1>5. CASE StartRecord
  <2> DEFINE n == Len(asked) + 1
  <2>1. n \in 1 .. MaxRecs
    BY <1>1, <1>5, BoundsAssumption DEF StartRecord
  <2>2. Open(n) \in Tasks /\ Open(n).op = "open" /\ Open(n).rec = n
    BY <2>1, TaskFacts
  <2>3. Len(asked') = Len(asked) + 1 /\ asked' # << >>
    <3>1. << >> \in Seq(1 .. MaxSamples) /\ asked' = Append(asked, << >>)
      BY <1>5, EmptySeq DEF StartRecord, OpenRecording
    <3> QED
      BY <1>1, <3>1, AppendProperties
  <2>4. sessionQueue' = Append(sessionQueue, Open(n))
    BY <1>5 DEF StartRecord, OpenRecording
  <2>5. /\ Len(sessionQueue') = Len(sessionQueue) + 1
        /\ \A j \in 1 .. Len(sessionQueue) : sessionQueue'[j] = sessionQueue[j]
        /\ sessionQueue'[Len(sessionQueue) + 1] = Open(n)
        /\ \A j \in 0 .. Len(sessionQueue) : ~OpenEnded(sessionQueue', j)
        /\ OpenEnded(sessionQueue', Len(sessionQueue) + 1)
    BY <2>2, <2>4, SwitchFacts
  <2>6. isRecordOn' /\ UNCHANGED <<bag, replay, replays>>
    BY <1>5 DEF StartRecord, OpenRecording
  <2>7. \A j \in 1 .. Len(sessionQueue) : sessionQueue[j].op = "open" => sessionQueue[j].rec \in 1 .. MaxRecs
    BY <1>1, TaskFacts
  <2> HIDE DEF n
  <2>8. \A j \in 1 .. Len(sessionQueue') :
            SwitchOf(j)'
    <3> SUFFICES ASSUME NEW j \in 1 .. Len(sessionQueue')
                 PROVE  SwitchOf(j)'
      OBVIOUS
    <3>1. CASE j \in 1 .. Len(sessionQueue)
      BY <1>1, <1>2, <1>5, <2>3, <2>5, <2>7, <3>1 DEF SwitchOf, IsOn, StartRecord
    <3>2. CASE j = Len(sessionQueue) + 1
      BY <1>1, <2>2, <2>3, <2>5, <2>6, <3>2 DEF SwitchOf, IsOn, n
    <3> QED
      BY <1>1, <2>5, <3>1, <3>2
  <2>9. ~OpenEnded(sessionQueue', 0)
    BY <1>1, <2>5
  <2> QED
    BY <1>1, <1>2, <2>3, <2>6, <2>8, <2>9, <1>0 DEF IsOn
<1>6. CASE StopRecord
  <2>1. Close \in Tasks /\ Close.op = "close"
    BY TaskFacts
  <2>2. sessionQueue' = Append(sessionQueue, Close)
    BY <1>6 DEF StopRecord, CloseRecording
  <2>3. /\ Len(sessionQueue') = Len(sessionQueue) + 1
        /\ \A j \in 1 .. Len(sessionQueue) : sessionQueue'[j] = sessionQueue[j]
        /\ sessionQueue'[Len(sessionQueue) + 1] = Close
        /\ \A j \in 0 .. Len(sessionQueue) : ~OpenEnded(sessionQueue', j)
    BY <2>1, <2>2, SwitchFacts
  <2>4. ~isRecordOn' /\ UNCHANGED <<asked, bag, replay, replays>>
    BY <1>6 DEF StopRecord, CloseRecording
  <2>5. ASSUME NEW j \in 1 .. Len(sessionQueue') PROVE SwitchOf(j)'
    <3>1. CASE j \in 1 .. Len(sessionQueue)
      BY <1>1, <1>2, <2>3, <2>4, <3>1 DEF SwitchOf, IsOn
    <3>2. CASE j = Len(sessionQueue) + 1
      BY <2>1, <2>3, <2>4, <3>2 DEF SwitchOf
    <3> QED
      BY <1>1, <2>3, <3>1, <3>2
  <2>6. ~OpenEnded(sessionQueue', 0)
    BY <1>1, <2>3
  <2> QED
    BY <1>2, <2>4, <2>5, <2>6, <1>0
<1>7. ASSUME NEW op, Dequeue(op), UNCHANGED <<isRecordOn, asked, replay, replays>>,
             bag'.mode = "write" => /\ bag'.rec <= Len(asked)
                                    /\ OpenEnded(sessionQueue, 1) <=> IsOn(bag'.rec),
             replays = 0 /\ OpenEnded(sessionQueue, 1) /\ isRecordOn => bag'.mode = "write"
      PROVE  Switched'
  <2>1. /\ Len(sessionQueue') = Len(sessionQueue) - 1 /\ Len(sessionQueue) \in Nat \ {0}
        /\ \A i \in 1 .. Len(sessionQueue') :
             i + 1 \in 1 .. Len(sessionQueue) /\ sessionQueue'[i] = sessionQueue[i + 1]
        /\ \A j \in 0 .. Len(sessionQueue') : OpenEnded(sessionQueue', j) <=> OpenEnded(sessionQueue, j + 1)
    BY <1>7, DequeueFacts
  <2>2. OpenEnded(sessionQueue', 0) <=> OpenEnded(sessionQueue, 1)
    BY <2>1
  <2>3. \A j \in 1 .. Len(sessionQueue') :
            SwitchOf(j)'
    BY <1>2, <1>7, <2>1 DEF SwitchOf, IsOn
  <2> QED
    BY <1>2, <1>7, <2>2, <2>3, <1>0 DEF IsOn
<1>8. CASE RunOpen
  <2>1. /\ Task.op = "open" /\ Task = sessionQueue[1] /\ 1 \in 1 .. Len(sessionQueue)
    BY <1>8, DequeueFacts DEF RunOpen
  <2>2. Task.rec <= Len(asked) /\ (OpenEnded(sessionQueue, 1) <=> IsOn(Task.rec))
    BY <1>2, <2>1 DEF SwitchOf
  <2>3. bag'.mode = "write" /\ bag'.rec = Task.rec
    BY <1>8 DEF RunOpen
  <2> QED
    BY <1>7, <1>8, <2>2, <2>3 DEF RunOpen
<1>9. CASE RunClose
  <2>1. /\ Task.op = "close" /\ Task = sessionQueue[1] /\ 1 \in 1 .. Len(sessionQueue)
    BY <1>9, DequeueFacts DEF RunClose
  <2>2. OpenEnded(sessionQueue, 1) => ~isRecordOn
    BY <1>2, <2>1 DEF SwitchOf
  <2>3. bag'.mode # "write"
    BY <1>9 DEF RunClose, Closed
  <2> QED
    BY <1>7, <1>9, <2>2, <2>3 DEF RunClose
<1>10. CASE RunPublish
  <2>1. OpenEnded(sessionQueue, 0) <=> OpenEnded(sessionQueue, 1)
    BY <1>10, DequeueFacts DEF RunPublish
  <2>2. bag' = bag
    BY <1>10 DEF RunPublish
  <2> QED
    BY <1>2, <1>7, <1>10, <2>1, <2>2 DEF RunPublish
<1>11. CASE RunWrite
  BY <1>2, <1>11, <1>0 DEF RunWrite, SwitchOf, IsOn
<1> QED
  BY <1>3, <1>4, <1>5, <1>6, <1>8, <1>9, <1>10, <1>11, Steps

-----------------------------------------------------------------------------
(* Where the samples are *)

\* asked and its samples, when one is queued.
LEMMA AskedFacts ==
    ASSUME RecInv, NEW c \in Kinds, NEW s \in 0 .. MaxSamples, Sampled(c, s),
           NEW n \in 1 .. Len(asked)
    PROVE  /\ ~IsOn(n) => asked'[n] = asked[n]
           /\ IsOn(n) => asked'[n] = Append(asked[n], samples + 1)
<1>1. asked \in Seq(Seq(1 .. MaxSamples)) /\ samples \in Nat /\ Len(asked) \in Nat
  BY Typed DEF RecInv
<1>2. asked' = IF isRecordOn THEN [asked EXCEPT ![Len(asked)] = Append(@, samples + 1)] ELSE asked
  BY DEF Sampled, Enqueue
<1>3. DOMAIN asked = 1 .. Len(asked)
  BY <1>1, LenProperties
<1> QED
  BY <1>1, <1>2, <1>3 DEF IsOn

LEMMA AskedGrows ==
    ASSUME RecInv, NEW c \in Kinds, NEW s \in 0 .. MaxSamples, Sampled(c, s),
           NEW n \in 1 .. Len(asked), NEW k \in Nat
    PROVE  Has(asked'[n], k) <=> Has(asked[n], k) \/ (IsOn(n) /\ k = samples + 1)
<1>1. asked[n] \in Seq(Nat) /\ Len(asked[n]) \in Nat /\ samples + 1 \in Nat
  BY Typed DEF RecInv
<1>2. CASE ~IsOn(n)
  BY <1>2, AskedFacts DEF Has
<1>3. CASE IsOn(n)
  <2>1. asked'[n] = Append(asked[n], samples + 1)
    BY <1>3, AskedFacts
  <2>2. /\ Len(asked'[n]) = Len(asked[n]) + 1
        /\ \A i \in 1 .. Len(asked[n]) : asked'[n][i] = asked[n][i]
        /\ asked'[n][Len(asked[n]) + 1] = samples + 1
    BY <1>1, <2>1, AppendProperties
  <2>3. ASSUME Has(asked'[n], k) PROVE Has(asked[n], k) \/ k = samples + 1
    <3>1. PICK i \in 1 .. Len(asked'[n]) : asked'[n][i] = k
      BY <2>3 DEF Has
    <3>2. i \in 1 .. Len(asked[n]) \/ i = Len(asked[n]) + 1
      BY <1>1, <2>2
    <3> QED
      BY <2>2, <3>1, <3>2 DEF Has
  <2>4. ASSUME Has(asked[n], k) PROVE Has(asked'[n], k)
    <3>1. PICK i \in 1 .. Len(asked[n]) : asked[n][i] = k
      BY <2>4 DEF Has
    <3>2. i \in 1 .. Len(asked'[n]) /\ asked'[n][i] = k
      BY <1>1, <2>2, <3>1
    <3> QED
      BY <3>2 DEF Has
  <2>5. ASSUME k = samples + 1 PROVE Has(asked'[n], k)
    <3>1. Len(asked[n]) + 1 \in 1 .. Len(asked'[n])
      BY <1>1, <2>2
    <3> QED
      BY <2>2, <2>5, <3>1 DEF Has
  <2> QED
    BY <1>3, <2>3, <2>4, <2>5
<1> QED
  BY <1>2, <1>3

\* Samples that are asked for or due were numbered.
LEMMA OldSamples ==
    ASSUME RecInv
    PROVE  /\ \A n \in 1 .. Len(asked), k \in Nat : Has(asked[n], k) => k <= samples
           /\ \A j \in 0 .. Len(sessionQueue), k \in Nat : Due(sessionQueue, j, k) => k <= samples
<1>1. \A n \in 1 .. Len(asked), k \in Nat : Has(asked[n], k) => k <= samples
  BY DEF RecInv, InOrder, Has
<1>2. \A i \in Nat : Published(i) => sessionQueue[i].id <= samples
  BY DEF RecInv, InOrder
<1>3. \A i \in 1 .. Len(sessionQueue) : sessionQueue[i].op = "publish" => Published(i) /\ i \in Nat
  BY DEF Published
<1> QED
  BY <1>1, <1>2, <1>3 DEF Due

LEMMA WroteAppend ==
    ASSUME NEW m \in Seq(Messages), NEW w \in Messages, NEW k \in Nat
    PROVE  Wrote(Append(m, w), k) <=> Wrote(m, k) \/ k = w.id
<1> DEFINE r == Append(m, w)
<1>1. /\ Len(m) \in Nat /\ Len(r) = Len(m) + 1 /\ r[Len(m) + 1] = w
      /\ \A i \in 1 .. Len(m) : r[i] = m[i]
  BY LenProperties, AppendProperties
<1> HIDE DEF r
<1>2. ASSUME Wrote(r, k) PROVE Wrote(m, k) \/ k = w.id
  <2>1. PICK i \in 1 .. Len(r) : r[i].id = k
    BY <1>2 DEF Wrote
  <2>2. i \in 1 .. Len(m) \/ i = Len(m) + 1
    BY <1>1
  <2> QED
    BY <1>1, <2>1, <2>2 DEF Wrote
<1>3. ASSUME Wrote(m, k) PROVE Wrote(r, k)
  <2>1. PICK i \in 1 .. Len(m) : m[i].id = k
    BY <1>3 DEF Wrote
  <2>2. i \in 1 .. Len(r) /\ r[i].id = k
    BY <1>1, <2>1
  <2> QED
    BY <2>2 DEF Wrote
<1>4. ASSUME k = w.id PROVE Wrote(r, k)
  <2>1. Len(m) + 1 \in 1 .. Len(r)
    BY <1>1
  <2> QED
    BY <1>1, <1>4, <2>1 DEF Wrote
<1> QED
  BY <1>2, <1>3, <1>4 DEF r

LEMMA AccountedKept ==
    ASSUME RecInv, Next
    PROVE  Accounted'
<1>1. /\ Len(sessionQueue) \in Nat /\ Len(asked) \in Nat /\ samples \in Nat
      /\ \A j \in 1 .. Len(sessionQueue) : sessionQueue[j] \in Tasks
      /\ bag.mode # "closed" => bag.rec \in 1 .. MaxRecs
  BY Typed DEF RecInv
<1>2. /\ \A j \in 1 .. Len(sessionQueue) :
            sessionQueue[j].op = "open" =>
               \A k \in Nat : Has(asked[sessionQueue[j].rec], k) <=> Due(sessionQueue, j, k)
      /\ Writing =>
            \A k \in Nat : Has(asked[bag.rec], k) <=>
               Wrote(disk[bag.file].msgs, k) \/ InHand(k) \/ Due(sessionQueue, 0, k)
  BY DEF RecInv, Accounted
<1>3. \A j \in 1 .. Len(sessionQueue) :
         sessionQueue[j].op = "open" =>
            /\ sessionQueue[j].rec \in 1 .. Len(asked)
            /\ OpenEnded(sessionQueue, j) <=> IsOn(sessionQueue[j].rec)
  BY <1>1, TaskFacts DEF RecInv, Switched, SwitchOf
<1>4. bag.mode = "write" => /\ bag.rec \in 1 .. Len(asked)
                            /\ OpenEnded(sessionQueue, 0) <=> IsOn(bag.rec)
  BY <1>1 DEF RecInv, Switched
<1> USE DEF queues, files, list, counts
<1>5. CASE Quiet
  <2>1. UNCHANGED <<sessionQueue, worker, asked>>
    BY <1>5 DEF Quiet
  <2>2. Writing' => Writing /\ bag' = bag /\ disk'[bag.file].msgs = disk[bag.file].msgs
    BY <1>5 DEF Quiet, Writing
  <2> QED
    BY <1>2, <2>1, <2>2 DEF Accounted, InHand
<1>6. ASSUME NEW c \in Kinds, NEW s \in 0 .. MaxSamples, Sampled(c, s)
      PROVE  Accounted'
  <2>1. /\ Len(sessionQueue') = Len(sessionQueue) + 1 /\ Len(asked') = Len(asked)
        /\ \A j \in 1 .. Len(sessionQueue) : sessionQueue'[j] = sessionQueue[j]
        /\ sessionQueue'[Len(sessionQueue) + 1].op = "publish"
        /\ \A j \in 0 .. Len(sessionQueue), k \in Nat :
              Due(sessionQueue', j, k) <=>
                 Due(sessionQueue, j, k) \/ (OpenEnded(sessionQueue, j) /\ k = samples + 1)
    BY <1>6, SampledFacts
  <2>2. ASSUME NEW n \in 1 .. Len(asked), NEW k \in Nat
        PROVE  Has(asked'[n], k) <=> Has(asked[n], k) \/ (IsOn(n) /\ k = samples + 1)
    BY <1>6, AskedGrows
  <2>3. UNCHANGED <<worker, bag, disk>>
    BY <1>6 DEF Sampled
  <2>4. ASSUME NEW j \in 1 .. Len(sessionQueue'), sessionQueue'[j].op = "open", NEW k \in Nat
        PROVE  Has(asked'[sessionQueue[j].rec], k) <=> Due(sessionQueue', j, k)
    <3>1. j \in 1 .. Len(sessionQueue) /\ sessionQueue'[j] = sessionQueue[j]
      BY <1>1, <2>1, <2>4
    <3>2. sessionQueue[j].rec \in 1 .. Len(asked)
      BY <1>3, <2>4, <3>1
    <3>3. Has(asked[sessionQueue[j].rec], k) <=> Due(sessionQueue, j, k)
      BY <1>2, <2>4, <3>1
    <3>4. OpenEnded(sessionQueue, j) <=> IsOn(sessionQueue[j].rec)
      BY <1>3, <2>4, <3>1
    <3> DEFINE n == sessionQueue[j].rec
    <3>5. Has(asked'[n], k) <=> Has(asked[n], k) \/ (IsOn(n) /\ k = samples + 1)
      BY <2>2, <3>2
    <3> QED
      BY <1>1, <2>1, <3>1, <3>3, <3>4, <3>5
  <2>5. ASSUME Writing', NEW k \in Nat
        PROVE  Has(asked'[bag'.rec], k) <=>
                  Wrote(disk'[bag'.file].msgs, k) \/ InHand(k)' \/ Due(sessionQueue', 0, k)
    <3>1. Writing /\ bag.mode = "write"
      BY <2>3, <2>5 DEF Writing
    <3>2. bag.rec \in 1 .. Len(asked) /\ (OpenEnded(sessionQueue, 0) <=> IsOn(bag.rec))
      BY <1>4, <3>1
    <3>3. Has(asked'[bag.rec], k) <=> Has(asked[bag.rec], k) \/ (IsOn(bag.rec) /\ k = samples + 1)
      BY <2>2, <3>2
    <3>4. Has(asked[bag.rec], k) <=>
             Wrote(disk[bag.file].msgs, k) \/ InHand(k) \/ Due(sessionQueue, 0, k)
      BY <1>2, <3>1
    <3>5. InHand(k)' <=> InHand(k)
      BY <2>3 DEF InHand
    <3>6. Due(sessionQueue', 0, k) <=>
             Due(sessionQueue, 0, k) \/ (OpenEnded(sessionQueue, 0) /\ k = samples + 1)
      BY <1>1, <2>1
    <3> QED
      BY <2>3, <3>2, <3>3, <3>4, <3>5, <3>6
  <2>6. \A j \in 1 .. Len(sessionQueue') : sessionQueue'[j].op = "open" =>
           \A k \in Nat : Has(asked'[sessionQueue'[j].rec], k) <=> Due(sessionQueue', j, k)
    BY <1>1, <2>1, <2>4
  <2> QED
    BY <2>5, <2>6 DEF Accounted
\* A block that opens or closes is queued; the samples of the recordings there are stay.
<1>7. ASSUME NEW t \in Tasks, t.op # "publish", sessionQueue' = Append(sessionQueue, t),
             \A n \in 1 .. Len(asked) : asked'[n] = asked[n],
             t.op = "open" => asked'[t.rec] = << >>,
             UNCHANGED <<worker, bag, disk>>
      PROVE  Accounted'
  <2>1. /\ Len(sessionQueue') = Len(sessionQueue) + 1
        /\ \A j \in 1 .. Len(sessionQueue) : sessionQueue'[j] = sessionQueue[j]
        /\ sessionQueue'[Len(sessionQueue) + 1] = t
        /\ \A j \in 0 .. Len(sessionQueue), k \in Nat :
              Due(sessionQueue', j, k) <=> Due(sessionQueue, j, k)
        /\ \A k \in Nat : ~Due(sessionQueue', Len(sessionQueue) + 1, k)
    BY <1>7, SwitchFacts
  <2>2. ASSUME NEW j \in 1 .. Len(sessionQueue'), sessionQueue'[j].op = "open", NEW k \in Nat
        PROVE  Has(asked'[sessionQueue'[j].rec], k) <=> Due(sessionQueue', j, k)
    <3>1. CASE j \in 1 .. Len(sessionQueue)
      BY <1>1, <1>2, <1>3, <1>7, <2>1, <2>2, <3>1
    <3>2. CASE j = Len(sessionQueue) + 1
      <4>1. asked'[sessionQueue'[j].rec] = << >>
        BY <1>7, <2>1, <2>2, <3>2
      <4>2. ~Has(<< >>, k)
        BY DEF Has
      <4>3. ~Due(sessionQueue', j, k)
        BY <2>1, <3>2
      <4> QED
        BY <4>1, <4>2, <4>3
    <3> QED
      BY <1>1, <2>1, <3>1, <3>2
  <2>3. ASSUME Writing', NEW k \in Nat
        PROVE  Has(asked'[bag'.rec], k) <=>
                  Wrote(disk'[bag'.file].msgs, k) \/ InHand(k)' \/ Due(sessionQueue', 0, k)
    <3>1. Writing /\ bag.mode = "write"
      BY <1>7, <2>3 DEF Writing
    <3>2. asked'[bag.rec] = asked[bag.rec]
      BY <1>4, <1>7, <3>1
    <3>3. Due(sessionQueue', 0, k) <=> Due(sessionQueue, 0, k)
      BY <1>1, <2>1
    <3>4. InHand(k)' <=> InHand(k)
      BY <1>7 DEF InHand
    <3> QED
      BY <1>2, <1>7, <3>1, <3>2, <3>3, <3>4
  <2> QED
    BY <2>2, <2>3 DEF Accounted
<1>8. CASE StartRecord
  <2> DEFINE n == Len(asked) + 1
  <2>1. n \in 1 .. MaxRecs
    BY <1>1, <1>8, BoundsAssumption DEF StartRecord
  <2>2. Open(n) \in Tasks /\ Open(n).op = "open" /\ Open(n).rec = n
    BY <2>1, TaskFacts
  <2>3. asked'[n] = << >> /\ \A m \in 1 .. Len(asked) : asked'[m] = asked[m]
    <3>1. << >> \in Seq(1 .. MaxSamples) /\ asked' = Append(asked, << >>)
      BY <1>8, EmptySeq DEF StartRecord, OpenRecording
    <3>2. asked \in Seq(Seq(1 .. MaxSamples))
      BY Typed DEF RecInv
    <3> QED
      BY <3>1, <3>2, AppendProperties
  <2>4. sessionQueue' = Append(sessionQueue, Open(n)) /\ UNCHANGED <<worker, bag, disk>>
    BY <1>8 DEF StartRecord, OpenRecording
  <2> HIDE DEF n
  <2> QED
    BY <1>7, <2>2, <2>3, <2>4
<1>9. CASE StopRecord
  <2>1. Close \in Tasks /\ Close.op = "close"
    BY TaskFacts
  <2>2. sessionQueue' = Append(sessionQueue, Close) /\ UNCHANGED <<asked, worker, bag, disk>>
    BY <1>9 DEF StopRecord, CloseRecording
  <2> QED
    BY <1>7, <2>1, <2>2
\* The head goes; the bag, if it is being written, has what is behind it.
<1>10. ASSUME NEW op, Dequeue(op), asked' = asked,
              Writing' => \A k \in Nat :
                 Has(asked[bag'.rec], k) <=>
                    Wrote(disk'[bag'.file].msgs, k) \/ InHand(k)' \/ Due(sessionQueue, 1, k)
       PROVE  Accounted'
  <2>1. /\ Len(sessionQueue') = Len(sessionQueue) - 1 /\ Len(sessionQueue) \in Nat \ {0}
        /\ \A i \in 1 .. Len(sessionQueue') :
             i + 1 \in 1 .. Len(sessionQueue) /\ sessionQueue'[i] = sessionQueue[i + 1]
        /\ \A j \in 0 .. Len(sessionQueue'), k \in Nat :
             Due(sessionQueue', j, k) <=> Due(sessionQueue, j + 1, k)
    BY <1>10, DequeueFacts
  <2>2. \A k \in Nat : Due(sessionQueue', 0, k) <=> Due(sessionQueue, 1, k)
    BY <2>1
  <2>3. ASSUME NEW j \in 1 .. Len(sessionQueue'), sessionQueue'[j].op = "open", NEW k \in Nat
        PROVE  Has(asked'[sessionQueue'[j].rec], k) <=> Due(sessionQueue', j, k)
    BY <1>2, <1>10, <2>1, <2>3
  <2> QED
    BY <1>10, <2>2, <2>3 DEF Accounted
<1>11. CASE RunOpen
  <2>1. Task.op = "open" /\ Task = sessionQueue[1] /\ 1 \in 1 .. Len(sessionQueue) /\ Task \in Tasks
        /\ worker = << >>
    BY <1>11, DequeueFacts DEF RunOpen
  <2>2. \A k \in Nat : Has(asked[Task.rec], k) <=> Due(sessionQueue, 1, k)
    BY <1>2, <2>1
  <2>3. disk'[clock].msgs = << >>
    <3>1. Task.rec \in 1 .. MaxRecs
      BY <2>1, TaskFacts
    <3> QED
      BY <1>11, <3>1, OpenFacts DEF RunOpen, RecInv
  <2>4. bag'.rec = Task.rec /\ bag'.file = clock /\ asked' = asked /\ worker' = worker
    BY <1>11 DEF RunOpen
  <2>5. \A k \in Nat : ~Wrote(disk'[clock].msgs, k) /\ ~InHand(k)'
    BY <2>1, <2>3, <2>4 DEF Wrote, InHand
  <2> QED
    BY <1>10, <1>11, <2>2, <2>4, <2>5 DEF RunOpen
<1>12. CASE RunClose
  <2>1. ~Writing'
    BY <1>12 DEF RunClose, Closed, Writing
  <2> QED
    BY <1>10, <1>12, <2>1 DEF RunClose
<1>13. CASE RunPublish
  <2>1. /\ worker = << >> /\ \A k \in Nat : Due(sessionQueue, 0, k) <=> k = Task.id \/ Due(sessionQueue, 1, k)
    BY <1>13, DequeueFacts DEF RunPublish
  <2>2. UNCHANGED <<asked, bag, disk>>
    BY <1>13 DEF RunPublish
  <2>3. ASSUME Writing', NEW k \in Nat
        PROVE  Has(asked[bag'.rec], k) <=>
                    Wrote(disk'[bag'.file].msgs, k) \/ InHand(k)' \/ Due(sessionQueue, 1, k)
    <3>1. Writing /\ bag.mode = "write"
      BY <2>2, <2>3 DEF Writing
    <3>2. Has(asked[bag.rec], k) <=>
             Wrote(disk[bag.file].msgs, k) \/ InHand(k) \/ Due(sessionQueue, 0, k)
      BY <1>2, <3>1
    <3>3. ~InHand(k)
      BY <2>1 DEF InHand
    <3>4. InHand(k)' <=> k = Task.id
      <4>1. worker' = <<[Task EXCEPT !.seq = HeaderSeq(Task)]>>
        BY <1>13, <3>1 DEF RunPublish
      <4>2. [Task EXCEPT !.seq = HeaderSeq(Task)].id = Task.id
        <5>1. Task \in Messages
          BY <1>13, DequeueFacts, TaskFacts DEF RunPublish
        <5> QED
          BY <5>1 DEF Messages
      <4> QED
        BY <4>1, <4>2 DEF InHand
    <3> QED
      BY <2>1, <2>2, <3>2, <3>3, <3>4
  <2> QED
    BY <1>10, <1>13, <2>2, <2>3 DEF RunPublish
<1>14. CASE RunWrite
  <2>1. worker # << >> /\ worker[1] \in Messages /\ worker' = << >> /\ UNCHANGED <<sessionQueue, asked, bag>>
    BY <1>14, Typed DEF RunWrite, RecInv
  <2>2. ASSUME Writing', NEW k \in Nat
        PROVE  Has(asked'[bag'.rec], k) <=>
                  Wrote(disk'[bag'.file].msgs, k) \/ InHand(k)' \/ Due(sessionQueue', 0, k)
    <3>1. bag.mode = "write" /\ bag.file \in DOMAIN disk' /\ disk'[bag.file].rec = bag.rec
      BY <2>1, <2>2 DEF Writing
    <3>2. Writing
      BY <1>14, <3>1 DEF RunWrite, Writing
    <3>3. disk' = [disk EXCEPT ![bag.file].msgs = Append(@, worker[1])]
      BY <1>14, <3>2 DEF RunWrite, Writing
    <3>4. disk'[bag.file].msgs = Append(disk[bag.file].msgs, worker[1])
      BY <2>1, <3>2, <3>3, WriteFacts DEF RecInv
    <3>5. disk[bag.file].msgs \in Seq(Messages)
      BY <3>2, Typed DEF Writing, RecInv
    <3>6. Wrote(disk'[bag.file].msgs, k) <=> Wrote(disk[bag.file].msgs, k) \/ k = worker[1].id
      BY <2>1, <3>4, <3>5, WroteAppend
    <3>7. ~InHand(k)' /\ (InHand(k) <=> k = worker[1].id)
      BY <2>1 DEF InHand
    <3>8. Has(asked[bag.rec], k) <=>
             Wrote(disk[bag.file].msgs, k) \/ InHand(k) \/ Due(sessionQueue, 0, k)
      BY <1>2, <3>2
    <3> QED
      BY <2>1, <3>6, <3>7, <3>8
  <2> QED
    BY <1>2, <2>1, <2>2 DEF Accounted
<1> QED
  BY <1>5, <1>6, <1>8, <1>9, <1>11, <1>12, <1>13, <1>14, Steps

-----------------------------------------------------------------------------
(* The order of the samples *)

\* Position i of the queue holds what was p positions behind it.
Moved(p) ==
    \A i \in Nat : Published(i)' => Published(i + p) /\ sessionQueue'[i] = sessionQueue[i + p]

\* No file gets a message: each keeps what it has, or is new.
NothingWritten ==
    \A f \in DOMAIN disk' :
       disk'[f].msgs = << >> \/ (f \in DOMAIN disk /\ disk'[f].msgs = disk[f].msgs)

LEMMA MovedFacts ==
    ASSUME RecInv
    PROVE  /\ Quiet \/ StartRecord \/ StopRecord => Moved(0) /\ NothingWritten
           /\ RunWrite => Moved(0)
           /\ RunOpen \/ RunClose \/ RunPublish => Moved(1) /\ NothingWritten
           /\ RunPublish => Published(1) /\ Task = sessionQueue[1]
<1>1. TypeOK /\ sessionQueue \in Seq(Tasks) /\ Len(sessionQueue) \in Nat
  BY Typed DEF RecInv
<1> USE DEF queues, files, list, counts
<1>2. ASSUME sessionQueue' = sessionQueue PROVE Moved(0)
  BY <1>2 DEF Moved, Published
<1>3. ASSUME NEW t \in Tasks, t.op # "publish", sessionQueue' = Append(sessionQueue, t)
      PROVE  Moved(0)
  <2>1. /\ Len(sessionQueue') = Len(sessionQueue) + 1
        /\ \A j \in 1 .. Len(sessionQueue) : sessionQueue'[j] = sessionQueue[j]
        /\ sessionQueue'[Len(sessionQueue) + 1] = t
    BY <1>3, SwitchFacts
  <2> SUFFICES ASSUME NEW i \in Nat, Published(i)'
               PROVE  Published(i + 0) /\ sessionQueue'[i] = sessionQueue[i + 0]
    BY DEF Moved
  <2>2. i \in 1 .. Len(sessionQueue) + 1 /\ sessionQueue'[i].op = "publish"
    BY <2>1 DEF Published
  <2>3. i \in 1 .. Len(sessionQueue)
    BY <1>1, <1>3, <2>1, <2>2
  <2> QED
    BY <2>1, <2>2, <2>3 DEF Published
<1>4. ASSUME NEW op, Dequeue(op) PROVE Moved(1)
  BY <1>1, <1>4, DequeueFacts DEF Moved, Published
<1>5. Quiet => Moved(0) /\ NothingWritten
  BY <1>2 DEF Quiet, NothingWritten
<1>6. StartRecord => Moved(0) /\ NothingWritten
  <2> SUFFICES ASSUME StartRecord PROVE Moved(0) /\ NothingWritten
    OBVIOUS
  <2>1. Len(asked) + 1 \in 1 .. MaxRecs
    BY BoundsAssumption, Typed DEF StartRecord, RecInv
  <2>2. Open(Len(asked) + 1) \in Tasks /\ Open(Len(asked) + 1).op # "publish"
    BY <2>1, TaskFacts
  <2> QED
    BY <1>3, <2>2 DEF StartRecord, OpenRecording, NothingWritten
<1>7. StopRecord => Moved(0) /\ NothingWritten
  <2>1. Close \in Tasks /\ Close.op # "publish"
    BY TaskFacts
  <2> QED
    BY <1>3, <2>1 DEF StopRecord, CloseRecording, NothingWritten
<1>8. RunWrite => Moved(0)
  BY <1>2 DEF RunWrite
<1>9. RunOpen => Moved(1) /\ NothingWritten
  <2> SUFFICES ASSUME RunOpen PROVE Moved(1) /\ NothingWritten
    OBVIOUS
  <2>1. Task \in Tasks /\ Task.op = "open"
    BY DequeueFacts DEF RunOpen
  <2>2. Task.rec \in 1 .. MaxRecs
    BY <2>1, TaskFacts
  <2>3. /\ DOMAIN disk' = DOMAIN disk \union {clock} /\ disk'[clock].msgs = << >>
        /\ \A f \in DOMAIN disk : f # clock => disk'[f] = Sealed(disk)[f]
    BY <1>1, <2>2, OpenFacts DEF RunOpen
  <2>4. NothingWritten
    BY <1>1, <2>3, SealedFacts DEF NothingWritten
  <2> QED
    BY <1>4, <2>4 DEF RunOpen
<1>10. RunClose => Moved(1) /\ NothingWritten
  BY <1>1, <1>4, SealedFacts DEF RunClose, NothingWritten
<1>11. RunPublish => Moved(1) /\ NothingWritten /\ Published(1) /\ Task = sessionQueue[1]
  <2> SUFFICES ASSUME RunPublish
               PROVE  Moved(1) /\ NothingWritten /\ Published(1) /\ Task = sessionQueue[1]
    OBVIOUS
  <2>1. Task.op = "publish" /\ Task = sessionQueue[1] /\ 1 \in 1 .. Len(sessionQueue)
    BY DequeueFacts DEF RunPublish
  <2> QED
    BY <1>4, <2>1 DEF RunPublish, Published, NothingWritten
<1> QED
  BY <1>5, <1>6, <1>7, <1>8, <1>9, <1>10, <1>11

\* What RunWrite does to the files.
LEMMA WritesOne ==
    ASSUME RecInv, RunWrite
    PROVE  /\ worker # << >> /\ worker[1] \in Messages /\ DOMAIN disk' = DOMAIN disk
           /\ \A f \in DOMAIN disk :
                 /\ disk'[f].rec = disk[f].rec /\ disk'[f].readable = disk[f].readable
                 /\ disk'[f].msgs = disk[f].msgs \/
                    (Writing /\ f = bag.file /\ disk'[f].msgs = Append(disk[f].msgs, worker[1]))
<1>1. TypeOK /\ worker # << >> /\ worker[1] \in Messages
  BY Typed DEF RunWrite, RecInv
<1>2. CASE Writing
  <2>1. disk' = [disk EXCEPT ![bag.file].msgs = Append(@, worker[1])]
    BY <1>2 DEF RunWrite, Writing
  <2> QED
    BY <1>1, <1>2, <2>1, WriteFacts
<1>3. CASE ~Writing
  <2>1. disk' = disk
    BY <1>3 DEF RunWrite, Writing
  <2> QED
    BY <1>1, <2>1
<1> QED
  BY <1>2, <1>3

LEMMA IdsFacts ==
    ASSUME NEW m \in Seq(Messages)
    PROVE  /\ Ids(m) \in Seq(Nat) /\ Len(Ids(m)) = Len(m)
           /\ \A i \in 1 .. Len(m) : Ids(m)[i] = m[i].id
<1>1. Len(m) \in Nat /\ DOMAIN m = 1 .. Len(m)
  BY LenProperties
<1>2. \A i \in 1 .. Len(m) : m[i].id \in Nat
  BY ElementOfSeq, TaskFacts
<1>3. Ids(m) = [i \in 1 .. Len(m) |-> m[i].id]
  BY <1>1 DEF Ids
<1> QED
  BY <1>1, <1>2, <1>3

\* What is in a file was asked for.
LEMMA WroteAsked ==
    ASSUME RecInv, NEW f \in DOMAIN disk, NEW k \in Nat, Wrote(disk[f].msgs, k)
    PROVE  Has(asked[disk[f].rec], k) /\ k <= samples
<1>1. /\ disk[f].msgs \in Seq(Messages) /\ disk[f].rec \in 1 .. MaxRecs /\ Len(asked) \in Nat
      /\ \A n \in 1 .. Len(asked) : Len(asked[n]) \in Nat
  BY Typed DEF RecInv
<1>2. disk[f].rec <= Len(asked) /\ Prefix(Ids(disk[f].msgs), asked[disk[f].rec])
  BY DEF RecInv, FilesArePrefixes
<1>3. disk[f].rec \in 1 .. Len(asked)
  BY <1>1, <1>2
<1>4. PICK i \in 1 .. Len(disk[f].msgs) : disk[f].msgs[i].id = k
  BY DEF Wrote
<1>5. i \in 1 .. Len(asked[disk[f].rec]) /\ asked[disk[f].rec][i] = k
  BY <1>1, <1>2, <1>3, <1>4, IdsFacts, LenProperties, SMTT(30) DEF Prefix
<1>6. Has(asked[disk[f].rec], k)
  BY <1>5 DEF Has
<1> QED
  BY <1>3, <1>6, OldSamples

LEMMA IncreasingAppend ==
    ASSUME NEW a \in Seq(Nat), NEW m \in Nat, Increasing(a), \A i \in 1 .. Len(a) : a[i] < m
    PROVE  Increasing(Append(a, m)) /\ \A i \in 1 .. Len(Append(a, m)) : Append(a, m)[i] <= m
<1> DEFINE r == Append(a, m)
<1>1. /\ Len(a) \in Nat /\ Len(r) = Len(a) + 1 /\ r[Len(a) + 1] = m
      /\ \A i \in 1 .. Len(a) : r[i] = a[i] /\ a[i] \in Nat
  BY LenProperties, AppendProperties, ElementOfSeq
<1> HIDE DEF r
<1>2. \A i \in 1 .. Len(r) : i \in 1 .. Len(a) \/ i = Len(a) + 1
  BY <1>1
<1>3. Increasing(r)
  BY <1>1, <1>2 DEF Increasing
<1>4. \A i \in 1 .. Len(r) : r[i] <= m
  BY <1>1, <1>2
<1> QED
  BY <1>3, <1>4 DEF r

LEMMA InOrderKept ==
    ASSUME RecInv, Next
    PROVE  InOrder'
<1>1. /\ Len(sessionQueue) \in Nat /\ Len(asked) \in Nat /\ samples \in Nat /\ imgCount \in Nat
      /\ \A n \in 1 .. Len(asked) : asked[n] \in Seq(Nat)
      /\ worker # << >> => worker[1].id \in Nat
      /\ \A i \in Nat : Published(i) => sessionQueue[i].id \in Nat
  BY Typed, TaskFacts DEF RecInv, Published
<1>2. /\ \A n \in 1 .. Len(asked) :
            Increasing(asked[n]) /\ \A i \in 1 .. Len(asked[n]) : asked[n][i] <= samples
      /\ \A i, j \in Nat : Published(i) /\ Published(j) /\ i < j => sessionQueue[i].id < sessionQueue[j].id
      /\ \A i \in Nat : Published(i) =>
            /\ sessionQueue[i].id <= samples /\ imgCount < sessionQueue[i].id
            /\ worker # << >> => worker[1].id < sessionQueue[i].id
            /\ \A f \in DOMAIN disk, k \in Nat : Wrote(disk[f].msgs, k) => k < sessionQueue[i].id
      /\ worker # << >> =>
            /\ worker[1].id <= samples /\ imgCount < worker[1].id
            /\ \A f \in DOMAIN disk, k \in Nat : Wrote(disk[f].msgs, k) => k < worker[1].id
      /\ imgCount <= samples
  BY DEF RecInv, InOrder
<1>3. \A k \in Nat : ~Wrote(<< >>, k)
  BY DEF Wrote
<1>4. ASSUME NothingWritten, NEW f \in DOMAIN disk', NEW k \in Nat, Wrote(disk'[f].msgs, k)
      PROVE  f \in DOMAIN disk /\ Wrote(disk[f].msgs, k)
  BY <1>3, <1>4 DEF NothingWritten
<1> USE DEF queues, files, list, counts
\* The queue moves on; nothing is written.
<1>5. ASSUME NEW p \in Nat, Moved(p), NothingWritten, worker' = worker, samples' = samples, imgCount' = imgCount,
             \A n \in 1 .. Len(asked') : (n \in 1 .. Len(asked) /\ asked'[n] = asked[n]) \/ asked'[n] = << >>
      PROVE  InOrder'
  <2>1. \A n \in 1 .. Len(asked') :
            Increasing(asked'[n]) /\ \A i \in 1 .. Len(asked'[n]) : asked'[n][i] <= samples'
    <3>1. Increasing(<< >>) /\ Len(<< >>) = 0
      BY DEF Increasing
    <3> QED
      BY <1>2, <1>5, <3>1
  <2>2. \A i, j \in Nat : Published(i)' /\ Published(j)' /\ i < j => sessionQueue'[i].id < sessionQueue'[j].id
    BY <1>2, <1>5 DEF Moved
  <2>3. \A i \in Nat : Published(i)' =>
            /\ sessionQueue'[i].id <= samples' /\ imgCount' < sessionQueue'[i].id
            /\ worker' # << >> => worker'[1].id < sessionQueue'[i].id
            /\ \A f \in DOMAIN disk', k \in Nat : Wrote(disk'[f].msgs, k) => k < sessionQueue'[i].id
    BY <1>2, <1>4, <1>5 DEF Moved
  <2>4. worker' # << >> =>
            /\ worker'[1].id <= samples' /\ imgCount' < worker'[1].id
            /\ \A f \in DOMAIN disk', k \in Nat : Wrote(disk'[f].msgs, k) => k < worker'[1].id
    BY <1>2, <1>4, <1>5
  <2>5. imgCount' <= samples'
    BY <1>2, <1>5
  <2> QED
    BY <2>1, <2>2, <2>3, <2>4, <2>5 DEF InOrder
<1>6. CASE Quiet
  BY <1>5, <1>6, MovedFacts DEF Quiet
<1>7. ASSUME NEW c \in Kinds, NEW s \in 0 .. MaxSamples, Sampled(c, s)
      PROVE  InOrder'
  <2> DEFINE m == samples + 1
  <2> DEFINE n == Len(sessionQueue)
  <2>1. /\ Len(sessionQueue') = n + 1 /\ Len(asked') = Len(asked)
        /\ \A j \in 1 .. n : sessionQueue'[j] = sessionQueue[j]
        /\ sessionQueue'[n + 1].id = m
    BY <1>7, SampledFacts
  <2>2. samples' = m /\ UNCHANGED <<worker, disk, imgCount>> /\ m \in Nat /\ samples < m
    BY <1>1, <1>7 DEF Sampled, Enqueue
  <2>3. \A i \in Nat : Published(i)' =>
           (Published(i) /\ sessionQueue'[i] = sessionQueue[i]) \/ (i = n + 1 /\ sessionQueue'[i].id = m)
    BY <1>1, <2>1 DEF Published
  <2>4. \A i \in Nat : Published(i) => i < n + 1
    BY <1>1 DEF Published
  <2> HIDE DEF m, n
  <2>5. \A a \in 1 .. Len(asked') :
            Increasing(asked'[a]) /\ \A i \in 1 .. Len(asked'[a]) : asked'[a][i] <= samples'
    <3> SUFFICES ASSUME NEW a \in 1 .. Len(asked)
                 PROVE  Increasing(asked'[a]) /\ \A i \in 1 .. Len(asked'[a]) : asked'[a][i] <= samples'
      BY <2>1
    <3>1. CASE ~IsOn(a)
      <4>1. asked'[a] = asked[a]
        BY <1>7, <3>1, AskedFacts
      <4>2. \A i \in 1 .. Len(asked[a]) : asked[a][i] \in Nat
        BY <1>1, ElementOfSeq
      <4> QED
        BY <1>1, <1>2, <2>2, <4>1, <4>2
    <3>2. CASE IsOn(a)
      <4>1. asked'[a] = Append(asked[a], m)
        BY <1>7, <3>2, AskedFacts DEF m
      <4>2. \A i \in 1 .. Len(asked[a]) : asked[a][i] < m
        <5>1. \A i \in 1 .. Len(asked[a]) : asked[a][i] \in Nat
          BY <1>1, ElementOfSeq
        <5> QED
          BY <1>1, <1>2, <2>2, <5>1
      <4>3. asked[a] \in Seq(Nat) /\ Increasing(asked[a])
        BY <1>1, <1>2
      <4> QED
        BY <2>2, <4>1, <4>2, <4>3, IncreasingAppend
    <3> QED
      BY <3>1, <3>2
  <2>6. \A i, j \in Nat : Published(i)' /\ Published(j)' /\ i < j => sessionQueue'[i].id < sessionQueue'[j].id
    <3> SUFFICES ASSUME NEW i \in Nat, NEW j \in Nat, Published(i)', Published(j)', i < j
                 PROVE  sessionQueue'[i].id < sessionQueue'[j].id
      OBVIOUS
    <3>1. n \in Nat
      BY <1>1 DEF n
    <3>2. CASE j = n + 1
      BY <1>1, <1>2, <2>2, <2>3, <2>4, <3>1, <3>2, SMTT(30)
    <3>3. CASE j # n + 1
      BY <1>1, <1>2, <2>3, <2>4, <3>1, <3>3
    <3> QED
      BY <3>2, <3>3
  <2>7. \A f \in DOMAIN disk', k \in Nat : Wrote(disk'[f].msgs, k) => k < m
    BY <1>1, <2>2, WroteAsked
  <2>8. \A i \in Nat : Published(i)' =>
            /\ sessionQueue'[i].id <= samples' /\ imgCount' < sessionQueue'[i].id
            /\ worker' # << >> => worker'[1].id < sessionQueue'[i].id
            /\ \A f \in DOMAIN disk', k \in Nat : Wrote(disk'[f].msgs, k) => k < sessionQueue'[i].id
    <3> SUFFICES ASSUME NEW i \in Nat, Published(i)'
                 PROVE  /\ sessionQueue'[i].id <= samples' /\ imgCount' < sessionQueue'[i].id
                        /\ worker' # << >> => worker'[1].id < sessionQueue'[i].id
                        /\ \A f \in DOMAIN disk', k \in Nat : Wrote(disk'[f].msgs, k) => k < sessionQueue'[i].id
      OBVIOUS
    <3>1. CASE Published(i) /\ sessionQueue'[i] = sessionQueue[i]
      BY <1>1, <1>2, <2>2, <3>1
    <3>2. CASE sessionQueue'[i].id = m
      BY <1>1, <1>2, <2>2, <2>7, <3>2
    <3> QED
      BY <2>3, <3>1, <3>2
  <2>9. worker' # << >> =>
            /\ worker'[1].id <= samples' /\ imgCount' < worker'[1].id
            /\ \A f \in DOMAIN disk', k \in Nat : Wrote(disk'[f].msgs, k) => k < worker'[1].id
    BY <1>1, <1>2, <2>2
  <2>10. imgCount' <= samples'
    BY <1>1, <1>2, <2>2
  <2> QED
    BY <2>5, <2>6, <2>8, <2>9, <2>10 DEF InOrder
<1>8. CASE StartRecord
  <2>1. /\ Len(asked') = Len(asked) + 1 /\ asked'[Len(asked) + 1] = << >>
        /\ \A n \in 1 .. Len(asked) : asked'[n] = asked[n]
    <3>1. << >> \in Seq(1 .. MaxSamples) /\ asked' = Append(asked, << >>)
      BY <1>8, EmptySeq DEF StartRecord, OpenRecording
    <3>2. asked \in Seq(Seq(1 .. MaxSamples))
      BY Typed DEF RecInv
    <3> QED
      BY <3>1, <3>2, AppendProperties
  <2>2. \A n \in 1 .. Len(asked') : (n \in 1 .. Len(asked) /\ asked'[n] = asked[n]) \/ asked'[n] = << >>
    BY <1>1, <2>1
  <2>3. Moved(0) /\ NothingWritten
    BY <1>8, MovedFacts
  <2>4. UNCHANGED <<worker, samples, imgCount>>
    BY <1>8 DEF StartRecord, OpenRecording
  <2> QED
    BY <1>5, <2>2, <2>3, <2>4
<1>9. CASE StopRecord
  <2>1. UNCHANGED <<worker, samples, imgCount, asked>>
    BY <1>9 DEF StopRecord, CloseRecording
  <2> QED
    BY <1>5, <1>9, <2>1, MovedFacts
<1>10. CASE RunOpen
  <2>1. UNCHANGED <<worker, samples, imgCount, asked>>
    BY <1>10 DEF RunOpen
  <2> QED
    BY <1>5, <1>10, <2>1, MovedFacts
<1>11. CASE RunClose
  <2>1. UNCHANGED <<worker, samples, imgCount, asked>>
    BY <1>11 DEF RunClose
  <2> QED
    BY <1>5, <1>11, <2>1, MovedFacts
<1>12. CASE RunPublish
  <2>1. Moved(1) /\ NothingWritten /\ Published(1) /\ Task = sessionQueue[1] /\ worker = << >>
    BY <1>12, MovedFacts, DequeueFacts DEF RunPublish
  <2>2. UNCHANGED <<samples, asked>>
    BY <1>12 DEF RunPublish
  <2> DEFINE x == Task.id
  <2>3. /\ x \in Nat /\ x <= samples /\ imgCount < x
        /\ \A f \in DOMAIN disk, k \in Nat : Wrote(disk[f].msgs, k) => k < x
    BY <1>1, <1>2, <2>1
  <2>4. \A i \in Nat : Published(i)' =>
           Published(i + 1) /\ sessionQueue'[i] = sessionQueue[i + 1] /\ x < sessionQueue'[i].id
    <3> SUFFICES ASSUME NEW i \in Nat, Published(i)'
                 PROVE  Published(i + 1) /\ sessionQueue'[i] = sessionQueue[i + 1] /\ x < sessionQueue'[i].id
      OBVIOUS
    <3>1. Published(i + 1) /\ sessionQueue'[i] = sessionQueue[i + 1] /\ i # 0
      BY <2>1 DEF Moved, Published
    <3> QED
      BY <1>2, <2>1, <3>1
  <2>5. imgCount' \in Nat /\ imgCount' <= x /\ (worker' # << >> => imgCount' = imgCount /\ worker'[1].id = x)
    <3>1. CASE bag.mode # "closed"
      <4> DEFINE w == [Task EXCEPT !.seq = HeaderSeq(Task)]
      <4>1. worker' = <<w>> /\ imgCount' = imgCount
        BY <1>12, <3>1 DEF RunPublish
      <4>2. Task \in Messages
        BY <1>12, DequeueFacts, TaskFacts DEF RunPublish
      <4>3. w.id = x
        BY <4>2 DEF Messages
      <4> HIDE DEF w
      <4> QED
        BY <1>1, <2>3, <4>1, <4>3
    <3>2. CASE bag.mode = "closed"
      BY <1>1, <1>12, <2>1, <2>3, <3>2 DEF RunPublish, Counted
    <3> QED
      BY <3>1, <3>2
  <2> HIDE DEF x
  <2>6. \A n \in 1 .. Len(asked') :
            Increasing(asked'[n]) /\ \A i \in 1 .. Len(asked'[n]) : asked'[n][i] <= samples'
    BY <1>2, <2>2
  <2>7. \A i, j \in Nat : Published(i)' /\ Published(j)' /\ i < j => sessionQueue'[i].id < sessionQueue'[j].id
    BY <1>2, <2>4
  <2>8. ASSUME NEW f \in DOMAIN disk', NEW k \in Nat, Wrote(disk'[f].msgs, k) PROVE k < x
    BY <1>4, <2>1, <2>3, <2>8
  <2>9. ASSUME NEW i \in Nat, Published(i)'
        PROVE  /\ sessionQueue'[i].id <= samples' /\ imgCount' < sessionQueue'[i].id
               /\ worker' # << >> => worker'[1].id < sessionQueue'[i].id
               /\ \A f \in DOMAIN disk', k \in Nat : Wrote(disk'[f].msgs, k) => k < sessionQueue'[i].id
    <3>1. /\ x < sessionQueue'[i].id /\ sessionQueue'[i].id \in Nat
          /\ sessionQueue'[i].id <= samples
      BY <1>1, <1>2, <2>4, <2>9
    <3> QED
      BY <2>2, <2>3, <2>5, <2>8, <3>1
  <2>10. worker' # << >> =>
            /\ worker'[1].id <= samples' /\ imgCount' < worker'[1].id
            /\ \A f \in DOMAIN disk', k \in Nat : Wrote(disk'[f].msgs, k) => k < worker'[1].id
    BY <2>2, <2>3, <2>5, <2>8
  <2>11. imgCount' <= samples'
    BY <1>1, <2>2, <2>3, <2>5
  <2> QED
    BY <2>6, <2>7, <2>9, <2>10, <2>11 DEF InOrder
<1>13. CASE RunWrite
  <2>1. /\ worker # << >> /\ worker[1] \in Messages /\ DOMAIN disk' = DOMAIN disk
        /\ \A f \in DOMAIN disk :
                 disk'[f].msgs = disk[f].msgs \/ disk'[f].msgs = Append(disk[f].msgs, worker[1])
    BY <1>13, WritesOne
  <2>2. UNCHANGED <<samples, asked>> /\ Moved(0) /\ worker' = << >>
    BY <1>13, MovedFacts DEF RunWrite
  <2> DEFINE x == worker[1].id
  <2>3. x \in Nat /\ imgCount < x /\ x <= samples
    BY <1>1, <1>2, <2>1
  <2>4. imgCount' \in Nat /\ imgCount' <= x
    BY <1>1, <1>13, <2>3 DEF RunWrite, Counted
  <2>5. ASSUME NEW f \in DOMAIN disk', NEW k \in Nat, Wrote(disk'[f].msgs, k) PROVE k <= x
    <3>1. disk[f].msgs \in Seq(Messages) /\ f \in DOMAIN disk
      BY <2>1, Typed DEF RecInv
    <3>2. Wrote(disk[f].msgs, k) \/ k = x
      <4>1. Wrote(Append(disk[f].msgs, worker[1]), k) <=> Wrote(disk[f].msgs, k) \/ k = worker[1].id
        BY <2>1, <3>1, WroteAppend
      <4> QED
        BY <2>1, <2>5, <3>1, <4>1
    <3>3. Wrote(disk[f].msgs, k) => k < x
      BY <1>2, <2>1, <3>1
    <3> QED
      BY <2>3, <3>2, <3>3
  <2> HIDE DEF x
  <2>6. ASSUME NEW i \in Nat, Published(i)'
        PROVE  Published(i) /\ sessionQueue'[i] = sessionQueue[i] /\ x < sessionQueue'[i].id
    BY <1>2, <2>1, <2>2, <2>6 DEF Moved, x
  <2>7. ASSUME NEW i \in Nat, Published(i)'
        PROVE  /\ sessionQueue'[i].id <= samples' /\ imgCount' < sessionQueue'[i].id
               /\ \A f \in DOMAIN disk', k \in Nat : Wrote(disk'[f].msgs, k) => k < sessionQueue'[i].id
    <3>1. /\ x < sessionQueue'[i].id /\ sessionQueue'[i].id \in Nat
          /\ sessionQueue'[i].id <= samples
      BY <1>1, <1>2, <2>6, <2>7
    <3> QED
      BY <2>2, <2>3, <2>4, <2>5, <3>1
  <2>8. \A i, j \in Nat : Published(i)' /\ Published(j)' /\ i < j => sessionQueue'[i].id < sessionQueue'[j].id
    BY <1>2, <2>6
  <2>9. imgCount' <= samples'
    BY <1>1, <2>2, <2>3, <2>4
  <2> QED
    BY <1>2, <2>2, <2>7, <2>8, <2>9 DEF InOrder
<1> QED
  BY <1>6, <1>7, <1>8, <1>9, <1>10, <1>11, <1>12, <1>13, Steps

-----------------------------------------------------------------------------
(* The sequence numbers *)

\* The message at place h of file f was there.
OldMessage(f, h) ==
    /\ f \in DOMAIN disk /\ h \in 1 .. Len(disk[f].msgs)
    /\ disk'[f].msgs[h] = disk[f].msgs[h]

LEMMA OldMessages ==
    ASSUME RecInv
    PROVE  /\ NothingWritten =>
                 \A f \in DOMAIN disk' : \A h \in 1 .. Len(disk'[f].msgs) : OldMessage(f, h)
           /\ RunWrite =>
                 \A f \in DOMAIN disk' : \A h \in 1 .. Len(disk'[f].msgs) :
                    \/ OldMessage(f, h)
                    \/ /\ Writing /\ disk'[f].msgs[h] = worker[1]
                       /\ h = Len(disk[f].msgs) + 1
                       /\ \A g \in 1 .. Len(disk'[f].msgs) : g < h => OldMessage(f, g)
<1>1. NothingWritten => \A f \in DOMAIN disk' : \A h \in 1 .. Len(disk'[f].msgs) : OldMessage(f, h)
  <2>1. Len(<< >>) = 0
    OBVIOUS
  <2> QED
    BY <2>1 DEF NothingWritten, OldMessage
<1>2. ASSUME RunWrite, NEW f \in DOMAIN disk', NEW h \in 1 .. Len(disk'[f].msgs)
      PROVE  \/ OldMessage(f, h)
             \/ /\ Writing /\ disk'[f].msgs[h] = worker[1]
                /\ h = Len(disk[f].msgs) + 1
                /\ \A g \in 1 .. Len(disk'[f].msgs) : g < h => OldMessage(f, g)
  <2>1. /\ worker[1] \in Messages /\ f \in DOMAIN disk
        /\ \/ disk'[f].msgs = disk[f].msgs
           \/ Writing /\ disk'[f].msgs = Append(disk[f].msgs, worker[1])
    BY <1>2, WritesOne
  <2>2. disk[f].msgs \in Seq(Messages) /\ Len(disk[f].msgs) \in Nat
    BY <2>1, Typed DEF RecInv
  <2>3. CASE disk'[f].msgs = disk[f].msgs
    BY <2>1, <2>3 DEF OldMessage
  <2>4. CASE Writing /\ disk'[f].msgs = Append(disk[f].msgs, worker[1])
    <3>1. /\ Len(disk'[f].msgs) = Len(disk[f].msgs) + 1
          /\ disk'[f].msgs[Len(disk[f].msgs) + 1] = worker[1]
          /\ \A g \in 1 .. Len(disk[f].msgs) : disk'[f].msgs[g] = disk[f].msgs[g]
      BY <2>1, <2>2, <2>4, AppendProperties
    <3>2. \A g \in 1 .. Len(disk'[f].msgs) : g < Len(disk[f].msgs) + 1 => OldMessage(f, g)
      BY <2>1, <2>2, <3>1 DEF OldMessage
    <3>3. h < Len(disk[f].msgs) + 1 \/ h = Len(disk[f].msgs) + 1
      BY <2>2, <3>1
    <3> QED
      BY <2>4, <3>1, <3>2, <3>3
  <2> QED
    BY <2>1, <2>3, <2>4
<1> QED
  BY <1>1, <1>2


LEMMA StampsKept ==
    ASSUME RecInv, Next
    PROVE  Stamps'
<1>1. /\ Len(sessionQueue) \in Nat /\ imgCount \in Nat /\ imuCount \in Nat /\ gpsCount \in Nat
      /\ worker # << >> => worker[1].seq \in Nat
      /\ \A i \in Nat : Published(i) => sessionQueue[i].seq \in Nat
      /\ \A f \in DOMAIN disk : \A h \in 1 .. Len(disk[f].msgs) : disk[f].msgs[h].seq \in Nat
  <2>1. \A m \in Messages : m.seq \in Nat
    BY TaskFacts
  <2>2. \A i \in Nat : Published(i) => sessionQueue[i] \in Messages
    BY Typed, TaskFacts DEF RecInv, Published
  <2>3. \A f \in DOMAIN disk : \A h \in 1 .. Len(disk[f].msgs) : disk[f].msgs[h] \in Messages
    BY Typed DEF RecInv
  <2> QED
    BY <2>1, <2>2, <2>3, Typed DEF RecInv
<1>2. /\ \A i, j \in Nat : Published(i) /\ Published(j) /\ i < j
            /\ sessionQueue[i].kind = "imu" /\ sessionQueue[j].kind = "imu"
               => sessionQueue[i].seq < sessionQueue[j].seq
      /\ \A i \in Nat : Published(i) => QueuedStamp(i)
      /\ HandStamp
      /\ \A f \in DOMAIN disk : \A h \in 1 .. Len(disk[f].msgs) : FileStamp(f, h)
  BY DEF RecInv, Stamps
<1> USE DEF queues, files, list, counts
\* The queue moves on; nothing is written, and no counter goes back.
<1>3. ASSUME NEW p \in Nat, Moved(p), NothingWritten, worker' = worker, imgCount' = imgCount,
             imuCount' \in Nat, imuCount <= imuCount', gpsCount' \in Nat, gpsCount <= gpsCount'
      PROVE  Stamps'
  <2>1. \A i \in Nat : Published(i)' => Published(i + p) /\ sessionQueue'[i] = sessionQueue[i + p]
    BY <1>3 DEF Moved
  <2>2. \A i, j \in Nat : Published(i)' /\ Published(j)' /\ i < j
            /\ sessionQueue'[i].kind = "imu" /\ sessionQueue'[j].kind = "imu"
               => sessionQueue'[i].seq < sessionQueue'[j].seq
    BY <1>2, <1>3, <2>1
  <2>3. ASSUME NEW i \in Nat, Published(i)' PROVE QueuedStamp(i)'
    <3>1. i + p \in Nat /\ Published(i + p) /\ sessionQueue'[i] = sessionQueue[i + p]
      BY <1>3, <2>1, <2>3
    <3>2. QueuedStamp(i + p)
      BY <1>2, <3>1
    <3> QED
      BY <1>1, <1>3, <3>1, <3>2 DEF QueuedStamp
  <2>4. HandStamp'
    BY <1>1, <1>2, <1>3 DEF HandStamp
  <2>5. ASSUME NEW f \in DOMAIN disk', NEW h \in 1 .. Len(disk'[f].msgs) PROVE FileStamp(f, h)'
    <3>1. f \in DOMAIN disk /\ h \in 1 .. Len(disk[f].msgs) /\ disk'[f].msgs[h] = disk[f].msgs[h]
      BY <1>3, OldMessages DEF OldMessage
    <3>2. FileStamp(f, h) /\ disk[f].msgs[h].seq \in Nat
      BY <1>1, <1>2, <3>1
    <3>3. disk[f].msgs[h].kind = "imu" =>
             \A i \in Nat : Published(i)' /\ sessionQueue'[i].kind = "imu" =>
                disk[f].msgs[h].seq < sessionQueue'[i].seq
      BY <1>3, <2>1, <3>2 DEF FileStamp
    <3> QED
      BY <1>1, <1>3, <3>1, <3>2, <3>3 DEF FileStamp
  <2> QED
    BY <2>2, <2>3, <2>4, <2>5 DEF Stamps
<1>4. imuCount' \in Nat /\ gpsCount' \in Nat
  BY TypesKept, BoundsAssumption DEF TypeOK
<1>5. CASE Quiet
  BY <1>3, <1>4, <1>5, MovedFacts DEF Quiet
<1>6. ASSUME NEW c \in Kinds, NEW s \in 0 .. MaxSamples, Sampled(c, s)
      PROVE  Stamps'
  <2> DEFINE n == Len(sessionQueue)
  <2>1. /\ Len(sessionQueue') = n + 1 /\ \A j \in 1 .. n : sessionQueue'[j] = sessionQueue[j]
        /\ sessionQueue'[n + 1].kind = c /\ sessionQueue'[n + 1].seq = s
    BY <1>6, SampledFacts
  <2>2. /\ UNCHANGED <<worker, disk, imgCount>> /\ imuCount <= imuCount' /\ gpsCount <= gpsCount'
        /\ c = "imu" => s = imuCount /\ imuCount' = imuCount + 1
    BY <1>6 DEF Sampled
  <2>3. \A i \in Nat : Published(i)' =>
           (Published(i) /\ i < n + 1 /\ sessionQueue'[i] = sessionQueue[i]) \/ i = n + 1
    BY <1>1, <2>1 DEF Published
  <2>4. n \in Nat
    BY <1>1
  <2> HIDE DEF n
  <2>5. ASSUME NEW i \in Nat, NEW j \in Nat, Published(i)', Published(j)', i < j,
               sessionQueue'[i].kind = "imu", sessionQueue'[j].kind = "imu"
        PROVE  sessionQueue'[i].seq < sessionQueue'[j].seq
    <3>1. CASE j = n + 1
      <4>1. Published(i) /\ sessionQueue'[i] = sessionQueue[i]
        BY <2>3, <2>4, <2>5, <3>1
      <4>2. sessionQueue[i].seq < imuCount /\ sessionQueue'[j].seq = imuCount
        BY <1>2, <2>1, <2>2, <2>5, <3>1, <4>1 DEF QueuedStamp
      <4> QED
        BY <4>1, <4>2
    <3>2. CASE j # n + 1
      <4>1. j < n + 1 /\ i # n + 1
        BY <2>3, <2>4, <2>5, <3>2
      <4>2. /\ Published(i) /\ sessionQueue'[i] = sessionQueue[i]
            /\ Published(j) /\ sessionQueue'[j] = sessionQueue[j]
        BY <2>3, <2>5, <3>2, <4>1
      <4> QED
        BY <1>2, <2>5, <4>2
    <3> QED
      BY <3>1, <3>2
  <2>6. ASSUME NEW i \in Nat, Published(i)' PROVE QueuedStamp(i)'
    <3>1. CASE Published(i) /\ sessionQueue'[i] = sessionQueue[i]
      BY <1>1, <1>2, <1>4, <2>2, <3>1 DEF QueuedStamp
    <3>2. CASE i = n + 1
      BY <1>1, <1>2, <2>1, <2>2, <3>2 DEF QueuedStamp, HandStamp
    <3> QED
      BY <2>3, <2>6, <3>1, <3>2
  <2>7. HandStamp'
    BY <1>1, <1>2, <1>4, <2>2 DEF HandStamp
  <2>8. ASSUME NEW f \in DOMAIN disk', NEW h \in 1 .. Len(disk'[f].msgs) PROVE FileStamp(f, h)'
    <3> DEFINE m == disk[f].msgs[h]
    <3>1. f \in DOMAIN disk /\ h \in 1 .. Len(disk[f].msgs) /\ disk'[f].msgs[h] = m
      BY <2>2
    <3>2. FileStamp(f, h) /\ m.seq \in Nat
      BY <1>1, <1>2, <3>1
    <3>3. ASSUME m.kind = "imu", NEW i \in Nat, Published(i)', sessionQueue'[i].kind = "imu"
          PROVE  m.seq < sessionQueue'[i].seq
      <4>1. CASE Published(i) /\ sessionQueue'[i] = sessionQueue[i]
        BY <3>2, <3>3, <4>1 DEF FileStamp
      <4>2. CASE i = n + 1
        BY <2>1, <2>2, <3>2, <3>3, <4>2 DEF FileStamp
      <4> QED
        BY <2>3, <3>3, <4>1, <4>2
    <3>4. /\ m.kind = "img" => m.seq < imgCount
          /\ m.kind = "imu" => m.seq < imuCount
          /\ m.kind = "gps" => m.seq <= gpsCount
          /\ worker # << >> => Stamped(m, worker[1])
      BY <3>2 DEF FileStamp
    <3> HIDE DEF m
    <3> QED
      BY <1>1, <1>4, <2>2, <3>1, <3>2, <3>3, <3>4 DEF FileStamp
  <2> QED
    BY <2>5, <2>6, <2>7, <2>8 DEF Stamps
<1>7. CASE StartRecord
  <2>1. UNCHANGED <<worker, imgCount, imuCount, gpsCount>>
    BY <1>7 DEF StartRecord, OpenRecording
  <2> QED
    BY <1>1, <1>3, <1>7, <2>1, MovedFacts
<1>8. CASE StopRecord
  <2>1. UNCHANGED <<worker, imgCount, imuCount, gpsCount>>
    BY <1>8 DEF StopRecord, CloseRecording
  <2> QED
    BY <1>1, <1>3, <1>8, <2>1, MovedFacts
<1>9. CASE RunOpen
  <2>1. UNCHANGED <<worker, imgCount, imuCount, gpsCount>>
    BY <1>9 DEF RunOpen
  <2> QED
    BY <1>1, <1>3, <1>9, <2>1, MovedFacts
<1>10. CASE RunClose
  <2>1. UNCHANGED <<worker, imgCount, imuCount, gpsCount>>
    BY <1>10 DEF RunClose
  <2> QED
    BY <1>1, <1>3, <1>10, <2>1, MovedFacts
<1>11. CASE RunPublish
  <2>1. /\ Moved(1) /\ NothingWritten /\ Published(1) /\ Task = sessionQueue[1] /\ worker = << >>
        /\ Task \in Messages
    BY <1>11, MovedFacts, DequeueFacts, TaskFacts DEF RunPublish
  <2>2. UNCHANGED <<imuCount, gpsCount>>
    BY <1>11 DEF RunPublish
  <2>3. CASE bag.mode = "closed"
    <3>1. worker' = << >> /\ imgCount' \in Nat /\ imgCount <= imgCount'
      BY <1>1, <1>11, <2>1, <2>3 DEF RunPublish, Counted
    <3>2. \A i \in Nat : Published(i)' => Published(i + 1) /\ sessionQueue'[i] = sessionQueue[i + 1]
      BY <2>1 DEF Moved
    <3>3. \A i, j \in Nat : Published(i)' /\ Published(j)' /\ i < j
            /\ sessionQueue'[i].kind = "imu" /\ sessionQueue'[j].kind = "imu"
               => sessionQueue'[i].seq < sessionQueue'[j].seq
      BY <1>2, <3>2
    <3>4. ASSUME NEW i \in Nat, Published(i)' PROVE QueuedStamp(i)'
      <4>1. Published(i + 1) /\ sessionQueue'[i] = sessionQueue[i + 1] /\ QueuedStamp(i + 1)
        BY <1>2, <3>2, <3>4
      <4> QED
        BY <2>2, <3>1, <4>1 DEF QueuedStamp
    <3>5. HandStamp'
      BY <3>1 DEF HandStamp
    <3>6. ASSUME NEW f \in DOMAIN disk', NEW h \in 1 .. Len(disk'[f].msgs) PROVE FileStamp(f, h)'
      <4>1. f \in DOMAIN disk /\ h \in 1 .. Len(disk[f].msgs) /\ disk'[f].msgs[h] = disk[f].msgs[h]
        BY <2>1, OldMessages DEF OldMessage
      <4>2. FileStamp(f, h) /\ disk[f].msgs[h].seq \in Nat
        BY <1>1, <1>2, <4>1
      <4>3. disk[f].msgs[h].kind = "imu" =>
             \A i \in Nat : Published(i)' /\ sessionQueue'[i].kind = "imu" =>
                disk[f].msgs[h].seq < sessionQueue'[i].seq
        BY <3>2, <4>2 DEF FileStamp
      <4> QED
        BY <1>1, <2>2, <3>1, <4>1, <4>2, <4>3 DEF FileStamp
    <3> QED
      BY <3>3, <3>4, <3>5, <3>6 DEF Stamps
  <2>4. CASE bag.mode # "closed"
    <3> DEFINE w == [Task EXCEPT !.seq = HeaderSeq(Task)]
    <3>1. worker' = <<w>> /\ imgCount' = imgCount
      BY <1>11, <2>4 DEF RunPublish
    <3>2. w.kind = Task.kind /\ w.seq = HeaderSeq(Task)
      BY <2>1 DEF Messages
    <3>3. /\ Task.kind = "img" => w.seq = imgCount
          /\ Task.kind = "imu" => w.seq = Task.seq
          /\ Task.kind = "gps" => w.seq = gpsCount
          /\ Task.kind \in {"img", "imu", "gps"}
      BY <2>1, <3>2, TaskFacts DEF HeaderSeq, Kinds
    <3>4. Task.kind = "imu" => Task.seq < imuCount
      BY <1>2, <2>1 DEF QueuedStamp
    <3> HIDE DEF w
    <3>5. \A i \in Nat : Published(i)' => Published(i + 1) /\ sessionQueue'[i] = sessionQueue[i + 1] /\ 1 < i + 1
      BY <2>1 DEF Moved, Published
    <3>6. \A i, j \in Nat : Published(i)' /\ Published(j)' /\ i < j
            /\ sessionQueue'[i].kind = "imu" /\ sessionQueue'[j].kind = "imu"
               => sessionQueue'[i].seq < sessionQueue'[j].seq
      BY <1>2, <3>5
    <3>7. ASSUME NEW i \in Nat, Published(i)' PROVE QueuedStamp(i)'
      <4>1. Published(i + 1) /\ sessionQueue'[i] = sessionQueue[i + 1] /\ QueuedStamp(i + 1) /\ 1 < i + 1
        BY <1>2, <3>5, <3>7
      <4>2. Task.kind = "imu" /\ sessionQueue'[i].kind = "imu" => Task.seq < sessionQueue'[i].seq
        BY <1>2, <2>1, <4>1
      <4> QED
        BY <2>2, <3>1, <3>2, <3>3, <4>1, <4>2 DEF QueuedStamp
    <3>8. HandStamp'
      <4>1. gpsCount <= gpsCount
        BY <1>1
      <4> QED
        BY <2>2, <3>1, <3>2, <3>3, <3>4, <4>1 DEF HandStamp
    <3>9. ASSUME NEW f \in DOMAIN disk', NEW h \in 1 .. Len(disk'[f].msgs) PROVE FileStamp(f, h)'
      <4> DEFINE m == disk[f].msgs[h]
      <4>1. f \in DOMAIN disk /\ h \in 1 .. Len(disk[f].msgs) /\ disk'[f].msgs[h] = m
        BY <2>1, OldMessages DEF OldMessage
      <4>2. FileStamp(f, h) /\ m.seq \in Nat
        BY <1>1, <1>2, <4>1
      <4>3. m.kind = "imu" =>
             \A i \in Nat : Published(i)' /\ sessionQueue'[i].kind = "imu" => m.seq < sessionQueue'[i].seq
        BY <3>5, <4>2 DEF FileStamp
      <4>4. m.kind = "imu" /\ Task.kind = "imu" => m.seq < Task.seq
        BY <2>1, <4>2 DEF FileStamp
      <4>5. /\ m.kind = "img" => m.seq < imgCount
            /\ m.kind = "imu" => m.seq < imuCount
            /\ m.kind = "gps" => m.seq <= gpsCount
        BY <4>2 DEF FileStamp
      <4> HIDE DEF m
      <4>6. Stamped(m, w)
        BY <1>1, <3>2, <3>3, <4>2, <4>4, <4>5 DEF Stamped, StampFollows
      <4> QED
        BY <2>2, <3>1, <4>1, <4>3, <4>5, <4>6 DEF FileStamp
    <3> QED
      BY <3>6, <3>7, <3>8, <3>9 DEF Stamps
  <2> QED
    BY <2>3, <2>4
<1>12. CASE RunWrite
  <2>1. worker # << >> /\ worker[1] \in Messages
    BY <1>12, WritesOne
  <2>2. UNCHANGED <<imuCount, gpsCount>> /\ Moved(0) /\ worker' = << >>
    BY <1>12, MovedFacts DEF RunWrite
  <2> DEFINE w == worker[1]
  <2>3. /\ imgCount' \in Nat /\ imgCount <= imgCount'
        /\ Writing /\ w.kind = "img" => imgCount' = imgCount + 1
    BY <1>1, <1>12 DEF RunWrite, Counted, Writing
  <2>4. \A i \in Nat : Published(i)' => Published(i) /\ sessionQueue'[i] = sessionQueue[i]
    BY <2>2 DEF Moved
  <2>5. \A i, j \in Nat : Published(i)' /\ Published(j)' /\ i < j
            /\ sessionQueue'[i].kind = "imu" /\ sessionQueue'[j].kind = "imu"
               => sessionQueue'[i].seq < sessionQueue'[j].seq
    BY <1>2, <2>4
  <2>6. ASSUME NEW i \in Nat, Published(i)' PROVE QueuedStamp(i)'
    BY <1>2, <2>2, <2>4, <2>6 DEF QueuedStamp
  <2>7. HandStamp'
    BY <2>2 DEF HandStamp
  <2>8. ASSUME NEW f \in DOMAIN disk', NEW h \in 1 .. Len(disk'[f].msgs) PROVE FileStamp(f, h)'
    <3>1. CASE OldMessage(f, h)
      <4> DEFINE m == disk[f].msgs[h]
      <4>1. f \in DOMAIN disk /\ h \in 1 .. Len(disk[f].msgs) /\ disk'[f].msgs[h] = m
        BY <3>1 DEF OldMessage
      <4>2. FileStamp(f, h) /\ m.seq \in Nat
        BY <1>1, <1>2, <4>1
      <4>3. m.kind = "imu" =>
             \A i \in Nat : Published(i)' /\ sessionQueue'[i].kind = "imu" => m.seq < sessionQueue'[i].seq
        BY <2>4, <4>2 DEF FileStamp
      <4>4. /\ m.kind = "img" => m.seq < imgCount
            /\ m.kind = "imu" => m.seq < imuCount
            /\ m.kind = "gps" => m.seq <= gpsCount
        BY <4>2 DEF FileStamp
      <4> HIDE DEF m
      <4> QED
        BY <1>1, <2>2, <2>3, <4>1, <4>2, <4>3, <4>4 DEF FileStamp
    <3>2. CASE Writing /\ disk'[f].msgs[h] = w
      <4>1. /\ w.kind = "img" => w.seq = imgCount
            /\ w.kind = "imu" => w.seq < imuCount
            /\ w.kind = "gps" => w.seq <= gpsCount
        BY <1>2, <2>1 DEF HandStamp
      <4>2. w.kind = "imu" =>
             \A i \in Nat : Published(i)' /\ sessionQueue'[i].kind = "imu" => w.seq < sessionQueue'[i].seq
        BY <1>2, <2>1, <2>4 DEF QueuedStamp
      <4> HIDE DEF w
      <4> QED
        BY <1>1, <2>2, <2>3, <3>2, <4>1, <4>2 DEF FileStamp
    <3> QED
      BY <1>12, <3>1, <3>2, OldMessages
  <2> QED
    BY <2>5, <2>6, <2>7, <2>8 DEF Stamps
<1> QED
  BY <1>5, <1>6, <1>7, <1>8, <1>9, <1>10, <1>11, <1>12, Steps

LEMMA StampsIncreaseKept ==
    ASSUME RecInv, Next
    PROVE  StampsIncrease'
<1>1. \A f \in DOMAIN disk' : DOMAIN disk'[f].msgs = 1 .. Len(disk'[f].msgs) /\ Len(disk'[f].msgs) \in Nat
  <2>1. \A f \in DOMAIN disk' : disk'[f] \in Bags
    BY TypesKept DEF TypeOK
  <2> QED
    BY <2>1, BagFacts, LenProperties
<1>2. \A f \in DOMAIN disk : DOMAIN disk[f].msgs = 1 .. Len(disk[f].msgs)
  BY Typed, LenProperties DEF RecInv
<1> SUFFICES ASSUME NEW f \in DOMAIN disk', NEW i \in 1 .. Len(disk'[f].msgs),
                    NEW j \in 1 .. Len(disk'[f].msgs), i < j,
                    disk'[f].msgs[i].kind = disk'[f].msgs[j].kind
             PROVE  StampFollows(disk'[f].msgs[i], disk'[f].msgs[j])
  BY <1>1 DEF StampsIncrease
<1>3. CASE OldMessage(f, i) /\ OldMessage(f, j)
  BY <1>2, <1>3 DEF OldMessage, RecInv, StampsIncrease
<1>4. CASE NothingWritten
  BY <1>3, <1>4, OldMessages
<1>5. CASE RunWrite
  <2>1. OldMessage(f, j) \/ (disk'[f].msgs[j] = worker[1] /\ OldMessage(f, i))
    BY <1>5, OldMessages
  <2>2. OldMessage(f, i)
    <3>1. CASE OldMessage(f, j)
      <4>1. j \in 1 .. Len(disk[f].msgs)
        BY <3>1 DEF OldMessage
      <4>2. i # Len(disk[f].msgs) + 1
        BY <1>1, <4>1
      <4> QED
        BY <1>5, <4>2, OldMessages
    <3>2. CASE OldMessage(f, i)
      BY <3>2
    <3> QED
      BY <2>1, <3>1, <3>2
  <2>3. CASE disk'[f].msgs[j] = worker[1]
    <3>1. /\ f \in DOMAIN disk /\ i \in 1 .. Len(disk[f].msgs)
          /\ disk'[f].msgs[i] = disk[f].msgs[i]
      BY <2>2 DEF OldMessage
    <3>2. worker # << >>
      BY <1>5, WritesOne
    <3>3. Stamped(disk[f].msgs[i], worker[1])
      BY <3>1, <3>2 DEF RecInv, Stamps, FileStamp
    <3> QED
      BY <2>3, <3>1, <3>3 DEF Stamped
  <2> QED
    BY <1>3, <2>1, <2>2, <2>3
<1>6. ASSUME NEW c \in Kinds, NEW s \in 0 .. MaxSamples, Sampled(c, s) PROVE NothingWritten
  BY <1>6 DEF Sampled, NothingWritten
<1> QED
  BY <1>4, <1>5, <1>6, Steps, MovedFacts

-----------------------------------------------------------------------------
(* The files *)

\* A bag that is closed by a block of the queue has all the samples of its recording.
LEMMA ClosedIsComplete ==
    ASSUME RecInv, NEW op, op # "publish", Dequeue(op), Writing
    PROVE  /\ Ids(disk[bag.file].msgs) = asked[disk[bag.file].rec]
           /\ ~IsOn(disk[bag.file].rec)
<1> DEFINE f == bag.file
<1> DEFINE a == asked[bag.rec]
<1> DEFINE s == Ids(disk[f].msgs)
<1>1. worker = << >> /\ ~OpenEnded(sessionQueue, 0) /\ \A k \in Nat : ~Due(sessionQueue, 0, k)
  BY DequeueFacts
<1>2. f \in DOMAIN disk /\ disk[f].rec = bag.rec /\ bag.mode = "write"
  BY DEF Writing
<1>3. bag.rec \in 1 .. Len(asked) /\ ~IsOn(bag.rec)
  BY <1>1, <1>2, Typed DEF RecInv, Switched
<1>4. \A k \in Nat : Has(a, k) => Wrote(disk[f].msgs, k)
  BY <1>1 DEF RecInv, Accounted, InHand
<1>5. disk[f].msgs \in Seq(Messages) /\ a \in Seq(Nat)
  BY <1>2, <1>3, Typed DEF RecInv
<1>6. s \in Seq(Nat) /\ Len(s) = Len(disk[f].msgs) /\ \A i \in 1 .. Len(disk[f].msgs) : s[i] = disk[f].msgs[i].id
  BY <1>5, IdsFacts
<1>7. Increasing(a)
  BY <1>3 DEF RecInv, InOrder
<1>8. Prefix(s, a)
  BY <1>2 DEF RecInv, FilesArePrefixes
<1> HIDE DEF s, a
<1>9. \A i \in 1 .. Len(a) : \E h \in 1 .. Len(s) : s[h] = a[i]
  <2> SUFFICES ASSUME NEW i \in 1 .. Len(a) PROVE \E h \in 1 .. Len(s) : s[h] = a[i]
    OBVIOUS
  <2>1. a[i] \in Nat
    BY <1>5, ElementOfSeq
  <2>2. Has(a, a[i])
    BY DEF Has
  <2>3. Wrote(disk[f].msgs, a[i])
    BY <1>4, <2>1, <2>2
  <2> QED
    BY <1>6, <2>3 DEF Wrote
<1>10. s = a
  BY <1>5, <1>6, <1>7, <1>8, <1>9, PrefixComplete
<1> QED
  BY <1>2, <1>3, <1>10 DEF s, a

LEMMA FilesKept ==
    ASSUME RecInv, Next
    PROVE  FilesArePrefixes'
<1>1. /\ Len(asked) \in Nat /\ samples \in Nat /\ replays \in Nat
      /\ asked \in Seq(Seq(1 .. MaxSamples))
      /\ \A n \in 1 .. Len(asked) : asked[n] \in Seq(Nat)
      /\ \A f \in DOMAIN disk : disk[f].msgs \in Seq(Messages) /\ disk[f].rec \in 1 .. MaxRecs
  BY Typed DEF RecInv
<1>2. \A f \in DOMAIN disk :
        /\ disk[f].rec \in 1 .. Len(asked)
        /\ Prefix(Ids(disk[f].msgs), asked[disk[f].rec])
        /\ replays = 0 /\ disk[f].readable =>
              Ids(disk[f].msgs) = asked[disk[f].rec] /\ ~IsOn(disk[f].rec)
  BY <1>1 DEF RecInv, FilesArePrefixes
<1> USE DEF queues, files, list, counts
\* The files that are kept are as they were, and so are their recordings.
<1>3. ASSUME NEW f \in DOMAIN disk, f \in DOMAIN disk',
             disk'[f].rec = disk[f].rec, disk'[f].msgs = disk[f].msgs,
             Len(asked) <= Len(asked'), asked'[disk[f].rec] = asked[disk[f].rec],
             replays' = 0 /\ disk'[f].readable =>
                 \/ replays = 0 /\ disk[f].readable /\ (isRecordOn' /\ disk[f].rec = Len(asked') => IsOn(disk[f].rec))
                 \/ Ids(disk[f].msgs) = asked[disk[f].rec] /\ ~(isRecordOn' /\ disk[f].rec = Len(asked'))
      PROVE  /\ disk'[f].rec <= Len(asked')
             /\ Prefix(Ids(disk'[f].msgs), asked'[disk'[f].rec])
             /\ replays' = 0 /\ disk'[f].readable =>
                   /\ Ids(disk'[f].msgs) = asked'[disk'[f].rec]
                   /\ ~(isRecordOn' /\ disk'[f].rec = Len(asked'))
  <2>1. disk[f].rec <= Len(asked')
    <3>1. Len(asked') \in Nat
      BY TypesKept, Typed DEF TypeOK
    <3> QED
      BY <1>1, <1>2, <1>3, <3>1
  <2> QED
    BY <1>2, <1>3, <2>1
<1>4. CASE Quiet
  <2>1. UNCHANGED <<asked, isRecordOn>> /\ (replays' = 0 => replays = 0)
    BY <1>1, <1>4 DEF Quiet
  <2>2. \A f \in DOMAIN disk' : /\ f \in DOMAIN disk
                                /\ disk'[f].rec = disk[f].rec /\ disk'[f].msgs = disk[f].msgs
                                /\ disk'[f].readable /\ replays' = 0 => disk[f].readable
    BY <1>4 DEF Quiet
  <2>3. ASSUME NEW f \in DOMAIN disk'
        PROVE  /\ disk'[f].rec <= Len(asked')
               /\ Prefix(Ids(disk'[f].msgs), asked'[disk'[f].rec])
               /\ replays' = 0 /\ disk'[f].readable =>
                     /\ Ids(disk'[f].msgs) = asked'[disk'[f].rec]
                     /\ ~(isRecordOn' /\ disk'[f].rec = Len(asked'))
    BY <1>1, <1>2, <2>1, <2>2 DEF IsOn
  <2> QED
    BY <2>3 DEF FilesArePrefixes, IsOn
<1>5. ASSUME NEW c \in Kinds, NEW s \in 0 .. MaxSamples, Sampled(c, s)
      PROVE  FilesArePrefixes'
  <2>1. UNCHANGED <<disk, isRecordOn, replays>> /\ Len(asked') = Len(asked)
    BY <1>5, SampledFacts DEF Sampled
  <2>2. ASSUME NEW f \in DOMAIN disk, IsOn(disk[f].rec)
        PROVE  /\ disk'[f].rec <= Len(asked')
               /\ Prefix(Ids(disk'[f].msgs), asked'[disk'[f].rec])
               /\ replays' = 0 /\ disk'[f].readable =>
                     /\ Ids(disk'[f].msgs) = asked'[disk'[f].rec]
                     /\ ~(isRecordOn' /\ disk'[f].rec = Len(asked'))
    <3> DEFINE a == asked[disk[f].rec]
    <3> DEFINE t == Ids(disk[f].msgs)
    <3>1. asked'[disk[f].rec] = Append(a, samples + 1)
      BY <1>2, <1>5, <2>2, AskedFacts
    <3>2. a \in Seq(Nat) /\ t \in Seq(Nat) /\ Prefix(t, a)
      BY <1>1, <1>2, IdsFacts
    <3> HIDE DEF a, t
    <3>3. Prefix(t, Append(a, samples + 1))
      <4>1. /\ Len(a) \in Nat /\ Len(t) \in Nat /\ Len(Append(a, samples + 1)) = Len(a) + 1
            /\ \A i \in 1 .. Len(a) : Append(a, samples + 1)[i] = a[i]
        BY <1>1, <3>2, LenProperties, AppendProperties
      <4> QED
        BY <3>2, <4>1 DEF Prefix
    <3> QED
      BY <1>2, <2>1, <2>2, <3>1, <3>3 DEF t
  <2>3. ASSUME NEW f \in DOMAIN disk, ~IsOn(disk[f].rec)
        PROVE  /\ disk'[f].rec <= Len(asked')
               /\ Prefix(Ids(disk'[f].msgs), asked'[disk'[f].rec])
               /\ replays' = 0 /\ disk'[f].readable =>
                     /\ Ids(disk'[f].msgs) = asked'[disk'[f].rec]
                     /\ ~(isRecordOn' /\ disk'[f].rec = Len(asked'))
    <3>1. asked'[disk[f].rec] = asked[disk[f].rec]
      BY <1>2, <1>5, <2>3, AskedFacts
    <3> QED
      BY <1>2, <2>1, <2>3, <3>1 DEF IsOn
  <2> QED
    BY <2>1, <2>2, <2>3 DEF FilesArePrefixes, IsOn
<1>6. CASE StartRecord
  <2>1. Len(asked') = Len(asked) + 1 /\ \A n \in 1 .. Len(asked) : asked'[n] = asked[n]
    <3>1. << >> \in Seq(1 .. MaxSamples) /\ asked' = Append(asked, << >>)
      BY <1>6, EmptySeq DEF StartRecord, OpenRecording
    <3> QED
      BY <1>1, <3>1, AppendProperties
  <2>2. UNCHANGED <<disk, replays>>
    BY <1>6 DEF StartRecord, OpenRecording
  <2>3. ASSUME NEW f \in DOMAIN disk
        PROVE  /\ disk[f].rec <= Len(asked') /\ asked'[disk[f].rec] = asked[disk[f].rec]
               /\ disk[f].rec # Len(asked')
    BY <1>1, <1>2, <2>1
  <2> QED
    BY <1>2, <1>6, <2>2, <2>3 DEF FilesArePrefixes, IsOn, StartRecord
<1>7. CASE StopRecord
  <2>1. UNCHANGED <<disk, replays, asked>> /\ ~isRecordOn'
    BY <1>7 DEF StopRecord, CloseRecording
  <2> QED
    BY <1>1, <1>2, <2>1 DEF FilesArePrefixes, IsOn
\* A block closes the bag.
<1>8. ASSUME NEW op, op # "publish", Dequeue(op), NEW f \in DOMAIN disk, f \in DOMAIN disk',
             disk'[f] = Sealed(disk)[f], UNCHANGED <<asked, isRecordOn, replays>>
      PROVE  /\ disk'[f].rec <= Len(asked')
             /\ Prefix(Ids(disk'[f].msgs), asked'[disk'[f].rec])
             /\ replays' = 0 /\ disk'[f].readable =>
                   /\ Ids(disk'[f].msgs) = asked'[disk'[f].rec]
                   /\ ~(isRecordOn' /\ disk'[f].rec = Len(asked'))
  <2>1. /\ disk'[f].rec = disk[f].rec /\ disk'[f].msgs = disk[f].msgs
        /\ disk'[f].readable => disk[f].readable \/ (Writing /\ f = bag.file)
    BY <1>8, SealedFacts DEF RecInv
  <2>2. Writing /\ f = bag.file => Ids(disk[f].msgs) = asked[disk[f].rec] /\ ~IsOn(disk[f].rec)
    BY <1>8, ClosedIsComplete
  <2> QED
    BY <1>1, <1>2, <1>8, <2>1, <2>2 DEF IsOn
<1>9. CASE RunOpen
  <2>1. /\ Task.op = "open" /\ Task \in Tasks /\ Task = sessionQueue[1] /\ 1 \in 1 .. Len(sessionQueue)
    BY <1>9, DequeueFacts DEF RunOpen
  <2>2. Task.rec \in 1 .. MaxRecs /\ Task.rec <= Len(asked)
    BY <2>1, TaskFacts DEF RecInv, Switched, SwitchOf
  <2>3. /\ DOMAIN disk' = DOMAIN disk \union {clock}
        /\ disk'[clock].rec = Task.rec /\ disk'[clock].msgs = << >> /\ disk'[clock].readable = FALSE
        /\ \A f \in DOMAIN disk : f # clock => disk'[f] = Sealed(disk)[f]
    BY <1>9, <2>2, OpenFacts DEF RunOpen, RecInv
  <2>4. UNCHANGED <<asked, isRecordOn, replays>> /\ Dequeue("open")
    BY <1>9 DEF RunOpen
  <2>5. Prefix(Ids(<< >>), asked[Task.rec])
    <3>1. << >> \in Seq(Messages)
      BY EmptySeq
    <3>2. Len(Ids(<< >>)) = 0
      BY <3>1, IdsFacts
    <3>3. Task.rec \in 1 .. Len(asked)
      BY <2>2
    <3>4. Len(asked[Task.rec]) \in Nat
      BY <1>1, <3>3, LenProperties
    <3> QED
      BY <3>2, <3>4 DEF Prefix
  <2>6. ASSUME NEW f \in DOMAIN disk'
        PROVE  /\ disk'[f].rec <= Len(asked')
               /\ Prefix(Ids(disk'[f].msgs), asked'[disk'[f].rec])
               /\ replays' = 0 /\ disk'[f].readable =>
                     /\ Ids(disk'[f].msgs) = asked'[disk'[f].rec]
                     /\ ~(isRecordOn' /\ disk'[f].rec = Len(asked'))
    <3>1. CASE f = clock
      BY <2>2, <2>3, <2>4, <2>5, <3>1
    <3>2. CASE f # clock
      BY <1>8, <2>3, <2>4, <3>2
    <3> QED
      BY <3>1, <3>2
  <2> QED
    BY <2>6 DEF FilesArePrefixes, IsOn
<1>10. CASE RunClose
  <2>1. disk' = Sealed(disk) /\ DOMAIN Sealed(disk) = DOMAIN disk
    BY <1>10, SealedFacts DEF RunClose, RecInv
  <2>2. UNCHANGED <<asked, isRecordOn, replays>> /\ Dequeue("close")
    BY <1>10 DEF RunClose
  <2>3. ASSUME NEW f \in DOMAIN disk'
        PROVE  /\ disk'[f].rec <= Len(asked')
               /\ Prefix(Ids(disk'[f].msgs), asked'[disk'[f].rec])
               /\ replays' = 0 /\ disk'[f].readable =>
                     /\ Ids(disk'[f].msgs) = asked'[disk'[f].rec]
                     /\ ~(isRecordOn' /\ disk'[f].rec = Len(asked'))
    BY <1>8, <2>1, <2>2
  <2> QED
    BY <2>3 DEF FilesArePrefixes, IsOn
<1>11. CASE RunPublish
  <2>1. UNCHANGED <<disk, replays, asked, isRecordOn>>
    BY <1>11 DEF RunPublish
  <2> QED
    BY <1>1, <1>2, <2>1 DEF FilesArePrefixes, IsOn
<1>12. CASE RunWrite
  <2>1. UNCHANGED <<asked, isRecordOn, replays, sessionQueue>>
    BY <1>12 DEF RunWrite
  <2>2. /\ worker # << >> /\ worker[1] \in Messages /\ DOMAIN disk' = DOMAIN disk
        /\ \A f \in DOMAIN disk :
              /\ disk'[f].rec = disk[f].rec /\ disk'[f].readable = disk[f].readable
              /\ disk'[f].msgs = disk[f].msgs \/
                 (Writing /\ f = bag.file /\ disk'[f].msgs = Append(disk[f].msgs, worker[1]))
    BY <1>12, WritesOne
  <2>3. ASSUME NEW f \in DOMAIN disk, disk'[f].msgs = disk[f].msgs
        PROVE  /\ disk'[f].rec <= Len(asked')
               /\ Prefix(Ids(disk'[f].msgs), asked'[disk'[f].rec])
               /\ replays' = 0 /\ disk'[f].readable =>
                     /\ Ids(disk'[f].msgs) = asked'[disk'[f].rec]
                     /\ ~(isRecordOn' /\ disk'[f].rec = Len(asked'))
    BY <1>1, <1>2, <2>1, <2>2, <2>3 DEF IsOn
  <2>4. ASSUME NEW f \in DOMAIN disk, Writing, f = bag.file,
               disk'[f].msgs = Append(disk[f].msgs, worker[1])
        PROVE  /\ disk'[f].rec <= Len(asked')
               /\ Prefix(Ids(disk'[f].msgs), asked'[disk'[f].rec])
               /\ replays' = 0 /\ disk'[f].readable =>
                     /\ Ids(disk'[f].msgs) = asked'[disk'[f].rec]
                     /\ ~(isRecordOn' /\ disk'[f].rec = Len(asked'))
    <3> DEFINE w == worker[1]
    <3> DEFINE m == disk[f].msgs
    <3> DEFINE t == Ids(m)
    <3> DEFINE a == asked[disk[f].rec]
    <3>1. disk[f].rec = bag.rec
      BY <2>4 DEF Writing
    <3>2. \A k \in Nat : Has(a, k) <=> Wrote(m, k) \/ k = w.id \/ Due(sessionQueue, 0, k)
      BY <2>2, <2>4, <3>1 DEF RecInv, Accounted, InHand
    <3>3. m \in Seq(Messages) /\ a \in Seq(Nat) /\ w.id \in Nat
      BY <1>1, <1>2, <2>2, TaskFacts
    <3>4. t \in Seq(Nat) /\ Len(t) = Len(m) /\ \A i \in 1 .. Len(m) : t[i] = m[i].id
      BY <3>3, IdsFacts
    <3>5. Increasing(a)
      BY <1>2 DEF RecInv, InOrder
    <3>6. Prefix(t, a)
      BY <1>2
    <3>7. \A k \in Nat : Wrote(m, k) => k < w.id
      BY <2>2 DEF RecInv, InOrder
    <3>8. \A k \in Nat : Due(sessionQueue, 0, k) => w.id < k
      <4>1. \A i \in Nat : Published(i) => w.id < sessionQueue[i].id
        BY <2>2 DEF RecInv, InOrder
      <4>2. \A i \in 1 .. Len(sessionQueue) : sessionQueue[i].op = "publish" => Published(i) /\ i \in Nat
        BY DEF Published
      <4> QED
        BY <4>1, <4>2 DEF Due
    <3>9. worker[1] \in Messages /\ disk'[f].msgs = Append(m, w)
      BY <2>2, <2>4
    <3> HIDE DEF w, m, t, a
    <3>10. \E i \in 1 .. Len(a) : a[i] = w.id
      BY <3>2, <3>3 DEF Has
    <3>11. \A i \in 1 .. Len(a) : w.id <= a[i] \/ \E h \in 1 .. Len(t) : t[h] = a[i]
      <4> SUFFICES ASSUME NEW i \in 1 .. Len(a), ~(w.id <= a[i])
                   PROVE  \E h \in 1 .. Len(t) : t[h] = a[i]
        OBVIOUS
      <4>1. a[i] \in Nat /\ Has(a, a[i])
        BY <3>3, ElementOfSeq DEF Has
      <4>2. Wrote(m, a[i])
        BY <3>2, <3>3, <3>8, <4>1
      <4> QED
        BY <3>4, <4>2 DEF Wrote
    <3>12. \A h \in 1 .. Len(t) : t[h] < w.id
      <4> SUFFICES ASSUME NEW h \in 1 .. Len(t) PROVE t[h] < w.id
        OBVIOUS
      <4>1. t[h] \in Nat
        BY <3>4, ElementOfSeq
      <4>2. Wrote(m, t[h])
        BY <3>4 DEF Wrote
      <4> QED
        BY <3>7, <4>1, <4>2
    <3>13. Prefix(Append(t, w.id), a)
      BY <3>3, <3>4, <3>5, <3>6, <3>10, <3>11, <3>12, PrefixGrows
    <3>14. w \in Messages
      BY <3>9 DEF w
    <3>15. Ids(Append(m, w)) = Append(t, w.id)
      <4>1. Append(m, w) \in Seq(Messages)
        BY <3>3, <3>14, AppendProperties
      <4>2. /\ Len(Append(m, w)) = Len(m) + 1 /\ Append(m, w)[Len(m) + 1] = w
            /\ \A i \in 1 .. Len(m) : Append(m, w)[i] = m[i] /\ Len(m) \in Nat
        BY <3>3, <3>14, AppendProperties, LenProperties
      <4>3. /\ Len(Append(t, w.id)) = Len(m) + 1 /\ Append(t, w.id)[Len(m) + 1] = w.id
            /\ Append(t, w.id) \in Seq(Nat)
            /\ \A i \in 1 .. Len(m) : Append(t, w.id)[i] = t[i]
        BY <3>3, <3>4, AppendProperties
      <4>4. /\ Ids(Append(m, w)) \in Seq(Nat) /\ Len(Ids(Append(m, w))) = Len(m) + 1
            /\ \A i \in 1 .. Len(m) + 1 : Ids(Append(m, w))[i] = Append(m, w)[i].id
        BY <4>1, <4>2, IdsFacts
      <4>5. Len(m) \in Nat
        BY <3>3, LenProperties
      <4>6. \A i \in 1 .. Len(m) + 1 : Ids(Append(m, w))[i] = Append(t, w.id)[i]
        <5> SUFFICES ASSUME NEW i \in 1 .. Len(m) + 1
                     PROVE  Ids(Append(m, w))[i] = Append(t, w.id)[i]
          OBVIOUS
        <5>1. CASE i \in 1 .. Len(m)
          BY <3>4, <4>2, <4>3, <4>4, <5>1
        <5>2. CASE i = Len(m) + 1
          BY <4>2, <4>3, <4>4, <5>2
        <5>3. i \in 1 .. Len(m) \/ i = Len(m) + 1
          BY <4>5
        <5> QED
          BY <5>1, <5>2, <5>3
      <4> QED
        BY <4>3, <4>4, <4>6, SeqEqual
    <3>16. Prefix(Ids(disk'[f].msgs), a)
      BY <3>9, <3>13, <3>15
    \* It is not readable while it is being written, unless a replay came.
    <3>17. replays = 0 => ~disk[f].readable
      <4> SUFFICES ASSUME replays = 0, disk[f].readable PROVE FALSE
        OBVIOUS
      <4>1. t = a
        BY <1>2 DEF t, a, m
      <4>2. PICK i \in 1 .. Len(t) : t[i] = w.id
        BY <3>10, <4>1
      <4> QED
        BY <3>3, <3>12, <4>2
    <3> QED
      BY <1>1, <1>2, <2>1, <2>2, <3>16, <3>17 DEF a
  <2> QED
    BY <2>2, <2>3, <2>4 DEF FilesArePrefixes, IsOn
<1> QED
  BY <1>4, <1>5, <1>6, <1>7, <1>9, <1>10, <1>11, <1>12, Steps

-----------------------------------------------------------------------------
(* Theorems *)

LEMMA RecInvInit ==
    ASSUME Init
    PROVE  RecInv
<1> USE BoundsAssumption
<1>1. TypeOK
  <2>1. DOMAIN disk = {} /\ disk \in [{} -> Bags]
    BY DEF Init
  <2>2. sessionQueue \in Seq(Tasks) /\ asked \in Seq(Seq(1 .. MaxSamples)) /\ Len(asked) = 0
    BY EmptySeq DEF Init
  <2>3. clock \in Files
    BY DEF Init, Files
  <2>4. /\ app \in {"running", "exited", "assert_failed", "terminated"}
        /\ isRecordOn \in BOOLEAN /\ isRecordingBag \in BOOLEAN /\ isPublishing \in BOOLEAN
        /\ worker = << >> /\ bag = Closed /\ replay \in {"none", "loading", "shown"}
    BY DEF Init
  <2>5. /\ imgCount \in 0 .. MaxSamples /\ imuCount \in 0 .. MaxSamples /\ gpsCount \in 0 .. MaxSamples
        /\ samples \in 0 .. MaxSamples /\ replays \in 0 .. MaxReplays
    BY DEF Init
  <2>6. fileListData \subseteq Files /\ selectedFile \in Files \union {NoFile}
    BY DEF Init
  <2> QED
    BY <2>1, <2>2, <2>3, <2>4, <2>5, <2>6 DEF TypeOK
<1>2. Len(sessionQueue) = 0 /\ Len(asked) = 0 /\ DOMAIN disk = {} /\ worker = << >>
  BY DEF Init
<1>3. bag.mode # "write"
  BY DEF Init, Closed
<1>4. Switched
  BY <1>2, <1>3 DEF Init, Switched
<1>5. Accounted
  BY <1>2, <1>3 DEF Accounted, Writing
<1>6. InOrder
  BY <1>2 DEF Init, InOrder, Published
<1>7. Stamps
  BY <1>2 DEF Stamps, HandStamp, Published
<1>8. StampsIncrease /\ FilesArePrefixes
  BY <1>2 DEF StampsIncrease, FilesArePrefixes
<1> QED
  BY <1>1, <1>4, <1>5, <1>6, <1>7, <1>8 DEF RecInv

LEMMA RecInvNext ==
    ASSUME RecInv, [Next]_vars
    PROVE  RecInv'
<1>1. CASE Next
  BY <1>1, TypesKept, SwitchedKept, AccountedKept, InOrderKept, StampsKept, StampsIncreaseKept, FilesKept
     DEF RecInv
<1>2. CASE UNCHANGED vars
  <2>1. UNCHANGED <<app, isRecordOn, isRecordingBag, isPublishing, sessionQueue, worker, bag, disk, clock,
                    fileListData, selectedFile, imgCount, imuCount, gpsCount, replay, asked, samples,
                    replays>>
    BY <1>2 DEF vars, queues, files, list, counts
  <2>2. TypeOK'
    BY <2>1 DEF RecInv, TypeOK
  <2>3. Switched'
    BY <2>1 DEF RecInv, Switched, SwitchOf, IsOn
  <2>4. Accounted'
    BY <2>1 DEF RecInv, Accounted, Writing, InHand
  <2>5. InOrder'
    BY <2>1 DEF RecInv, InOrder, Published
  <2>6. Stamps'
    BY <2>1 DEF RecInv, Stamps, HandStamp, QueuedStamp, FileStamp, Published
  <2>7. StampsIncrease' /\ FilesArePrefixes'
    BY <2>1 DEF RecInv, StampsIncrease, FilesArePrefixes, IsOn
  <2> QED
    BY <2>2, <2>3, <2>4, <2>5, <2>6, <2>7 DEF RecInv
<1> QED
  BY <1>1, <1>2

LEMMA RecInvAlways == Spec => []RecInv
BY RecInvInit, RecInvNext, PTL DEF Spec

\* Every file holds a prefix, in order, of the samples that were queued between the two
\* taps of its recording, and its sequence numbers do not go back: SensorSettingVC's
\* openRecording and closeRecording and the publish blocks share one serial queue.
THEOREM RecordingsArePrefixes == Spec => []RecordedIsPrefix
<1>1. RecInv => RecordedIsPrefix
  <2> SUFFICES ASSUME RecInv, NEW f \in DOMAIN disk
               PROVE  IsPrefix(Ids(disk[f].msgs), asked[disk[f].rec])
    BY DEF RecInv, RecordedIsPrefix
  <2>1. /\ disk[f].msgs \in Seq(Messages) /\ disk[f].rec \in 1 .. Len(asked)
        /\ \A n \in 1 .. Len(asked) : asked[n] \in Seq(Nat)
    BY Typed DEF RecInv, FilesArePrefixes
  <2>2. Ids(disk[f].msgs) \in Seq(Nat) /\ asked[disk[f].rec] \in Seq(Nat)
    BY <2>1, IdsFacts
  <2>3. Prefix(Ids(disk[f].msgs), asked[disk[f].rec])
    BY DEF RecInv, FilesArePrefixes
  <2> QED
    BY <2>2, <2>3, PrefixIsPrefix
<1> QED
  BY <1>1, RecInvAlways, PTL

\* As long as no replay took the bag away, a file that a close block, or the next open block,
\* made readable holds every sample of its recording.
THEOREM StoppingLosesNothing == Spec => []FinishedIsComplete
<1>1. RecInv => FinishedIsComplete
  BY DEF RecInv, FilesArePrefixes, FinishedIsComplete
<1> QED
  BY <1>1, RecInvAlways, PTL

\* Once the session queue is empty the record sign shows what the bag does, however fast the
\* button of ViewController is tapped, as long as there was no replay.
THEOREM SignFollowsBag == Spec => []SignMeansRecording
<1>1. RecInv => SignMeansRecording
  <2> SUFFICES ASSUME RecInv, replays = 0, Settled
               PROVE  isRecordOn <=> bag.mode = "write"
    BY DEF SignMeansRecording
  <2>1. OpenEnded(sessionQueue, 0)
    BY DEF Settled, OpenEnded
  <2> QED
    BY <2>1 DEF RecInv, Switched, IsOn
<1> QED
  BY <1>1, RecInvAlways, PTL

-----------------------------------------------------------------------------
(* ImuPairing.                                                                  *)

\* The loop is never behind the last sample it paired.
Cursor == last_gyro_id <= (IF pos = 0 THEN 0 ELSE pos - 1)

\* Everything buffered or handed over was delivered.
Delivered ==
  /\ \A i \in 1 .. Len(gyros) : gyros[i] \in gyroTimes
  /\ \A i \in 1 .. Len(acces) : acces[i] \in accTimes
  /\ \A k \in 1 .. Len(sent) : sent[k].t \in gyroTimes

\* What was handed over is older than every gyroscope sample still to pair.
Behind ==
  /\ \A k \in 1 .. Len(sent), i \in 1 .. Len(gyros) : i > last_gyro_id => sent[k].t < gyros[i]
  /\ \A k \in 1 .. Len(sent) : sent[k].seq < imuSeq

\* Between two neighbours in the accelerometer buffer no sample was ever delivered.
NoGap ==
  /\ \A x \in accTimes, j \in 1 .. Len(acces) - 1 : x <= acces[j] \/ acces[j + 1] <= x
  /\ \A x \in accTimes : acces # <<>> => x <= acces[Len(acces)]

OrderInv == ImuTypeOK /\ Increasing(gyros) /\ Cursor /\ Delivered /\ Behind /\ SentInOrder
PairInv == NoGap /\ BetweenNeighbours
IInv == OrderInv /\ PairInv

Paired(t) == \E m \in paired : m.t = t
Buffered(t) == \E i \in 1 .. Len(gyros) : gyros[i] = t

\* A sample the loop has passed over unpaired lies outside the accelerometer buffer.
Visited ==
  \A i \in 1 .. Len(gyros) : i < pos =>
    \/ Paired(gyros[i])
    \/ gyros[i] <= acces[1] \/ acces[Len(acces)] < gyros[i]

\* The two ids name the last sample paired and the interval around it.
LastPaired ==
  /\ pos # 0 => acces # <<>>
  /\ pos = 0 => last_gyro_id = 0
  /\ last_gyro_id = 0 => last_acc_id = 0
  /\ last_gyro_id > 0 => /\ last_acc_id \in 1 .. Len(acces) - 1
                         /\ Around(gyros[last_gyro_id], last_acc_id)

\* What was cut off the accelerometer buffer is older than every gyroscope sample left.
Older(g) == acces[1] < g /\ \A i \in 1 .. Len(gyros) : g <= gyros[i]
Kept ==
  /\ acces = <<>> => accTimes = {}
  /\ acces # <<>> => \/ \A x \in accTimes : acces[1] <= x
                     \/ \E g \in gyroTimes : Older(g)

\* Every gyroscope sample is still buffered, was paired, or came before the accelerometer.
TooEarly(t) == acces # <<>> /\ \A x \in accTimes : t <= x
Found == \A t \in gyroTimes : Buffered(t) \/ Paired(t) \/ TooEarly(t)

LossInv == Visited /\ LastPaired /\ Kept /\ Found
-----------------------------------------------------------------------------
(* Two facts about the buffers, for appending and for dropping a prefix. *)

LEMMA AppendIncreasing ==
  ASSUME NEW s \in Seq(Nat), NEW t \in Nat, Increasing(s),
         \A i \in 1 .. Len(s) : s[i] < t
  PROVE  Increasing(Append(s, t))
  BY DEF Increasing

LEMMA SuffixOfSeq ==
  ASSUME NEW s \in Seq(Nat), NEW n \in 1 .. Len(s) + 1
  PROVE  /\ SubSeq(s, n, Len(s)) \in Seq(Nat)
         /\ Len(SubSeq(s, n, Len(s))) = Len(s) - n + 1
         /\ \A i \in 1 .. Len(s) - n + 1 : SubSeq(s, n, Len(s))[i] = s[n + i - 1]
  BY SubSeqProperties

-----------------------------------------------------------------------------
(* One lemma per action: the action preserves the invariant. *)

LEMMA InitInv == ImuInit => IInv
<1> SUFFICES ASSUME ImuInit PROVE IInv
  OBVIOUS
<1>1. Len(acces) = 0 /\ Len(gyros) = 0 /\ Len(sent) = 0
  BY DEF ImuInit
<1>2. acces \in Seq(Nat) /\ gyros \in Seq(Nat) /\ sent \in Seq(ImuT)
  BY EmptySeq DEF ImuInit
<1>3. ImuTypeOK
  <2>1. /\ accTimes \subseteq Nat /\ gyroTimes \subseteq Nat /\ paired \subseteq ImuT
        /\ imuSeq \in Nat /\ active \in BOOLEAN
        /\ pos = 0 /\ last_acc_id = 0 /\ last_gyro_id = 0
    BY DEF ImuInit
  <2> QED BY <1>1, <1>2, <2>1 DEF ImuTypeOK
<1>4. 1 .. Len(acces) = {} /\ 1 .. Len(gyros) = {} /\ 1 .. Len(sent) = {}
  BY <1>1
<1>5. Increasing(gyros) /\ Delivered /\ Behind /\ SentInOrder
  BY <1>4 DEF Increasing, Delivered, Behind, SentInOrder
<1>6. Cursor /\ NoGap /\ BetweenNeighbours
  BY DEF ImuInit, Cursor, NoGap, BetweenNeighbours
<1> QED
  BY <1>3, <1>5, <1>6 DEF IInv, OrderInv, PairInv

LEMMA AccelerometerInv ==
  ASSUME IInv, NEW t \in Nat, Accelerometer(t)
  PROVE  IInv'
<1> USE DEF IInv, OrderInv, PairInv, Accelerometer
<1>1. ImuTypeOK'
  BY DEF ImuTypeOK
<1>2. /\ Increasing(gyros)' /\ Cursor' /\ Behind' /\ SentInOrder'
  BY DEF Increasing, Cursor, Behind, SentInOrder
<1>3. /\ Len(acces) \in Nat /\ Len(acces') = Len(acces) + 1
      /\ \A i \in 1 .. Len(acces) : acces'[i] = acces[i]
      /\ acces'[Len(acces) + 1] = t
  BY DEF ImuTypeOK
<1>4. Delivered'
  <2>1. ASSUME NEW i \in 1 .. Len(acces') PROVE acces'[i] \in accTimes'
    <3>1. CASE i = Len(acces) + 1
      BY <1>3, <3>1, acces'[i] = t
    <3>2. CASE i # Len(acces) + 1
      <4>1. i \in 1 .. Len(acces) /\ acces'[i] = acces[i]
        <5> HIDE DEF Accelerometer, IInv
        <5> QED BY <1>3, <2>1, <3>2
      <4> QED BY <4>1 DEF Delivered
    <3> QED BY <3>1, <3>2
  <2> QED BY <2>1 DEF Delivered
<1>5. NoGap'
  <2>1. ASSUME NEW x \in accTimes', NEW j \in 1 .. Len(acces') - 1
        PROVE  x <= acces'[j] \/ acces'[j + 1] <= x
    <3>1. j \in 1 .. Len(acces)
      BY <1>3, <2>1 DEF ImuTypeOK
    <3>2. acces[j] \in Nat /\ t \in Nat /\ x \in Nat /\ Len(acces) \in Nat
      BY <3>1, <2>1 DEF ImuTypeOK
    <3>3. CASE j = Len(acces)
      BY <1>3, <3>1, <3>2, <3>3 DEF NoGap, ImuTypeOK
    <3>4. CASE j # Len(acces)
      <4>1. j \in 1 .. Len(acces) - 1 /\ acces'[j] = acces[j] /\ acces'[j + 1] = acces[j + 1]
        BY <1>3, <3>1, <3>4, <3>2
      <4>2. acces[j + 1] \in accTimes
        BY <4>1, <3>2 DEF Delivered
      <4> QED BY <4>1, <4>2, <3>2, SMTT(30) DEF NoGap, ImuTypeOK
    <3> QED BY <3>3, <3>4
  <2>2. ASSUME NEW x \in accTimes' PROVE x <= acces'[Len(acces')]
    BY <1>3, <2>2 DEF ImuTypeOK
  <2> QED BY <2>1, <2>2 DEF NoGap
<1>6. BetweenNeighbours'
  <2>1. ASSUME NEW m \in paired' 
        PROVE  /\ {m.before, m.after} \subseteq accTimes' /\ m.before < m.t /\ m.t <= m.after
               /\ \A x \in accTimes' : x <= m.before \/ m.after <= x
    <3>1. /\ m \in paired /\ m.after \in accTimes /\ m.after < t
      BY <2>1 DEF BetweenNeighbours
    <3>2. m.after \in Nat /\ t \in Nat
      BY <3>1 DEF ImuTypeOK
    <3>3. {m.before, m.after} \subseteq accTimes' /\ m.before < m.t /\ m.t <= m.after
      BY <3>1 DEF BetweenNeighbours
    <3>4. ASSUME NEW x \in accTimes' PROVE x <= m.before \/ m.after <= x
      <4>1. CASE x \in accTimes BY <3>1, <4>1 DEF BetweenNeighbours
      <4>2. CASE x = t BY <3>1, <3>2, <4>2
      <4> QED BY <4>1, <4>2
    <3> QED BY <3>3, <3>4
  <2> QED BY <2>1 DEF BetweenNeighbours
<1> QED BY <1>1, <1>2, <1>4, <1>5, <1>6

LEMMA GyroscopeInv ==
  ASSUME IInv, NEW t \in Nat, Gyroscope(t)
  PROVE  IInv'
<1> USE DEF IInv, OrderInv, PairInv, Gyroscope
<1>1. /\ gyros \in Seq(Nat) /\ Len(gyros) \in Nat /\ Len(gyros') = Len(gyros) + 1
      /\ \A i \in 1 .. Len(gyros) : gyros'[i] = gyros[i]
      /\ gyros'[Len(gyros) + 1] = t
  BY DEF ImuTypeOK
<1>2. ImuTypeOK'
  BY <1>1 DEF ImuTypeOK
<1>3. Increasing(gyros)'
  <2>1. \A i \in 1 .. Len(gyros) : gyros[i] < t
    BY DEF Delivered
  <2> QED BY <1>1, <2>1, AppendIncreasing
<1>4. Cursor' /\ last_gyro_id = 0
  BY DEF Cursor, ImuTypeOK
<1>5. Delivered'
  BY <1>1 DEF Delivered
<1>6. Behind'
  <2>1. ASSUME NEW k \in 1 .. Len(sent), NEW i \in 1 .. Len(gyros') PROVE sent[k].t < gyros'[i]
    <3>1. CASE i = Len(gyros) + 1
      BY <1>1, <3>1 DEF Delivered
    <3>2. CASE i # Len(gyros) + 1
      <4>1. i \in 1 .. Len(gyros) /\ i > last_gyro_id
        BY <1>1, <1>4, <2>1, <3>2
      <4> QED BY <1>1, <4>1 DEF Behind
    <3> QED BY <3>1, <3>2
  <2> QED BY <2>1 DEF Behind
<1>7. SentInOrder' /\ NoGap' /\ BetweenNeighbours'
  BY DEF SentInOrder, NoGap, BetweenNeighbours
<1> QED BY <1>2, <1>3, <1>4, <1>5, <1>6, <1>7

LEMMA SetActiveInv ==
  ASSUME IInv, NEW b \in BOOLEAN, SetActive(b)
  PROVE  IInv'
BY DEF IInv, OrderInv, PairInv, SetActive, ImuTypeOK, Increasing, Cursor, Delivered, Behind,
       SentInOrder, NoGap, BetweenNeighbours

LEMMA PairInvLemma ==
  ASSUME IInv, Pair
  PROVE  IInv'
<1> USE DEF IInv, OrderInv, PairInv
<1>1. CASE Intervals(gyros[pos]) = {}
  <2>1. /\ pos' = pos + 1 /\ pos \in 1 .. Len(gyros)
        /\ UNCHANGED <<acces, gyros, imuSeq, active, last_acc_id, last_gyro_id, sent, paired,
                       accTimes, gyroTimes>>
    BY <1>1 DEF Pair
  <2>2. ImuTypeOK' /\ Cursor'
    BY <2>1 DEF ImuTypeOK, Cursor
  <2> QED
    BY <2>1, <2>2 DEF Increasing, Delivered, Behind, SentInOrder, NoGap, BetweenNeighbours
<1>2. ASSUME NEW j \in Intervals(gyros[pos]),
             NEW m, m = Imu(gyros[pos], acces[j], acces[j + 1], imuSeq),
             sent' = IF active THEN Append(sent, m) ELSE sent,
             paired' = paired \union {m},
             imuSeq' = imuSeq + 1, last_acc_id' = j, last_gyro_id' = pos,
             pos \in 1 .. Len(gyros), pos' = pos + 1,
             UNCHANGED <<acces, gyros, active, accTimes, gyroTimes>>
      PROVE  IInv'
  <2>1. /\ j \in 1 .. Len(acces) - 1 /\ j \in 1 .. Len(acces) /\ j + 1 \in 1 .. Len(acces)
        /\ acces[j] < gyros[pos] /\ gyros[pos] <= acces[j + 1]
    BY <1>2 DEF Intervals, Around, ImuTypeOK
  <2>2. /\ m \in ImuT /\ m.t = gyros[pos] /\ m.before = acces[j] /\ m.after = acces[j + 1]
        /\ m.seq = imuSeq
    <3>1. acces[j] \in Nat /\ acces[j + 1] \in Nat /\ gyros[pos] \in Nat /\ imuSeq \in Nat
      <4>1. acces \in Seq(Nat) /\ gyros \in Seq(Nat) /\ imuSeq \in Nat
        BY DEF ImuTypeOK
      <4> QED BY <1>2, <2>1, <4>1, ElementOfSeq
    <3> QED BY <1>2, <3>1 DEF Imu, ImuT
  <2>3. /\ sent \in Seq(ImuT) /\ Len(sent) \in Nat /\ imuSeq \in Nat
        /\ \A k \in 1 .. Len(sent) : sent[k].t \in Nat /\ sent[k].seq \in Nat
    <3>1. sent \in Seq(ImuT) /\ Len(sent) \in Nat /\ imuSeq \in Nat
      BY DEF ImuTypeOK
    <3>2. \A k \in 1 .. Len(sent) : sent[k] \in ImuT
      BY <3>1, ElementOfSeq
    <3> QED BY <3>1, <3>2 DEF ImuT
  <2>4. /\ sent' \in Seq(ImuT) /\ Len(sent') \in Nat
        /\ \A k \in 1 .. Len(sent') :
             \/ k \in 1 .. Len(sent) /\ sent'[k] = sent[k]
             \/ k = Len(sent) + 1 /\ k = Len(sent') /\ sent'[k] = m
    <3>1. CASE active
      <4>1. /\ Append(sent, m) \in Seq(ImuT) /\ Len(Append(sent, m)) = Len(sent) + 1
            /\ \A k \in 1 .. Len(sent) : Append(sent, m)[k] = sent[k]
            /\ Append(sent, m)[Len(sent) + 1] = m
        BY <2>2, <2>3, AppendProperties
      <4>2. sent' = Append(sent, m)
        BY <1>2, <3>1
      <4> QED BY <2>3, <4>1, <4>2
    <3>2. CASE ~ active
      BY <1>2, <2>3, <3>2
    <3> QED BY <3>1, <3>2
  <2>5. ImuTypeOK'
    <3>1. paired' \subseteq ImuT /\ imuSeq' \in Nat
      BY <1>2, <2>2, SMTT(30) DEF ImuTypeOK
    <3>2. /\ pos' \in 0 .. Len(gyros) + 1 /\ last_gyro_id' \in 0 .. Len(gyros)
          /\ last_acc_id' \in 0 .. Len(acces)
      BY <1>2, <2>1 DEF ImuTypeOK
    <3> QED BY <1>2, <2>4, <3>1, <3>2 DEF ImuTypeOK
  <2>6. Cursor' /\ Increasing(gyros)' /\ NoGap'
    <3>1. Cursor'
      BY <1>2 DEF ImuTypeOK, Cursor
    <3>2. Increasing(gyros)' /\ NoGap'
      BY <1>2 DEF Increasing, NoGap
    <3> QED BY <3>1, <3>2
  <2>7. \A k \in 1 .. Len(sent) : sent[k].t < gyros[pos] /\ sent[k].seq < imuSeq
    <3>1. pos > last_gyro_id
      BY <1>2 DEF Cursor, ImuTypeOK
    <3> QED BY <1>2, <3>1 DEF Behind
  <2>8. Delivered'
    BY <1>2, <2>2, <2>4 DEF Delivered
  <2>9. Behind'
    <3>1. ASSUME NEW k \in 1 .. Len(sent'), NEW i \in 1 .. Len(gyros), i > pos
          PROVE  sent'[k].t < gyros[i]
      <4>1. gyros[pos] < gyros[i] /\ gyros[pos] \in Nat /\ gyros[i] \in Nat
        <5>1. gyros[pos] < gyros[i]
          BY <1>2, <3>1 DEF Increasing
        <5>2. gyros \in Seq(Nat)
          BY DEF ImuTypeOK
        <5> QED BY <1>2, <3>1, <5>1, <5>2, ElementOfSeq
      <4>2. CASE sent'[k] = m
        BY <4>1, <4>2, <2>2
      <4>3. CASE k \in 1 .. Len(sent) /\ sent'[k] = sent[k]
        BY <4>1, <4>3, <2>3, <2>7
      <4> QED BY <2>4, <4>2, <4>3
    <3>2. ASSUME NEW k \in 1 .. Len(sent') PROVE sent'[k].seq < imuSeq + 1
      <4>1. CASE sent'[k] = m
        BY <4>1, <2>2, <2>3
      <4>2. CASE k \in 1 .. Len(sent) /\ sent'[k] = sent[k]
        BY <4>2, <2>3, <2>7
      <4> QED BY <2>4, <4>1, <4>2
    <3> QED BY <1>2, <3>1, <3>2 DEF Behind
  <2>10. SentInOrder'
    <3>1. ASSUME NEW k \in 1 .. Len(sent'), NEW l \in 1 .. Len(sent'), k < l
          PROVE  sent'[k].t < sent'[l].t /\ sent'[k].seq < sent'[l].seq
      <4>1. k \in 1 .. Len(sent) /\ sent'[k] = sent[k]
        BY <2>3, <2>4, <3>1
      <4>2. CASE sent'[l] = m
        BY <4>1, <4>2, <2>2, <2>7
      <4>3. CASE l \in 1 .. Len(sent) /\ sent'[l] = sent[l]
        BY <4>1, <4>3, <3>1 DEF SentInOrder
      <4> QED BY <2>4, <4>2, <4>3
    <3> QED BY <3>1 DEF SentInOrder
  <2>11. BetweenNeighbours'
    <3>1. /\ {m.before, m.after} \subseteq accTimes /\ m.before < m.t /\ m.t <= m.after
          /\ \A x \in accTimes : x <= m.before \/ m.after <= x
      BY <2>1, <2>2 DEF Delivered, NoGap
    <3> QED BY <1>2, <3>1 DEF BetweenNeighbours
  <2> QED BY <2>5, <2>6, <2>8, <2>9, <2>10, <2>11
<1> QED
  BY <1>1, <1>2 DEF Pair

LEMMA TrimInv ==
  ASSUME IInv, Trim
  PROVE  IInv'
<1> USE DEF IInv, OrderInv, PairInv
<1>1. PICK n \in 1 .. Len(acces) + 1 :
        /\ acces' = SubSeq(acces, n, Len(acces))
  <2>1. acces \in Seq(Nat) /\ last_acc_id \in 0 .. Len(acces)
    BY DEF ImuTypeOK
  <2>2. CASE last_acc_id > 0
    BY <2>1, <2>2 DEF Trim
  <2>3. CASE ~ last_acc_id > 0
    <3>1. acces' = acces /\ SubSeq(acces, 1, Len(acces)) = acces
      BY <2>1, <2>3, SubSeqFull DEF Trim
    <3> QED BY <2>1, <3>1
  <2> QED BY <2>2, <2>3
<1>2. gyros' = SubSeq(gyros, last_gyro_id + 1, Len(gyros))
  <2>1. gyros \in Seq(Nat) /\ last_gyro_id \in 0 .. Len(gyros)
    BY DEF ImuTypeOK
  <2>2. CASE last_gyro_id > 0
    BY <2>1, <2>2 DEF Trim, Drop
  <2>3. CASE ~ last_gyro_id > 0
    <3>1. last_gyro_id = 0 /\ gyros' = gyros /\ SubSeq(gyros, 1, Len(gyros)) = gyros
      BY <2>1, <2>3, SubSeqFull DEF Trim
    <3> QED BY <2>1, <3>1
  <2> QED BY <2>2, <2>3
<1>3. /\ acces \in Seq(Nat) /\ acces' \in Seq(Nat) /\ Len(acces) \in Nat
      /\ Len(acces') = Len(acces) - n + 1
      /\ \A i \in 1 .. Len(acces') : acces'[i] = acces[n + i - 1]
  <2>1. acces \in Seq(Nat) /\ Len(acces) \in Nat
    BY DEF ImuTypeOK
  <2>2. n \in 1 .. Len(acces) + 1
    BY <1>1
  <2> QED BY <1>1, <2>1, <2>2, SuffixOfSeq
<1>4. /\ gyros \in Seq(Nat) /\ gyros' \in Seq(Nat) /\ Len(gyros) \in Nat
      /\ last_gyro_id \in 0 .. Len(gyros)
      /\ Len(gyros') = Len(gyros) - last_gyro_id
      /\ \A i \in 1 .. Len(gyros') : gyros'[i] = gyros[last_gyro_id + i]
  <2>1. last_gyro_id + 1 \in 1 .. Len(gyros) + 1 /\ gyros \in Seq(Nat) /\ last_gyro_id \in Nat
    BY DEF ImuTypeOK
  <2>2. /\ Len(gyros') = Len(gyros) - (last_gyro_id + 1) + 1 /\ gyros' \in Seq(Nat)
        /\ \A i \in 1 .. Len(gyros) - (last_gyro_id + 1) + 1 : gyros'[i] = gyros[(last_gyro_id + 1) + i - 1]
    BY <1>2, <2>1, SuffixOfSeq
  <2>3. last_gyro_id \in 0 .. Len(gyros) /\ Len(gyros) \in Nat
    BY DEF ImuTypeOK
  <2>4. Len(gyros) - (last_gyro_id + 1) + 1 = Len(gyros) - last_gyro_id
    BY <2>3
  <2>5. ASSUME NEW i \in 1 .. Len(gyros') PROVE gyros'[i] = gyros[last_gyro_id + i]
    <3>1. i \in 1 .. Len(gyros) - (last_gyro_id + 1) + 1 /\ (last_gyro_id + 1) + i - 1 = last_gyro_id + i
      BY <2>2, <2>3, <2>5
    <3> QED BY <2>2, <3>1
  <2> QED BY <2>1, <2>2, <2>3, <2>4, <2>5
<1>5. /\ pos' = 0 /\ last_acc_id' = 0 /\ last_gyro_id' = 0
      /\ UNCHANGED <<imuSeq, active, sent, paired, accTimes, gyroTimes>>
  BY DEF Trim
<1>6. ImuTypeOK' /\ Cursor' /\ BetweenNeighbours' /\ SentInOrder'
  <2>1. Len(acces') \in Nat /\ Len(gyros') \in Nat
    BY <1>1, <1>3, <1>4
  <2> QED BY <1>3, <1>4, <1>5, <2>1 DEF ImuTypeOK, Cursor, BetweenNeighbours, SentInOrder
<1>7. \A i \in 1 .. Len(gyros') : last_gyro_id + i \in 1 .. Len(gyros) /\ last_gyro_id + i > last_gyro_id
  BY <1>4
<1>8. \A i \in 1 .. Len(acces') : n + i - 1 \in 1 .. Len(acces)
  BY <1>1, <1>3
<1>9. Increasing(gyros)'
  <2>1. ASSUME NEW i \in 1 .. Len(gyros'), NEW j \in 1 .. Len(gyros'), i < j
        PROVE  gyros'[i] < gyros'[j]
    <3>1. last_gyro_id + i < last_gyro_id + j
      BY <1>4, <2>1
    <3> QED BY <1>4, <1>7, <2>1, <3>1 DEF Increasing
  <2> QED BY <2>1 DEF Increasing
<1>10. Delivered'
  BY <1>3, <1>4, <1>5, <1>7, <1>8 DEF Delivered
<1>11. Behind'
  BY <1>4, <1>5, <1>7 DEF Behind
<1>12. NoGap'
  <2>1. ASSUME NEW x \in accTimes, NEW j \in 1 .. Len(acces') - 1
        PROVE  x <= acces'[j] \/ acces'[j + 1] <= x
    <3>1. n + j - 1 \in 1 .. Len(acces) - 1 /\ n + (j + 1) - 1 = (n + j - 1) + 1
      BY <1>1, <1>3, <2>1
    <3>2. acces'[j] = acces[n + j - 1] /\ acces'[j + 1] = acces[(n + j - 1) + 1]
      <4>1. j \in 1 .. Len(acces') /\ j + 1 \in 1 .. Len(acces') /\ Len(acces') \in Nat
        BY <1>3, <2>1
      <4> QED BY <1>3, <3>1, <4>1
    <3> QED BY <3>1, <3>2 DEF NoGap
  <2>2. ASSUME NEW x \in accTimes, acces' # <<>> PROVE x <= acces'[Len(acces')]
    <3>1. Len(acces') \in 1 .. Len(acces') /\ Len(acces') > 0
      BY <1>3, <2>2, EmptySeq
    <3>2. acces'[Len(acces')] = acces[Len(acces)] /\ acces # <<>>
      BY <1>1, <1>3, <3>1
    <3> QED BY <3>2 DEF NoGap
  <2> QED BY <1>5, <2>1, <2>2 DEF NoGap
<1> QED
  BY <1>6, <1>9, <1>10, <1>11, <1>12

-----------------------------------------------------------------------------
(* The theorems. *)

THEOREM Invariance == ImuSpec => []IInv
<1>1. ImuInit => IInv
  BY InitInv
<1>2. IInv /\ [ImuNext]_imuVars => IInv'
  <2> SUFFICES ASSUME IInv, [ImuNext]_imuVars PROVE IInv'
    OBVIOUS
  <2>1. ASSUME NEW t \in Nat, Accelerometer(t) PROVE IInv'
    BY <2>1, AccelerometerInv
  <2>2. ASSUME NEW t \in Nat, Gyroscope(t) PROVE IInv'
    BY <2>2, GyroscopeInv
  <2>3. CASE Pair
    BY <2>3, PairInvLemma
  <2>4. CASE Trim
    BY <2>4, TrimInv
  <2>5. ASSUME NEW b \in BOOLEAN, SetActive(b) PROVE IInv'
    BY <2>5, SetActiveInv
  <2>6. CASE UNCHANGED imuVars
    BY <2>6 DEF imuVars, IInv, OrderInv, PairInv, ImuTypeOK, Increasing, Cursor, Delivered, Behind,
                SentInOrder, NoGap, BetweenNeighbours
  <2> QED
    BY <2>1, <2>2, <2>3, <2>4, <2>5, <2>6 DEF ImuNext
<1> QED
  BY <1>1, <1>2, PTL DEF ImuSpec

\* Every variable keeps its type: in particular the loop variable and the ids of processIMU
\* always index the buffers, so its two "bad happned" exits are unreachable.
THEOREM TypeCorrect == ImuSpec => []ImuTypeOK
<1>1. IInv => ImuTypeOK
  BY DEF IInv, OrderInv
<1> QED
  BY <1>1, Invariance, PTL

\* processIMU hands the samples to the session queue in the order of their times and of their
\* sequence numbers, each at most once.
THEOREM HandedOverInOrder == ImuSpec => []SentInOrder
<1>1. IInv => SentInOrder
  BY DEF IInv, OrderInv
<1> QED
  BY <1>1, Invariance, PTL

\* processIMU interpolates between the two accelerometer samples delivered next to the
\* gyroscope sample, although it trims the buffer.
THEOREM PairedBetweenNeighbours == ImuSpec => []BetweenNeighbours
<1>1. IInv => BetweenNeighbours
  BY DEF IInv, PairInv
<1> QED
  BY <1>1, Invariance, PTL

-----------------------------------------------------------------------------
(* No gyroscope sample is lost: the invariant LossInv, preserved because IInv is. *)

\* A set of naturals has a least element: the shortest of the intervals 1 .. x.
LEMMA LeastNatural ==
  ASSUME NEW T, T \subseteq Nat, T # {}
  PROVE  \E x \in T : \A y \in T : x <= y
<1> DEFINE Shorter == StrictSubsetOrdering(Nat)
           Starts == {1 .. x : x \in T}
<1>1. IsWellFoundedOn(Shorter, FiniteSubsetsOf(Nat))
  BY FS_StrictSubsetOrderingWellFounded
<1>2. Starts \subseteq FiniteSubsetsOf(Nat)
  <2> SUFFICES ASSUME NEW x \in T PROVE 1 .. x \in FiniteSubsetsOf(Nat)
    OBVIOUS
  <2>1. x \in Int
    OBVIOUS
  <2>2. IsFiniteSet(1 .. x)
    BY <2>1, FS_Interval
  <2>3. 1 .. x \subseteq Nat
    BY <2>1
  <2> QED BY <2>2, <2>3 DEF FiniteSubsetsOf
<1>3. Starts # {}
  OBVIOUS
<1>4. \A x, y \in T : y < x => <<1 .. y, 1 .. x>> \in Shorter
  <2> SUFFICES ASSUME NEW x \in T, NEW y \in T, y < x
               PROVE <<1 .. y, 1 .. x>> \in Shorter
    OBVIOUS
  <2>1. x \in Nat /\ y \in Nat
    OBVIOUS
  <2>2. 1 .. y \subseteq 1 .. x /\ x \in 1 .. x /\ x \notin 1 .. y
    BY <2>1
  <2>3. 1 .. y \subseteq Nat /\ 1 .. x \subseteq Nat
    BY <2>1
  <2> QED BY <2>2, <2>3 DEF StrictSubsetOrdering
<1> HIDE DEF Shorter
<1>5. PICK U \in Starts : \A V \in Starts : ~ (<<V, U>> \in Shorter)
  <2> HIDE DEF Starts
  <2> QED BY <1>1, <1>2, <1>3, WFMin
<1>6. PICK x \in T : U = 1 .. x
  BY <1>5
<1>7. \A y \in T : ~ (<<1 .. y, 1 .. x>> \in Shorter)
  BY <1>5, <1>6
<1>8. \A y \in T : x <= y
  <2> SUFFICES ASSUME NEW y \in T PROVE x <= y
    OBVIOUS
  <2>1. ~ (y < x)
    BY <1>4, <1>7
  <2> QED BY <2>1
<1> QED BY <1>8

\* A time between the ends of the buffer lies in one of its intervals.
LEMMA IntervalBetweenEnds ==
  ASSUME ImuTypeOK, NEW t \in Nat, acces # <<>>, acces[1] < t, t <= acces[Len(acces)]
  PROVE  Intervals(t) # {}
<1>1. acces \in Seq(Nat) /\ Len(acces) \in Nat /\ Len(acces) # 0
  BY EmptySeq DEF ImuTypeOK
<1> DEFINE T == {k \in 1 .. Len(acces) : t <= acces[k]}
<1>2. T \subseteq Nat /\ Len(acces) \in T
  BY <1>1
<1>3. PICK k \in T : \A l \in T : k <= l
  <2> HIDE DEF T
  <2>1. T # {}
    BY <1>2
  <2> QED BY <1>2, <2>1, LeastNatural
<1>4. k \in 1 .. Len(acces) /\ t <= acces[k] /\ k # 1
  BY <1>1, <1>3
<1>5. k - 1 \in 1 .. Len(acces) - 1 /\ (k - 1) + 1 = k /\ k - 1 \in 1 .. Len(acces)
  BY <1>1, <1>4
<1>6. acces[k - 1] < t
  <2>1. acces[k - 1] \in Nat
    BY <1>1, <1>5, ElementOfSeq
  <2>2. k - 1 \notin T
    BY <1>1, <1>3, <1>4
  <2> QED BY <1>5, <2>1, <2>2
<1> QED BY <1>4, <1>5, <1>6 DEF Intervals, Around

LEMMA InitLoss == ImuInit => LossInv
<1> SUFFICES ASSUME ImuInit PROVE LossInv
  OBVIOUS
<1>1. Len(gyros) = 0 /\ 1 .. Len(gyros) = {}
  BY DEF ImuInit
<1> QED
  BY <1>1 DEF ImuInit, LossInv, Visited, LastPaired, Kept, Found

LEMMA AccelerometerLoss ==
  ASSUME IInv, LossInv, NEW t \in Nat, Accelerometer(t)
  PROVE  LossInv'
<1>1. ImuTypeOK /\ Delivered
  BY DEF IInv, OrderInv
<1>2. /\ pos = 0 /\ pos' = 0 /\ accTimes' = accTimes \union {t} /\ acces' = Append(acces, t)
      /\ \A x \in accTimes : x < t
      /\ UNCHANGED <<gyros, last_acc_id, last_gyro_id, paired, gyroTimes>>
  BY DEF Accelerometer
<1>3. acces \in Seq(Nat) /\ Len(acces) \in Nat /\ gyros \in Seq(Nat) /\ Len(gyros) \in Nat
  BY <1>1 DEF ImuTypeOK
<1>4. /\ Len(acces') = Len(acces) + 1 /\ acces' # <<>>
      /\ acces # <<>> => acces'[1] = acces[1]
      /\ acces = <<>> => acces'[1] = t
  <2>1. /\ Len(acces') = Len(acces) + 1 /\ acces'[Len(acces) + 1] = t
        /\ \A i \in 1 .. Len(acces) : acces'[i] = acces[i]
    BY <1>2, <1>3, AppendProperties
  <2>2. acces' # <<>>
    BY <1>3, <2>1
  <2>3. acces # <<>> => 1 \in 1 .. Len(acces)
    BY <1>3, EmptySeq
  <2>4. acces = <<>> => Len(acces) = 0
    OBVIOUS
  <2> QED BY <2>1, <2>2, <2>3, <2>4
<1>5. Visited'
  BY <1>2, <1>3 DEF Visited
<1>6. LastPaired'
  BY <1>2 DEF LossInv, LastPaired
<1>7. accTimes \subseteq Nat
  BY <1>1 DEF ImuTypeOK
<1>8. Kept'
  <2>1. CASE acces = <<>>
    <3>1. accTimes' = {t} /\ acces'[1] = t
      BY <1>2, <1>4, <2>1 DEF LossInv, Kept
    <3> QED BY <1>4, <3>1 DEF Kept
  <2>2. CASE acces # <<>> /\ \A x \in accTimes : acces[1] <= x
    <3>1. acces[1] \in accTimes
      BY <1>1, <1>3, <2>2, EmptySeq DEF Delivered
    <3>2. acces[1] < t /\ acces[1] \in Nat
      BY <1>2, <1>7, <3>1
    <3>3. \A x \in accTimes' : acces'[1] <= x
      BY <1>2, <1>4, <2>2, <3>2
    <3> QED BY <1>4, <3>3 DEF Kept
  <2>3. ASSUME NEW g \in gyroTimes, Older(g), acces # <<>> PROVE Kept'
    <3>1. Older(g)'
      BY <1>2, <1>4, <2>3 DEF Older
    <3> QED BY <1>2, <1>4, <2>3, <3>1 DEF Kept
  <2> QED BY <2>1, <2>2, <2>3 DEF LossInv, Kept
<1>9. Found'
  <2> SUFFICES ASSUME NEW u \in gyroTimes PROVE Buffered(u)' \/ Paired(u)' \/ TooEarly(u)'
    BY <1>2 DEF Found
  <2>1. CASE Buffered(u) \/ Paired(u)
    BY <1>2, <2>1 DEF Buffered, Paired
  <2>2. CASE TooEarly(u)
    <3>1. acces[1] \in accTimes /\ acces[1] \in Nat
      BY <1>1, <1>3, <1>7, <2>2, EmptySeq DEF Delivered, TooEarly
    <3>2. u <= acces[1] /\ acces[1] < t /\ u \in Nat
      BY <1>1, <1>2, <2>2, <3>1 DEF TooEarly, ImuTypeOK
    <3> QED BY <1>2, <1>4, <2>2, <3>1, <3>2 DEF TooEarly
  <2> QED BY <2>1, <2>2 DEF LossInv, Found
<1> QED BY <1>5, <1>6, <1>8, <1>9 DEF LossInv

LEMMA GyroscopeLoss ==
  ASSUME IInv, LossInv, NEW t \in Nat, Gyroscope(t)
  PROVE  LossInv'
<1>1. ImuTypeOK
  BY DEF IInv, OrderInv
<1>2. /\ pos = 0 /\ gyroTimes' = gyroTimes \union {t} /\ gyros' = Append(gyros, t)
      /\ pos' = IF acces # <<>> THEN 1 ELSE 0
      /\ \A x \in gyroTimes : x < t
      /\ UNCHANGED <<acces, last_acc_id, last_gyro_id, paired, accTimes>>
  BY DEF Gyroscope
<1>3. /\ gyros \in Seq(Nat) /\ Len(gyros) \in Nat /\ Len(gyros') = Len(gyros) + 1
      /\ \A i \in 1 .. Len(gyros) : gyros'[i] = gyros[i]
      /\ gyros'[Len(gyros) + 1] = t
  BY <1>1, <1>2, AppendProperties DEF ImuTypeOK
<1>4. \A i \in 1 .. Len(gyros') : i \in 1 .. Len(gyros) \/ i = Len(gyros) + 1
  BY <1>3
<1>5. Visited'
  BY <1>2, <1>3 DEF Visited
<1>6. LastPaired'
  BY <1>2 DEF LossInv, LastPaired
<1>7. Kept'
  <2>1. ASSUME NEW g \in gyroTimes, Older(g) PROVE Older(g)'
    <3>1. g < t /\ g \in Nat
      BY <1>1, <1>2 DEF ImuTypeOK
    <3>2. ASSUME NEW i \in 1 .. Len(gyros') PROVE g <= gyros'[i]
      BY <1>3, <1>4, <2>1, <3>1 DEF Older
    <3> QED BY <1>2, <2>1, <3>2 DEF Older
  <2> QED BY <1>2, <2>1 DEF LossInv, Kept
<1>8. Found'
  <2> SUFFICES ASSUME NEW u \in gyroTimes' PROVE Buffered(u)' \/ Paired(u)' \/ TooEarly(u)'
    BY DEF Found
  <2>1. CASE u = t
    BY <1>3, <2>1 DEF Buffered
  <2>2. CASE u \in gyroTimes /\ Buffered(u)
    <3>1. PICK i \in 1 .. Len(gyros) : gyros[i] = u
      BY <2>2 DEF Buffered
    <3>2. i \in 1 .. Len(gyros') /\ gyros'[i] = u
      BY <1>3, <3>1
    <3> QED BY <3>2 DEF Buffered
  <2>3. CASE u \in gyroTimes /\ (Paired(u) \/ TooEarly(u))
    BY <1>2, <2>3 DEF Paired, TooEarly
  <2> QED BY <1>2, <2>1, <2>2, <2>3 DEF LossInv, Found
<1> QED BY <1>5, <1>6, <1>7, <1>8 DEF LossInv

LEMMA PairLoss ==
  ASSUME IInv, LossInv, Pair
  PROVE  LossInv'
<1>1. ImuTypeOK
  BY DEF IInv, OrderInv
<1>2. /\ pos \in 1 .. Len(gyros) /\ pos' = pos + 1 /\ paired \subseteq paired'
      /\ UNCHANGED <<acces, gyros, accTimes, gyroTimes>>
  BY DEF Pair
<1>3. /\ gyros \in Seq(Nat) /\ Len(gyros) \in Nat /\ pos \in Nat
      /\ acces \in Seq(Nat) /\ Len(acces) \in Nat
  BY <1>1, <1>2 DEF ImuTypeOK
<1>4. \A u : Paired(u) => Paired(u)'
  BY <1>2 DEF Paired
<1>5. acces # <<>> /\ 1 \in 1 .. Len(acces) /\ Len(acces) \in 1 .. Len(acces)
  BY <1>2, <1>3, EmptySeq DEF LossInv, LastPaired
<1>6. Kept'
  BY <1>2 DEF LossInv, Kept, Older
<1>7. Found'
  BY <1>2, <1>4 DEF LossInv, Found, Buffered, TooEarly
<1>8. gyros[pos] \in Nat /\ acces[1] \in Nat /\ acces[Len(acces)] \in Nat
  BY <1>2, <1>3, <1>5, ElementOfSeq
<1>9. ASSUME \/ \E m \in paired' : m.t = gyros[pos]
             \/ gyros[pos] <= acces[1] \/ acces[Len(acces)] < gyros[pos]
      PROVE  Visited'
  <2> SUFFICES ASSUME NEW i \in 1 .. Len(gyros), i < pos + 1
               PROVE  \/ \E m \in paired' : m.t = gyros[i]
                      \/ gyros[i] <= acces[1] \/ acces[Len(acces)] < gyros[i]
    BY <1>2 DEF Visited, Paired
  <2>1. i < pos \/ i = pos
    BY <1>3
  <2>2. Paired(gyros[i]) => \E m \in paired' : m.t = gyros[i]
    BY <1>2 DEF Paired
  <2> QED BY <1>9, <2>1, <2>2 DEF LossInv, Visited
<1>10. CASE Intervals(gyros[pos]) = {}
  <2>1. Visited'
    BY <1>1, <1>5, <1>8, <1>9, <1>10, IntervalBetweenEnds
  <2>2. UNCHANGED <<last_acc_id, last_gyro_id>>
    BY <1>10 DEF Pair
  <2>3. LastPaired'
    BY <1>2, <1>3, <1>5, <2>2 DEF LossInv, LastPaired, Around
  <2> QED BY <1>6, <1>7, <2>1, <2>3 DEF LossInv
<1>11. CASE Intervals(gyros[pos]) # {}
  <2>1. PICK j \in Intervals(gyros[pos]) :
          /\ paired' = paired \union {Imu(gyros[pos], acces[j], acces[j + 1], imuSeq)}
          /\ last_acc_id' = j /\ last_gyro_id' = pos
    BY <1>11 DEF Pair
  <2>2. \E m \in paired' : m.t = gyros[pos]
    <3>1. PICK m : m = Imu(gyros[pos], acces[j], acces[j + 1], imuSeq)
      OBVIOUS
    <3>2. m.t = gyros[pos]
      BY <3>1 DEF Imu
    <3> QED BY <2>1, <3>1, <3>2
  <2>3. Visited'
    BY <1>9, <2>2
  <2>4. j \in 1 .. Len(acces) - 1 /\ Around(gyros[pos], j)
    BY <2>1 DEF Intervals
  <2>5. LastPaired'
    BY <1>2, <1>3, <1>5, <2>1, <2>4 DEF LastPaired, Around
  <2> QED BY <1>6, <1>7, <2>3, <2>5 DEF LossInv
<1> QED BY <1>10, <1>11

LEMMA TrimLoss ==
  ASSUME IInv, LossInv, Trim
  PROVE  LossInv'
<1>1. ImuTypeOK /\ Delivered /\ NoGap /\ Increasing(gyros)
  BY DEF IInv, OrderInv, PairInv
<1>2. /\ pos > Len(gyros) /\ pos' = 0 /\ last_acc_id' = 0 /\ last_gyro_id' = 0
      /\ UNCHANGED <<paired, accTimes, gyroTimes>>
  BY DEF Trim
<1>3. /\ gyros \in Seq(Nat) /\ Len(gyros) \in Nat /\ last_gyro_id \in 0 .. Len(gyros)
      /\ acces \in Seq(Nat) /\ Len(acces) \in Nat /\ pos \in Nat
      /\ accTimes \subseteq Nat /\ gyroTimes \subseteq Nat
  BY <1>1 DEF ImuTypeOK
<1>4. LastPaired' /\ Visited'
  BY <1>2, <1>3 DEF LastPaired, Visited
<1>5. CASE last_gyro_id = 0
  <2>1. acces' = acces /\ gyros' = gyros
    BY <1>5 DEF LossInv, LastPaired, Trim
  <2>2. Kept' /\ Found'
    BY <1>2, <2>1 DEF LossInv, Kept, Older, Found, Buffered, Paired, TooEarly
  <2> QED BY <1>4, <2>2 DEF LossInv
<1>6. CASE last_gyro_id # 0
  <2> DEFINE a == last_acc_id
  <2>0. PICK g : g = gyros[last_gyro_id]
    OBVIOUS
  <2>1. /\ a \in 1 .. Len(acces) - 1 /\ acces[a] < g /\ g <= acces[a + 1]
        /\ last_gyro_id > 0
    BY <1>3, <1>6, <2>0 DEF LossInv, LastPaired, Around
  <2>2. a > 0 /\ a \in 1 .. Len(acces) + 1 /\ a + 1 \in 1 .. Len(acces) /\ acces # <<>>
    BY <1>3, <2>1
  <2>3. /\ acces' = SubSeq(acces, a, Len(acces))
        /\ gyros' = SubSeq(gyros, last_gyro_id + 1, Len(gyros))
    BY <2>1, <2>2 DEF Trim, Drop
  <2>4. acces' # <<>> /\ acces'[1] = acces[a]
    <3>1. /\ Len(acces') = Len(acces) - a + 1
          /\ \A i \in 1 .. Len(acces) - a + 1 : acces'[i] = acces[a + i - 1]
      BY <1>3, <2>2, <2>3, SuffixOfSeq
    <3>2. Len(acces) - a + 1 > 0 /\ 1 \in 1 .. Len(acces) - a + 1 /\ a + 1 - 1 = a
      BY <1>3, <2>1
    <3> QED BY <3>1, <3>2
  <2>5. /\ Len(gyros') = Len(gyros) - last_gyro_id
        /\ \A i \in 1 .. Len(gyros') : gyros'[i] = gyros[last_gyro_id + i]
    <3>1. last_gyro_id + 1 \in 1 .. Len(gyros) + 1
      BY <1>3
    <3>2. /\ Len(gyros') = Len(gyros) - (last_gyro_id + 1) + 1
          /\ \A i \in 1 .. Len(gyros) - (last_gyro_id + 1) + 1 :
                gyros'[i] = gyros[(last_gyro_id + 1) + i - 1]
      BY <1>3, <2>3, <3>1, SuffixOfSeq
    <3>3. Len(gyros) - (last_gyro_id + 1) + 1 = Len(gyros) - last_gyro_id
      BY <1>3
    <3>4. \A i \in 1 .. Len(gyros') : (last_gyro_id + 1) + i - 1 = last_gyro_id + i
      BY <1>3, <3>2, <3>3
    <3> QED BY <3>2, <3>3, <3>4
  <2>6. /\ last_gyro_id \in 1 .. Len(gyros) /\ g \in gyroTimes /\ g \in Nat
    BY <1>1, <1>3, <1>6, <2>0 DEF Delivered
  <2> HIDE DEF a
  <2>7. Kept'
    <3>1. ASSUME NEW i \in 1 .. Len(gyros') PROVE g <= gyros'[i]
      <4>1. last_gyro_id + i \in 1 .. Len(gyros) /\ last_gyro_id < last_gyro_id + i
        BY <1>3, <2>5
      <4>2. g < gyros[last_gyro_id + i] /\ gyros[last_gyro_id + i] \in Nat
        BY <1>1, <1>3, <2>0, <2>6, <4>1, ElementOfSeq DEF Increasing
      <4> QED BY <2>5, <2>6, <4>2
    <3>2. Older(g)'
      BY <2>1, <2>4, <3>1 DEF Older
    <3> QED BY <1>2, <2>4, <2>6, <3>2 DEF Kept
  <2>8. ASSUME NEW i \in 1 .. Len(gyros), i <= last_gyro_id
        PROVE  Paired(gyros[i]) \/ TooEarly(gyros[i])
    <3>1. i < pos /\ gyros[i] \in Nat /\ gyros[i] <= g
      <4>1. i < pos
        BY <1>2, <1>3
      <4>2. gyros[i] \in Nat
        BY <1>3, ElementOfSeq
      <4>3. i = last_gyro_id \/ i < last_gyro_id
        BY <1>3, <2>8
      <4>4. i < last_gyro_id => gyros[i] < g
        BY <1>1, <2>0, <2>6 DEF Increasing
      <4> QED BY <2>0, <2>6, <4>1, <4>2, <4>3, <4>4
    <3>2. /\ acces[1] \in Nat /\ acces[a + 1] \in Nat /\ acces[Len(acces)] \in Nat
          /\ acces[a + 1] \in accTimes
      <4>1. 1 \in 1 .. Len(acces) /\ Len(acces) \in 1 .. Len(acces)
        BY <1>3, <2>2
      <4> QED BY <1>1, <1>3, <2>2, <4>1, ElementOfSeq DEF Delivered
    <3>3. ~ (acces[Len(acces)] < gyros[i])
      <4>1. acces[a + 1] <= acces[Len(acces)]
        BY <1>1, <2>2, <3>2 DEF NoGap
      <4> QED BY <2>1, <2>6, <3>1, <3>2, <4>1
    <3>4. Paired(gyros[i]) \/ gyros[i] <= acces[1]
      BY <3>1, <3>3 DEF LossInv, Visited
    <3>5. ASSUME gyros[i] <= acces[1] PROVE \A x \in accTimes : gyros[i] <= x
      <4>1. ASSUME NEW h \in gyroTimes, Older(h) PROVE FALSE
        <5>1. acces[1] < h /\ h <= gyros[i] /\ h \in Nat
          BY <1>3, <4>1 DEF Older
        <5> QED BY <3>1, <3>2, <3>5, <5>1
      <4>2. \A x \in accTimes : acces[1] <= x
        BY <2>2, <4>1 DEF LossInv, Kept
      <4> QED BY <1>3, <3>1, <3>2, <3>5, <4>2
    <3> QED BY <2>2, <3>4, <3>5 DEF TooEarly
  <2>9. Found'
    <3> SUFFICES ASSUME NEW u \in gyroTimes PROVE Buffered(u)' \/ Paired(u)' \/ TooEarly(u)'
      BY <1>2 DEF Found
    <3>1. Paired(u) => Paired(u)'
      BY <1>2 DEF Paired
    <3>2. TooEarly(u) => TooEarly(u)'
      BY <1>2, <2>4 DEF TooEarly
    <3>3. CASE Buffered(u)
      <4>1. PICK i \in 1 .. Len(gyros) : gyros[i] = u
        BY <3>3 DEF Buffered
      <4>2. CASE i <= last_gyro_id
        BY <2>8, <3>1, <3>2, <4>1, <4>2
      <4>3. CASE ~ (i <= last_gyro_id)
        <5>1. i - last_gyro_id \in 1 .. Len(gyros') /\ last_gyro_id + (i - last_gyro_id) = i
          BY <1>3, <2>5, <4>3
        <5>2. gyros'[i - last_gyro_id] = u
          BY <2>5, <4>1, <5>1
        <5> QED BY <5>1, <5>2 DEF Buffered
      <4> QED BY <4>2, <4>3
    <3> QED BY <3>1, <3>2, <3>3 DEF LossInv, Found
  <2> QED BY <1>4, <2>7, <2>9 DEF LossInv
<1> QED BY <1>5, <1>6

\* A gyroscope sample leaves processIMU's buffer unpaired only when no accelerometer sample was
\* delivered before it: the trim after the loop never throws away a sample still to be paired.
THEOREM NoGyroscopeSampleIsLost == ImuSpec => []NoGyroLost
<1>1. ImuInit => LossInv
  BY InitLoss
<1>2. IInv /\ LossInv /\ [ImuNext]_imuVars => LossInv'
  <2> SUFFICES ASSUME IInv, LossInv, [ImuNext]_imuVars PROVE LossInv'
    OBVIOUS
  <2>1. ASSUME NEW t \in Nat, Accelerometer(t) PROVE LossInv'
    BY <2>1, AccelerometerLoss
  <2>2. ASSUME NEW t \in Nat, Gyroscope(t) PROVE LossInv'
    BY <2>2, GyroscopeLoss
  <2>3. CASE Pair
    BY <2>3, PairLoss
  <2>4. CASE Trim
    BY <2>4, TrimLoss
  <2>5. ASSUME NEW b \in BOOLEAN, SetActive(b) PROVE LossInv'
    BY <2>5 DEF SetActive, LossInv, Visited, LastPaired, Kept, Found, Paired, Buffered,
                Older, TooEarly, Around
  <2>6. CASE UNCHANGED imuVars
    BY <2>6 DEF imuVars, LossInv, Visited, LastPaired, Kept, Found, Paired, Buffered,
                Older, TooEarly, Around
  <2> QED
    BY <2>1, <2>2, <2>3, <2>4, <2>5, <2>6 DEF ImuNext
<1>3. LossInv => NoGyroLost
  BY DEF LossInv, Found, Buffered, Paired, TooEarly, NoGyroLost
<1> QED
  BY <1>1, <1>2, <1>3, Invariance, PTL DEF ImuSpec

-----------------------------------------------------------------------------
(* RosTime: its bounds, and products with the length of a second.              *)

LEMMA Numbers ==
  /\ Second \in Nat \ {0} /\ Second \in Int /\ Second > 0
  /\ Half \in Nat \ {0} /\ Half \in Int /\ Half > 0
  /\ Full = 2 * Half
  BY RosTimeAssumption DEF Full

\* Of two numbers the larger has the larger product, by a second at least.
LEMMA Products ==
  ASSUME NEW p \in Int, NEW q \in Int
  PROVE  /\ p * Second \in Int /\ (q + p) * Second = q * Second + p * Second /\ (- p) * Second = - (p * Second)
         /\ Second * p = p * Second
         /\ (q - p) * Second = q * Second - p * Second
         /\ p < q => p * Second + Second <= q * Second
<1>1. p < q => q - p - 1 >= 0
  OBVIOUS
<1>2. \A k \in Int : k >= 0 => k * Second >= 0
  BY Numbers
<1>3. p < q => (q - p - 1) * Second >= 0
  BY <1>1, <1>2
<1> QED BY <1>3, Numbers

\* A number is a number of seconds and a rest in one way.
LEMMA OneWay ==
  ASSUME NEW p \in Int, NEW q \in Int, NEW r \in 0 .. Second - 1, NEW s \in 0 .. Second - 1,
         p * Second + r = q * Second + s
  PROVE  p = q /\ r = s
<1>1. ~(p < q)
  BY Products, Numbers
<1>2. ~(q < p)
  <2>1. q < p => q * Second + Second <= p * Second
    BY Products
  <2> QED BY <2>1, Products, Numbers
<1> QED BY <1>1, <1>2, Products, Numbers

\* Division rounds down,
LEMMA Division ==
  ASSUME NEW n \in Int
  PROVE  /\ n \div Second \in Int /\ n % Second \in 0 .. Second - 1
         /\ n = (n \div Second) * Second + (n % Second)
  BY Numbers

\* and is the one way there is.
LEMMA Divided ==
  ASSUME NEW q \in Int, NEW r \in 0 .. Second - 1
  PROVE  (q * Second + r) \div Second = q /\ (q * Second + r) % Second = r
<1>1. PICK n \in Int : n = q * Second + r
  BY Products, Numbers
<1> QED BY <1>1, Division, OneWay

\* normalizeSecNSec...() rounds towards the past.
LEMMA CarriedExact ==
  ASSUME NEW sec \in Int, NEW nsec \in Int, NEW least \in Int, NEW most \in Int,
         NEW q \in Int, NEW r \in 0 .. Second - 1, nsec = q * Second + r
  PROVE  Carried(sec, nsec, least, most)
           = IF sec + q < least \/ sec + q > most THEN Thrown ELSE [sec |-> sec + q, nsec |-> r]
<1>1. nsec \div Second = q /\ nsec % Second = r
  BY Divided
<1>2. nsec >= 0 => Quotient(nsec) = q /\ Remainder(nsec) = r
  BY <1>1, Products, Numbers DEF Quotient, Remainder
<1>3. nsec < 0 /\ r = 0 => Quotient(nsec) = q /\ Remainder(nsec) = 0
  <2> SUFFICES ASSUME nsec < 0, r = 0 PROVE Quotient(nsec) = q /\ Remainder(nsec) = 0
    OBVIOUS
  <2>1. - nsec = (- q) * Second + 0
    BY <1>1, Products
  <2>2. (- nsec) \div Second = - q
    BY <2>1, Divided, Numbers
  <2>3. Quotient(nsec) = q
    BY <2>2 DEF Quotient
  <2> QED BY <2>3, <1>1, Products DEF Remainder
<1>4. nsec < 0 /\ r # 0 => Quotient(nsec) = q + 1 /\ Remainder(nsec) = r - Second
  <2> SUFFICES ASSUME nsec < 0, r # 0 PROVE Quotient(nsec) = q + 1 /\ Remainder(nsec) = r - Second
    OBVIOUS
  <2>1. - nsec = (- q - 1) * Second + (Second - r)
    <3>1. (- q - 1) * Second = - (q * Second) - Second
      BY Products, Numbers
    <3> QED BY <1>1, <3>1, Products, Numbers
  <2>2. (- nsec) \div Second = - q - 1
    <3>1. - q - 1 \in Int /\ Second - r \in 0 .. Second - 1
      BY <1>1, Numbers
    <3> QED BY <2>1, <3>1, Divided
  <2>3. Quotient(nsec) = q + 1
    BY <2>2 DEF Quotient
  <2>4. Second * (q + 1) = q * Second + Second
    BY Products, Numbers
  <2> QED BY <2>3, <2>4, <1>1, Products, Numbers DEF Remainder
<1> DEFINE borrow == IF Remainder(nsec) < 0 THEN 1 ELSE 0
<1>5. Quotient(nsec) - borrow = q /\ Remainder(nsec) + borrow * Second = r /\ Quotient(nsec) \in Int /\ borrow \in Int
  BY <1>1, <1>2, <1>3, <1>4, Numbers
<1>6. sec + Quotient(nsec) - borrow = sec + q
  BY <1>5
<1> QED BY <1>5, <1>6 DEF Carried

\* So it makes of seconds and nanoseconds what their sum is, if that is within the bounds.
LEMMA CarriedSum ==
  ASSUME NEW sec \in Int, NEW nsec \in Int, NEW least \in Int, NEW most \in Int, NEW n \in Int,
         n = sec * Second + nsec
  PROVE  Carried(sec, nsec, least, most)
           = IF n \in least * Second .. (most + 1) * Second - 1
             THEN [sec |-> n \div Second, nsec |-> n % Second] ELSE Thrown
<1>1. PICK q \in Int, r \in 0 .. Second - 1 : q = nsec \div Second /\ r = nsec % Second /\ nsec = q * Second + r
  BY Division
<1>2. PICK w \in Int : w = sec + q
  OBVIOUS
<1>3. n = w * Second + r
  BY <1>1, <1>2, Products, Numbers
<1>4. n \div Second = w /\ n % Second = r
  BY <1>3, Divided
<1>5. w \in least .. most <=> n \in least * Second .. (most + 1) * Second - 1
  <2>1. w < least => n < least * Second
    BY <1>3, Products, Numbers
  <2>2. w >= least => n >= least * Second
    BY <1>3, Products, Numbers
  <2>3. w < most + 1 => n < (most + 1) * Second
    BY <1>3, Products, Numbers
  <2>4. w >= most + 1 => n >= (most + 1) * Second
    BY <1>3, Products, Numbers
  <2>5. least * Second \in Int /\ (most + 1) * Second \in Int
    BY Products, Numbers
  <2> QED BY <2>1, <2>2, <2>3, <2>4, <2>5, Numbers
<1>6. Carried(sec, nsec, least, most)
        = IF w < least \/ w > most THEN Thrown ELSE [sec |-> w, nsec |-> r]
  <2>1. nsec = q * Second + r
    BY <1>1
  <2> HIDE <1>1
  <2>2. Carried(sec, nsec, least, most)
        = IF sec + q < least \/ sec + q > most THEN Thrown ELSE [sec |-> sec + q, nsec |-> r]
    BY <2>1, CarriedExact
  <2> QED BY <2>2, <1>2
<1> QED BY <1>4, <1>5, <1>6

-----------------------------------------------------------------------------
\* The constructor of Time keeps the sum, or throws.
LEMMA NewTimeExact ==
  ASSUME NEW sec \in Int, NEW nsec \in Int, NEW n \in Int, n = sec * Second + nsec
  PROVE  NewTime(sec, nsec) = TimeOf(n)
<1>1. (Full - 1) + 1 = Full /\ Full - 1 \in Int /\ 0 * Second = 0
  BY Numbers
<1> QED BY <1>1, CarriedSum DEF NewTime, TimeOf

\* Likewise of a Duration.
LEMMA NewDurationExact ==
  ASSUME NEW sec \in Int, NEW nsec \in Int, NEW n \in Int, n = sec * Second + nsec
  PROVE  NewDuration(sec, nsec) = DurationOf(n)
<1>1. (Half - 1) + 1 = Half /\ Half - 1 \in Int /\ - Half \in Int
  BY Numbers
<1>2. (- Half) * Second = - Half * Second
  BY Products, Numbers
<1> QED BY <1>1, <1>2, CarriedSum DEF NewDuration, DurationOf

\* What a signed number holds is not changed; and what is off by as much as a number of
\* seconds can hold is brought back.
LEMMA WrappedSame ==
  ASSUME NEW s \in - Half .. Half - 1
  PROVE  Wrapped(s) = s /\ Wrapped(s + Full) = s /\ Wrapped(s - Full) = s
<1>1. PICK f \in Nat : f = Full /\ f = 2 * Half /\ f > 0
  BY Numbers
<1>2. PICK x \in Int : x = s + Half /\ x >= 0 /\ x < f
  BY <1>1, Numbers
<1>3. x % f = x /\ (x + f) % f = x /\ (x - f) % f = x
  BY <1>1, <1>2
<1> QED BY <1>1, <1>2, <1>3, Numbers DEF Wrapped

\* Minus of two instants: its seconds are right if a signed number holds them.
LEMMA DifferenceWraps ==
  ASSUME NEW s \in 0 .. Full - 1, NEW u \in 0 .. Full - 1, s - u \in - Half .. Half - 1
  PROVE  Wrapped(Wrapped(s) - Wrapped(u)) = s - u
<1>1. \A x \in 0 .. Full - 1 : Wrapped(x) = x \/ Wrapped(x) = x - Full
  <2> SUFFICES ASSUME NEW x \in 0 .. Full - 1 PROVE Wrapped(x) = x \/ Wrapped(x) = x - Full
    OBVIOUS
  <2>1. x < Half => Wrapped(x) = x
    BY WrappedSame, Numbers
  <2>2. x >= Half => Wrapped(x - Full + Full) = x - Full
    BY WrappedSame, Numbers
  <2>3. x - Full + Full = x
    BY Numbers
  <2> QED BY <2>1, <2>2, <2>3, Numbers
<1>2. PICK d \in - Half .. Half - 1 : d = s - u
  OBVIOUS
<1>3. Wrapped(s) - Wrapped(u) \in {d, d + Full, d - Full}
  BY <1>1, <1>2, Numbers
<1> QED BY <1>2, <1>3, WrappedSame

\* The nanoseconds of an instant or a duration, and how to get it back from them.
LEMMA Nanoseconds ==
  ASSUME NEW x, x \in Time \/ x \in Duration
  PROVE  /\ x.sec \in Int /\ x.nsec \in 0 .. Second - 1 /\ ToNSec(x) \in Int
         /\ ToNSec(x) = x.sec * Second + x.nsec
         /\ [sec |-> ToNSec(x) \div Second, nsec |-> ToNSec(x) % Second] = x
         /\ x \in Time => x.sec \in 0 .. Full - 1 /\ ToNSec(x) \in 0 .. Full * Second - 1
         /\ x \in Duration => x.sec \in - Half .. Half - 1 /\ ToNSec(x) \in (- Half) * Second .. Half * Second - 1
<1>1. x.sec \in Int /\ x.nsec \in 0 .. Second - 1 /\ x = [sec |-> x.sec, nsec |-> x.nsec]
  BY Numbers DEF Time, Duration
<1>2. x.sec * Second \in Int /\ ToNSec(x) = x.sec * Second + x.nsec /\ ToNSec(x) \in Int
  BY <1>1, Products, Numbers DEF ToNSec
<1>3. ToNSec(x) \div Second = x.sec /\ ToNSec(x) % Second = x.nsec
  BY <1>1, <1>2, Divided
<1>4. ASSUME x \in Time PROVE x.sec \in 0 .. Full - 1 /\ ToNSec(x) \in 0 .. Full * Second - 1
  <2>1. x.sec \in 0 .. Full - 1 /\ Full \in Int /\ x.sec < Full /\ x.sec >= 0
    BY <1>4, Numbers DEF Time
  <2>2. x.sec * Second + Second <= Full * Second /\ x.sec * Second >= 0 /\ Full * Second \in Int
    BY <2>1, Products, Numbers
  <2> QED BY <1>1, <1>2, <2>1, <2>2, Numbers
<1>5. ASSUME x \in Duration
      PROVE x.sec \in - Half .. Half - 1 /\ ToNSec(x) \in (- Half) * Second .. Half * Second - 1
  <2>1. x.sec \in - Half .. Half - 1 /\ x.sec < Half /\ x.sec >= - Half /\ - Half \in Int
    BY <1>5, Numbers DEF Duration
  <2>2. x.sec * Second + Second <= Half * Second /\ Half * Second \in Int
    BY <2>1, Products, Numbers
  <2>3. x.sec * Second >= (- Half) * Second /\ (- Half) * Second \in Int
    BY <2>1, <1>1, Products, Numbers
  <2> QED BY <1>1, <1>2, <2>1, <2>2, <2>3, Numbers
<1> QED BY <1>1, <1>2, <1>3, <1>4, <1>5

\* The order of instants and durations is that of their nanoseconds.
LEMMA OrderExact ==
  ASSUME NEW x, NEW y, x \in Time \/ x \in Duration, y \in Time \/ y \in Duration
  PROVE  (Less(x, y) <=> ToNSec(x) < ToNSec(y)) /\ (AtMost(x, y) <=> ToNSec(x) <= ToNSec(y))
<1>1. PICK a \in Int, b \in Int, r \in 0 .. Second - 1, s \in 0 .. Second - 1 :
        a = x.sec /\ b = y.sec /\ r = x.nsec /\ s = y.nsec
        /\ ToNSec(x) = a * Second + r /\ ToNSec(y) = b * Second + s
  BY Nanoseconds
<1>2. a < b => ToNSec(x) < ToNSec(y)
  BY <1>1, Products, Numbers
<1>3. b < a => ToNSec(y) < ToNSec(x)
  BY <1>1, Products, Numbers
<1>4. a = b => (ToNSec(x) < ToNSec(y) <=> r < s) /\ (ToNSec(x) <= ToNSec(y) <=> r <= s)
  BY <1>1, Products, Numbers
<1>5. ToNSec(x) \in Int /\ ToNSec(y) \in Int
  BY Nanoseconds
<1> QED BY <1>1, <1>2, <1>3, <1>4, <1>5 DEF Less, AtMost


\* Nanoseconds within the bounds are a duration, which is theirs.
LEMMA DurationHeld ==
  ASSUME NEW n \in (- Half) * Second .. Half * Second - 1, n \in Int
  PROVE  DurationOf(n) \in Duration /\ ToNSec(DurationOf(n)) = n
         /\ DurationOf(n) = [sec |-> n \div Second, nsec |-> n % Second]
<1>1. PICK q \in Int, r \in 0 .. Second - 1 : q = n \div Second /\ r = n % Second /\ n = q * Second + r
  BY Division
<1>2. - Half <= q /\ q < Half
  <2>1. q < - Half => q * Second + Second <= (- Half) * Second
    BY Products, Numbers
  <2>2. Half <= q => Half * Second <= q * Second
    BY Products, Numbers
  <2>3. (- Half) * Second \in Int /\ Half * Second \in Int
    BY Products, Numbers
  <2> QED BY <1>1, <2>1, <2>2, <2>3, Numbers
<1>3. DurationOf(n) = [sec |-> q, nsec |-> r]
  <2>1. (- Half) * Second = - Half * Second
    BY Products, Numbers
  <2> QED BY <1>1, <2>1 DEF DurationOf
<1> QED BY <1>1, <1>2, <1>3, Products, Numbers DEF Duration, ToNSec

\* What is the opposite of a duration is one as well, but for the longest one back.
LEMMA NegatedExact ==
  ASSUME NEW d \in Duration, d.sec # - Half
  PROVE  Negated(d) \in Duration /\ ToNSec(Negated(d)) = - ToNSec(d)
<1>1. PICK s \in Int, r \in 0 .. Second - 1, n \in Int :
         s = d.sec /\ r = d.nsec /\ n = ToNSec(d) /\ n = s * Second + r /\ s \in - Half .. Half - 1
  BY Nanoseconds
<1>2. Wrapped(- s) = - s
  <2>1. - s \in - Half .. Half - 1
    BY <1>1, Numbers
  <2> QED BY <2>1, WrappedSame
<1>3. - n = (- s) * Second + (- r) /\ - s \in Int /\ - r \in Int /\ - n \in Int
  BY <1>1, Products, Numbers
<1>4. Negated(d) = DurationOf(- n)
  BY <1>1, <1>2, <1>3, NewDurationExact DEF Negated
<1>5. - n \in (- Half) * Second .. Half * Second - 1
  <2>1. s * Second + Second <= Half * Second /\ Half * Second \in Int
    BY <1>1, Products, Numbers
  <2>2. (- Half) * Second + Second <= s * Second /\ (- Half) * Second \in Int
    <3>1. - Half \in Int /\ - Half < s
      BY <1>1, Numbers
    <3> QED BY <3>1, Products
  <2>3. (- Half) * Second = - (Half * Second)
    BY Products, Numbers
  <2> QED BY <1>1, <2>1, <2>2, <2>3, Numbers
<1> QED BY <1>4, <1>5, <1>1, DurationHeld

-----------------------------------------------------------------------------
\* Sums and differences of instants and durations are exact, whatever the instant, for
\* seconds of any length and numbers of any width.
THEOREM SumsAreExact == RosTimeTypeOK => ArithmeticExact
<1> SUFFICES ASSUME RosTimeTypeOK PROVE ArithmeticExact
  OBVIOUS
<1>1. PICK n \in Int : n = ToNSec(instant) /\ n = instant.sec * Second + instant.nsec /\ n \in 0 .. Full * Second - 1
         /\ instant.sec \in 0 .. Full - 1 /\ instant.nsec \in 0 .. Second - 1 /\ instant.sec \in Int /\ instant.nsec \in Int
         /\ instant \in Time /\ [sec |-> n \div Second, nsec |-> n % Second] = instant
  BY Nanoseconds, Numbers DEF RosTimeTypeOK
<1>2. Full * Second = Half * Second + Half * Second /\ (- Half) * Second = - Half * Second /\ Half * Second \in Int
      /\ Full * Second \in Int /\ (- Half) * Second = - (Half * Second) /\ 0 * Second = 0 /\ Full * Second > 0
  <2>1. 0 < Full /\ Full \in Int /\ Full = Half + Half
    BY Numbers
  <2>2. 0 * Second + Second <= Full * Second /\ Full * Second = Half * Second + Half * Second
    BY <2>1, Products, Numbers
  <2> QED BY <2>2, Products, Numbers
<1>3. PICK e \in Duration : e = DurationOf(n - Half * Second)
  <2>1. n - Half * Second \in (- Half) * Second .. Half * Second - 1 /\ n - Half * Second \in Int
    BY <1>1, <1>2
  <2> QED BY <2>1, DurationHeld
<1>4. TimeFromNSec(n) = instant
  <2>1. TimeFromNSec(n) = TimeOf(n)
    BY <1>1, <1>2, NewTimeExact DEF TimeFromNSec
  <2> QED BY <2>1, <1>1 DEF TimeOf
<1>5. TimeFromNSec(n + Full * Second) = Thrown
  <2>1. TimeFromNSec(n + Full * Second) = TimeOf(n + Full * Second)
    BY <1>1, <1>2, NewTimeExact DEF TimeFromNSec
  <2>2. n + Full * Second \notin 0 .. Full * Second - 1
    BY <1>1, <1>2
  <2> QED BY <2>1, <2>2 DEF TimeOf
<1>6. DurationFromNSec(ToNSec(e)) = e
  <2>1. PICK m \in Int : m = ToNSec(e) /\ m \in (- Half) * Second .. Half * Second - 1
           /\ [sec |-> m \div Second, nsec |-> m % Second] = e
    BY Nanoseconds
  <2>2. PICK q \in Int, r \in Int : q = Quotient(m) /\ r = Remainder(m) /\ m = q * Second + r /\ q \in - Half .. Half - 1
    <3> USE DEF Quotient, Remainder
    <3>1. CASE m >= 0
      <4>1. PICK q \in Int, r \in 0 .. Second - 1 : q = m \div Second /\ r = m % Second /\ m = q * Second + r
        BY Division
      <4>2. q < Half
        <5>1. Half <= q => Half * Second <= q * Second
          BY Products, Numbers
        <5>2. q * Second \in Int /\ r >= 0 /\ r \in Int
          BY <4>1, Products
        <5> QED BY <5>1, <5>2, <4>1, <2>1, <1>2, Numbers
      <4>3. q >= 0
        <5>1. q < 0 => q * Second + Second <= 0 * Second
          BY Products
        <5> QED BY <5>1, <4>1, <3>1, <1>2, Products, Numbers
      <4>4. Quotient(m) = q /\ Remainder(m) = r /\ q \in - Half .. Half - 1 /\ m = q * Second + r
        BY <4>1, <4>2, <4>3, <3>1, Products, Numbers
      <4> QED BY <4>1, <4>4
    <3>2. CASE m < 0
      <4>1. PICK q \in Int, r \in 0 .. Second - 1 : q = (- m) \div Second /\ r = (- m) % Second /\ - m = q * Second + r
        BY Division
      <4>2. q <= Half
        <5>1. Half < q => Half * Second + Second <= q * Second
          BY Products, Numbers
        <5>2. q * Second \in Int /\ r >= 0 /\ r \in Int
          BY <4>1, Products
        <5>3. - m <= Half * Second /\ - m \in Int
          BY <2>1, <1>2
        <5> QED BY <5>1, <5>2, <5>3, <4>1, <1>2, Numbers
      <4>3. q >= 0
        <5>1. q < 0 => q * Second + Second <= 0 * Second
          BY Products
        <5>2. q * Second \in Int /\ r < Second /\ Second \in Int /\ - m > 0
          BY <4>1, <3>2, Products, Numbers
        <5> QED BY <5>1, <5>2, <4>1, <1>2
      <4>4. Quotient(m) = - q /\ Remainder(m) = - r /\ - q \in - Half .. Half - 1 /\ m = (- q) * Second + (- r)
        <5>1. (- q) * Second = - (q * Second) /\ Second * (- q) = (- q) * Second /\ q * Second \in Int
          <6>1. - q \in Int
            BY <4>1
          <6> QED BY <4>1, <6>1, Products
        <5>2. Quotient(m) = - q
          BY <4>1, <3>2
        <5>3. Remainder(m) = m - Second * (- q)
          BY <5>2
        <5> QED BY <5>1, <5>2, <5>3, <4>1, <4>2, <4>3, Numbers
      <4>5. - q \in Int /\ - r \in Int
        BY <4>1
      <4> QED BY <4>4, <4>5
    <3> QED BY <3>1, <3>2
  <2>3. DurationFromNSec(m) = DurationOf(m)
    BY <2>2, WrappedSame, NewDurationExact DEF DurationFromNSec
  <2> QED BY <2>1, <2>3, <1>2 DEF DurationOf
<1>7. ASSUME NEW d \in Duration
      PROVE  /\ Plus(instant, d) = TimeOf(n + ToNSec(d))
             /\ d.sec # - Half => Plus(instant, Negated(d)) = TimeOf(n - ToNSec(d))
             /\ d.sec + e.sec \in - Half .. Half - 1 =>
                   DurationPlus(d, e) = DurationOf(ToNSec(d) + ToNSec(e))
             /\ (AtMost(d, e) <=> ToNSec(d) <= ToNSec(e))
  <2>1. ASSUME NEW f \in Duration PROVE Plus(instant, f) = TimeOf(n + ToNSec(f))
    <3>1. PICK s \in Int, r \in Int, m \in Int : s = f.sec /\ r = f.nsec /\ m = ToNSec(f) /\ m = s * Second + r
      BY Nanoseconds
    <3>2. PICK a \in Int, b \in Int : a = instant.sec /\ b = instant.nsec /\ n = a * Second + b
      BY <1>1
    <3>3. n + m = (a + s) * Second + (b + r) /\ n + m \in Int /\ a + s \in Int /\ b + r \in Int
      <4>1. (a + s) * Second = a * Second + s * Second /\ a * Second \in Int /\ s * Second \in Int
        BY <3>1, <3>2, Products
      <4> QED BY <4>1, <3>1, <3>2
    <3> QED BY <3>1, <3>2, <3>3, NewTimeExact DEF Plus
  <2>2. ASSUME d.sec # - Half PROVE Plus(instant, Negated(d)) = TimeOf(n - ToNSec(d))
    <3>1. Negated(d) \in Duration /\ ToNSec(Negated(d)) = - ToNSec(d) /\ ToNSec(d) \in Int
      BY <2>2, NegatedExact, Nanoseconds
    <3>2. n + - ToNSec(d) = n - ToNSec(d)
      BY <3>1, <1>1
    <3> QED BY <2>1, <3>1, <3>2
  <2>3. ASSUME d.sec + e.sec \in - Half .. Half - 1
        PROVE  DurationPlus(d, e) = DurationOf(ToNSec(d) + ToNSec(e))
    <3>1. PICK s \in Int, r \in Int, m \in Int : s = d.sec /\ r = d.nsec /\ m = ToNSec(d) /\ m = s * Second + r
      BY Nanoseconds
    <3>2. PICK a \in Int, b \in Int, k \in Int : a = e.sec /\ b = e.nsec /\ k = ToNSec(e) /\ k = a * Second + b
      BY Nanoseconds
    <3>3. m + k = (s + a) * Second + (r + b) /\ m + k \in Int /\ s + a \in Int /\ r + b \in Int
      <4>1. (s + a) * Second = s * Second + a * Second /\ a * Second \in Int /\ s * Second \in Int
        BY <3>1, <3>2, Products
      <4> QED BY <4>1, <3>1, <3>2
    <3>4. Wrapped(s + a) = s + a
      BY <2>3, <3>1, <3>2, WrappedSame
    <3> QED BY <3>1, <3>2, <3>3, <3>4, NewDurationExact DEF DurationPlus
  <2>4. AtMost(d, e) <=> ToNSec(d) <= ToNSec(e)
    BY OrderExact
  <2> QED BY <2>1, <2>2, <2>3, <2>4
<1>8. ASSUME NEW t \in Time
      PROVE  /\ t.sec - instant.sec \in - Half .. Half - 1 => Minus(t, instant) = DurationOf(ToNSec(t) - n)
             /\ (Less(t, instant) <=> ToNSec(t) < n)
  <2>1. ASSUME t.sec - instant.sec \in - Half .. Half - 1
        PROVE  Minus(t, instant) = DurationOf(ToNSec(t) - n)
    <3>1. PICK s \in Int, r \in Int, m \in Int :
            s = t.sec /\ r = t.nsec /\ m = ToNSec(t) /\ m = s * Second + r /\ s \in 0 .. Full - 1
      BY Nanoseconds
    <3>2. PICK a \in Int, b \in Int : a = instant.sec /\ b = instant.nsec /\ n = a * Second + b /\ a \in 0 .. Full - 1
      BY <1>1
    <3>3. m - n = (s - a) * Second + (r - b) /\ m - n \in Int /\ s - a \in Int /\ r - b \in Int
      BY <3>1, <3>2, Products, Numbers
    <3>4. Wrapped(Wrapped(s) - Wrapped(a)) = s - a
      BY <2>1, <3>1, <3>2, DifferenceWraps
    <3> QED BY <3>1, <3>2, <3>3, <3>4, NewDurationExact DEF Minus
  <2>2. Less(t, instant) <=> ToNSec(t) < n
    BY OrderExact, <1>1
  <2> QED BY <2>1, <2>2
<1> QED BY <1>1, <1>3, <1>4, <1>5, <1>6, <1>7, <1>8 DEF ArithmeticExact
=============================================================================
