------------------------------ MODULE ImuPairing ------------------------------
(***************************************************************************)
(* SensorSettingVC: accelerometer and gyroscope samples arrive on the      *)
(* serial retrieveQueue; processIMU pairs each gyroscope sample with the   *)
(* two accelerometer samples around it and hands the interpolated sample   *)
(* to the session queue while recording or publishing.                     *)
(*                                                                         *)
(* A sample is its timestamp.  The main queue changes the recording and    *)
(* publishing flags at any time, so every iteration of processIMU's outer  *)
(* loop is a step.                                                         *)
(***************************************************************************)
EXTENDS Integers, Sequences

VARIABLES
  acces, gyros,     \* the two buffers
  imuSeq,           \* imuCount (the name is Recorder's)
  active,           \* isRecordingBag || isPublishing
  pos,              \* loop variable i of processIMU, 0 outside it
  last_acc_id,      \* last_acc_id, 0 for -1: indices count from 1
  last_gyro_id,     \* last_gryo_id, likewise
  sent,             \* history: what was handed to the session queue
  paired,           \* history: every sample paired, sent or not
  accTimes, gyroTimes \* history: the samples delivered

imuVars == <<acces, gyros, imuSeq, active, pos, last_acc_id, last_gyro_id, sent, paired,
          accTimes, gyroTimes>>

ImuT == [t : Nat, before : Nat, after : Nat, seq : Nat]
Imu(t, before, after, seq) == [t |-> t, before |-> before, after |-> after, seq |-> seq]

ImuInit ==
  /\ acces = <<>> /\ gyros = <<>> /\ imuSeq = 0 /\ active = FALSE
  /\ pos = 0 /\ last_acc_id = 0 /\ last_gyro_id = 0
  /\ sent = <<>> /\ paired = {} /\ accTimes = {} /\ gyroTimes = {}

-----------------------------------------------------------------------------
\* The accelerometer handler.
Accelerometer(t) ==
  /\ pos = 0 /\ \A x \in accTimes : x < t
  /\ acces' = Append(acces, t) /\ accTimes' = accTimes \union {t}
  /\ UNCHANGED <<gyros, imuSeq, active, pos, last_acc_id, last_gyro_id, sent, paired,
                 gyroTimes>>

\* The gyroscope handler, which calls processIMU unless a buffer is empty.
Gyroscope(t) ==
  /\ pos = 0 /\ \A x \in gyroTimes : x < t
  /\ gyros' = Append(gyros, t) /\ gyroTimes' = gyroTimes \union {t}
  /\ pos' = IF acces # <<>> THEN 1 ELSE 0
  /\ UNCHANGED <<acces, imuSeq, active, last_acc_id, last_gyro_id, sent, paired, accTimes>>

AroundOpen(t, j) == acces[j] <= t /\ t < acces[j + 1] \* mutant: the other end is open
\* The interval of accelerometer samples that holds t.
Around(t, j) == acces[j] < t /\ t <= acces[j + 1]
Intervals(t) == {j \in 1 .. Len(acces) - 1 : Around(t, j)}

\* Iteration pos of the outer loop; the inner one stops at the first interval.
Pair ==
  /\ pos \in 1 .. Len(gyros)
  /\ pos' = pos + 1
  /\ \/ /\ Intervals(gyros[pos]) = {}
        /\ UNCHANGED <<imuSeq, last_acc_id, last_gyro_id, sent, paired>>
     \/ \E j \in Intervals(gyros[pos]) :
          LET m == Imu(gyros[pos], acces[j], acces[j + 1], imuSeq)
          IN /\ \A l \in Intervals(gyros[pos]) : j <= l
             /\ sent' = IF active THEN Append(sent, m) ELSE sent
             /\ paired' = paired \union {m}
             /\ imuSeq' = imuSeq + 1
             /\ last_acc_id' = j /\ last_gyro_id' = pos
  /\ UNCHANGED <<acces, gyros, active, accTimes, gyroTimes>>

KeepLast(s, n) == SubSeq(s, n, Len(s)) \* mutant: the last paired sample stays
Drop(s, n) == SubSeq(s, n + 1, Len(s))

TrimAll == \* mutant: both buffers are emptied up to the last interval's end
  /\ pos > Len(gyros)
  /\ acces' = IF last_acc_id > 0 THEN Drop(acces, last_acc_id) ELSE acces
  /\ gyros' = IF last_gyro_id > 0 THEN Drop(gyros, last_gyro_id) ELSE gyros
  /\ pos' = 0 /\ last_acc_id' = 0 /\ last_gyro_id' = 0
  /\ UNCHANGED <<imuSeq, active, sent, paired, accTimes, gyroTimes>>

\* After the loop: what was paired leaves the buffers; the start of the last interval stays.
Trim ==
  /\ pos > Len(gyros)
  /\ acces' = IF last_acc_id > 0 THEN SubSeq(acces, last_acc_id, Len(acces)) ELSE acces
  /\ gyros' = IF last_gyro_id > 0 THEN Drop(gyros, last_gyro_id) ELSE gyros
  /\ pos' = 0 /\ last_acc_id' = 0 /\ last_gyro_id' = 0
  /\ UNCHANGED <<imuSeq, active, sent, paired, accTimes, gyroTimes>>

\* The main queue: record or publish toggled.
SetActive(b) ==
  /\ active' = b
  /\ UNCHANGED <<acces, gyros, imuSeq, pos, last_acc_id, last_gyro_id, sent, paired,
                 accTimes, gyroTimes>>

ImuNext ==
  \/ \E t \in Nat : Accelerometer(t) \/ Gyroscope(t)
  \/ Pair
  \/ Trim
  \/ \E b \in BOOLEAN : SetActive(b)

ImuSpec == ImuInit /\ [][ImuNext]_imuVars

-----------------------------------------------------------------------------
(* Properties *)

ImuTypeOK ==
  /\ acces \in Seq(Nat) /\ gyros \in Seq(Nat)
  /\ accTimes \subseteq Nat /\ gyroTimes \subseteq Nat
  /\ imuSeq \in Nat /\ active \in BOOLEAN
  /\ pos \in 0 .. Len(gyros) + 1
  /\ last_acc_id \in 0 .. Len(acces) /\ last_gyro_id \in 0 .. Len(gyros)
  /\ sent \in Seq(ImuT)
  /\ paired \subseteq ImuT

\* The session queue gets the samples in the order of their times and of their header
\* sequence numbers, each at most once, however the flags are toggled.
SentInOrder ==
  \A k, l \in 1 .. Len(sent) : k < l => sent[k].t < sent[l].t /\ sent[k].seq < sent[l].seq

\* Every paired sample is interpolated between the two accelerometer samples delivered
\* next to it, although the buffer is trimmed after each run of processIMU.
BetweenNeighbours ==
  \A m \in paired : /\ {m.before, m.after} \subseteq accTimes
                    /\ m.before < m.t /\ m.t <= m.after
                    /\ \A x \in accTimes : x <= m.before \/ m.after <= x

\* A gyroscope sample leaves the buffer unpaired only if no accelerometer sample precedes it.
NoGyroLost ==
  pos = 0 => \A t \in gyroTimes :
    \/ \E i \in 1 .. Len(gyros) : gyros[i] = t
    \/ \E m \in paired : m.t = t
    \/ \A x \in accTimes : t <= x
=============================================================================
