------------------------------- MODULE Recorder -------------------------------
(***************************************************************************)
(* The recording path of the app: ViewController and SensorSettingVC on    *)
(* the main queue, the serial session queue that owns the writing, and     *)
(* ReplayVC, which opens and closes the same global bag from the main      *)
(* queue (Publisher.mm: bag_ptr).                                          *)
(*                                                                         *)
(* A main-queue handler is a step, but ReplayVC.viewDidLoad is two, since  *)
(* the session worker runs between them; so is a publish block, which      *)
(* tests bag_ptr->isOpen() and then writes.  A bag is what Bag.tla shows   *)
(* it to be: a file that holds its messages and is readable once closed.   *)
(***************************************************************************)
EXTENDS Integers, Sequences, SequencesExt

CONSTANTS
  MaxRecs,      \* bound: recordings
  MaxSamples,   \* bound: samples
  MaxSeconds,   \* bound: the clock that names the files
  MaxReplays    \* bound: replays

ASSUME BoundsAssumption ==
  MaxRecs \in Nat /\ MaxSamples \in Nat /\ MaxSeconds \in Nat \ {0} /\ MaxReplays \in Nat

Kinds == {"img", "imu", "gps"}
NoFile == 0
Files == 1 .. MaxSeconds

VARIABLES
  app,            \* "running", "exited", "assert_failed" or "terminated"
  isRecordOn,     \* ViewController.isRecordOn
  isRecordingBag, \* SensorSettingVC.isRecordingBag
  isPublishing,   \* SensorSettingVC.isPublishing and Publisher's _need_publishing
  sessionQueue,   \* the blocks of sessionQueue
  worker,         \* the publish block between its test and its write, or <<>>
  bag,            \* *bag_ptr
  disk,           \* the documents directory: file -> its recording, messages, readable
  clock,          \* the second that openRecording names the file after
  fileListData, selectedFile,
  imgCount, imuCount, gpsCount,
  replay,         \* ReplayVC: "none", "loading", "shown"
  asked,          \* history: the samples queued between the two taps of a recording
  samples, replays \* counters behind the bounds

queues == <<sessionQueue, worker>>
files == <<bag, disk>>
list == <<fileListData, selectedFile>>
counts == <<imgCount, imuCount, gpsCount>>
vars == <<app, isRecordOn, isRecordingBag, isPublishing, queues, files, clock, list, counts,
          replay, asked, samples, replays>>

Closed == [mode |-> "closed", rec |-> 0, file |-> NoFile]
Open(n) == [op |-> "open", rec |-> n]
Close == [op |-> "close"]
Publish(k, n, q) == [op |-> "publish", kind |-> k, id |-> n, seq |-> q]

Init ==
  /\ app = "running" /\ isRecordOn = FALSE /\ isRecordingBag = FALSE /\ isPublishing = FALSE
  /\ sessionQueue = <<>> /\ worker = <<>>
  /\ bag = Closed /\ disk = <<>> /\ clock = 1
  /\ fileListData = {} /\ selectedFile = NoFile
  /\ imgCount = 0 /\ imuCount = 0 /\ gpsCount = 0
  /\ replay = "none" /\ asked = <<>> /\ samples = 0 /\ replays = 0

\* Closing or destroying a bag that is being written completes its file, unless that was
\* deleted or replaced meanwhile.
Sealed(d) ==
  IF bag.mode = "write" /\ bag.file \in DOMAIN d /\ d[bag.file].rec = bag.rec
  THEN [d EXCEPT ![bag.file].readable = TRUE]
  ELSE d

Running == app = "running"
MainFree == Running /\ replay # "loading"
OnMainScreen == Running /\ replay = "none"

-----------------------------------------------------------------------------
(* The main queue: the record and publish buttons, the list of bags *)

UpdateBagList ==
  /\ fileListData' = DOMAIN disk
  /\ IF DOMAIN disk = {} THEN UNCHANGED selectedFile ELSE selectedFile' \in DOMAIN disk

OpenRecordingNow == \* mutant: the bag is opened on the main queue
  /\ asked' = Append(asked, <<>>)
  /\ bag' = [mode |-> "write", rec |-> Len(asked) + 1, file |-> clock]
  /\ disk' = [f \in DOMAIN disk \union {clock} |->
                IF f = clock THEN [rec |-> Len(asked) + 1, msgs |-> <<>>, readable |-> FALSE]
                             ELSE Sealed(disk)[f]]
  /\ UNCHANGED queues
OpenRecording ==
  /\ sessionQueue' = Append(sessionQueue, Open(Len(asked) + 1))
  /\ asked' = Append(asked, <<>>)
  /\ UNCHANGED <<worker, files>>

StartRecord ==
  /\ OnMainScreen /\ ~ isRecordOn /\ Len(asked) < MaxRecs
  /\ isRecordOn' = TRUE
  /\ OpenRecording
  /\ UNCHANGED <<app, isRecordingBag, isPublishing, clock, list, counts, replay, samples, replays>>

CloseRecordingNow == \* mutant: the bag is closed on the main queue
  /\ disk' = Sealed(disk) /\ bag' = Closed
  /\ UNCHANGED queues
CloseIfRecording == \* mutant: nothing to close while isRecordingBag is false
  /\ sessionQueue' = IF isRecordingBag THEN Append(sessionQueue, Close) ELSE sessionQueue
  /\ UNCHANGED <<worker, files>>
CloseRecording ==
  /\ sessionQueue' = Append(sessionQueue, Close)
  /\ UNCHANGED <<worker, files>>

StopRecord ==
  /\ OnMainScreen /\ isRecordOn
  /\ isRecordOn' = FALSE /\ isRecordingBag' = FALSE
  /\ CloseRecording
  /\ UpdateBagList
  /\ UNCHANGED <<app, isPublishing, clock, counts, replay, asked, samples, replays>>

TogglePublish ==
  /\ OnMainScreen
  /\ isPublishing' = ~ isPublishing
  /\ UNCHANGED <<app, isRecordOn, isRecordingBag, queues, files, clock, list, counts, replay,
                 asked, samples, replays>>

Select(f) ==
  /\ OnMainScreen /\ f \in fileListData
  /\ selectedFile' = f
  /\ UNCHANGED <<app, isRecordOn, isRecordingBag, isPublishing, queues, files, clock,
                 fileListData, counts, replay, asked, samples, replays>>

\* deleteBagList of the files in gone, and the list read again; an open bag keeps its file.
Delete(gone) ==
  /\ OnMainScreen
  /\ disk' = [f \in DOMAIN disk \ gone |-> disk[f]]
  /\ fileListData' = DOMAIN disk'
  /\ IF DOMAIN disk' = {} THEN UNCHANGED selectedFile ELSE selectedFile' \in DOMAIN disk'
  /\ UNCHANGED <<app, isRecordOn, isRecordingBag, isPublishing, queues, bag, clock, counts,
                 replay, asked, samples, replays>>

-----------------------------------------------------------------------------
(* Samples: captureOutput and processGPS on the main queue, processIMU on retrieveQueue *)

Wanted == isRecordingBag \/ isPublishing

\* The sample joins the recording whose taps it lies between.
Enqueue(k, q) ==
  /\ sessionQueue' = Append(sessionQueue, Publish(k, samples + 1, q))
  /\ asked' = IF isRecordOn THEN [asked EXCEPT ![Len(asked)] = Append(@, samples + 1)] ELSE asked
  /\ samples' = samples + 1

CaptureOutput ==
  /\ MainFree /\ samples < MaxSamples /\ Wanted
  /\ Enqueue("img", 0)
  /\ UNCHANGED <<app, isRecordOn, isRecordingBag, isPublishing, worker, files, clock, list,
                 counts, replay, replays>>

ProcessGPS ==
  /\ MainFree /\ samples < MaxSamples /\ gpsCount < MaxSamples
  /\ IF Wanted THEN Enqueue("gps", 0) ELSE UNCHANGED <<sessionQueue, asked, samples>>
  /\ gpsCount' = gpsCount + 1
  /\ UNCHANGED <<app, isRecordOn, isRecordingBag, isPublishing, worker, files, clock, list,
                 imgCount, imuCount, replay, replays>>

ProcessIMU ==
  /\ Running /\ samples < MaxSamples /\ imuCount < MaxSamples
  /\ IF Wanted THEN Enqueue("imu", imuCount) ELSE UNCHANGED <<sessionQueue, asked, samples>>
  /\ imuCount' = imuCount + 1
  /\ UNCHANGED <<app, isRecordOn, isRecordingBag, isPublishing, worker, files, clock, list,
                 imgCount, gpsCount, replay, replays>>

-----------------------------------------------------------------------------
(* The session queue *)

Task == Head(sessionQueue)
Dequeue(op) == Running /\ worker = <<>> /\ sessionQueue # <<>> /\ Task.op = op
               /\ sessionQueue' = Tail(sessionQueue)

\* bag_ptr.reset(new Bag) closes the old bag; opening for writing truncates the file.
RunOpen ==
  /\ Dequeue("open")
  /\ bag' = [mode |-> "write", rec |-> Task.rec, file |-> clock]
  /\ disk' = [f \in DOMAIN disk \union {clock} |->
                IF f = clock THEN [rec |-> Task.rec, msgs |-> <<>>, readable |-> FALSE]
                             ELSE Sealed(disk)[f]]
  /\ isRecordingBag' = TRUE
  /\ UNCHANGED <<app, isRecordOn, isPublishing, worker, clock, list, counts, replay, asked,
                 samples, replays>>

RunClose ==
  /\ Dequeue("close")
  /\ disk' = Sealed(disk) /\ bag' = Closed
  /\ UNCHANGED <<app, isRecordOn, isRecordingBag, isPublishing, worker, clock, list, counts,
                 replay, asked, samples, replays>>

\* The header's sequence number: an image's and a position's are read by the block.
HeaderSeq(t) == CASE t.kind = "img" -> imgCount
              [] t.kind = "imu" -> t.seq
              [] t.kind = "gps" -> gpsCount

Counted(t) == IF t.kind = "img" THEN imgCount + 1 ELSE imgCount

\* publishImg, publishImu, publishGps up to the test of bag_ptr->isOpen().
RunPublish ==
  /\ Dequeue("publish")
  /\ IF bag.mode # "closed"
     THEN /\ worker' = <<[Task EXCEPT !.seq = HeaderSeq(Task)]>>
          /\ UNCHANGED imgCount
     ELSE /\ imgCount' = Counted(Task)
          /\ UNCHANGED worker
  /\ UNCHANGED <<app, isRecordOn, isRecordingBag, isPublishing, files, clock, list, imuCount,
                 gpsCount, replay, asked, samples, replays>>

\* bag_ptr->write(); on a bag that is not open for writing it throws, and nobody catches.
RunWrite ==
  /\ Running /\ worker # <<>>
  /\ worker' = <<>>
  /\ IF bag.mode = "write"
     THEN /\ disk' = IF bag.file \in DOMAIN disk /\ disk[bag.file].rec = bag.rec
                     THEN [disk EXCEPT ![bag.file].msgs = Append(@, worker[1])]
                     ELSE disk
          /\ imgCount' = Counted(worker[1])
          /\ UNCHANGED app
     ELSE /\ app' = "terminated"
          /\ UNCHANGED <<disk, imgCount>>
  /\ UNCHANGED <<isRecordOn, isRecordingBag, isPublishing, sessionQueue, bag, clock, list,
                 imuCount, gpsCount, replay, asked, samples, replays>>

-----------------------------------------------------------------------------
(* ReplayVC on the main queue *)

\* touchReplay and viewDidLoad up to publisher.open; a bag that cannot be read ends the app.
TouchReplay ==
  /\ OnMainScreen /\ selectedFile # NoFile /\ replays < MaxReplays
  /\ replays' = replays + 1
  /\ IF selectedFile \in DOMAIN disk
     THEN /\ disk' = Sealed(disk)
          /\ IF disk'[selectedFile].readable
             THEN /\ bag' = [mode |-> "read", rec |-> disk[selectedFile].rec, file |-> selectedFile]
                  /\ replay' = "loading" /\ UNCHANGED app
             ELSE bag' = Closed /\ app' = "exited" /\ UNCHANGED replay
     ELSE replay' = "shown" /\ UNCHANGED <<app, files>>
  /\ UNCHANGED <<isRecordOn, isRecordingBag, isPublishing, queues, clock, list, counts, asked,
                 samples>>

\* The rest of viewDidLoad: getFrameInfo asserts that the bag is open.
LoadFrames ==
  /\ Running /\ replay = "loading"
  /\ IF bag.mode # "closed"
     THEN replay' = "shown" /\ UNCHANGED app
     ELSE app' = "assert_failed" /\ UNCHANGED replay
  /\ UNCHANGED <<isRecordOn, isRecordingBag, isPublishing, queues, files, clock, list, counts,
                 asked, samples, replays>>

TouchReturn ==
  /\ Running /\ replay = "shown"
  /\ replay' = "none"
  /\ disk' = Sealed(disk) /\ bag' = Closed
  /\ UNCHANGED <<app, isRecordOn, isRecordingBag, isPublishing, queues, clock, list, counts,
                 asked, samples, replays>>

Tick ==
  /\ Running /\ clock < MaxSeconds
  /\ clock' = clock + 1
  /\ UNCHANGED <<app, isRecordOn, isRecordingBag, isPublishing, queues, files, list, counts,
                 replay, asked, samples, replays>>

Next ==
  \/ StartRecord \/ StopRecord \/ TogglePublish
  \/ \E f \in Files : Select(f)
  \/ Delete({selectedFile}) \/ Delete(Files)
  \/ CaptureOutput \/ ProcessGPS \/ ProcessIMU
  \/ RunOpen \/ RunClose \/ RunPublish \/ RunWrite
  \/ TouchReplay \/ LoadFrames \/ TouchReturn
  \/ Tick

Spec == Init /\ [][Next]_vars

-----------------------------------------------------------------------------
(* Properties *)

Messages == [op : {"publish"}, kind : Kinds, id : 1 .. MaxSamples, seq : 0 .. MaxSamples]
Tasks == Messages \union {Close} \union {Open(n) : n \in 1 .. MaxRecs}
Bags == [rec : 1 .. MaxRecs, msgs : Seq(Messages), readable : BOOLEAN]

TypeOK ==
  /\ app \in {"running", "exited", "assert_failed", "terminated"}
  /\ isRecordOn \in BOOLEAN /\ isRecordingBag \in BOOLEAN /\ isPublishing \in BOOLEAN
  /\ sessionQueue \in Seq(Tasks)
  /\ worker = <<>> \/ \E t \in Messages : worker = <<t>>
  /\ bag = Closed \/ bag \in [mode : {"read", "write"}, rec : 1 .. MaxRecs, file : Files]
  /\ disk \in [DOMAIN disk -> Bags] /\ DOMAIN disk \subseteq Files
  /\ clock \in Files /\ fileListData \subseteq Files /\ selectedFile \in Files \union {NoFile}
  /\ imgCount \in 0 .. MaxSamples /\ imuCount \in 0 .. MaxSamples /\ gpsCount \in 0 .. MaxSamples
  /\ replay \in {"none", "loading", "shown"}
  /\ asked \in Seq(Seq(1 .. MaxSamples)) /\ Len(asked) <= MaxRecs
  /\ samples \in 0 .. MaxSamples /\ replays \in 0 .. MaxReplays

Ids(msgs) == [i \in DOMAIN msgs |-> msgs[i].id]

\* The header sequence numbers of a file's images and IMU samples increase.  Those of its
\* positions only never decrease: the block reads gpsCount, which is incremented behind it.
StampFollows(m, n) == m.seq < n.seq \/ (m.kind = "gps" /\ m.seq = n.seq)
StampsIncrease ==
  \A f \in DOMAIN disk : \A i, j \in DOMAIN disk[f].msgs :
    LET m == disk[f].msgs[i]
        n == disk[f].msgs[j]
    IN i < j /\ m.kind = n.kind => StampFollows(m, n)

\* A file holds a prefix, in order, of the samples that were queued between the two taps of
\* its recording, and nothing else, although it is opened and closed by queued blocks and the
\* samples come from three sources; and its sequence numbers do not go back.
RecordedIsPrefix ==
  /\ TypeOK
  /\ \A f \in DOMAIN disk : IsPrefix(Ids(disk[f].msgs), asked[disk[f].rec])
  /\ StampsIncrease

\* A readable file holds all of them, as long as no replay has taken the bag away: stopping a
\* recording loses no sample already queued.
FinishedIsComplete ==
  replays = 0 => \A f \in DOMAIN disk :
    disk[f].readable => Ids(disk[f].msgs) = asked[disk[f].rec]

Settled == Running /\ sessionQueue = <<>> /\ worker = <<>>

\* Once the session queue has drained, the record sign is shown iff a bag is open for writing,
\* however fast the button is tapped; a replay closes the bag and leaves the sign.
SignMeansRecording ==
  replays = 0 /\ Settled => (isRecordOn <=> bag.mode = "write")

\* getFrameInfo: assert(bag_ptr->isOpen()).  No run checks it: a block still in the session
\* queue may close the bag the replay screen has just opened.
FrameBagIsOpen == app # "assert_failed"
=============================================================================
