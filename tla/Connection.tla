----------------------------- MODULE Connection -----------------------------
(* A Connection over a TransportTCP in the poll set, used by one of its four    *)
(* owners: TransportPublisherLink ("subscriber"), TransportSubscriberLink       *)
(* ("publisher"), ServiceServerLink ("client") and ServiceClientLink ("server").*)
(* The poll thread runs socketUpdate(); the other threads connect, call, answer *)
(* and drop.  A thread is a stack of frames, because a callback that reads or   *)
(* writes runs inside the call that completed the operation before.  A message  *)
(* is written in up to two pieces and read as its length and its body.          *)
EXTENDS Integers, Sequences

CONSTANTS Regimes, User

ASSUME UserAssumption == User \subseteq Nat \ {0}

VARIABLES
    regime,         \* the owner, its threads and what its peer may do
    stack,          \* the calls each thread is in, the innermost first
    stage, revents, \* where the poll thread is in update() and socketUpdate()
    wcm, owner,     \* who holds write_callback_mutex_, read_mutex_ and write_mutex_
    busy, has,      \* reading_ and writing_; has_read_callback_ and has_write_callback_
    left, what,     \* what of the message being written is left, and which it is
    next,           \* what the next read is of
    dropped_, sending_header_error_,
    closed_, expecting, events,
    outbuf, inbuf, got, owed, peer,     \* the socket and the other end
    waiting, current, made, gone        \* the owner: what is queued, whether one is under way (or
                                        \* none may begin yet), how many there were, who has called

locks == <<wcm, owner>>
flags == <<busy, has, left, what, next>>
drops == <<dropped_, sending_header_error_>>
transport == <<closed_, expecting, events>>
socket == <<outbuf, inbuf, got, owed, peer>>
links == <<waiting, current, made, gone>>
vars == <<regime, stack, stage, revents, locks, flags, drops, transport, socket, links>>

Poll == 0
None == -1
Thread == {Poll} \cup User
Side == {"in", "out"}
Message == 2
Kind == regime.kind
Connects == Kind \in {"subscriber", "client"}

Frame(side, at, type, immediate) == [side |-> side, at |-> at, type |-> type, immediate |-> immediate]
Read == Frame("in", "check", "data", TRUE)
Write(type, immediate) == Frame("out", "check", type, immediate)
Drop == Frame("both", "drop", "data", TRUE)
Close == Frame("both", "close", "data", TRUE)

\* The end that connects reads and writes its header in its own thread; the other reads.
Init ==
    /\ regime \in Regimes
    /\ stack = [t \in Thread |->
                   IF Connects /\ t = 1 THEN <<Read, Write("header", FALSE)>>
                   ELSE IF ~Connects /\ t = Poll THEN <<Read>> ELSE <<>>]
    /\ stage = "idle" /\ revents = {}
    /\ wcm = None /\ owner = [s \in Side |-> None]
    /\ busy = [s \in Side |-> FALSE] /\ has = [s \in Side |-> FALSE]
    /\ left = 0 /\ what = "header" /\ next = <<"header", "length">>
    /\ dropped_ = FALSE /\ sending_header_error_ = FALSE
    /\ closed_ = FALSE /\ expecting = [s \in Side |-> FALSE] /\ events = [s \in Side |-> FALSE]
    /\ outbuf = 0 /\ inbuf = 0 /\ got = 0 /\ peer = "open"
    /\ owed = IF Connects THEN 0 ELSE Message
    /\ waiting = 0 /\ current = (Kind \in {"publisher", "client"}) /\ made = 0 /\ gone = {}

Top(t) == Head(stack[t])
In(t, at) == stack[t] # <<>> /\ Top(t).at = at
Goto(t, at) == stack' = [stack EXCEPT ![t][1].at = at]
Return(t) == stack' = [stack EXCEPT ![t] = Tail(@)]
\* The innermost call goes on at "at" when the calls made now have returned.
Calls(t, at, made_now) == stack' = [stack EXCEPT ![t] = made_now \o <<[Head(@) EXCEPT !.at = at]>> \o Tail(@)]

\* close_mutex_ is held while the poll thread runs the callbacks of socketUpdate(): until that
\* of writing has returned, which is where the stage is "hup" and the poll thread not yet idle.
Updating == stage \in {"in", "out"} \/ (stage = "hup" /\ stack[Poll] # <<>>)
CloseMutexFree(t) == t = Poll \/ ~Updating
\* The recursive mutex of reading, and the plain one that guards the write callback.
MutexFree(t, side) == IF side = "in" THEN owner["in"] \in {None, t} ELSE wcm = None

-----------------------------------------------------------------------------
(* Connection::read() and write(), enableRead() and enableWrite().              *)

Check(t) ==
    /\ In(t, "check")
    /\ IF dropped_ \/ sending_header_error_ THEN Return(t) ELSE Goto(t, "set")
    /\ UNCHANGED <<regime, stage, revents, locks, flags, drops, transport, socket, links>>

SetOp(t) ==
    LET side == Top(t).side IN
    /\ In(t, "set") /\ MutexFree(t, side)
    /\ has' = [has EXCEPT ![side] = TRUE]
    /\ IF side = "out" THEN left' = Message /\ what' = Top(t).type ELSE UNCHANGED <<left, what>>
    /\ Goto(t, "enable")
    /\ UNCHANGED <<regime, stage, revents, locks, busy, next, drops, transport, socket, links>>

Enable(t) ==
    /\ In(t, "enable") /\ CloseMutexFree(t)
    /\ Goto(t, IF closed_ \/ expecting[Top(t).side] THEN "enabled" ELSE "add")
    /\ UNCHANGED <<regime, stage, revents, locks, flags, drops, transport, socket, links>>

\* The events of a socket that has left the poll set are not to be found.
AddEvents(t) ==
    /\ In(t, "add")
    /\ events' = [events EXCEPT ![Top(t).side] = ~closed_]
    /\ Goto(t, "added")
    /\ UNCHANGED <<regime, stage, revents, locks, flags, drops, closed_, expecting, socket, links>>

Expect(t) ==
    /\ In(t, "added")
    /\ expecting' = [expecting EXCEPT ![Top(t).side] = TRUE]
    /\ Goto(t, "enabled")
    /\ UNCHANGED <<regime, stage, revents, locks, flags, drops, closed_, events, socket, links>>

\* What is not immediate is left to the poll thread, an error header among it.
Enabled(t) ==
    /\ In(t, "enabled")
    /\ IF Top(t).immediate THEN Goto(t, "try") ELSE Return(t)
    /\ sending_header_error_' = (sending_header_error_ \/ Top(t).type = "error")
    /\ UNCHANGED <<regime, stage, revents, locks, flags, dropped_, transport, socket, links>>

-----------------------------------------------------------------------------
(* readTransport() and writeTransport(): entering, and the way out.             *)

Try(t) ==
    LET side == Top(t).side IN
    /\ In(t, "try")
    /\ IF owner[side] \notin {None, t} \/ dropped_ \/ busy[side]
       THEN Return(t) /\ UNCHANGED <<owner, busy>>
       ELSE /\ owner' = [owner EXCEPT ![side] = t]
            /\ busy' = [busy EXCEPT ![side] = TRUE]
            /\ Goto(t, "io")
    /\ UNCHANGED <<regime, stage, revents, wcm, has, left, what, next, drops, transport, socket, links>>

\* The transport says -1.  A connection that has been dropped stays reading_.
Failed(t) ==
    LET side == Top(t).side IN
    /\ In(t, "failed")
    /\ IF side = "in" /\ ~dropped_
       THEN has' = [has EXCEPT !["in"] = FALSE] /\ Goto(t, "end") /\ UNCHANGED <<owner, busy>>
       ELSE /\ Return(t)
            /\ owner' = [owner EXCEPT ![side] = None]
            /\ busy' = [busy EXCEPT ![side] = (side = "in")]
            /\ UNCHANGED has
    /\ UNCHANGED <<regime, stage, revents, wcm, left, what, next, drops, transport, socket, links>>

\* Mutant: the event is disabled although an operation is pending.
EndDisables(t) ==
    /\ In(t, "end") /\ (Top(t).side = "out" => wcm = None)
    /\ wcm' = IF Top(t).side = "out" THEN t ELSE wcm
    /\ Goto(t, "disable")
    /\ UNCHANGED <<regime, stage, revents, owner, flags, drops, transport, socket, links>>

\* Nothing is pending: the event is disabled, for writing under write_callback_mutex_.
End(t) ==
    LET side == Top(t).side IN
    /\ In(t, "end") /\ (side = "out" => wcm = None)
    /\ wcm' = IF side = "out" /\ ~has[side] THEN t ELSE wcm
    /\ Goto(t, IF has[side] THEN "leave" ELSE "disable")
    /\ UNCHANGED <<regime, stage, revents, owner, flags, drops, transport, socket, links>>

Disable(t) ==
    /\ In(t, "disable") /\ CloseMutexFree(t)
    /\ Goto(t, IF closed_ \/ ~expecting[Top(t).side] THEN "disabled" ELSE "delete")
    /\ UNCHANGED <<regime, stage, revents, locks, flags, drops, transport, socket, links>>

DelEvents(t) ==
    /\ In(t, "delete")
    /\ events' = [events EXCEPT ![Top(t).side] = FALSE]
    /\ Goto(t, "deleted")
    /\ UNCHANGED <<regime, stage, revents, locks, flags, drops, closed_, expecting, socket, links>>

ExpectNot(t) ==
    /\ In(t, "deleted")
    /\ expecting' = [expecting EXCEPT ![Top(t).side] = FALSE]
    /\ Goto(t, "disabled")
    /\ UNCHANGED <<regime, stage, revents, locks, flags, drops, closed_, events, socket, links>>

Disabled(t) ==
    /\ In(t, "disabled")
    /\ wcm' = IF wcm = t THEN None ELSE wcm
    /\ Goto(t, "leave")
    /\ UNCHANGED <<regime, stage, revents, owner, flags, drops, transport, socket, links>>

Leave(t) ==
    LET side == Top(t).side IN
    /\ In(t, "leave")
    /\ busy' = [busy EXCEPT ![side] = FALSE]
    /\ owner' = [owner EXCEPT ![side] = None]
    /\ Return(t)
    /\ UNCHANGED <<regime, stage, revents, wcm, has, left, what, next, drops, transport, socket, links>>

-----------------------------------------------------------------------------
(* What the owners do when a message has been read or written.                  *)

\* processNextCall(), startMessageWrite(): the next message, if one is queued.
NextMessage(otherwise) ==
    IF waiting > 0
    THEN [calls |-> <<Write("data", TRUE)>>, waiting |-> waiting - 1, current |-> TRUE]
    ELSE [calls |-> otherwise, waiting |-> waiting, current |-> FALSE]
Only(calls) == [calls |-> calls, waiting |-> waiting, current |-> current]

AfterRead ==
    IF next[2] = "length" THEN Only(<<Read>>)
    ELSE IF next[1] = "header"
    THEN CASE Kind = "subscriber" -> Only(<<Read>>)
           [] Kind = "client" -> NextMessage(<<>>)
           [] OTHER -> Only(<<Write(IF regime.refuses THEN "error" ELSE "header", FALSE)>>)
    ELSE CASE Kind = "subscriber" -> Only(<<Read>>)
           [] Kind = "client" -> NextMessage(IF regime.persistent THEN <<>> ELSE <<Drop>>)
           [] OTHER -> [Only(<<>>) EXCEPT !.waiting = 1]

AfterWrite ==
    CASE what = "error" -> Only(<<Drop>>)
      [] what = "header" /\ Kind = "publisher" -> NextMessage(<<>>)
      [] what = "header" /\ Kind = "server" -> Only(<<Read>>)
      [] what = "header" /\ Connects -> Only(<<>>)
      [] what = "data" /\ Kind = "publisher" -> NextMessage(<<>>)
      [] what = "data" /\ Kind = "client" -> Only(<<Read>>)
      [] OTHER -> Only(IF regime.persistent THEN <<Read>> ELSE <<Drop>>)

\* What follows a read: the body after the length, a length after the body.
NextRead == IF next[2] = "length" THEN <<next[1], "body">> ELSE <<"data", "length">>

-----------------------------------------------------------------------------
(* The loops of readTransport() and writeTransport(), over recv() and send().   *)

ReadSome(t) ==
    /\ In(t, "io") /\ Top(t).side = "in"
    /\ IF dropped_ \/ ~has["in"]
       THEN Goto(t, "end") /\ UNCHANGED <<has, next, inbuf, waiting, current>>
       ELSE /\ CloseMutexFree(t)
            /\ \/ /\ ~closed_ /\ peer # "cut" /\ inbuf > 0
                  /\ inbuf' = inbuf - 1
                  /\ has' = [has EXCEPT !["in"] = FALSE]
                  /\ next' = NextRead
                  /\ Calls(t, "io", AfterRead.calls)
                  /\ waiting' = AfterRead.waiting /\ current' = AfterRead.current
               \/ /\ ~closed_ /\ peer = "open" /\ inbuf = 0
                  /\ Goto(t, "end") /\ UNCHANGED <<has, next, inbuf, waiting, current>>
               \/ /\ closed_ \/ peer = "cut" \/ (peer = "closed" /\ inbuf = 0)
                  /\ Calls(t, "failed", IF closed_ THEN <<>> ELSE <<Close>>)
                  /\ UNCHANGED <<has, next, inbuf, waiting, current>>
    /\ UNCHANGED <<regime, stage, revents, locks, busy, left, what, drops, transport, outbuf, got, owed, peer, made, gone>>

WriteSome(t) ==
    LET room == regime.room - outbuf
        sent == IF left < room THEN left ELSE room IN
    /\ In(t, "io") /\ Top(t).side = "out"
    /\ IF dropped_ \/ ~has["out"]
       THEN Goto(t, "end") /\ UNCHANGED <<left, outbuf>>
       ELSE /\ CloseMutexFree(t)
            /\ IF closed_ \/ peer = "cut"
               THEN Calls(t, "failed", IF closed_ THEN <<>> ELSE <<Close>>) /\ UNCHANGED <<left, outbuf>>
               ELSE /\ left' = left - sent /\ outbuf' = outbuf + sent
                    /\ Goto(t, IF left' = 0 THEN "complete" ELSE IF sent < left' THEN "end" ELSE "io")
    /\ UNCHANGED <<regime, stage, revents, locks, busy, has, what, next, drops, transport, inbuf, got, owed, peer, links>>

\* Mutant: the callback is called before write_callback_mutex_ is given back.
CompleteLocked(t) ==
    /\ In(t, "complete") /\ wcm = None
    /\ has' = [has EXCEPT !["out"] = FALSE] /\ wcm' = t
    /\ Calls(t, "disabled", AfterWrite.calls)
    /\ waiting' = AfterWrite.waiting /\ current' = AfterWrite.current
    /\ UNCHANGED <<regime, stage, revents, owner, busy, left, what, next, drops, transport, socket, made, gone>>

\* All is written: the operation is over before its callback, which may begin the next.
Complete(t) ==
    /\ In(t, "complete")
    /\ IF dropped_
       THEN Goto(t, "io") /\ UNCHANGED <<has, waiting, current>>
       ELSE /\ wcm = None
            /\ has' = [has EXCEPT !["out"] = FALSE]
            /\ Calls(t, "io", AfterWrite.calls)
            /\ waiting' = AfterWrite.waiting /\ current' = AfterWrite.current
    /\ UNCHANGED <<regime, stage, revents, locks, busy, left, what, next, drops, transport, socket, made, gone>>

-----------------------------------------------------------------------------
(* Connection::drop() and TransportTCP::close(), each of which does the other.  *)

DropConnection(t) ==
    /\ In(t, "drop")
    /\ dropped_' = TRUE
    /\ IF dropped_ THEN Return(t) ELSE Goto(t, "close")
    /\ UNCHANGED <<regime, stage, revents, locks, flags, sending_header_error_, transport, socket, links>>

CloseTransport(t) ==
    /\ In(t, "close") /\ CloseMutexFree(t)
    /\ closed_' = TRUE
    /\ events' = [s \in Side |-> FALSE]
    /\ IF closed_ THEN Return(t) ELSE Goto(t, "drop")
    /\ UNCHANGED <<regime, stage, revents, locks, flags, drops, expecting, socket, links>>

-----------------------------------------------------------------------------
(* PollSet::update() and TransportTCP::socketUpdate().                          *)

Readable == inbuf > 0 \/ peer # "open"
Writeable == outbuf < regime.room
Ready == {s \in Side : IF s = "in" THEN Readable ELSE Writeable}
Enabled_(sides) == {s \in sides : events[s]}
Hup == IF peer = "cut" THEN {"hup"} ELSE {}

\* poll() returns: with what is ready of what createNativePollset() has just put in.
PollReturns ==
    /\ stack[Poll] = <<>> /\ stage = "idle" /\ ~closed_
    /\ revents' = Enabled_(Ready) \cup Hup
    /\ revents' # {}
    /\ stage' = "found"
    /\ UNCHANGED <<regime, stack, locks, flags, drops, transport, socket, links>>

\* The socket is looked up again, and socketUpdate() takes close_mutex_.
SocketUpdate ==
    LET now == Enabled_(revents \cap Side) \cup (revents \cap {"hup"}) IN
    /\ stack[Poll] = <<>> /\ stage = "found"
    /\ revents' = now
    /\ stage' = IF closed_ \/ now = {} THEN "idle" ELSE "in"
    /\ UNCHANGED <<regime, stack, locks, flags, drops, transport, socket, links>>

\* The callbacks have been cleared when the transport is closed.
Dispatch(side, then) ==
    /\ stack[Poll] = <<>> /\ stage = side
    /\ stage' = then
    /\ stack' = IF side \in revents /\ expecting[side] /\ ~closed_
                THEN [stack EXCEPT ![Poll] = <<Frame(side, "try", "data", TRUE)>>] ELSE stack
    /\ UNCHANGED <<regime, revents, locks, flags, drops, transport, socket, links>>

\* What was hung up is closed, without close_mutex_ being held over it.
DispatchHup ==
    /\ stack[Poll] = <<>> /\ stage = "hup"
    /\ stage' = "idle"
    /\ stack' = IF "hup" \in revents THEN [stack EXCEPT ![Poll] = <<Close>>] ELSE stack
    /\ UNCHANGED <<regime, revents, locks, flags, drops, transport, socket, links>>

-----------------------------------------------------------------------------
(* The owners' own threads, and the other end.                                  *)

Begins(t, call) == stack' = [stack EXCEPT ![t] = <<call>>]
Idle(t) == stack[t] = <<>> /\ t \notin gone

\* processPublishQueue(), on the poll thread: the message is queued, then startMessageWrite(FALSE).
Publish ==
    /\ Kind = "publisher" /\ stack[Poll] = <<>> /\ stage = "idle" /\ made < regime.rounds /\ ~dropped_
    /\ made' = made + 1
    /\ IF current
       THEN waiting' = waiting + 1 /\ UNCHANGED <<current, stack>>
       ELSE current' = TRUE /\ Begins(Poll, Write("data", FALSE)) /\ UNCHANGED waiting
    /\ UNCHANGED <<regime, stage, revents, locks, flags, drops, transport, socket, gone>>

\* ServiceServerLink::call(): queued, and processed at once when no other call is under way.
CallService(t) ==
    /\ Kind = "client" /\ Idle(t) /\ made < regime.rounds /\ ~dropped_
    /\ regime.shared \/ ((current => made = 0) /\ \A u \in User : stack[u] = <<>>)
    /\ made' = made + 1
    /\ gone' = gone \cup {t}
    /\ IF current
       THEN waiting' = waiting + 1 /\ UNCHANGED <<current, stack>>
       ELSE current' = TRUE /\ Begins(t, Write("data", TRUE)) /\ UNCHANGED waiting
    /\ UNCHANGED <<regime, stage, revents, locks, flags, drops, transport, socket>>

\* The request that was queued is served by a thread of a spinner, which writes the response.
Serve(t) ==
    /\ Kind = "server" /\ stack[t] = <<>> /\ waiting > 0 /\ t <= regime.spinners
    /\ waiting' = waiting - 1
    /\ Begins(t, Write("data", TRUE))
    /\ UNCHANGED <<regime, stage, revents, locks, flags, drops, transport, socket, current, made, gone>>

UserDrops(t) ==
    /\ regime.drops /\ Idle(t)
    /\ gone' = gone \cup {t}
    /\ Begins(t, Drop)
    /\ UNCHANGED <<regime, stage, revents, locks, flags, drops, transport, socket, waiting, current, made>>

\* The peer's answer to a message: the header and all messages, a response, or the next request.
Answers == CASE Kind = "subscriber" -> Message * (regime.rounds + 1)
             [] Kind = "client" -> Message
             [] Kind = "server" /\ made < regime.rounds -> Message
             [] OTHER -> 0

PeerReads ==
    /\ peer = "open" /\ outbuf > 0
    /\ outbuf' = 0
    /\ got' = (got + outbuf) % Message
    /\ IF got + outbuf < Message
       THEN UNCHANGED <<owed, made>>
       ELSE /\ owed' = owed + Answers
            /\ made' = IF Kind = "server" /\ made < regime.rounds THEN made + 1 ELSE made
    /\ UNCHANGED <<regime, stack, stage, revents, locks, flags, drops, transport, inbuf, peer, waiting, current, gone>>

PeerSends ==
    /\ peer = "open" /\ owed > 0 /\ inbuf < Message
    /\ inbuf' = inbuf + 1 /\ owed' = owed - 1
    /\ UNCHANGED <<regime, stack, stage, revents, locks, flags, drops, transport, outbuf, got, peer, links>>

\* The other end closes; what it is sent then is answered with a reset.  Or it is cut off.
PeerCloses ==
    /\ regime.closes /\ peer = "open"
    /\ peer' \in {"closed", "cut"}
    /\ owed' = 0
    /\ UNCHANGED <<regime, stack, stage, revents, locks, flags, drops, transport, outbuf, inbuf, got, links>>

PeerResets ==
    /\ peer = "closed" /\ outbuf > 0
    /\ peer' = "cut"
    /\ UNCHANGED <<regime, stack, stage, revents, locks, flags, drops, transport, outbuf, inbuf, got, owed, links>>

-----------------------------------------------------------------------------
Runs(t) ==
    \/ Check(t) \/ SetOp(t) \/ Enable(t) \/ AddEvents(t) \/ Expect(t) \/ Enabled(t)
    \/ Try(t) \/ ReadSome(t) \/ WriteSome(t) \/ Complete(t) \/ Failed(t)
    \/ End(t) \/ Disable(t) \/ DelEvents(t) \/ ExpectNot(t) \/ Disabled(t) \/ Leave(t)
    \/ DropConnection(t) \/ CloseTransport(t)
PollRuns == Runs(Poll) \/ PollReturns \/ SocketUpdate \/ Dispatch("in", "out") \/ Dispatch("out", "hup") \/ DispatchHup
UserRuns(t) == Runs(t) \/ Serve(t)
PeerRuns == PeerReads \/ PeerSends \/ PeerResets

Next ==
    \/ PollRuns \/ Publish
    \/ \E t \in User : UserRuns(t) \/ CallService(t) \/ UserDrops(t)
    \/ PeerRuns \/ PeerCloses

Fairness == WF_vars(PollRuns) /\ WF_vars(PeerRuns) /\ \A t \in User : SF_vars(UserRuns(t))
Spec == Init /\ [][Next]_vars /\ Fairness

-----------------------------------------------------------------------------
(* Properties.                                                                  *)

\* The frames a side of the connection is at work in.
At(side) == {t \in Thread : \E i \in DOMAIN stack[t] : stack[t][i].side = side}

TypeOK ==
    /\ stack \in [Thread -> Seq([side : Side \cup {"both"}, at : STRING, immediate : BOOLEAN,
                                 type : {"header", "error", "data"}])]
    /\ stage \in {"idle", "found", "in", "out", "hup"} /\ revents \subseteq Side \cup {"hup"}
    /\ wcm \in Thread \cup {None} /\ owner \in [Side -> Thread \cup {None}]
    /\ {busy, has, expecting, events} \subseteq [Side -> BOOLEAN]
    /\ left \in 0 .. Message /\ inbuf \in 0 .. Message /\ outbuf \in 0 .. regime.room
    /\ peer \in {"open", "closed", "cut"} /\ made \in 0 .. regime.rounds

\* read() and write() find no operation pending (connection.cpp:272 and 297), whichever
\* threads the owner's callbacks and calls come from.
OneAtATime == \A t \in Thread : In(t, "set") /\ MutexFree(t, Top(t).side) => ~has[Top(t).side]

\* What is pending has its event enabled, and socketUpdate() expects it.
HandedOver(s) == has[s] /\ At(s) = {} /\ ~dropped_ /\ ~closed_ => events[s] /\ expecting[s]

\* A read or a write that is waiting for the socket is never overtaken by the next, nor is it
\* forgotten: when no thread is on its way through that side of the connection, poll() is
\* asked for its event.  Nor will the next be: what socketUpdate() expects is asked for.
\* With one thread beside the poll thread that begins writes, that is; enableWrite() may
\* meet itself in two.
NothingForgotten ==
    /\ TypeOK
    /\ OneAtATime
    /\ regime.spinners = 1 /\ ~regime.shared => \A s \in Side :
        HandedOver(s) /\ (expecting[s] /\ At(s) = {} /\ ~dropped_ /\ ~closed_ => events[s])

\* connection.h:142, of write(): it tries to write "or to pass the data off to the server thread".
\* No run checks it: when two threads begin writes, enableWrite() and disableWrite() meet and
\* expecting_write_ may stay true with the socket's event no longer asked for.
PassedToTheServerThread == HandedOver("out")

\* Whom a thread cannot go on without: the holder of the mutex its next step takes.
WaitsFor(t) ==
    CASE stack[t] = <<>> -> {}
      [] In(t, "set") /\ Top(t).side = "in" -> {owner["in"]} \ {None, t}
      [] (In(t, "set") \/ In(t, "end") \/ In(t, "complete")) /\ Top(t).side = "out" -> {wcm} \ {None}
      [] In(t, "enable") \/ In(t, "disable") \/ In(t, "close") \/ In(t, "io") -> IF CloseMutexFree(t) THEN {} ELSE {Poll}
      [] OTHER -> {}
Cycle == \E t, u \in Thread : u \in WaitsFor(t) /\ t \in WaitsFor(u)

Done == ~has["out"] /\ waiting = 0 /\ owed = 0 /\ outbuf = 0 /\ (inbuf = 0 \/ ~has["in"])
        /\ (peer = "open" /\ made > 0 => ~current)

\* What the owner has begun is finished in the end: read, written and answered, or the
\* connection is closed.  close_mutex_, write_callback_mutex_ and read_mutex_ are taken in both
\* orders; that the threads never wait for each other rests on the owners: it holds unless
\* several calls are made on one ServiceServerLink.
Completes == <>[](Done \/ (dropped_ /\ closed_) \/ (regime.shared /\ Cycle))
=============================================================================
