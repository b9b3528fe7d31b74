---------------------------- MODULE TransportUDP ----------------------------
(* A topic over UDP: TransportUDP::write() cuts a message into datagrams, and   *)
(* the poll thread of the subscriber puts them together again, in read(),       *)
(* which Connection and TransportPublisherLink call for the length of a message *)
(* and then for its body.  The network loses datagrams, delivers them twice or  *)
(* late.  Data is counted in units as long as the length in front of a message, *)
(* and a unit is named by its message and its place in it: 0 is the length.     *)
EXTENDS Integers, Sequences

CONSTANTS
    BodySizes,      \* the units in the body of a message
    Payload,        \* the units a datagram has room for
    FirstId,        \* the id of the last message written before
    Bound           \* how many messages, lost datagrams and late ones there may be

ASSUME UDPAssumption ==
    /\ BodySizes \subseteq Nat /\ Payload \in Nat \ {0} /\ FirstId \in 0 .. 255
    /\ Bound \in [{"messages", "lost", "late"} -> Nat]

VARIABLES
    sent_id, sending, wire,     \* the writer, what it has still to send, and what is on its way
    current_message_id_, total_blocks_, last_block_,
    data,                       \* what data_start_ and data_filled_ have left of the last datagram
    reorder,                    \* the datagram in reorder_buffer_, and what is left of it
    reading,                    \* where the poll thread is
    copied,                     \* the units this call of read() has copied
    buffer, read_size_, part,   \* the Connection's read: of a "length" or a "body"
    expected,                   \* whose length came last
    written, handed, discarded, lost, late  \* what happened so far

writer == <<sent_id, sending, written>>
datagram == <<current_message_id_, total_blocks_, last_block_>>
buffers == <<data, reorder>>
request == <<buffer, read_size_, part, expected>>
network == <<wire, lost, late>>
udpVars == <<writer, datagram, buffers, reading, copied, request, network, handed, discarded>>

NoDatagram == [op |-> "DATA0", id |-> 0, block |-> 0, data |-> <<>>]
Nothing == [of |-> NoDatagram, rest |-> <<>>]

UDPInit ==
    /\ sent_id = FirstId /\ sending = <<>> /\ wire = <<>>
    /\ current_message_id_ = 0 /\ total_blocks_ = 0 /\ last_block_ = 0
    /\ data = <<>> /\ reorder = Nothing
    /\ reading = "idle" /\ copied = <<>>
    /\ buffer = <<>> /\ read_size_ = 1 /\ part = "length" /\ expected = 0
    /\ written = <<>> /\ handed = <<>> /\ discarded = FALSE /\ lost = <<>> /\ late = 0

-----------------------------------------------------------------------------
(* write().                                                                     *)

Least(m, n) == IF m < n THEN m ELSE n

\* The id is a byte and never zero.
NextId(id) == IF (id + 1) % 256 = 0 THEN 1 ELSE id + 1

\* The first datagram says how many there are, the others which of them they are.
Datagrams(m, id, size) ==
    LET count == (size + 1 + Payload - 1) \div Payload
        units(k) == [i \in 1 .. Least(Payload, size + 1 - k * Payload) |-> <<m, k * Payload + i - 1>>]
    IN [b \in 1 .. count |->
           [op |-> IF b = 1 THEN "DATA0" ELSE "DATAN", id |-> id,
            block |-> IF b = 1 THEN count ELSE b - 1, data |-> units(b - 1)]]

WriteMessage(size) ==
    /\ sending = <<>> /\ Len(written) < Bound["messages"]
    /\ sent_id' = NextId(sent_id)
    /\ sending' = Datagrams(Len(written) + 1, sent_id', size)
    /\ written' = Append(written, size)
    /\ UNCHANGED <<datagram, buffers, reading, copied, request, network, handed, discarded>>

\* writev() is tried until the socket takes the datagram.
SendDatagram ==
    /\ sending # <<>>
    /\ sending' = Tail(sending)
    /\ wire' = Append(wire, Head(sending))
    /\ UNCHANGED <<sent_id, written, datagram, buffers, reading, copied, request, lost, late,
                   handed, discarded>>

LoseDatagram ==
    /\ sending # <<>> /\ Len(lost) < Bound["lost"]
    /\ sending' = Tail(sending)
    /\ lost' = Append(lost, Len(written))
    /\ UNCHANGED <<sent_id, written, datagram, buffers, reading, copied, request, wire, late,
                   handed, discarded>>

-----------------------------------------------------------------------------
(* read(), inside Connection::readTransport().                                  *)

\* poll() finds a datagram, and readTransport() begins.
OnReadable ==
    /\ reading = "idle" /\ wire # <<>>
    /\ reading' = "read" /\ copied' = <<>>
    /\ UNCHANGED <<writer, datagram, buffers, request, network, handed, discarded>>

Room == read_size_ - Len(buffer) - Len(copied)
Reading == reading = "read" /\ Room > 0
First(s) == SubSeq(s, 1, Least(Room, Len(s)))
Rest(s) == SubSeq(s, Least(Room, Len(s)) + 1, Len(s))
Kept == IF Rest(reorder.rest) = <<>> THEN Nothing ELSE [reorder EXCEPT !.rest = Rest(@)]
Fresh == reorder.rest # <<>> /\ reorder.rest = reorder.of.data

\* What is left of a datagram whose header has been looked at is copied before anything else.
ReadOn ==
    /\ Reading
    /\ IF reorder.rest # <<>>
       THEN ~Fresh /\ copied' = copied \o First(reorder.rest)
            /\ reorder' = Kept /\ UNCHANGED data
       ELSE data # <<>> /\ copied' = copied \o First(data)
            /\ data' = Rest(data) /\ UNCHANGED reorder
    /\ UNCHANGED <<writer, datagram, reading, request, network, handed, discarded>>

\* Mutant: a datagram of another message is taken for the next of this one.
NextOfAny(d) == d.op = "DATAN" /\ d.block = last_block_ + 1

IsNext(d) == d.op = "DATAN" /\ d.id = current_message_id_ /\ d.block = last_block_ + 1

\* A first datagram, or the one that follows the last.
Take(d) ==
    LET total == IF d.op = "DATA0" THEN d.block ELSE total_blocks_
        last == IF d.op = "DATA0" THEN 0 ELSE d.block
    IN
    /\ IF d.op = "DATA0" THEN current_message_id_ = 0 ELSE IsNext(d)
    /\ total_blocks_' = total /\ last_block_' = last
    /\ current_message_id_' = IF last = total - 1 THEN 0 ELSE d.id
    /\ copied' = copied \o First(d.data)
    /\ reading' = IF last = total - 1 THEN "back" ELSE "read"
    /\ UNCHANGED <<request, handed, discarded>>

\* A first datagram while another message is not complete: it is kept for the next call, and
\* the read fails.  The link then reads a length, and what the Connection had is thrown away.
Interrupt(d) ==
    /\ d.op = "DATA0" /\ current_message_id_ # 0
    /\ reorder' = [of |-> d, rest |-> d.data] /\ data' = <<>>
    /\ current_message_id_' = 0 /\ total_blocks_' = 0 /\ last_block_' = 0
    /\ reading' = "idle" /\ copied' = <<>> /\ buffer' = <<>> /\ read_size_' = 1 /\ part' = "length"
    /\ discarded' = FALSE
    /\ UNCHANGED <<expected, handed>>

\* Any other datagram is thrown away, with all that this call has copied.
Discard(d) ==
    /\ d.op = "DATAN" /\ ~IsNext(d)
    /\ data' = <<>>
    /\ copied' = <<>> /\ reading' = "back"
    /\ discarded' = (discarded \/ copied # <<>>)
    /\ UNCHANGED <<datagram, reorder, request, handed>>

\* The datagram that was kept is read as if it came now.
ReadReorder ==
    /\ Reading /\ Fresh
    /\ Take(reorder.of)
    /\ reorder' = Kept
    /\ UNCHANGED <<writer, data, network>>

\* readv(): datagram i of those on their way, or one that is delivered twice.
Arrives(i, again) ==
    /\ wire' = IF again THEN wire ELSE SubSeq(wire, 1, i - 1) \o SubSeq(wire, i + 1, Len(wire))
    /\ late' = IF again \/ i > 1 THEN late + 1 ELSE late
    /\ late' <= Bound["late"]
    /\ UNCHANGED lost

ReadSocket ==
    /\ Reading /\ reorder.rest = <<>> /\ data = <<>>
    /\ \E i \in DOMAIN wire, again \in BOOLEAN :
        /\ Arrives(i, again)
        /\ \/ Take(wire[i]) /\ data' = Rest(wire[i].data) /\ UNCHANGED reorder
           \/ Interrupt(wire[i])
           \/ Discard(wire[i])
    /\ UNCHANGED writer

\* As much as was asked for, or all there is for now.
ReadReturns ==
    /\ reading = "read"
    /\ Room = 0 \/ (reorder.rest = <<>> /\ data = <<>> /\ wire = <<>>)
    /\ reading' = "back"
    /\ UNCHANGED <<writer, datagram, buffers, copied, request, network, handed, discarded>>

-----------------------------------------------------------------------------
(* Connection::readTransport() and TransportPublisherLink.                      *)

Back == reading = "back" /\ copied' = <<>>
All == buffer \o copied

\* The read is not complete: the next event goes on with it.
Incomplete ==
    /\ Back /\ Len(All) < read_size_
    /\ buffer' = All /\ reading' = "idle"
    /\ UNCHANGED <<writer, datagram, buffers, read_size_, part, expected, network, handed, discarded>>

\* onMessageLength(): what is taken for a length may be a part of a message.
LengthRead(size) ==
    /\ Back /\ part = "length" /\ Len(All) = 1
    /\ LET unit == All[1]
       IN /\ unit[2] = 0 => size = written[unit[1]]
          /\ expected' = IF unit[2] = 0 THEN unit[1] ELSE 0
    /\ buffer' = <<>> /\ read_size_' = size /\ part' = "body" /\ reading' = "read"
    /\ UNCHANGED <<writer, datagram, buffers, network, handed, discarded>>

\* It would be of more than a gigabyte, and the link is dropped.
LengthIsAbsurd ==
    /\ Back /\ part = "length" /\ Len(All) = 1 /\ All[1][2] # 0
    /\ reading' = "dropped"
    /\ UNCHANGED <<writer, datagram, buffers, request, network, handed, discarded>>

\* onMessage(): handed to the subscription.
BodyRead ==
    /\ Back /\ part = "body" /\ Len(All) = read_size_
    /\ handed' = Append(handed, [of |-> expected, body |-> All, spoilt |-> discarded])
    /\ buffer' = <<>> /\ read_size_' = 1 /\ part' = "length" /\ reading' = "read"
    /\ UNCHANGED <<writer, datagram, buffers, expected, network, discarded>>

UDPNext ==
    \/ \E size \in BodySizes : WriteMessage(size) \/ LengthRead(size)
    \/ SendDatagram \/ LoseDatagram
    \/ OnReadable \/ ReadOn \/ ReadReorder \/ ReadSocket \/ ReadReturns
    \/ Incomplete \/ LengthIsAbsurd \/ BodyRead

UDPSpec == UDPInit /\ [][UDPNext]_udpVars

-----------------------------------------------------------------------------
(* Properties.                                                                  *)

UDPTypeOK ==
    /\ sent_id \in 0 .. 255 /\ current_message_id_ \in 0 .. 255
    /\ Len(data) <= Payload /\ Len(reorder.rest) <= Len(reorder.of.data)
    /\ reading \in {"idle", "read", "back", "dropped"} /\ part \in {"length", "body"}
    /\ Len(All) <= read_size_

Body(m) == [i \in 1 .. written[m] |-> <<m, i>>]
Whole(h) == h.of # 0 /\ h.body = Body(h.of)

\* What is handed to the subscription is one message as it was written, whatever datagrams are
\* lost.  One that came twice or late may spoil it, but only if it made a call of read() throw
\* away what it had copied (read() returns 0 then, and the message goes on in the wrong place).
HandedWhole ==
    \A i \in DOMAIN handed : Whole(handed[i]) \/ (handed[i].spoilt /\ late > 0)

\* When every datagram comes at most once and in order, so do the messages.
HandedInOrder ==
    late = 0 => \A i, j \in DOMAIN handed : i < j => handed[i].of < handed[j].of

Quiet == reading = "idle" /\ wire = <<>> /\ sending = <<>>

\* And a message of which nothing is lost is handed on, whatever became of the one before it,
\* except that it may be left in reorder_buffer_ until another datagram comes.
IntactIsHanded ==
    Quiet /\ late = 0 =>
      \A m \in DOMAIN written :
         \/ \E i \in DOMAIN lost : lost[i] = m
         \/ \E i \in DOMAIN handed : handed[i].of = m
         \/ reorder.rest # <<>> /\ reorder.of.data[1] = <<m, 0>>

\* All of it: a message arrives whole or not at all, and an intact one arrives.
WholeOrNothing == UDPTypeOK /\ HandedWhole /\ HandedInOrder /\ IntactIsHanded
=============================================================================
