--------------------------------- MODULE Bag ---------------------------------
(***************************************************************************)
(* rosbag::Bag: the recorder and reader of bag files (format 2.0).         *)
(*                                                                         *)
(* A bag file is a version line, a file header, chunks of connection and   *)
(* message records each followed by its index records, and, once the bag   *)
(* has been closed, the connection and chunk-info records that the header  *)
(* points to.  The unit of position is the record: a record of the file    *)
(* takes one cell, so offsets, chunk sizes and the chunk threshold count   *)
(* records instead of bytes.  The stdio buffer of the FILE is explicit:    *)
(* a seek flushes it and a crash loses what it still holds.                *)
(***************************************************************************)
EXTENDS Integers, FiniteSets, Sequences, SequencesExt

CONSTANTS
  Topics,       \* topics written without a connection header
  Times,        \* message times (naturals)
  Modes,        \* modes passed to open, each a subset of ModeBits
  Thresholds,   \* values passed to setChunkThreshold
  InitialThreshold, \* chunk_threshold_ set by init()
  MaxMsgs,      \* bound: messages recorded in one file
  MaxOpens,     \* bound: calls of open over all processes
  MaxCrashes,   \* bound: processes killed
  MaxFaults     \* bound: calls of write, setChunkThreshold and close that fail in fwrite

ModeBits == {"Read", "Write", "Append"}

ASSUME BagAssumption ==
  /\ Times \subseteq Nat /\ Thresholds \subseteq Nat /\ InitialThreshold \in Nat
  /\ Modes \subseteq (SUBSET ModeBits) \ {{}}
  /\ {MaxMsgs, MaxOpens, MaxCrashes, MaxFaults} \subseteq Nat

VARIABLES
  file,               \* ChunkedFile: disk contents, stdio buffer, offset, torn contents
  status,             \* "closed", "ready", or "failed": open threw, file still open
  mode,               \* mode_
  header_pos,         \* file_header_pos_
  threshold,          \* chunk_threshold_
  topic_ids,          \* topic_connection_ids_
  conns,              \* connections_: id -> topic, NoTopic for a null pointer
  chunks,             \* chunks_
  indexes,            \* connection_indexes_: id -> set of entries
  chunk_open,         \* chunk_open_
  curr,               \* curr_chunk_info_
  curr_indexes,       \* curr_chunk_connection_indexes_
  outgoing,           \* outgoing_chunk_buffer_
  decompressed,       \* decompressed_chunk_ and decompress_buffer_
  recorded,           \* history: the messages whose write returned, in this file
  spoiled,            \* history: what has spoiled this file or its buffers, see Spoils
  opens, crashes, faults \* how much of each bound is used up

bagVars == <<topic_ids, conns, chunks, indexes, chunk_open, curr, curr_indexes,
             outgoing, decompressed>>
countVars == <<opens, crashes, faults>>
vars == <<file, status, mode, header_pos, threshold, bagVars, recorded, spoiled, countVars>>

NoTopic == "null"
NoPos == 0            \* the version line is there, so no chunk has this position
Empty == <<>>         \* the function with an empty domain
NoChunk == [pos |-> NoPos, start |-> 0, end |-> 0, counts |-> Empty]
U32 == 65536          \* stands for 2^32: any size above the length of the file

(* What can spoil a bag without a failed write:                             *)
(*   misplaced  a chunk was sealed while the file offset was not at its end *)
(*   emptied    close() ended a bag that open had failed to append to       *)
(*   shifted    the open chunk was begun with an outgoing buffer in use     *)
Spoils == {"misplaced", "emptied", "shifted"}

-----------------------------------------------------------------------------
(* Records *)

Version == [op |-> "version"]
Hole    == [op |-> "hole"]
FileHeader(ipos, nconn, nchunk) ==
  [op |-> "file", index_pos |-> ipos, conn_count |-> nconn, chunk_count |-> nchunk]
ChunkHeader(size)    == [op |-> "chunk", size |-> size]
ConnRecord(id, t)    == [op |-> "conn", id |-> id, topic |-> t]
MsgRecord(id, tm, n) == [op |-> "msg", conn |-> id, time |-> tm, n |-> n]
IndexRecord(id, es)  == [op |-> "index", conn |-> id, entries |-> es]
InfoRecord(c)        == [op |-> "info", chunk |-> c]

IsOp(d, p, op) == p \in 0 .. Len(d) - 1 /\ d[p + 1].op = op

-----------------------------------------------------------------------------
(* ChunkedFile over stdio *)

Poke(d, w) ==
  LET len == IF w.pos >= Len(d) THEN w.pos + 1 ELSE Len(d)
  IN [i \in 1 .. len |-> CASE i = w.pos + 1 -> w.rec
                           [] i # w.pos + 1 /\ i <= Len(d) -> d[i]
                           [] OTHER -> Hole]

Contents(f) == FoldLeft(Poke, f.disk, f.buf)

Seek(f, p) == [f EXCEPT !.disk = Contents(f), !.buf = <<>>, !.off = p]
SeekEndSkipped(f) == f \* mutant: the write goes wherever the offset is
SeekEnd(f) == Seek(f, Len(Contents(f)))

Put(f, rec) ==
  LET g == [f EXCEPT !.buf = Append(@, [pos |-> f.off, rec |-> rec]), !.off = @ + 1]
  IN [g EXCEPT !.torn = @ \union {Contents(g)}]
PutAll(f, recs) == FoldLeft(Put, f, recs)

Truncate(f, len) ==
  LET d == SubSeq(f.disk, 1, len)
  IN [f EXCEPT !.disk = d, !.torn = @ \union {d}]

\* The contents that a crash at the start of the next handler may leave behind.
Unfinished(f) == 
  [f EXCEPT !.torn = {FoldLeft(Poke, f.disk, SubSeq(f.buf, 1, k)) : k \in 0 .. Len(f.buf)}]

Fopen(d) == [disk |-> d, buf |-> <<>>, off |-> 0, torn |-> {d}]
Fclose(f) == [f EXCEPT !.disk = Contents(f), !.buf = <<>>, !.off = 0]

-----------------------------------------------------------------------------
(* Writing *)

Ids(m) == SetToSortSeq(DOMAIN m, <)
AddEntryReplaces(idx, id, e) == \* mutant: a map where the code has a multiset
  [i \in DOMAIN idx \union {id} |-> IF i = id THEN {e} ELSE idx[i]]
AddEntry(idx, id, e) ==
  [i \in DOMAIN idx \union {id} |->
     (IF i \in DOMAIN idx THEN idx[i] ELSE {}) \union (IF i = id THEN {e} ELSE {})]
Increment(counts, id) ==
  [i \in DOMAIN counts \union {id} |->
     (IF i \in DOMAIN counts THEN counts[i] ELSE 0) + (IF i = id THEN 1 ELSE 0)]
Define(m, k, v) == [i \in DOMAIN m \union {k} |-> IF i = k THEN v ELSE m[i]]

ChunkOffset(f, pos) == (f.off - (pos + 1)) % U32

\* Seals the open chunk where the file offset happens to be: the size goes back into the
\* chunk's header, the index records follow the data.
StopChunkUpTo(f, info, idx, k) ==
  LET header == Put(Seek(f, info.pos), ChunkHeader(ChunkOffset(f, info.pos)))
  IN PutAll(Seek(header, f.off), [i \in 1 .. k |-> IndexRecord(Ids(idx)[i], idx[Ids(idx)[i]])])
StopChunk(f, info, idx) == StopChunkUpTo(f, info, idx, Cardinality(DOMAIN idx))

\* The files that a seal leaves when it throws: at the chunk's header, or at an index record.
StopChunkFails(f, info, idx) ==
  {Seek(f, info.pos)}
    \union {StopChunkUpTo(f, info, idx, k) : k \in 0 .. Cardinality(DOMAIN idx) - 1}

Misplaced == chunk_open /\ file.off # Len(Contents(file))
SpoiledBySeal == spoiled \union (IF Misplaced THEN {"misplaced"} ELSE {})

ConnRecords(cs) == [i \in 1 .. Cardinality(DOMAIN cs) |-> ConnRecord(Ids(cs)[i], cs[Ids(cs)[i]])]

IndexTail(cs, chs) == ConnRecords(cs) \o [i \in 1 .. Len(chs) |-> InfoRecord(chs[i])]
StopWriting(f, cs, chs) ==
  LET end  == SeekEnd(f)
      tail == PutAll(end, IndexTail(cs, chs))
  IN Put(Seek(tail, header_pos), FileHeader(end.off, Cardinality(DOMAIN cs), Len(chs)))

\* The files that stopWriting leaves when it throws at a record of the tail, or at the header.
StopWritingFails(f, cs, chs) ==
  LET tail == IndexTail(cs, chs)
  IN {PutAll(SeekEnd(f), SubSeq(tail, 1, k)) : k \in 0 .. Len(tail) - 1}
       \union {Seek(PutAll(SeekEnd(f), tail), header_pos)}

-----------------------------------------------------------------------------
(* Reading the index: readVersion, readFileHeaderRecord, startReadingVersion200 *)

\* How many consecutive cells from p on, at most n, hold records with this op.
Run(d, p, n, op) ==
  CHOOSE k \in 0 .. n : /\ \A i \in 0 .. k - 1 : IsOp(d, p + i, op)
                        /\ k < n => ~IsOp(d, p + k, op)

IndexRecordsOf(d, c) ==
  {d[c.pos + d[c.pos + 1].size + i + 1] : i \in 1 .. Cardinality(DOMAIN c.counts)}
ChunkReadable(d, c) ==
  /\ IsOp(d, c.pos, "chunk")
  /\ \A i \in 1 .. Cardinality(DOMAIN c.counts) :
       IsOp(d, c.pos + d[c.pos + 1].size + i, "index")

LoadedIndex(d, chs, ids) ==
  [id \in ids |->
     UNION {{[time |-> e.time, chunk_pos |-> chs[k].pos, offset |-> e.offset] :
               e \in UNION {r.entries : r \in {x \in IndexRecordsOf(d, chs[k]) : x.conn = id}}}
            : k \in 1 .. Len(chs)}]

-----------------------------------------------------------------------------
Init ==
  /\ file = Fopen(<<>>) /\ status = "closed" /\ mode = {} /\ header_pos = 0
  /\ threshold = InitialThreshold
  /\ topic_ids = Empty /\ conns = Empty /\ chunks = <<>> /\ indexes = Empty
  /\ chunk_open = FALSE /\ curr = NoChunk /\ curr_indexes = Empty
  /\ outgoing = <<>> /\ decompressed = [pos |-> NoPos, data |-> <<>>]
  /\ recorded = {} /\ spoiled = {} /\ opens = 0 /\ crashes = 0 /\ faults = 0

\* What close() clears and init() resets; outgoing and curr survive both.
Reset ==
  /\ topic_ids' = Empty /\ conns' = Empty /\ chunks' = <<>> /\ indexes' = Empty
  /\ chunk_open' = FALSE /\ curr_indexes' = Empty
  /\ decompressed' = [pos |-> NoPos, data |-> <<>>]

MayOpen(m) == 
  /\ status = "closed" /\ m \in Modes /\ opens < MaxOpens
  /\ mode' = m /\ opens' = opens + 1
  /\ UNCHANGED <<threshold, topic_ids, chunk_open, curr_indexes, outgoing, decompressed,
                 crashes, faults>>

\* open(filename, Write): truncates the file, writes the version line and a header
\* whose index position is 0.
OpenWrite(m) ==
  /\ MayOpen(m) /\ "Append" \notin m /\ "Write" \in m
  /\ file' = LET f == PutAll(Fopen(<<>>), <<Version, FileHeader(0, 0, 0)>>) IN Seek(f, f.off)
  /\ status' = "ready" /\ header_pos' = 1 /\ recorded' = {} /\ spoiled' = {}
  /\ UNCHANGED <<conns, chunks, indexes, curr>>

\* open for Read or Append.  Reading the index stops at the first record that is not
\* what it should be: an exception, with the file open and what was read so far kept.
OpenExisting(m) ==
  /\ MayOpen(m) /\ ("Append" \in m \/ m = {"Read"})
  /\ LET d      == file.disk
         header == d[2]
         found  == IsOp(d, 0, "version") /\ IsOp(d, 1, "file") /\ header.index_pos # 0
         nconn  == IF found THEN Run(d, header.index_pos, header.conn_count, "conn") ELSE 0
         nchunk == IF found /\ nconn = header.conn_count
                   THEN Run(d, header.index_pos + nconn, header.chunk_count, "info") ELSE 0
         recs   == {d[header.index_pos + i] : i \in 1 .. nconn}
         chs    == [i \in 1 .. nchunk |-> d[header.index_pos + nconn + i].chunk]
         ok     == /\ found /\ nconn = header.conn_count /\ nchunk = header.chunk_count
                   /\ \A i \in 1 .. nchunk : ChunkReadable(d, chs[i])
         cs     == [id \in {r.id : r \in recs} |-> (CHOOSE r \in recs : r.id = id).topic]
         \* Append chops off the index and clears the header's index position
         cleared == Put(Seek(Truncate(Fopen(d), header.index_pos), 1),
                        FileHeader(0, Cardinality(DOMAIN cs), nchunk))
     IN /\ header_pos' = IF d = <<>> THEN 0 ELSE 1
        /\ conns' = cs
        /\ chunks' = chs
        /\ IF ok
           THEN /\ status' = "ready" 
                /\ indexes' = LoadedIndex(d, chs, DOMAIN cs)
                /\ file' = IF "Append" \in m THEN SeekEnd(cleared) ELSE Fopen(d)
                /\ curr' = NoChunk
           ELSE /\ status' = "failed" /\ indexes' = Empty /\ file' = Fopen(d)
                /\ UNCHANGED curr
  /\ UNCHANGED <<recorded, spoiled>>

-----------------------------------------------------------------------------
ConnId(t) == IF t \in DOMAIN topic_ids THEN topic_ids[t] ELSE Cardinality(DOMAIN conns)
IsNew(t)  == ~(/\ t \in DOMAIN topic_ids
               /\ topic_ids[t] \in DOMAIN conns /\ conns[topic_ids[t]] # NoTopic)

\* The chunk a write of time tm goes to: the open one, or one begun at the end of the file.
Target(tm) == 
  IF chunk_open THEN curr
  ELSE [curr EXCEPT !.pos = Len(Contents(file)), !.start = tm, !.end = tm]
WithHeader(f) == IF chunk_open THEN SeekEnd(f) ELSE Put(SeekEnd(f), ChunkHeader(0))
WithConn(f, t) == IF IsNew(t) THEN Put(f, ConnRecord(ConnId(t), t)) ELSE f

\* The number of the message a write is about, whether it returns or throws.
Number == Cardinality(recorded) + faults + 1

\* A chunk is begun whatever the outgoing buffer still holds.
SpoiledByBegin ==
  spoiled \union (IF ~chunk_open /\ outgoing # <<>> THEN {"shifted"} ELSE {})

\* Write(t, tm): doWrite of a message without connection header.
Write(t, tm) ==
  /\ status = "ready" /\ mode # {"Read"} /\ Cardinality(recorded) < MaxMsgs
  /\ LET id    == ConnId(t)
         into  == Target(tm)
         f     == WithConn(WithHeader(Unfinished(file)), t)
         n     == Number
         msg   == MsgRecord(id, tm, n)
         entry == [time |-> tm, chunk_pos |-> into.pos, offset |-> ChunkOffset(f, into.pos)]
         g     == Put(SeekEnd(f), msg)
         info  == [into EXCEPT !.counts = Increment(@, id),
                               !.end = IF tm > @ THEN tm ELSE @,
                               !.start = IF tm < @ THEN tm ELSE @]
         idx   == AddEntry(curr_indexes, id, entry)
     IN /\ topic_ids' = Define(topic_ids, t, id)
        /\ conns' = IF IsNew(t) THEN Define(conns, id, t) ELSE conns
        /\ indexes' = AddEntry(indexes, id, entry)
        /\ recorded' = recorded \union {[topic |-> t, time |-> tm, n |-> n]}
        /\ IF ChunkOffset(g, into.pos) > threshold
           THEN /\ file' = StopChunk(g, info, idx)
                /\ chunks' = Append(chunks, info)
                /\ chunk_open' = FALSE /\ curr_indexes' = Empty /\ outgoing' = <<>>
                /\ spoiled' = spoiled \ {"shifted"}
                /\ curr' = [info EXCEPT !.pos = NoPos, !.counts = Empty]
           ELSE /\ file' = g /\ chunk_open' = TRUE /\ curr' = info /\ curr_indexes' = idx
                /\ outgoing' = (IF IsNew(t) THEN Append(outgoing, ConnRecord(id, t)) 
                                ELSE outgoing) \o <<msg>>
                /\ spoiled' = SpoiledByBegin
                /\ UNCHANGED chunks
  /\ UNCHANGED <<status, mode, header_pos, threshold, decompressed, countVars>>

\* connections_[conn_id] of an id that has no connection yet inserts a null pointer.
Looked(t) == IF t \in DOMAIN topic_ids THEN
               IF ConnId(t) \in DOMAIN conns THEN conns ELSE Define(conns, ConnId(t), NoTopic)
             ELSE conns

\* fwrite fails in doWrite (the disk is full, the file is open for reading only) and the
\* exception leaves what was done before the failing record.  The record is the chunk's
\* header, the connection record, the message, or one that seals the chunk: its header again
\* or an index record.  A chunk whose seal failed is listed in chunks_ and still open, so the
\* next write, or close, seals and lists it once more.
WriteFails(t, tm) ==
  /\ status = "ready" /\ faults < MaxFaults
  /\ faults' = faults + 1
  /\ topic_ids' = Define(topic_ids, t, ConnId(t))
  /\ LET into == Target(tm)
         h    == WithHeader(Unfinished(file))
         f    == WithConn(h, t)
         entry == [time |-> tm, chunk_pos |-> into.pos, offset |-> ChunkOffset(f, into.pos)]
         id   == ConnId(t)
         info == [into EXCEPT !.counts = Increment(@, id)]
         idx  == AddEntry(curr_indexes, id, entry)
         out  == IF IsNew(t) THEN Append(outgoing, ConnRecord(id, t)) ELSE outgoing
     IN \/ /\ ~chunk_open                                      \* at the chunk's header
           /\ file' = SeekEnd(Unfinished(file)) /\ curr' = into /\ conns' = Looked(t)
           /\ UNCHANGED <<chunk_open, chunks, outgoing, indexes, curr_indexes, spoiled>>
        \/ /\ IsNew(t) /\ mode # {"Read"}                      \* at the connection record
           /\ file' = h /\ curr' = into /\ chunk_open' = TRUE
           /\ conns' = Define(conns, id, t)
           /\ spoiled' = SpoiledByBegin
           /\ UNCHANGED <<chunks, outgoing, indexes, curr_indexes>>
        \/ /\ mode # {"Read"}
           /\ chunk_open' = TRUE
           /\ conns' = IF IsNew(t) THEN Define(conns, id, t) ELSE conns
           /\ indexes' = AddEntry(indexes, id, entry)
           /\ curr_indexes' = idx
           /\ spoiled' = SpoiledByBegin
           /\ \/ /\ file' = SeekEnd(f) /\ outgoing' = out        \* at the message record
                 /\ curr' = info
                 /\ UNCHANGED chunks
              \/ LET msg    == MsgRecord(id, tm, Number)         \* at a record of the seal
                     g      == Put(SeekEnd(f), msg)
                     sealed == [info EXCEPT !.end = IF tm > @ THEN tm ELSE @,
                                            !.start = IF tm < @ THEN tm ELSE @]
                 IN /\ ChunkOffset(g, into.pos) > threshold
                    /\ file' \in StopChunkFails(g, sealed, idx)
                    /\ chunks' = Append(chunks, sealed) /\ curr' = sealed
                    /\ outgoing' = Append(out, msg)
  /\ UNCHANGED <<status, mode, header_pos, threshold, decompressed, recorded, opens, crashes>>

\* SetChunkThreshold: an open chunk is stopped at the current offset; the outgoing buffer
\* and the position of the current chunk stay.
SetChunkThreshold(n) ==
  /\ status = "ready" /\ mode # {"Read"} /\ n \in Thresholds /\ n # threshold
  /\ threshold' = n
  /\ IF chunk_open
     THEN /\ file' = StopChunk(Unfinished(file), curr, curr_indexes)
          /\ chunks' = Append(chunks, curr)
          /\ curr' = [curr EXCEPT !.counts = Empty]
          /\ curr_indexes' = Empty /\ chunk_open' = FALSE
          /\ spoiled' = SpoiledBySeal
     ELSE UNCHANGED <<file, chunks, curr, curr_indexes, chunk_open, spoiled>>
  /\ UNCHANGED <<status, mode, header_pos, topic_ids, conns, indexes, outgoing,
                 decompressed, recorded, countVars>>

\* The seal throws: in SetChunkThreshold, before the threshold is set, or in Close.  The chunk
\* is listed and stays open.
SealFails ==
  /\ status # "closed" /\ chunk_open /\ mode # {"Read"} /\ faults < MaxFaults
  /\ faults' = faults + 1
  /\ file' \in StopChunkFails(Unfinished(file), curr, curr_indexes)
  /\ chunks' = Append(chunks, curr)
  /\ spoiled' = SpoiledBySeal
  /\ UNCHANGED <<status, mode, header_pos, threshold, topic_ids, conns, indexes, chunk_open,
                 curr, curr_indexes, outgoing, decompressed, recorded, opens, crashes>>

-----------------------------------------------------------------------------
(* Reading messages *)

ChunkData(d, pos) == SubSeq(d, pos + 2, pos + 1 + d[pos + 1].size)
\* readChunkHeader and the read of the data succeed.
ChunkThere(d, pos) == IsOp(d, pos, "chunk") /\ pos + 1 + d[pos + 1].size <= Len(d)

\* decompressChunk: the buffer that holds the chunk, read from the file if it is neither
\* the current chunk nor the one read last.
BufferOfFile(pos) == \* mutant: the current chunk is read from the file, too
  IF decompressed.pos = pos THEN decompressed.data ELSE ChunkData(Contents(file), pos)
BufferOf(pos) == CASE curr.pos = pos -> outgoing
                   [] curr.pos # pos /\ decompressed.pos = pos -> decompressed.data
                   [] OTHER -> ChunkData(Contents(file), pos)

\* readMessageDataHeaderFromBuffer skips connection records.
Fetch(e) ==
  LET b  == BufferOf(e.chunk_pos)
      at == {i \in e.offset + 1 .. Len(b) :
               /\ b[i].op = "msg"
               /\ \A j \in e.offset + 1 .. i - 1 : b[j].op = "conn"}
  IN IF at = {} THEN Hole ELSE b[CHOOSE i \in at : TRUE]

\* ReadMessage(e): a MessageInstance of a View is instantiated.  It throws when there is no
\* such chunk, having filled the buffer, if it came to that, with what there was.
ReadMessage(id, e) ==
  /\ status = "ready" /\ "Read" \in mode /\ id \in DOMAIN indexes /\ e \in indexes[id]
  /\ curr.pos # e.chunk_pos /\ decompressed.pos # e.chunk_pos
  /\ LET f == Seek(Unfinished(file), e.chunk_pos)
         d == Contents(file)
     IN IF ChunkThere(d, e.chunk_pos)
        THEN /\ file' = [f EXCEPT !.off = e.chunk_pos + 1 + Len(BufferOf(e.chunk_pos))]
             /\ decompressed' = [pos |-> e.chunk_pos, data |-> BufferOf(e.chunk_pos)]
        ELSE /\ file' = [f EXCEPT !.off = e.chunk_pos + 1]
             /\ decompressed' = IF IsOp(d, e.chunk_pos, "chunk")
                                THEN [decompressed EXCEPT !.data = SubSeq(d, e.chunk_pos + 2, Len(d))]
                                ELSE decompressed
  /\ UNCHANGED <<status, mode, header_pos, threshold, topic_ids, conns, chunks, indexes,
                 chunk_open, curr, curr_indexes, outgoing, recorded, spoiled, countVars>>

-----------------------------------------------------------------------------
Writing == mode \intersect {"Write", "Append"} # {}
NullConn == \E id \in DOMAIN conns : conns[id] = NoTopic

\* Close, also what the destructor runs after an exception.
Close ==
  /\ status # "closed" /\ status' = "closed"
  /\ ~(Writing /\ NullConn)
  /\ mode' = {} /\ header_pos' = 0 /\ threshold' = InitialThreshold
  /\ LET f   == Unfinished(file)
         f1  == IF chunk_open THEN StopChunk(f, curr, curr_indexes) ELSE f
         chs == IF chunk_open THEN Append(chunks, curr) ELSE chunks
     IN file' = Fclose(IF Writing THEN StopWriting(f1, conns, chs) ELSE f)
  /\ curr' = IF chunk_open /\ Writing THEN [curr EXCEPT !.counts = Empty] ELSE curr
  /\ spoiled' = (SpoiledBySeal \ {"shifted"})
                  \union (IF status = "failed" /\ Writing THEN {"emptied"} ELSE {})
  /\ Reset
  /\ UNCHANGED <<outgoing, recorded, countVars>>

\* stopWriting throws behind the seal: the bag stays open.
CloseFails ==
  /\ status # "closed" /\ Writing /\ ~NullConn /\ faults < MaxFaults
  /\ faults' = faults + 1
  /\ LET f == Unfinished(file)
     IN IF chunk_open
        THEN /\ chunks' = Append(chunks, curr)
             /\ file' \in StopWritingFails(StopChunk(f, curr, curr_indexes), conns, chunks')
             /\ curr' = [curr EXCEPT !.counts = Empty]
             /\ curr_indexes' = Empty /\ chunk_open' = FALSE
             /\ spoiled' = SpoiledBySeal
        ELSE /\ file' \in StopWritingFails(f, conns, chunks)
             /\ UNCHANGED <<chunks, curr, curr_indexes, chunk_open, spoiled>>
  /\ UNCHANGED <<status, mode, header_pos, threshold, topic_ids, conns, indexes, outgoing,
                 decompressed, recorded, opens, crashes>>

\* A new process finds the file with contents d.
Restart(d) ==
  /\ file' = Fopen(d) /\ status' = "closed" /\ mode' = {} /\ header_pos' = 0
  /\ threshold' = InitialThreshold /\ Reset /\ curr' = NoChunk /\ outgoing' = <<>>
  /\ spoiled' = spoiled \ {"shifted"}
  /\ UNCHANGED <<recorded, opens, faults>>

\* Crash: the process is killed during, or after, its last call (close included).
Crash ==
  /\ crashes < MaxCrashes /\ crashes' = crashes + 1
  /\ \E d \in file.torn \union Unfinished(file).torn : Restart(d)

\* writeConnectionRecords dereferences a null connection: close ends the process before
\* the header is rewritten.
CloseDies ==
  /\ status # "closed" /\ Writing /\ NullConn
  /\ \E d \in (IF chunk_open THEN StopChunk(Unfinished(file), curr, curr_indexes)
               ELSE Unfinished(file)).torn : Restart(d)
  /\ UNCHANGED crashes

DoWrite == \E t \in Topics, tm \in Times : Write(t, tm) \/ WriteFails(t, tm)
Otherwise ==
  \/ \E m \in Modes : OpenWrite(m) \/ OpenExisting(m)
  \/ \E n \in Thresholds : SetChunkThreshold(n)
  \/ SealFails
  \/ CloseFails
  \/ \E id \in DOMAIN indexes : \E e \in indexes[id] : ReadMessage(id, e)
  \/ Close
  \/ CloseDies
  \/ Crash
Next == DoWrite \/ Otherwise

Spec == Init /\ [][Next]_vars

-----------------------------------------------------------------------------
(* Properties *)

\* Shape of the bag's state: what the other properties take for granted.
TypeOK ==
  /\ status \in {"closed", "ready", "failed"} /\ mode \in SUBSET ModeBits
  /\ file.off \in Nat /\ header_pos \in {0, 1} /\ threshold \in Nat
  /\ DOMAIN topic_ids \subseteq Topics
  /\ \A id \in DOMAIN conns : conns[id] \in Topics \union {NoTopic}
  /\ \A id \in DOMAIN indexes : \A e \in indexes[id] : e.time \in Times
  /\ (chunk_open => status = "ready") /\ (status = "closed" => mode = {})
  /\ spoiled \subseteq Spoils

\* The messages that the index of an open bag leads to, each fetched through the chunk
\* buffers as a MessageInstance does.
Indexed(get(_)) ==
  UNION {{[topic |-> conns[id], time |-> e.time, n |-> get(e).n] : e \in indexes[id]}
         : id \in DOMAIN indexes}
Points(get(_)) ==
  \A id \in DOMAIN indexes : \A e \in indexes[id] :
     /\ get(e).op = "msg" /\ get(e).conn = id /\ get(e).time = e.time
     /\ id \in DOMAIN conns

\* The record in the file d at an entry's place (IndexEntry: chunk_pos and offset).
OnFile(d, e) == LET p == e.chunk_pos + 2 + e.offset
                IN IF p \in 1 .. Len(d) THEN d[p] ELSE Hole

\* A sealed chunk has its data size in its header, one index record for each of its
\* connections right behind the data, and times that span its messages.
ChunksAreSealed(d) ==
  \A k \in 1 .. Len(chunks) :
    LET c    == chunks[k]
        recs == IndexRecordsOf(d, c)
        data == {x \in {d[c.pos + 1 + j] : j \in 1 .. d[c.pos + 1].size} : x.op = "msg"}
    IN /\ ChunkReadable(d, c)
       /\ \A r \in recs : r.conn \in DOMAIN c.counts
                        /\ Cardinality(r.entries) = c.counts[r.conn]
       /\ Cardinality(data) = Cardinality(UNION {r.entries : r \in recs})
       /\ \A x \in data : c.start <= x.time /\ x.time <= c.end

\* A failed write loses nothing that was recorded: every message whose write returned is
\* reached by an index entry with its time, whichever calls of write failed around it.
RecordedIsReachable(d) ==
  \A m \in recorded : \E id \in DOMAIN indexes : \E e \in indexes[id] :
    e.time = m.time /\ LET rec == OnFile(d, e) IN rec.op = "msg" /\ rec.n = m.n

\* In a closed bag whose header has an index position, every chunk's data ends where the
\* chunk's index records begin.
SizesOnDisk ==
  LET d == file.disk
  IN IsOp(d, 1, "file") /\ d[2].index_pos # 0 =>
       \A c \in {x.chunk : x \in {d[i] : i \in {j \in 1 .. Len(d) : d[j].op = "info"}}} :
         /\ ChunkReadable(d, c)
         /\ \A i \in 1 .. d[c.pos + 1].size : d[c.pos + 1 + i].op \in {"conn", "msg"}

\* Every entry of connection_indexes_ leads to the record of a message of that connection
\* and time, and the sealed chunks say what they hold: while recording, across chunk
\* boundaries, after appending to an old bag; and so do those of a closed bag.  It holds until
\* a write fails: doWrite indexes a message before it writes the record, and a chunk whose
\* seal failed is listed again.  What was recorded is still reached then, failed seals and
\* failed calls of close included.  The exceptions are a chunk sealed where a read or a failed
\* seal had left the file offset, and a bag that a failed open for append has emptied.
IndexMatchesFile ==
  /\ TypeOK
  /\ status = "ready" /\ spoiled \intersect {"misplaced", "emptied"} = {} =>
       LET d == Contents(file)
       IN /\ RecordedIsReachable(d)
          /\ faults = 0 => Points(LAMBDA e : OnFile(d, e)) /\ ChunksAreSealed(d)
  /\ status = "closed" /\ "misplaced" \notin spoiled /\ faults = 0 => SizesOnDisk

\* Unless a write failed, a bag that opens without an exception is complete: it holds every
\* message whose write returned, whatever call of open, write or close the process died in
\* before, and whatever sessions appended to it.  And all of them are read through
\* decompressChunk, while the bag is written, too: the outgoing buffer and the buffer of the
\* chunk read last never serve the data of another chunk.  The exceptions are those of
\* IndexMatchesFile and, for what is read, a chunk begun with the outgoing buffer in use.
OpenedBagIsComplete ==
  faults = 0 /\ status = "ready" /\ spoiled \intersect {"misplaced", "emptied"} = {} =>
    /\ LET d == Contents(file) IN Indexed(LAMBDA e : OnFile(d, e)) = recorded
    /\ "Read" \in mode /\ "shifted" \notin spoiled =>
         Points(Fetch) /\ Indexed(Fetch) = recorded

\* The records of a sealed chunk are never overwritten while the bag is open or closed: later
\* writes go behind it, also those of calls that fail.  A chunk whose seal failed is listed,
\* but not sealed; the exception is a seal at a misplaced offset, which may write over what
\* lies there.
SealedDataStays ==
  [][status = "ready" /\ crashes' = crashes /\ "misplaced" \notin spoiled' =>
       LET before == Contents(file)
           after  == Contents(file')
       IN \A k \in 1 .. Len(chunks) :
            LET pos  == chunks[k].pos
                last == pos + 1 + before[pos + 1].size
            IN ~(chunk_open /\ pos = curr.pos) =>
                 SubSeq(after, pos + 1, last) = SubSeq(before, pos + 1, last)]_vars
=============================================================================
