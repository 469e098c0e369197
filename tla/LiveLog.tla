------------------------------ MODULE LiveLog ------------------------------
(***************************************************************************)
(* The live logger (core/src/livelog/livelogger.cpp, its header, and       *)
(* core/src/sm_livelog_storage_utils.cpp): the main thread writes log      *)
(* entries into a small ring, cis_storage_; full rings are parked in a     *)
(* ring of rings, storagesstorage_; a thread copies them into the large    *)
(* ring trans_storage_; a sink in another process polls that ring over a   *)
(* connection and asks for a flush when three polls brought nothing.       *)
(*                                                                         *)
(* A ring is an array of cells. The header of a chunk, a length, a tag, a  *)
(* number and a character take one cell each.                              *)
(***************************************************************************)
EXTENDS Integers, Sequences, FiniteSets, FiniteSetsExt, SequencesExt

CONSTANTS Entries,       \* what the program may log as its first, second, ... entry
          CisLen,        \* len_ of cis_storage_
          TransLen,      \* len_ of trans_storage_
          NStorages,     \* storagesstorage_.storages_.size()
          MaxBreaks      \* bound on connection losses

VARIABLES cis, sto, sto2, trans,   \* the storages
          writer,                  \* the main thread within write_ext
          moved,                   \* cis_moved_to_trans_
          copier,                  \* trans_thread_fn
          server, port,            \* publish, comm_stream_dispatcher_fn
          sink, net,               \* Livelogger_sink, the bytes under way to it
          mirror,                  \* the entries the sink has, decoded
          logged, dropped,         \* history: entries by id, ids pushed out of a ring
          raced, wild,             \* history: an unlocked flush hit a write; an exact fit
                                   \* or a torn length
          breaks

vars == <<cis, sto, sto2, trans, writer, moved, copier, server, port, sink, net,
          mirror, logged, dropped, raced, wild, breaks>>

MaxWrites == Len(Entries)

-----------------------------------------------------------------------------
(* storage_write, storage_write_event and their readers.                   *)

C(tag, v) == <<tag, v>>
Junk == C("junk", 0)

Sz(s) == <<C("tag", "SZ"), C("u32", Len(s) + 1)>> \o s \o <<C("char", "0")>>

Variant(v) == IF v.kind = "int" THEN <<C("tag", "INT64"), C("num", v.val)>> ELSE Sz(v.val)

\* An event is its name and the vector of its parameters; the active states
\* are the list of their indices; everything else is one string.
Encode(e) ==
  CASE e.what = "EVENT" ->
         Sz(e.name) \o <<C("tag", "VEC"), C("u32", Len(e.params))>>
           \o FlattenSeq([i \in DOMAIN e.params |-> Variant(e.params[i])])
    [] e.what = "CURRENT_STATES" -> [i \in DOMAIN e.active |-> C("u32", e.active[i])]
    [] OTHER -> Sz(e.text)

\* Reads a string behind its tag: it ends at the first zero.
ReadSz(cells, at) ==
  LET last == Min({i \in at + 1 .. Len(cells) : cells[i] = C("char", "0")})
  IN [val |-> SubSeq(cells, at + 1, last - 1), next |-> last + 1]

ReadVariant(cells, at) ==
  IF cells[at] = C("tag", "INT64")
  THEN [val |-> [kind |-> "int", val |-> cells[at + 1][2]], next |-> at + 2]
  ELSE LET s == ReadSz(cells, at + 1)
       IN [val |-> [kind |-> "string", val |-> s.val], next |-> s.next]

ReadEvent(cells) ==
  LET name == ReadSz(cells, 2)
      n == cells[name.next + 1][2]
      read[k \in 0 .. n] ==
        IF k = 0 THEN [vals |-> <<>>, next |-> name.next + 2]
        ELSE LET v == ReadVariant(cells, read[k - 1].next)
             IN [vals |-> Append(read[k - 1].vals, v.val), next |-> v.next]
  IN [what |-> "EVENT", name |-> name.val, params |-> read[n].vals]

Decode(what, cells) ==
  CASE what = "EVENT" -> ReadEvent(cells)
    [] what = "CURRENT_STATES" -> [what |-> what, active |-> [i \in DOMAIN cells |-> cells[i][2]]]
    [] OTHER -> [what |-> what, text |-> ReadSz(cells, 2).val]

-----------------------------------------------------------------------------
(* Livelogger::Storage.                                                    *)

Fresh(len) == [data |-> [i \in 0 .. len - 1 |-> Junk], start |-> 0, end |-> 0, skip |-> 0]

Size(st) == Cardinality(DOMAIN st.data)
Capacity(st) == Size(st) - 1
Empty(st) == st.start = st.end
Cleared(st) == [st EXCEPT !.start = 0, !.end = 0, !.skip = 0]

AvailableSpace(st) ==
  IF Empty(st) THEN Size(st) - 1
  ELSE IF st.start < st.end
       THEN Max({Size(st) - (st.end + 1), IF st.start = 0 THEN 0 ELSE st.start - 1})
       ELSE st.start - st.end - 1

Chunk(st, p) == st.data[p][2]
IsChunk(st, p) == p \in DOMAIN st.data /\ st.data[p][1] = "chunk"

Pop(st) ==
  LET s == st.start + Chunk(st, st.start).len + 1
      t == IF st.skip # 0 /\ s = st.skip
           THEN [st EXCEPT !.start = 0, !.skip = 0] ELSE [st EXCEPT !.start = s]
  IN IF Empty(st) THEN st ELSE IF Empty(t) THEN [t EXCEPT !.start = 0, !.end = 0] ELSE t

\* The condition of the loop that makes room for a new chunk.
Room(st, tot) == tot <= AvailableSpace(st)

FitsBehind(st, tot) == st.end + tot <= Size(st)

\* write_chunk: the header goes to the end, or to the beginning when the
\* rest of the ring is too short; skip_ remembers where the rest begins.
PutHeader(st, h) ==
  IF FitsBehind(st, h.len + 1) THEN [st EXCEPT !.data[st.end] = C("chunk", h)]
  ELSE [st EXCEPT !.skip = st.end, !.end = 0, !.data[0] = C("chunk", h)]

Advance(st, tot) == [st EXCEPT !.end = (@ + tot) % Size(st)]

FillAt(st, p, cells) ==
  [st EXCEPT !.data = [i \in DOMAIN @ |->
     IF i \in p + 1 .. p + Len(cells) THEN cells[i - p] ELSE @[i]]]

\* push_back with the memory to copy, once there is room.
PushBack(st, h, cells) ==
  LET put == PutHeader(st, h) IN Advance(FillAt(put, put.end, cells), h.len + 1)

\* next: the condition that should detect the end of the array compares
\* with the length of the chunk, so a chunk that ends with the array is
\* followed by whatever lies behind the array.
NextPos(st, p) ==
  LET q == p + 1 + Chunk(st, p).len
      r == IF st.skip # 0 /\ q = st.skip THEN 0 ELSE q
  IN IF r = st.end THEN -1 ELSE r

\* for_each2, for_each_ext go from First along NextPos.
First(st) == IF Empty(st) THEN -1 ELSE st.start

Content(st, p) ==
  [h |-> Chunk(st, p), cells |-> [i \in 1 .. Chunk(st, p).len |-> st.data[p + i]]]

\* The ids in a ring that has not wrapped around.
Ids(st) == {Chunk(st, p).id : p \in {q \in 0 .. st.end - 1 : IsChunk(st, q)}}

\* An end of the array that coincides with the end of a chunk.
ExactFit(st, tot) == st.end + tot = Size(st)

-----------------------------------------------------------------------------
(* Storagesstorage.                                                        *)

\* When the ring of rings has wrapped around, its size is one too small.
Parked(s) == IF s.e >= s.s THEN s.e - s.s ELSE NStorages - s.s + s.e - 1

\* move_to_and_clear: the buffers are exchanged; the oldest ring is given up
\* when none is free.
MoveToAndClear ==
  LET e == (sto.e + 1) % NStorages
  IN /\ sto' = [arr |-> [sto.arr EXCEPT ![sto.e] = cis], e |-> e,
                s |-> IF e = sto.s THEN (sto.s + 1) % NStorages ELSE sto.s]
     /\ cis' = Cleared([cis EXCEPT !.data = sto.arr[sto.e].data])
     /\ dropped' = dropped \cup (IF e = sto.s THEN Ids(sto.arr[sto.s]) ELSE {})

Init ==
  LET none == [arr |-> [i \in 0 .. NStorages - 1 |-> Fresh(CisLen)], s |-> 0, e |-> 0]
  IN /\ cis = Fresh(CisLen) /\ trans = Fresh(TransLen)
     /\ sto = none /\ sto2 = none
     /\ writer = [pc |-> "idle", cells |-> <<>>, what |-> "none", pos |-> 0]
     /\ moved = FALSE /\ copier = [pc |-> "wait", i |-> 0, p |-> -1]
     /\ server = "starting" /\ port = "unset"
     /\ sink = [st |-> "down", last |-> -1, nodata |-> 0, p |-> -1]
     /\ net = <<>> /\ mirror = <<>>
     /\ logged = <<>> /\ dropped = {} /\ raced = FALSE /\ wild = FALSE /\ breaks = 0

storages == <<cis, sto, sto2, trans>>
threads == <<moved, copier, server, port, sink, net, mirror, breaks>>

-----------------------------------------------------------------------------
(* The main thread: write, write_ext.                                      *)

\* check_write_preconditions
WriteRefused(e) ==
  /\ writer.pc = "idle"
  /\ Len(Encode(e)) + 1 > Capacity(cis)
  /\ UNCHANGED vars

WriteStart(e) ==
  LET tot == Len(Encode(e)) + 1
  IN /\ writer.pc = "idle"
     /\ tot <= Capacity(cis)
     /\ writer' = [pc |-> IF AvailableSpace(cis) < tot THEN "transfer" ELSE "push",
                   cells |-> Encode(e), what |-> e.what, pos |-> 0]
     /\ logged' = Append(logged, e)
     /\ UNCHANGED <<storages, threads, dropped, raced, wild>>

\* if_space_low_do_cis_to_trans_transfer, under mutex_cis2trans_.
Transfer ==
  /\ writer.pc = "transfer"
  /\ MoveToAndClear
  /\ moved' = (moved \/ Parked(sto') >= NStorages \div 2)
  /\ writer' = [writer EXCEPT !.pc = "push"]
  /\ UNCHANGED <<sto2, trans, copier, server, port, sink, net, mirror, logged, raced,
                 wild, breaks>>

\* push_back(nullptr, ...) up to the header, without a lock. There always is
\* room: what does not fit has been moved away.
PushHeader ==
  /\ writer.pc = "push"
  /\ LET tot == Len(writer.cells) + 1
         st == PutHeader(cis, [len |-> Len(writer.cells), id |-> Len(logged) - 1,
                               what |-> writer.what])
     IN /\ Room(cis, tot)
        /\ cis' = st /\ writer' = [writer EXCEPT !.pc = "end", !.pos = st.end]
  /\ UNCHANGED <<sto, sto2, trans, threads, logged, dropped, raced, wild>>

PushEnd ==
  /\ writer.pc = "end"
  /\ cis' = Advance(cis, Len(writer.cells) + 1)
  /\ writer' = [writer EXCEPT !.pc = "fill"]
  /\ UNCHANGED <<sto, sto2, trans, threads, logged, dropped, raced, wild>>

\* The content is written after the chunk has become part of the ring.
Fill ==
  /\ writer.pc = "fill"
  /\ cis' = FillAt(cis, writer.pos, writer.cells)
  /\ writer' = [writer EXCEPT !.pc = "idle", !.cells = <<>>]
  /\ UNCHANGED <<sto, sto2, trans, threads, logged, dropped, raced, wild>>

-----------------------------------------------------------------------------
(* trans_thread_fn.                                                        *)

Wake ==
  /\ copier.pc = "wait" /\ moved
  /\ moved' = FALSE /\ copier' = [copier EXCEPT !.pc = "take"]
  /\ UNCHANGED <<storages, writer, server, port, sink, net, mirror, logged, dropped, raced,
                 wild, breaks>>

\* Under both locks the parked rings are exchanged with those of
\* storagesstorage2_; mutex_trans2consumer_ stays locked until the copy.
Take ==
  /\ copier.pc = "take" /\ sink.st # "sending"
  /\ IF sto.s = sto.e
     THEN copier' = [copier EXCEPT !.pc = "wait"] /\ UNCHANGED <<sto, sto2>>
     ELSE LET parked == {i \in 0 .. NStorages - 1 : IF sto.s < sto.e THEN sto.s <= i /\ i < sto.e
                                                    ELSE sto.s <= i \/ i < sto.e}
          IN /\ sto2' = [sto EXCEPT !.arr = [i \in DOMAIN @ |->
                           IF i \in parked THEN @[i] ELSE sto2.arr[i]]]
             /\ sto' = [arr |-> [i \in DOMAIN sto.arr |->
                          IF i \in parked THEN Cleared([sto.arr[i] EXCEPT !.data = sto2.arr[i].data])
                          ELSE sto.arr[i]], s |-> 0, e |-> 0]
             /\ copier' = [pc |-> "copy", i |-> sto.s, p |-> First(sto.arr[sto.s])]
  /\ UNCHANGED <<cis, trans, writer, moved, server, port, sink, net, mirror, logged, dropped,
                 raced, wild, breaks>>

CopyNextStorage ==
  /\ copier.pc = "copy" /\ copier.p = -1
  /\ LET i == (copier.i + 1) % NStorages
     IN copier' = IF i = sto2.e THEN [pc |-> "wait", i |-> 0, p |-> -1]
                  ELSE [copier EXCEPT !.i = i, !.p = First(sto2.arr[i])]
  /\ UNCHANGED <<storages, writer, moved, server, port, sink, net, mirror, logged, dropped,
                 raced, wild, breaks>>

Copied == Content(sto2.arr[copier.i], copier.p)

\* push_back, `while (tot_len > available_space()) pop();'
CopyMakeRoom ==
  /\ copier.pc = "copy" /\ copier.p # -1
  /\ ~ Room(trans, Copied.h.len + 1)
  /\ trans' = Pop(trans)
  /\ dropped' = dropped \cup {Chunk(trans, trans.start).id}
  /\ UNCHANGED <<cis, sto, sto2, writer, moved, copier, server, port, sink, net, mirror, logged,
                 raced, wild, breaks>>

\* Behind an exact fit the ring is read past its end: from there on the
\* model knows nothing (wild).
CopyPush ==
  /\ copier.pc = "copy" /\ copier.p # -1
  /\ Room(trans, Copied.h.len + 1)
  /\ trans' = PushBack(trans, Copied.h, Copied.cells)
  /\ wild' = ExactFit(trans, Copied.h.len + 1)
  /\ copier' = [copier EXCEPT !.p = NextPos(sto2.arr[copier.i], @)]
  /\ UNCHANGED <<cis, sto, sto2, writer, moved, server, port, sink, net, mirror, logged, dropped,
                 raced, breaks>>

-----------------------------------------------------------------------------
(* publish and the dispatcher: the thread is started before port_ is set.  *)

SetPort ==
  /\ port = "unset" /\ port' = "set"
  /\ UNCHANGED <<storages, writer, moved, copier, server, sink, net, mirror, logged,
                 dropped, raced, wild, breaks>>

Bind ==
  /\ server = "starting"
  /\ server' = IF port = "set" THEN "listening" ELSE "failed"
  /\ UNCHANGED <<storages, writer, moved, copier, port, sink, net, mirror, logged,
                 dropped, raced, wild, breaks>>

-----------------------------------------------------------------------------
(* Livelogger_sink::comm_stream_fn and the handler of its connection.      *)

\* A new connection starts from nothing (clear_all).
Connect ==
  /\ sink.st = "down" /\ server = "listening"
  /\ sink' = [sink EXCEPT !.st = IF sink.nodata >= 3 THEN "flush" ELSE "get", !.last = -1]
  /\ mirror' = <<>> /\ net' = <<>>
  /\ UNCHANGED <<storages, writer, moved, copier, server, port, logged, dropped, raced, wild,
                 breaks>>

\* CMD_FLUSH_MAIN_LOG_STORAGE: without a lock the handler looks whether the
\* ring of the main thread is empty.
FlushCheck ==
  /\ sink.st = "flush"
  /\ sink' = [sink EXCEPT !.st = IF Empty(cis) THEN "get" ELSE "move"]
  /\ UNCHANGED <<storages, writer, moved, copier, server, port, net, mirror, logged, dropped,
                 raced, wild, breaks>>

\* A bug: the copying thread is not told.
FlushWithoutTrigger ==
  /\ sink.st = "move"
  /\ MoveToAndClear
  /\ raced' = (raced \/ writer.pc \in {"end", "fill"})
  /\ sink' = [sink EXCEPT !.st = "get"]
  /\ UNCHANGED <<sto2, trans, writer, moved, copier, server, port, net, mirror, logged, wild,
                 breaks>>

\* With the lock it moves that ring, which the main thread may have moved
\* itself meanwhile. The main thread takes no lock while it pushes an entry.
Flush ==
  /\ sink.st = "move"
  /\ MoveToAndClear /\ moved' = TRUE
  /\ raced' = (raced \/ writer.pc \in {"end", "fill"})
  /\ sink' = [sink EXCEPT !.st = "get"]
  /\ UNCHANGED <<sto2, trans, writer, copier, server, port, net, mirror, logged, wild,
                 breaks>>

\* CMD_GET_NEW_LOG_ENTRIES, send_storage under mutex_trans2consumer_: what is
\* newer than the last id the sink has, then the sentinel.
SendStart ==
  /\ sink.st = "get" /\ copier.pc # "copy"
  /\ sink' = [sink EXCEPT !.st = "sending", !.p = First(trans)]
  /\ UNCHANGED <<storages, writer, moved, copier, server, port, net, mirror, logged, dropped,
                 raced, wild, breaks>>

\* A bug: the last entry the sink has is sent again.
SendChunkAgain ==
  /\ sink.st = "sending"
  /\ IF sink.p = -1 THEN sink' = [sink EXCEPT !.st = "read"] /\ UNCHANGED net
     ELSE /\ net' = IF Chunk(trans, sink.p).id >= sink.last
                    THEN Append(net, Content(trans, sink.p)) ELSE net
          /\ sink' = [sink EXCEPT !.p = NextPos(trans, @)]
  /\ UNCHANGED <<storages, writer, moved, copier, server, port, mirror, logged, dropped, raced,
                 wild, breaks>>

SendChunk ==
  /\ sink.st = "sending"
  /\ IF sink.p = -1 THEN sink' = [sink EXCEPT !.st = "read"] /\ UNCHANGED net
     ELSE /\ net' = IF Chunk(trans, sink.p).id >= sink.last + 1
                    THEN Append(net, Content(trans, sink.p)) ELSE net
          /\ sink' = [sink EXCEPT !.p = NextPos(trans, @)]
  /\ UNCHANGED <<storages, writer, moved, copier, server, port, mirror, logged, dropped, raced,
                 wild, breaks>>

Decoded(chunks) ==
  [i \in DOMAIN chunks |-> [id |-> chunks[i].h.id, entry |-> Decode(chunks[i].h.what, chunks[i].cells)]]

\* The answer up to the sentinel; the poll of the registered storages that
\* follows works the same way.
Read ==
  /\ sink.st = "read"
  /\ mirror' = mirror \o Decoded(net)
  /\ LET nodata == IF net = <<>> THEN Min({sink.nodata + 1, 3}) ELSE 0
     IN sink' = [p |-> -1, st |-> IF nodata >= 3 THEN "flush" ELSE "get", nodata |-> nodata,
                 last |-> IF net = <<>> THEN sink.last ELSE Last(net).h.id]
  /\ net' = <<>>
  /\ UNCHANGED <<storages, writer, moved, copier, server, port, logged, dropped, raced, wild,
                 breaks>>

\* A length that comes in pieces ends the loop over the answer, but neither the
\* connection nor what is left in it: the next length is read out of the
\* middle, and from there on the model knows nothing (wild).
ReadShort ==
  /\ sink.st = "read" /\ wild' = TRUE
  /\ \E k \in 0 .. Len(net) : mirror' = mirror \o Decoded(SubSeq(net, 1, k))
  /\ UNCHANGED <<storages, writer, moved, copier, server, port, sink, net, logged, dropped,
                 raced, breaks>>

\* The connection breaks, perhaps within an answer.
Break ==
  /\ sink.st # "down" /\ breaks < MaxBreaks
  /\ breaks' = breaks + 1
  /\ \E k \in 0 .. Len(net) : mirror' = mirror \o Decoded(SubSeq(net, 1, k))
  /\ sink' = [sink EXCEPT !.st = "down", !.p = -1]
  /\ net' = <<>>
  /\ UNCHANGED <<storages, writer, moved, copier, server, port, logged, dropped, raced, wild>>

Coming == IF Len(logged) < MaxWrites THEN Entries[Len(logged) + 1] ELSE {}

Writer == Transfer \/ PushHeader \/ PushEnd \/ Fill
Copier == Wake \/ Take \/ CopyNextStorage \/ CopyMakeRoom \/ CopyPush
Sink == Connect \/ FlushCheck \/ Flush \/ SendStart \/ SendChunk \/ Read

Running == ~ raced /\ ~ wild

Next ==
  \/ Running /\ \E e \in Coming : WriteStart(e) \/ WriteRefused(e)
  \/ Running /\ Writer
  \/ Running /\ Copier
  \/ Running /\ (SetPort \/ Bind)
  \/ Running /\ Sink
  \/ Running /\ (Break \/ ReadShort)

\* The threads of both processes keep running, and the sink sleeps between
\* two polls, so the copying thread gets the mutex it waits for.
Fairness ==
  /\ WF_vars(Running /\ Writer) /\ SF_vars(Running /\ Copier) /\ WF_vars(Running /\ Sink)
  /\ WF_vars(Running /\ (SetPort \/ Bind))

Spec == Init /\ [][Next]_vars /\ Fairness

-----------------------------------------------------------------------------
\* What a sink has read is what was logged: as long as no flush hit a
\* half-written entry and no chunk ended exactly with the array, and up to a
\* length that came in pieces, the sink's entries have the ids and the contents
\* they were written with, in order, and an entry is missing only when a full
\* ring has dropped it. This goes
\* through four rings, two exchanges of buffers, the wrap around of the large
\* ring, lost connections and the encoding of the entries.
LogIsFaithful ==
  (Running \/ sink.st = "read") =>
    /\ \A i \in DOMAIN mirror : mirror[i].entry = logged[mirror[i].id + 1]
    /\ \A i \in DOMAIN mirror :
         LET before == IF i = 1 THEN -1 ELSE mirror[i - 1].id
         IN /\ before < mirror[i].id
            /\ \A k \in before + 1 .. mirror[i].id - 1 : k \in dropped

\* Every entry reaches the sink or is dropped by a full ring, although the
\* copying thread is only woken when many rings are parked: the flush after
\* three empty polls brings the rest. Excepted are the three cases above and a
\* server that read its port too early.
Outstanding(k) ==
  /\ Len(logged) >= k /\ k - 1 \notin dropped
  /\ Running /\ server # "failed"
  /\ \A i \in DOMAIN mirror : mirror[i].id # k - 1
LogArrives == \A k \in 1 .. MaxWrites : Outstanding(k) ~> ~ Outstanding(k)
=============================================================================
