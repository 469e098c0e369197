----------------------------- MODULE StreamReader -----------------------------
(***************************************************************************)
(* comm_generic_tcp_in_thread_fn: how a TCP stream is cut into messages.   *)
(* Three ways: the messages end with a marker (eof), they have a computed  *)
(* size (fixed), or each is preceded by its size (sized).  The network     *)
(* delivers the stream in arbitrary pieces, and a recv returns what has    *)
(* arrived, at most as much as it asks for.                                *)
(***************************************************************************)
EXTENDS Integers, Sequences, SequencesExt, FiniteSetsExt

CONSTANTS
  Marker,     \* the end-of-frame marker
  FrameSize,  \* compute_size_of_msg
  Bodies,     \* the message bodies a peer may send (without a marker)
  MaxBodies,  \* bound: messages in a stream
  Buffer      \* the size of the receive buffer in eof mode (4095)

VARIABLES
  mode,      \* "eof", "fixed", "sized"
  sent,      \* the bodies the peer sends
  stream,    \* not yet received
  avail,     \* arrived
  buf,       \* the unfinished message
  capacity,  \* sized mode: the size of the allocated buffer
  wanted,    \* sized mode: the announced size, 0 before the size was read
  msgs,      \* messages given to read_msg
  closed,    \* the thread has closed the socket
  torn       \* history: a recv ended inside a marker or a sized message

vars == <<mode, sent, stream, avail, buf, capacity, wanted, msgs, closed, torn>>

\* What the peer writes: a size has four bytes, the highest first, and the
\* sizes of the model fit in the last one.
SizeBytes == 4
Size(n) == <<0, 0, 0, n>>

OnWire(m, bodies) ==
  FlattenSeq([i \in DOMAIN bodies |->
    CASE m = "eof" -> bodies[i] \o Marker
      [] m = "fixed" -> bodies[i]
      [] m = "sized" -> Size(Len(bodies[i])) \o bodies[i]])

Init ==
  /\ mode \in {"eof", "fixed", "sized"}
  /\ sent \in UNION {[1..n -> Bodies] : n \in 0..MaxBodies}
  /\ mode = "fixed" => \A i \in DOMAIN sent : Len(sent[i]) = FrameSize
  /\ stream = OnWire(mode, sent)
  /\ avail = 0 /\ buf = <<>> /\ capacity = 0 /\ wanted = 0
  /\ msgs = <<>> /\ closed = FALSE /\ torn = FALSE

Arrive ==
  /\ \E n \in avail + 1..Len(stream) : avail' = n
  /\ UNCHANGED <<mode, sent, stream, buf, capacity, wanted, msgs, closed, torn>>

\* The position where the marker starts in text from position r on, or 0.
Find(text, r) ==
  LET at == {i \in r..Len(text) - Len(Marker) + 1 :
               SubSeq(text, i, i + Len(Marker) - 1) = Marker}
  IN IF at = {} THEN 0 ELSE Min(at)

\* A bug: what follows a marker in the same piece is forgotten.
SplitOnce(b, text) ==
  LET p == Find(text, 1)
  IN IF p = 0 THEN [buf |-> b \o text, msgs |-> <<>>]
     ELSE [buf |-> <<>>, msgs |-> <<b \o SubSeq(text, 1, p - 1)>>]

\* The loop over one received piece: every marker in it ends a message that
\* began in `b'; what follows the last one is kept.
Split(b, text) ==
  LET cut[k \in 0..Len(text)] ==
        IF k = 0 THEN [buf |-> b, msgs |-> <<>>, r |-> 1]
        ELSE LET s == cut[k - 1]
                 p == Find(text, s.r)
             IN IF p = 0 THEN s
                ELSE [buf |-> <<>>,
                      msgs |-> Append(s.msgs, s.buf \o SubSeq(text, s.r, p - 1)),
                      r |-> p + Len(Marker)]
      last == cut[Len(text)]
  IN [buf |-> last.buf \o SubSeq(text, last.r, Len(text)), msgs |-> last.msgs]

\* A piece that ends inside a marker: the search does not span two pieces.
CutsMarker(text) ==
  \E k \in 1..Len(Marker) - 1 : k <= Len(text)
    /\ SubSeq(text, Len(text) - k + 1, Len(text)) = SubSeq(Marker, 1, k)

Consumed(n) ==
  /\ stream' = SubSeq(stream, n + 1, Len(stream))
  /\ avail' = avail - n

RecvEof ==
  /\ mode = "eof" /\ avail > 0
  /\ LET n == Min({avail, Buffer})
         text == SubSeq(stream, 1, n)
         s == Split(buf, text)
     IN /\ Consumed(n)
        /\ buf' = s.buf /\ msgs' = msgs \o s.msgs
        /\ torn' = (torn \/ CutsMarker(text))
  /\ UNCHANGED <<mode, sent, capacity, wanted, closed>>

\* recv is repeated until the frame is complete.
RecvFixed ==
  /\ mode = "fixed" /\ avail > 0
  /\ LET n == Min({avail, FrameSize - Len(buf)})
         b == buf \o SubSeq(stream, 1, n)
     IN /\ Consumed(n)
        /\ buf' = IF Len(b) = FrameSize THEN <<>> ELSE b
        /\ msgs' = IF Len(b) = FrameSize THEN Append(msgs, b) ELSE msgs
  /\ UNCHANGED <<mode, sent, capacity, wanted, closed, torn>>

\* One recv for the size: when not all of it has arrived, the thread gives up
\* and closes the socket. The buffer only grows. After a torn message the
\* bytes are those of a body and stand for a size that is not known: the
\* model stops.
RecvSize ==
  /\ mode = "sized" /\ avail > 0 /\ wanted = 0 /\ ~ torn /\ ~ closed
  /\ LET n == Min({avail, SizeBytes})
         size == stream[SizeBytes]
     IN /\ Consumed(n)
        /\ closed' = (n # SizeBytes)
        /\ IF n = SizeBytes THEN wanted' = size /\ capacity' = Max({capacity, size})
           ELSE UNCHANGED <<wanted, capacity>>
  /\ UNCHANGED <<mode, sent, buf, msgs, torn>>

\* One recv for up to the capacity of the buffer, not for the announced
\* size; whatever came, the announced number of bytes is handed on.
RecvSized ==
  /\ mode = "sized" /\ avail > 0 /\ wanted > 0
  /\ LET n == Min({avail, capacity})
     IN /\ Consumed(n)
        /\ torn' = (n # wanted)
        /\ msgs' = Append(msgs, [i \in 1..wanted |->
                                     IF i <= n THEN stream[i] ELSE "stale"])
        /\ wanted' = 0
  /\ UNCHANGED <<mode, sent, buf, capacity, closed>>

\* recv returns 0: the peer has sent everything and closed.
EndOfStream ==
  /\ ~ closed /\ stream = <<>>
  /\ closed' = TRUE
  /\ UNCHANGED <<mode, sent, stream, avail, buf, capacity, wanted, msgs, torn>>

Next == Arrive \/ RecvEof \/ RecvFixed \/ RecvSize \/ RecvSized \/ EndOfStream

Spec == Init /\ [][Next]_vars

-----------------------------------------------------------------------------
\* The messages handed on are the ones that were sent, in order and whole,
\* for every way the stream is cut into pieces, unless a piece ended inside
\* a marker or inside (or beyond) a sized message; a size that comes in pieces
\* ends the reading, with the messages before it; a fixed size is immune.
MessagesAreExact ==
  /\ ~ torn => IsPrefix(msgs, sent)
  /\ (closed /\ ~ torn /\ stream = <<>>) => msgs = sent
  /\ (closed /\ stream # <<>>) => mode = "sized" /\ wanted = 0 /\ ~ torn
  /\ mode = "fixed" => ~ torn
=============================================================================
