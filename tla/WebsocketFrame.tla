---------------------------- MODULE WebsocketFrame ----------------------------
(***************************************************************************)
(* How the websocket servers read and write: the HTTP upgrade request, the *)
(* base64 text of the accept key, frame headers, and read_websocket_frame  *)
(* on a stream that arrives in pieces.  ws_api.cpp and websocket.cpp hold  *)
(* two copies of this code, and the encoder of frame headers exists five   *)
(* times.  Bytes are numbers, a multi-byte length is big-endian.           *)
(***************************************************************************)
EXTENDS Integers, Sequences, FiniteSets, SequencesExt, FiniteSetsExt, Bitwise

CONSTANTS
  Payloads,    \* the payloads sent in a run: sequences of bytes
  MaskKeys,    \* masking keys: sequences of 4 bytes, <<>> for no mask
  Lengths,     \* payload lengths for which the header codec is checked
  Requests,    \* upgrade requests: sequences over {"r", "n", "x"}
  Texts,       \* byte sequences that are base64 encoded
  Segments     \* sizes of the pieces in which the network delivers

VARIABLES
  frame,    \* what the peer sends: [payload, key, opcode]
  stream,   \* bytes sent and not read
  avail,    \* how many of them have arrived
  reader    \* [stage, len, key, payload, opcode]

vars == <<frame, stream, avail, reader>>

-----------------------------------------------------------------------------
(* Frame headers.                                                          *)

\* n as k big-endian bytes (htons, htobe64), and back (ntohs, be64toh).
BigEndian(n, k) == [i \in 1..k |-> IF k - i > 3 THEN 0 ELSE (n \div 256^(k - i)) % 256]
FromBigEndian(b) == FoldLeft(LAMBDA a, x : a * 256 + x, 0, b)

\* A bug: lengths from 126 on are announced with the 64 bit form.
HeaderWide(len, opcode) ==
  IF len < 126 THEN <<128 + opcode, len>>
  ELSE <<128 + opcode, 126>> \o BigEndian(len, 8)

\* send_ws_text_msg, send_reply: a final frame, never masked.
Header(len, opcode) ==
  IF len < 126 THEN <<128 + opcode, len>>
  ELSE IF len <= 65535 THEN <<128 + opcode, 126>> \o BigEndian(len, 2)
  ELSE <<128 + opcode, 127>> \o BigEndian(len, 8)

\* The first two bytes as read_websocket_frame takes them apart.
Opcode(b) == b[1] % 16
Fin(b) == b[1] >= 128
Masked(b) == b[2] >= 128
ShortLength(b) == b[2] % 128

\* The length of the extended length field, and the length it announces.
ExtLength(b) == IF ShortLength(b) = 126 THEN 2 ELSE IF ShortLength(b) = 127 THEN 8 ELSE 0

HeaderLength(b) ==
  IF ExtLength(b) = 0 THEN ShortLength(b) ELSE FromBigEndian(SubSeq(b, 3, Len(b)))

\* Every byte is combined with the key byte of its position in the payload.
Unmasked(bytes, at, key) ==
  IF key = <<>> THEN bytes
  ELSE [i \in DOMAIN bytes |-> bytes[i] ^^ key[((at + i - 1) % 4) + 1]]

-----------------------------------------------------------------------------
(* The upgrade request.                                                    *)

Eom == <<"r", "n", "r", "n">>

\* read_http_request: one position in the marker is kept; a character that
\* does not fit sets it to 0 and is not looked at again.
ScanStep(st, ch) ==
  IF st.found THEN st
  ELSE LET pos == IF ch = Eom[st.pos + 1] THEN st.pos + 1 ELSE 0
       IN [pos |-> IF pos = 4 THEN 0 ELSE pos, read |-> st.read + 1, found |-> pos = 4]

ReadHttpRequest(text) ==
  FoldLeft(ScanStep, [pos |-> 0, read |-> 0, found |-> FALSE], text)

\* Reference: the characters up to the first complete marker, 0 for none.
FirstMarker(text) ==
  LET ends == {i \in 4..Len(text) : SubSeq(text, i - 3, i) = Eom}
  IN IF ends = {} THEN 0 ELSE Min(ends)

-----------------------------------------------------------------------------
(* Base64.                                                                 *)

\* encode_base64 of up to three bytes: indices into base64set, 64 for '='.
Base64Group(b) ==
  CASE Len(b) = 3 -> <<b[1] \div 4, (b[1] % 4) * 16 + b[2] \div 16,
                       (b[2] % 16) * 4 + b[3] \div 64, b[3] % 64>>
    [] Len(b) = 2 -> <<b[1] \div 4, (b[1] % 4) * 16 + b[2] \div 16, (b[2] % 16) * 4, 64>>
    [] Len(b) = 1 -> <<b[1] \div 4, (b[1] % 4) * 16, 64, 64>>

EncodeBase64(b) ==
  FlattenSeq([i \in 1..((Len(b) + 2) \div 3) |->
                Base64Group(SubSeq(b, 3 * i - 2, Min({3 * i, Len(b)})))])

\* Reference: the bits of the text, six by six.
Base64Bits(b) == FoldLeft(LAMBDA a, x : a * 256 + x, 0, b)

-----------------------------------------------------------------------------
(* read_websocket_frame.                                                   *)

\* What the peer puts on the wire, masked with its key (a browser masks).
Sent(f) ==
  LET h == Header(Len(f.payload), f.opcode)
  IN (IF f.key = <<>> THEN h ELSE [h EXCEPT ![2] = @ + 128])
       \o f.key \o Unmasked(f.payload, 0, f.key)

Init ==
  /\ frame \in [payload : Payloads, key : MaskKeys, opcode : {1, 2}]
  /\ stream = Sent(frame)
  /\ avail = 0
  /\ reader = [stage |-> "header", head |-> <<>>, len |-> 0, key |-> <<>>, payload |-> <<>>]

Arrive(n) ==
  /\ avail < Len(stream)
  /\ avail' = Min({avail + n, Len(stream)})
  /\ UNCHANGED <<frame, stream, reader>>

\* The number of bytes the next recv asks for: the payload is read four
\* bytes at a time.
Wanted ==
  CASE reader.stage = "header" -> 2
    [] reader.stage = "length" -> ExtLength(reader.head)
    [] reader.stage = "key" -> 4
    [] reader.stage = "payload" -> Min({reader.len - Len(reader.payload), 4})
    [] OTHER -> 0

\* The stage after the header fields `head' were read.
AfterLength(r) ==
  IF Masked(r.head) THEN "key" ELSE IF r.len = 0 THEN "done" ELSE "payload"

GotPayload(r, got) ==
  LET p == r.payload \o Unmasked(got, Len(r.payload), r.key)
  IN [r EXCEPT !.payload = p, !.stage = IF Len(p) = r.len THEN "done" ELSE "payload"]

Got(r, got) ==
  CASE r.stage = "header" ->
         LET h == [r EXCEPT !.head = got, !.len = ShortLength(got)]
         IN [h EXCEPT !.stage = IF ExtLength(got) > 0 THEN "length" ELSE AfterLength(h)]
    [] r.stage = "length" ->
         LET h == [r EXCEPT !.len = HeaderLength(r.head \o got)]
         IN [h EXCEPT !.stage = AfterLength(h)]
    [] r.stage = "key" ->
         [r EXCEPT !.key = got, !.stage = IF r.len = 0 THEN "done" ELSE "payload"]
    [] r.stage = "payload" -> GotPayload(r, got)

\* recv returns what has arrived, up to what is asked for; a short read is
\* taken for an error and the frame, and with it the connection, is given up.
Recv ==
  /\ reader.stage \notin {"done", "failed"}
  /\ avail > 0
  /\ LET n == Min({Wanted, avail})
     IN IF n # Wanted
        THEN /\ reader' = [reader EXCEPT !.stage = "failed"]
             /\ UNCHANGED <<stream, avail>>
        ELSE /\ reader' = Got(reader, SubSeq(stream, 1, n))
             /\ stream' = SubSeq(stream, n + 1, Len(stream))
             /\ avail' = avail - n
  /\ UNCHANGED frame

Next == Recv \/ \E n \in Segments : Arrive(n)

Spec == Init /\ [][Next]_vars

-----------------------------------------------------------------------------
\* A frame that is read is the frame that was sent, whatever the pieces it
\* arrives in, and nothing of the next frame is consumed; a frame is only
\* given up when a recv found fewer bytes than it asked for.
ReadFramesAreExact ==
  /\ reader.stage = "done" =>
       /\ reader.payload = frame.payload /\ Opcode(reader.head) = frame.opcode
       /\ Fin(reader.head) /\ stream = <<>>
  /\ reader.stage = "failed" => stream # <<>>

\* At the start of a run: the header announces the length it was made for,
\* base64 text has the bits of its input and the padding its length asks
\* for, and the end of an upgrade request is found where it is unless a
\* stray carriage return stands before it.
CodecsAreExact ==
  (reader.stage = "header" /\ avail = 0) =>
    /\ \A n \in Lengths : LET h == Header(n, 1) IN
         HeaderLength(h) = n /\ Len(h) = 2 + ExtLength(h) /\ ~ Masked(h)
    /\ \A b \in Texts : LET e == EncodeBase64(b)
                            pad == Cardinality({i \in DOMAIN e : e[i] = 64}) IN
         /\ Len(e) = 4 * ((Len(b) + 2) \div 3) /\ pad = (3 - (Len(b) % 3)) % 3
         /\ Len(b) <= 3 =>
              FoldLeft(LAMBDA a, x : a * 64 + (x % 64), 0, e) =
                Base64Bits(b) * (IF b = <<>> THEN 0 ELSE 256^(3 - Len(b)))
    /\ \A t \in Requests : LET r == ReadHttpRequest(t) IN
         IF \E i \in 1..Len(t) - 1 : t[i] = "r" /\ t[i + 1] = "r"
         THEN r.found => FirstMarker(t) \in 1..r.read
         ELSE r.found = (FirstMarker(t) > 0) /\ (r.found => r.read = FirstMarker(t))
=============================================================================
