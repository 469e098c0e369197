------------------------------ MODULE NmpCodec ------------------------------
(***************************************************************************)
(* The payload of an event on its way between two nodes:                   *)
(* serialize_flat_payload (sm_comm_naive_msg_prot.cpp) writes it into a    *)
(* buffer whose size it computed beforehand, process_event_from_remote     *)
(* (state_machine_simulation_core.cpp) reads it back. A buffer is a        *)
(* sequence of bytes, least significant byte first in memory.              *)
(***************************************************************************)
EXTENDS Naturals, Sequences, SequencesExt

CONSTANTS
  Payloads,   \* events to transport: [id : bytes, args : sequence of values]
  NameBuffer  \* length of the name buffer, without its terminating 0

VARIABLES event, buffer, size, decoded

vars == <<event, buffer, size, decoded>>

NMP_PAYLOAD_INT == 0
NMP_PAYLOAD_DOUBLE == 1
NMP_PAYLOAD_STRING == 2

\* A 32 bit unsigned number below 256 in memory, and htonl/ntohl on it.
Int4(n) == <<n, 0, 0, 0>>
htonl(b) == Reverse(b)
Flatten(ss) == FoldLeft(LAMBDA a, b : a \o b, <<>>, ss)

\* serialize_value of a string, and of a double (printed with %la): the
\* characters and a terminating 0.
CString(s) == s \o <<0>>

\* The seven 16 bit exponents of the unit of a number, written as they are in
\* memory.
Units(v) == Flatten(v.unit)

Encoded(v) ==
  CASE v.kind = "int" -> htonl(Int4(NMP_PAYLOAD_INT)) \o htonl(v.value) \o Units(v)
    [] v.kind = "double" -> htonl(Int4(NMP_PAYLOAD_DOUBLE)) \o CString(v.value) \o Units(v)
    [] v.kind = "string" -> htonl(Int4(NMP_PAYLOAD_STRING)) \o CString(v.value)

\* The size computed in the first pass of serialize_flat_payload.
ValueSize(v) ==
  CASE v.kind = "int" -> 4 + 7 * 2
    [] v.kind = "double" -> Len(v.value) + 1 + 7 * 2
    [] v.kind = "string" -> Len(v.value) + 1

BufferSize(e) ==
  FoldLeft(LAMBDA n, v : n + ValueSize(v), 0, e.args)
    + Len(e.args) * 4 + 2 * 4 + 4 + Len(e.id)

\* The buffer after its header: length and characters of the name, the values.
Serialized(e) ==
  htonl(Int4(Len(e.id))) \o e.id \o Flatten([i \in DOMAIN e.args |-> Encoded(e.args[i])])

\* deserialize_value of a 0-terminated string at offset o (1-based).
StringAt(b, o) ==
  SubSeq(b, o, (CHOOSE k \in o .. Len(b) : b[k] = 0 /\ \A j \in o .. k - 1 : b[j] # 0) - 1)

\* ntohl is applied to the 16 bit exponent: it is widened with its sign,
\* reversed, and its low half taken.
UnitAt(b, o) ==
  LET sign == IF b[o + 1] >= 128 THEN 255 ELSE 0
  IN  SubSeq(Reverse(<<b[o], b[o + 1], sign, sign>>), 1, 2)
UnitsAt(b, o) == [k \in 1 .. 7 |-> UnitAt(b, o + 2 * (k - 1))]

\* One value at offset o, with the offset behind it; 0 for an unknown tag.
ValueAt(b, o) ==
  LET tag == Reverse(SubSeq(b, o, o + 3))[1] IN
  CASE tag = NMP_PAYLOAD_INT ->
         [value |-> [kind |-> "int", value |-> Reverse(SubSeq(b, o + 4, o + 7)),
                     unit |-> UnitsAt(b, o + 8)],
          next |-> o + 8 + 14]
    [] tag = NMP_PAYLOAD_DOUBLE ->
         LET s == StringAt(b, o + 4) IN
         [value |-> [kind |-> "double", value |-> s, unit |-> UnitsAt(b, o + 5 + Len(s))],
          next |-> o + 5 + Len(s) + 14]
    [] tag = NMP_PAYLOAD_STRING ->
         LET s == StringAt(b, o + 4) IN
         [value |-> [kind |-> "string", value |-> s], next |-> o + 5 + Len(s)]
    [] OTHER -> [value |-> [kind |-> "unknown"], next |-> 0]

\* process_event_from_remote: the loop over the buffer, a recursive function
\* of the offset.
Deserialized(b) ==
  LET len == Reverse(SubSeq(b, 1, 4))[1]
      values[o \in 1 .. Len(b) + 1] ==
        IF o > Len(b) THEN <<>>
        ELSE LET v == ValueAt(b, o) IN <<v.value>> \o values[v.next]
  IN  [id |-> SubSeq(b, 5, 4 + (IF len > NameBuffer THEN NameBuffer ELSE len)),
       args |-> values[5 + len]]

Init ==
  /\ event \in Payloads
  /\ buffer = <<>> /\ size = 0 /\ decoded = <<>>

Serialize ==
  /\ size = 0
  /\ size' = BufferSize(event)
  /\ buffer' = Serialized(event)
  /\ UNCHANGED <<event, decoded>>

ProcessEventFromRemote ==
  /\ size # 0 /\ decoded = <<>>
  /\ decoded' = <<Deserialized(buffer)>>
  /\ UNCHANGED <<event, buffer, size>>

Next == Serialize \/ ProcessEventFromRemote

Spec == Init /\ [][Next]_vars

(***************************************************************************)
(* Properties.                                                             *)
(***************************************************************************)
\* The second pass of the serialiser writes exactly the bytes the first pass
\* counted, header included: no overrun and no uninitialised tail.
SizeIsExact == size # 0 => size = 8 + Len(buffer)

\* An exponent survives the receiver's ntohl only when it is 0 or -1.
Survives(u) == u \in {<<0, 0>>, <<255, 255>>}
Plain(v) == v.kind = "string" \/ \A k \in 1 .. 7 : Survives(v.unit[k])

\* What the receiver queues is what the sender had: number, order, kinds and
\* values of the arguments always, the units when no exponent is damaged, the
\* name when it fits the receiver's buffer.
PayloadSurvives ==
  decoded # <<>> =>
    LET d == decoded[1] IN
    /\ Len(d.args) = Len(event.args)
    /\ Len(event.id) <= NameBuffer => d.id = event.id
    /\ \A i \in DOMAIN event.args :
         /\ d.args[i].kind = event.args[i].kind
         /\ d.args[i].value = event.args[i].value
         /\ Plain(event.args[i]) => d.args[i] = event.args[i]
=============================================================================
