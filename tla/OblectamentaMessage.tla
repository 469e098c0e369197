------------------------ MODULE OblectamentaMessage ------------------------
(***************************************************************************)
(* Messages outside the virtual machine: the serializer that lays out a    *)
(* msg{...} of a data section (vm_ceps_core_helper.cpp) and the            *)
(* deserializer that turns a buffer into JSON (oblectamenta-assembler.cpp).*)
(* The JSON text is kept as the tree it denotes.                           *)
(*                                                                         *)
(* A tree is a record: an inner node has a name and kids, a leaf a type    *)
(* and a value; a string is a sequence of non-zero bytes.                  *)
(***************************************************************************)
EXTENDS OblectamentaCode

RECURSIVE Dispatch(_), Deserialize(_)

Node(name, kids) == [what |-> NODE, name |-> name, kids |-> kids, val |-> 0]
Leaf(what, val) == [what |-> what, name |-> <<>>, kids |-> <<>>, val |-> val]
Root(kids) == [what |-> ROOT, name |-> <<>>, kids |-> kids, val |-> 0]

Zero == <<0>>

\* put for one element after the other, up to a refused one; by halves, which
\* keeps TLC's stack small.
Steps(put(_, _), begin, stmts) ==
  LET RECURSIVE go(_, _, _)
      go(st, lo, hi) ==
        IF lo > hi THEN st
        ELSE IF lo = hi THEN put(st, stmts[lo])
        ELSE LET mid == (lo + hi) \div 2
                 half == go(st, lo, mid)
             IN  IF half.ok THEN go(half, mid + 1, hi) ELSE half
  IN  go(begin, 1, Len(stmts))

\* Mutant of Packed: the size is that of the content.
PackedContentSize(what, rest) ==
  Cells(what, What) \o Cells(Len(rest), SizeField) \o rest

\* A node with its header: type, size of everything, then the rest.
Packed(what, rest) ==
  Cells(what, What) \o Cells(MsgNode + Len(rest), SizeField) \o rest

\* FlattenSeq, by halves.
Flat(ss) ==
  LET join[lo \in 1 .. Len(ss) + 1, hi \in 0 .. Len(ss)] ==
        IF lo > hi THEN <<>>
        ELSE IF lo = hi THEN ss[lo]
        ELSE LET mid == (lo + hi) \div 2 IN join[lo, mid] \o join[mid + 1, hi]
  IN  join[1, Len(ss)]

\* dispatch_serialize_event_payload: named structs, i32 and sz values; any
\* other child writes nothing.
Dispatch(t) ==
  CASE t.what = NODE ->
         Packed(NODE, t.name \o Zero
                        \o Flat([i \in DOMAIN t.kids |-> Dispatch(t.kids[i])]))
    [] t.what = INT32 -> Packed(INT32, Cells(t.val, I32))
    [] t.what = SZ -> Packed(SZ, t.val \o Zero)
    [] OTHER -> <<>>

\* serialize_oblectamenta_msg
Serialize(root) ==
  Packed(ROOT, Flat([i \in DOMAIN root.kids |-> Dispatch(root.kids[i])]))

(***************************************************************************)
(* deserialize_event_payload: the node at the start of buffer and the      *)
(* number of bytes the caller skips. A result of 0 bytes means the node    *)
(* was refused; a caller that loops over children then never ends.         *)
(***************************************************************************)
Refused == [tree |-> Leaf(0, 0), used |-> 0, ends |-> TRUE]

FindTrailingZero(buffer) ==
  LET zeros == {i \in DOMAIN buffer : buffer[i] = 0}
  IN  IF zeros = {} THEN Len(buffer)
      ELSE (CHOOSE i \in zeros : \A j \in zeros : i <= j) - 1

From(buffer, n) == SubSeq(buffer, n + 1, Len(buffer))

\* n bytes at the start of buffer; behind its end lies unwritten memory.
Take(buffer, n) == [i \in 1 .. n |-> IF i <= Len(buffer) THEN buffer[i] ELSE 0]

\* The loop over the children of an inner node with this content.
Children(content) ==
  LET f[n \in 0 .. Len(content)] ==
        LET r == Deserialize(From(content, n))
        IN  IF r.used = 0 \/ ~r.ends
            THEN [kids |-> <<>>, ends |-> FALSE]
            ELSE IF n + r.used >= Len(content)
            THEN [kids |-> <<r.tree>>, ends |-> TRUE]
            ELSE LET more == f[n + r.used]
                 IN  [kids |-> <<r.tree>> \o more.kids, ends |-> more.ends]
  IN  IF content = <<>> THEN [kids |-> <<>>, ends |-> TRUE] ELSE f[0]

Deserialize(buffer) ==
  LET what == Unsigned(Take(buffer, What))
      size == Unsigned(Take(From(buffer, What), SizeField))
      body == From(buffer, MsgNode)
      name == IF what = NODE THEN SubSeq(body, 1, FindTrailingZero(body)) ELSE <<>>
      head == MsgNode + (IF what = NODE THEN Len(name) + 1 ELSE 0)
      inner == Children(Take(From(buffer, head), size - head))
      leaf(w, val) == [tree |-> Leaf(what, val), used |-> MsgNode + w, ends |-> TRUE]
  IN  CASE Len(buffer) < MsgNode \/ size < head -> Refused
        [] what \in {ROOT, NODE} ->
             [tree |-> [what |-> what, name |-> name, kids |-> inner.kids, val |-> 0],
              used |-> size, ends |-> inner.ends]
        [] what = INT32 -> leaf(I32, Signed(Take(body, I32)))
        [] what \in {INT64, F64} -> leaf(I64, Signed(Take(body, I64)))
        \* res is the escaped text with its two quotes.
        [] what = SZ -> LET sz == SubSeq(body, 1, FindTrailingZero(body))
                        IN  leaf(Len(sz) + 2 + 1, sz)
        [] OTHER -> [tree |-> Leaf(what, 0), used |-> size, ends |-> TRUE]
=============================================================================
