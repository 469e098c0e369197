------------------------------ MODULE RawFrame ------------------------------
(***************************************************************************)
(* Raw frames (core/src/sm_raw_frame.cpp): the bytes a sender makes of a   *)
(* frame's data section (fill_raw_chunk) and what a receiver with the same *)
(* section reads out of them (read_raw_chunk).  Writer and reader walk the *)
(* section separately, with tables of their own for the types' widths.     *)
(* Data is a function from bit numbers (byte * 8 + place in the byte) to   *)
(* 0 and 1.  Integers of TLC have 32 bits: the frames of the instance use  *)
(* widths below 29, the operators themselves treat every width alike.      *)
(*                                                                         *)
(* A node of a data section is [k |-> "type", base, n, kids] (int12 {...}),*)
(* [k |-> "group", name, kids] (in, out, header and names that are no      *)
(* type), or a leaf: "any", "size" (__current_frame_size), "lit" with v,   *)
(* "text" with its length v, "state" with its name.                        *)
(***************************************************************************)
EXTENDS Integers, Sequences, FiniteSets

CONSTANT NoData       \* what a bit outside of the data reads as

-----------------------------------------------------------------------------
(* Types.  The sender's table (typename2descr).                            *)

Descr(w, s) == [w |-> w, signed |-> s]

WriteType(t, outer) ==
    CASE t.base = "bit" -> Descr(1, TRUE)
      [] t.base = "byte" -> Descr(8, TRUE)
      [] t.base \in {"int", "uint"} /\ t.n \in 1 .. 64 -> Descr(t.n, t.base = "int")
      [] OTHER -> outer

(* The receiver's chain of comparisons: int5 has 8 bits, int1, uint1,      *)
(* int31 and the widths between 33 and 63 are unknown, and there are names *)
(* the sender does not know.  Unknown names leave the width as it is.      *)
ReadType(t, outer) ==
    CASE t.base = "bit" -> Descr(1, TRUE)
      [] t.base \in {"byte", "ubyte"} -> Descr(8, t.base = "byte")
      [] t.base \in {"short", "ushort"} -> Descr(16, t.base = "short")
      [] t.base \in {"int", "uint"} /\ t.n = 0 -> Descr(32, t.base = "int")
      [] t.base \in {"longlong", "ulonglong"} -> Descr(64, t.base = "longlong")
      [] t.base = "int" /\ t.n = 5 -> Descr(8, TRUE)
      [] \/ t.base = "int" /\ t.n \in ((2 .. 30) \ {5}) \union {32, 64}
         \/ t.base = "uint" /\ t.n \in (2 .. 32) \union {64} -> Descr(t.n, t.base = "int")
      [] OTHER -> outer

Outermost == Descr(64, TRUE)

-----------------------------------------------------------------------------
(* Writing an integer.                                                     *)

Bit(v, i) == IF i >= 31 THEN (IF v < 0 THEN 1 ELSE 0) ELSE (v \div 2 ^ i) % 2

ExactMasks == {4, 8, 12, 16, 20, 24, 28, 32}

(* The bits of v that are left: the general mask has a bit too many.       *)
Masked(v, w) ==
    [i \in 0 .. 71 |->
       IF w = 1 THEN (IF i = 0 /\ v # 0 THEN 1 ELSE 0)
       ELSE IF w < 64 /\ i >= (IF w \in ExactMasks THEN w ELSE w + 1) THEN 0
       ELSE IF i > 63 THEN 0 ELSE Bit(v, i)]

Least(a, b) == IF a < b THEN a ELSE b

(* The bits of the first byte that the value may use when it starts inside *)
(* of it, of the others the whole bytes and the bits that remain.          *)
InFirst(off, w) == IF off % 8 = 0 THEN 0 ELSE Least(8 - (off % 8), w)
InWhole(off, w) == ((w - InFirst(off, w)) \div 8) * 8
InLast(off, w) == w - InFirst(off, w) - InWhole(off, w)

(* What a bit of the data holds afterwards: a partial first byte keeps its *)
(* lower bits and loses the others, with one bit more than the value has;  *)
(* a partial last byte is overwritten unless one bit remains.              *)
Written(old, bits, off, w, b) ==
    LET first == InFirst(off, w)
        whole == InWhole(off, w)
        last == off + first + whole
        i == b - off
    IN CASE first > 0 /\ b \div 8 = off \div 8 ->
              IF b < off THEN old ELSE IF i <= first THEN bits[i] ELSE 0
         [] b >= off + first /\ b < last -> bits[i]
         [] InLast(off, w) = 1 /\ b = last -> bits[i]
         [] InLast(off, w) > 1 /\ b \div 8 = last \div 8 -> IF b < off + w THEN bits[i] ELSE 0
         [] OTHER -> old

WriteInt(data, v, off, w) ==
    [b \in DOMAIN data |-> Written(data[b], Masked(v, w), off, w, b)]

-----------------------------------------------------------------------------
(* fill_raw_chunk.  `size' is the number of bytes, `write' tells the pass  *)
(* that only measures from the one that writes; the measuring pass starts  *)
(* with width 0.  The result: data, bits, and the length of the header.    *)

Corr(off) == IF off % 8 = 0 THEN 0 ELSE 8 - (off % 8)

RECURSIVE Fill(_, _, _, _, _, _, _)
RECURSIVE FillAll(_, _, _, _, _, _, _)
Fill(p, env, size, write, d, off, data) ==
    LET Keep(bits) == [data |-> data, bits |-> bits, header |-> 0]
        Put(v) == [Keep(d.w) EXCEPT !.data = IF write THEN WriteInt(data, v, off, d.w) ELSE @]
    IN CASE p.k = "group" ->
              IF p.name = "in" THEN Keep(0)
              ELSE FillAll(p.kids, env, size, write, d, off, data)
         [] p.k = "type" -> FillAll(p.kids, env, size, write, WriteType(p, d), off, data)
         [] p.k = "any" -> Keep(d.w)
         [] p.k = "size" -> Put(size)
         [] p.k = "lit" -> Put(p.v)
         [] p.k = "text" -> Keep(p.v * 8 + Corr(off))
         [] p.k = "state" -> Put(env[p.name])

FillAll(ps, env, size, write, d, off, data) ==
    IF ps = <<>> THEN [data |-> data, bits |-> 0, header |-> 0]
    ELSE LET p == Head(ps)
             one == Fill(p, env, size, write, d, off, data)
             others == FillAll(Tail(ps), env, size, write, d, off + one.bits, one.data)
             isHeader == ~write /\ p.k = "group" /\ p.name = "header"
         IN [data |-> others.data, bits |-> one.bits + others.bits,
             header |-> IF others.header # 0 THEN others.header
                        ELSE IF isHeader THEN one.bits ELSE one.header]

(* compute_size and gen_msg: zeroed memory of the measured size.  Two      *)
(* passes over the section must agree on every width.                      *)
ComputeSize(ps) == (FillAll(ps, <<>>, 0, FALSE, Descr(0, TRUE), 0, <<>>).bits + 7) \div 8

Zeros(n) == [b \in 0 .. 8 * n - 1 |-> 0]

GenMsg(ps, env) ==
    FillAll(ps, env, ComputeSize(ps), TRUE, Outermost, 0, Zeros(ComputeSize(ps))).data

-----------------------------------------------------------------------------
(* Reading an integer.                                                     *)

BitAt(data, b) == IF b \in DOMAIN data THEN data[b] ELSE NoData

ReadBitSwapped(data, off, w, i) ==
    IF i < w THEN BitAt(data, off + w - 1 - i) ELSE 0

(* The bits of the value: those of a partial last byte are put where they  *)
(* would belong if the value had started at a byte.                        *)
ReadBit(data, off, w, i) ==
    LET first == InFirst(off, w)
        whole == InWhole(off, w)
        last == InLast(off, w)
        lower == IF i < first + whole THEN BitAt(data, off + i) ELSE 0
        upper == IF i >= whole /\ i < whole + last
                 THEN BitAt(data, off + first + whole + (i - whole)) ELSE 0
    IN IF 1 \in {lower, upper} THEN 1 ELSE 0

SumBits(f, n) == LET S[i \in 0 .. n] == IF i = 0 THEN 0 ELSE S[i - 1] + f[i - 1] * 2 ^ (i - 1)
                 IN S[n]

ReadUnsigned(data, off, w) ==
    LET bits == [i \in 0 .. w |-> ReadBit(data, off, w, i)] IN SumBits(bits, w)

(* What a state is given: 8, 16 and 32 bits are extended by their sign,    *)
(* every other signed width becomes negative.                              *)
SignExtended(v, w) ==
    IF w \in {8, 16, 32} /\ v < 2 ^ (w - 1) THEN v ELSE v - 2 ^ w

ReadValue(data, off, d) ==
    LET v == ReadUnsigned(data, off, d.w)
    IN IF d.signed THEN SignExtended(v, d.w) ELSE v

Matches(data, off, d, v) ==
    LET got == ReadUnsigned(data, off, d.w)
    IN IF d.w = 1 THEN (v # 0) = (got # 0) ELSE got = v

-----------------------------------------------------------------------------
(* read_raw_chunk: bits read and the states set on the way; a literal that *)
(* differs ends the reading (ok is FALSE) with the states set so far.      *)

RECURSIVE Read(_, _, _, _, _)
RECURSIVE ReadAll(_, _, _, _, _)
Read(p, data, d, off, env) ==
    LET Done(bits, e) == [bits |-> bits, env |-> e, ok |-> TRUE, header |-> 0]
    IN CASE p.k = "group" ->
              IF p.name = "out" THEN Done(0, env)
              ELSE IF p.name = "header"
              THEN LET r == ReadAll(p.kids, data, Descr(1, TRUE), off, env)
                   IN [r EXCEPT !.header = r.bits]
              ELSE ReadAll(p.kids, data, d, off, env)
         [] p.k = "type" -> ReadAll(p.kids, data, ReadType(p, d), off, env)
         [] p.k = "any" -> Done(d.w, env)
         [] p.k = "size" -> [Done(d.w, env) EXCEPT
                               !.ok = Matches(data, off, d, Cardinality(DOMAIN data) \div 8)]
         [] p.k = "lit" -> [Done(d.w, env) EXCEPT !.ok = Matches(data, off, d, p.v)]
         [] p.k = "state" -> Done(d.w, [env EXCEPT ![p.name] = ReadValue(data, off, d)])

ReadAll(ps, data, d, off, env) ==
    IF ps = <<>> THEN [bits |-> 0, env |-> env, ok |-> TRUE, header |-> 0]
    ELSE LET one == Read(Head(ps), data, d, off, env)
             others == ReadAll(Tail(ps), data, d, off + one.bits, one.env)
         IN IF ~one.ok THEN one
            ELSE [bits |-> one.bits + others.bits, env |-> others.env, ok |-> others.ok,
                  header |-> IF others.header # 0 THEN others.header ELSE one.header]

(* read_msg.                                                               *)
ReadMsg(ps, data, env) ==
    IF data = <<>> THEN [bits |-> 0, env |-> env, ok |-> TRUE, header |-> 0]
    ELSE ReadAll(ps, data, Outermost, 0, env)

-----------------------------------------------------------------------------
(* A flat section of typed fields, each holding one leaf; At(ps, i) is     *)
(* where field i starts.                                                   *)

FieldWidth(f) == WriteType(f, Outermost).w
FieldAt(ps, i) == LET S[j \in 1 .. i] == IF j = 1 THEN 0 ELSE S[j - 1] + FieldWidth(ps[j - 1])
                  IN S[i]

(* The receiver finds field i where the sender put it, and its bits are    *)
(* not those of a value that starts and ends inside of bytes.              *)
Aligned(ps, i) == \A j \in 1 .. i : ReadType(ps[j], Outermost) = WriteType(ps[j], Outermost)
Straddles(off, w) == InFirst(off, w) > 0 /\ InLast(off, w) > 0

(* The values of a field's type, and what the receiver's state is given    *)
(* for one: the value, but a signed width other than 8, 16 and 32 has its  *)
(* upper bits set for values that are not negative, too (and 1 in a bit is *)
(* read as -1).                                                            *)
Representable(f, v) ==
    LET d == WriteType(f, Outermost) IN
    IF d.w = 1 THEN v \in {0, 1}
    ELSE IF d.signed THEN v \in -(2 ^ (d.w - 1)) .. 2 ^ (d.w - 1) - 1
    ELSE v \in 0 .. 2 ^ d.w - 1

Received(f, v) ==
    LET d == WriteType(f, Outermost)
    IN IF d.signed /\ d.w \notin {8, 16, 32} /\ v >= 0 THEN v - 2 ^ d.w ELSE v

FitsIn(v, w) == w = 1 \/ v < 2 ^ w

(* A frame gets through: the state in a field that the two tables agree on *)
(* is given the value it was sent with, or what Received makes of it,      *)
(* whatever the other fields of the frame hold, the literals before it     *)
(* match, and the frame has the bytes that were measured for it.           *)
FrameSurvives(ps, env, before) ==
    LET data == GenMsg(ps, env)
        got == ReadMsg(ps, data, before)
        off(i) == FieldAt(ps, i)
        Sound(i) == ~Straddles(off(i), FieldWidth(ps[i])) /\ Aligned(ps, i)
        Leaf(i) == ps[i].kids[1]
        Fits(i) == /\ Leaf(i).k = "lit" => FitsIn(Leaf(i).v, FieldWidth(ps[i]))
                   /\ Leaf(i).k = "size" => FitsIn(ComputeSize(ps), FieldWidth(ps[i]))
    IN /\ \A i \in DOMAIN ps :
            (/\ Leaf(i).k = "state"
             /\ \A j \in 1 .. i : Sound(j) /\ Fits(j)
             /\ Representable(ps[i], env[Leaf(i).name]))
            => got.env[Leaf(i).name] = Received(ps[i], env[Leaf(i).name])
       /\ (\A i \in DOMAIN ps : Sound(i)) /\ got.ok =>
            (got.bits + 7) \div 8 = Cardinality(DOMAIN data) \div 8

(* Sender and receiver agree on how long the header of a frame is.         *)
HeaderSurvives(ps, env, before) ==
    ReadMsg(ps, GenMsg(ps, env), before).header
      = FillAll(ps, <<>>, 0, FALSE, Descr(0, TRUE), 0, <<>>).header
=============================================================================
