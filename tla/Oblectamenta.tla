---------------------------- MODULE Oblectamenta ----------------------------
(***************************************************************************)
(* The Oblectamenta virtual machine (core/src/vm/vm_base.cpp): VMEnv::run  *)
(* executes one instruction of the text per step. An instruction works on  *)
(* the compute stack (bytes, whatever was pushed with which width), on the *)
(* static data and the data stack, which share one memory, and on the      *)
(* registers.                                                              *)
(*                                                                         *)
(* Where the code writes pop() op pop() with an op that is not             *)
(* commutative, C++ leaves the order of the two pops open: both results    *)
(* are possible.                                                           *)
(***************************************************************************)
EXTENDS OblectamentaMessage, Bitwise

CONSTANTS
  Image,     \* program -> what the assembler made of it: text, by place, the
             \* memory, the place to start, the places of its labels (sites)
  MemBase,   \* the address of mem.base in the process
  Transcend  \* values sin, cos, ... and an inexact division may return

VARIABLES
  prog,    \* the program in text
  pc,      \* registers.file[PC]
  cs,      \* compute_stack up to CSP
  mem,     \* mem.base .. mem.end
  file,    \* the other registers
  halts,   \* operands of haltimm instructions that counted down, by position
  fired,   \* events handed to the event queue
  strayed, \* a misencoded instruction was executed
  status   \* "running", "halted", "threw" or "fault"

data == <<mem, file, fired, halts>>
vars == <<prog, pc, cs, data, strayed, status>>

Registers == {"SP", "FP", "ARG0", "ARG1", "ARG2", "RES", "R0", "R1"}

\* A program starts with its static data in place and an empty data stack.
Load(p, machine) ==
  /\ prog = p
  /\ pc = machine.start
  /\ cs = machine.cs
  /\ mem = machine.mem
  /\ file = [r \in Registers |-> IF r = "SP" THEN Cardinality(DOMAIN machine.mem) ELSE 0]
  /\ halts = <<>>
  /\ fired = <<>>
  /\ strayed = FALSE
  /\ status = "running"

Init == \E p \in DOMAIN Image : Load(p, Image[p])

(***************************************************************************)
(* The instructions, by family.                                            *)
(***************************************************************************)
\* duptop..., swp..., discardtop...: widths popped, first the top, and the
\* operands pushed back, by number.
Shuffles ==
  [duptopi8 |-> <<<<I8>>, <<1, 1>>>>,
   duptopi32 |-> <<<<I32>>, <<1, 1>>>>,
   duptopi64 |-> <<<<I64>>, <<1, 1>>>>,
   duptopi128 |-> <<<<I64, I64>>, <<2, 1, 2, 1>>>>,
   duptopi192 |-> <<<<I64, I64, I64>>, <<3, 2, 1, 3, 2, 1>>>>,
   discardtopi32 |-> <<<<I32>>, <<>>>>,
   discardtopi64 |-> <<<<I64>>, <<>>>>,
   swp |-> <<<<I32, I32>>, <<1, 2>>>>,
   swpi64 |-> <<<<I64, I64>>, <<1, 2>>>>,
   swpi8i64 |-> <<<<I8, I64>>, <<1, 2>>>>,
   swpi16i64 |-> <<<<I16, I64>>, <<1, 2>>>>,
   swpi32i64 |-> <<<<I32, I64>>, <<1, 2>>>>,
   swpi8i128 |-> <<<<I8, I64, I64>>, <<1, 3, 2>>>>,
   swpi16i128 |-> <<<<I16, I64, I64>>, <<1, 3, 2>>>>,
   swp128i64 |-> <<<<I64, I64, I64>>, <<2, 1, 3>>>>,
   swp192i64 |-> <<<<I64, I64, I64, I64>>, <<3, 2, 1, 4>>>>,
   swp96i64 |-> <<<<I64, I32, I64>>, <<2, 1, 3>>>>,
   swpi160i64 |-> <<<<I64, I64, I32, I64>>, <<3, 2, 1, 4>>>>,
   swpi192i32 |-> <<<<I64, I64, I64, I32>>, <<3, 2, 1, 4>>>>,
   swpi64b128 |-> <<<<I64, I64, I64>>, <<1, 3, 2>>>>,
   swp80i64 |-> <<<<I64, I16, I64>>, <<2, 1, 3>>>>,
   swp72i64 |-> <<<<I64, I8, I64>>, <<2, 1, 3>>>>,
   swpi64b72 |-> <<<<I64, I64, I8>>, <<1, 3, 2>>>>,
   swp128b8 |-> <<<<I64, I64, I8>>, <<2, 1, 3>>>>,
   swpi64i192 |-> <<<<I64, I64, I64, I64>>, <<1, 4, 3, 2>>>>]

\* Two operands of one width, one result of that width.
Arithmetic ==
  [addi32 |-> <<"add", I32>>, addi64 |-> <<"add", I64>>, adddbl |-> <<"add", Dbl>>,
   subi32 |-> <<"sub", I32>>, subi64 |-> <<"sub", I64>>, subdbl |-> <<"sub", Dbl>>,
   muli32 |-> <<"mul", I32>>, muli64 |-> <<"mul", I64>>, muldbl |-> <<"mul", Dbl>>,
   divi32 |-> <<"div", I32>>, divi64 |-> <<"div", I64>>, divdbl |-> <<"fdiv", Dbl>>,
   remi32 |-> <<"rem", I32>>, remi64 |-> <<"rem", I64>>,
   andi32 |-> <<"and", I32>>, andi64 |-> <<"and", I64>>,
   andni32 |-> <<"andn", I32>>, andni64 |-> <<"andn", I64>>,
   ori32 |-> <<"or", I32>>, ori64 |-> <<"or", I64>>,
   xori32 |-> <<"xor", I32>>, xori64 |-> <<"xor", I64>>]

\* The shift amount is on top, 32 bits wide whatever is shifted.
Shifts ==
  [shli32 |-> <<"left", I32>>, shli64 |-> <<"left", I64>>,
   shri32 |-> <<"right", I32>>, shri64 |-> <<"right", I64>>]

\* gteqdbl compares with > as the code does.
Relations ==
  [lti32 |-> <<"<", I32>>, lti64 |-> <<"<", I64>>, ltdbl |-> <<"<", Dbl>>,
   lteqi32 |-> <<"<=", I32>>, lteqi64 |-> <<"<=", I64>>, lteqdbl |-> <<"<=", Dbl>>,
   gti32 |-> <<">", I32>>, gti64 |-> <<">", I64>>, gtdbl |-> <<">", Dbl>>,
   gteqi32 |-> <<">=", I32>>, gteqi64 |-> <<">=", I64>>, gteqdbl |-> <<">", Dbl>>,
   eqi32 |-> <<"=", I32>>, eqi64 |-> <<"=", I64>>, eqdbl |-> <<"=", Dbl>>]

\* One operand: function, its width and the width of the result.
Unary ==
  [noti32 |-> <<"not", I32, I32>>, noti64 |-> <<"not", I64, I64>>,
   negi32 |-> <<"neg", I32, I32>>, negi64 |-> <<"neg", I64, I64>>,
   negdbl |-> <<"neg", Dbl, Dbl>>,
   ui32toui64 |-> <<"widen", I32, I64>>, ui8toui32 |-> <<"widen", I8, I32>>,
   ui8toui64 |-> <<"widen", I8, I64>>,
   sindbl |-> <<"libm", Dbl, Dbl>>, cosdbl |-> <<"libm", Dbl, Dbl>>,
   tandbl |-> <<"libm", Dbl, Dbl>>, atandbl |-> <<"libm", Dbl, Dbl>>,
   expdbl |-> <<"libm", Dbl, Dbl>>, tanhdbl |-> <<"libm", Dbl, Dbl>>]

\* Branches that compare the two top values, or the top one with zero.
Branches2 ==
  [beq |-> <<"=", I32>>, bneq |-> <<"#", I32>>, blt |-> <<"<", I32>>,
   blteq |-> <<"<=", I32>>, bgt |-> <<">", I32>>, bgteq |-> <<">=", I32>>,
   beqi8 |-> <<"=", I8>>, bneqi8 |-> <<"#", I8>>,
   beqi64 |-> <<"=", I64>>, bneqi64 |-> <<"#", I64>>]

\* bnzeroi8 branches when the value is zero, as the code does.
BranchesZero ==
  [bgteqzeroi32 |-> <<">=", I32>>, blteqzeroi32 |-> <<"<=", I32>>,
   bltzeroi32 |-> <<"<", I32>>, bzeroi32 |-> <<"=", I32>>,
   bnzeroi32 |-> <<"#", I32>>, bzeroi8 |-> <<"=", I8>>, bnzeroi8 |-> <<"=", I8>>,
   bzeroi64 |-> <<"=", I64>>, bnzeroi64 |-> <<"#", I64>>,
   bzerodbl |-> <<"=", Dbl>>, bnzerodbl |-> <<"#", Dbl>>]

\* Loads and stores at the address in the instruction or on the stack.
Loads == [ldi8 |-> I8, ldi32 |-> I32, ldi64 |-> I64, lddbl |-> Dbl]
LoadsAtTop == [ldsi8 |-> I8, ldsi32 |-> I32, ldsi64 |-> I64, ldsdbl |-> Dbl]
Stores == [sti8 |-> I8, sti32 |-> I32, sti64 |-> I64, sri64 |-> I64, stdbl |-> Dbl]
StoresAtTop == [stsi8 |-> I8, stsi32 |-> I32, stsi64 |-> I64, stsdbl |-> Dbl]
Immediates == [ldi32imm |-> I32, ldi64imm |-> I64, lddblimm |-> Dbl, lea |-> Addr,
               lea_absolute |-> Addr]
RegisterLoads == [ldi32reg |-> I32, ldi64reg |-> I64]
RegisterStores == [sti8reg |-> I8, sti32reg |-> I32, sti64reg |-> I64]

\* Assertions by what they pop; the operand is the expected value.
Asserts == [asserti32imm |-> I32, asserti32immsz |-> I32, asserti64imm |-> I64,
            asserti64immsz |-> I64, assertf64imm |-> Dbl]

Peeks == [dbg_print_topi32 |-> I32, dbg_print_topi64 |-> I64, dbg_print_topf64 |-> Dbl]

\* Instructions that only print, and noop and callx, whose callee is not
\* part of the machine.
Silent == {"noop", "dbg_println", "dbg_print_cs_and_regsimm", "dbg_print_dataimm",
           "dbg_print_stackimm", "dbg_printlni32", "dbg_printlni32imm",
           "dbg_deserialize_protobufish_to_json", "dbg_printsz@OblectamentaDataLabel@",
           "callx"}

Deprecated == {"cpysi32", "wrsi32", "setframe"}

\* The widths pop_cs is called with, in order.
PopWidths(op) ==
  CASE op \in DOMAIN Shuffles -> Shuffles[op][1]
    [] op \in DOMAIN Arithmetic -> <<Arithmetic[op][2], Arithmetic[op][2]>>
    [] op \in DOMAIN Shifts -> <<I32, Shifts[op][2]>>
    [] op \in DOMAIN Relations -> <<Relations[op][2], Relations[op][2]>>
    [] op \in DOMAIN Unary -> <<Unary[op][2]>>
    [] op \in DOMAIN Branches2 -> <<Branches2[op][2], Branches2[op][2]>>
    [] op \in DOMAIN BranchesZero -> <<BranchesZero[op][2]>>
    [] op \in DOMAIN LoadsAtTop -> <<Addr>>
    [] op \in DOMAIN Stores -> <<Stores[op]>>
    [] op \in DOMAIN StoresAtTop -> <<Addr, StoresAtTop[op]>>
    [] op \in DOMAIN RegisterStores -> <<RegisterStores[op]>>
    [] op \in DOMAIN Asserts -> <<Asserts[op]>>
    [] op \in DOMAIN Peeks -> <<Peeks[op]>>
    [] op = "assertszsz" -> <<Addr>>
    [] op = "asserteqi32sz" -> <<I32, I32>>
    [] OTHER -> <<>>

(***************************************************************************)
(* Fetching an instruction and its operands.                               *)
(***************************************************************************)
SumTo(ws, n) ==
  LET s[i \in 0 .. n] == IF i = 0 THEN 0 ELSE s[i - 1] + ws[i] IN s[n]

\* The i-th value pop_cs returns, as bytes, and what is left.
Arg(ws, i) ==
  SubSeq(cs, Len(cs) - SumTo(ws, i) + 1, Len(cs) - SumTo(ws, i - 1))
Rest(ws) == SubSeq(cs, 1, Len(cs) - SumTo(ws, Len(ws)))

Poppable(ws) == SumTo(ws, Len(ws)) <= Len(cs)

Mapped(a, w) == a >= 0 /\ a + w <= Cardinality(DOMAIN mem)
Bytes(a, w) == [i \in 1 .. w |-> mem[a + i - 1]]
Written(a, c) == [x \in DOMAIN mem |->
                    IF x >= a /\ x < a + Len(c) THEN c[x - a + 1] ELSE mem[x]]

Advance(i) == pc' = pc + ExecutedWidth(i.op)
Same == UNCHANGED <<prog, strayed, status>>

Compare(f, a, b) ==
  CASE f = "<" -> a < b [] f = "<=" -> a <= b [] f = ">" -> a > b
    [] f = ">=" -> a >= b [] f = "=" -> a = b [] f = "#" -> a # b

\* C's division truncates; dividing by zero, or the least value by -1,
\* raises a signal.
Truncated(a, b) ==
  LET q == (IF a < 0 THEN -a ELSE a) \div (IF b < 0 THEN -b ELSE b)
  IN  IF (a < 0) = (b < 0) THEN q ELSE -q
Traps(a, b, w) == b = 0 \/ (b = -1 /\ a = -(Radix ^ w \div 2))

Complement(u, w) == Radix ^ w - 1 - u

\* What pop() f pop() can be; a is the value on top.
Results(f, x, y, w) ==
  LET a == Signed(x)  b == Signed(y)  ua == Unsigned(x)  ub == Unsigned(y)
      orders == {o \in {<<a, b>>, <<b, a>>} : ~Traps(o[1], o[2], w)}
  IN  CASE f = "add" -> {a + b}
        [] f = "sub" -> {a - b}
        [] f = "mul" -> {a * b}
        [] f = "div" -> {Truncated(o[1], o[2]) : o \in orders}
        [] f = "rem" -> {o[1] - o[2] * Truncated(o[1], o[2]) : o \in orders}
        [] f = "fdiv" -> LET exact(p, q) == {v \in Transcend : v * q = p}
                             values(p, q) == IF q = 0 \/ exact(p, q) = {}
                                             THEN Transcend ELSE exact(p, q)
                         IN  values(a, b) \cup values(b, a)
        [] f = "and" -> {ua & ub}
        [] f = "or" -> {ua | ub}
        [] f = "xor" -> {ua ^^ ub}
        [] f = "andn" -> {ua & Complement(ub, w), ub & Complement(ua, w)}

(***************************************************************************)
(* The steps of VMEnv::run.                                                *)
(***************************************************************************)
\* Mutant of Shuffle: what was popped last is pushed last.
ShuffleReversed(i, ws) ==
  /\ i.op \in DOMAIN Shuffles
  /\ LET pushes == Reverse(Shuffles[i.op][2])
     IN  cs' = Rest(ws) \o Flat([k \in DOMAIN pushes |-> Arg(ws, pushes[k])])
  /\ Advance(i) /\ Same /\ UNCHANGED data

Shuffle(i, ws) ==
  /\ i.op \in DOMAIN Shuffles
  /\ LET pushes == Shuffles[i.op][2]
     IN  cs' = Rest(ws) \o Flat([k \in DOMAIN pushes |-> Arg(ws, pushes[k])])
  /\ Advance(i) /\ Same /\ UNCHANGED data

Calculate(i, ws) ==
  /\ i.op \in DOMAIN Arithmetic
  /\ LET f == Arithmetic[i.op][1]  w == Arithmetic[i.op][2]
     IN  \E n \in Results(f, Arg(ws, 1), Arg(ws, 2), w) : cs' = Rest(ws) \o Cells(n, w)
  /\ Advance(i) /\ Same /\ UNCHANGED data

Trap(i, ws) ==
  /\ i.op \in {"divi32", "divi64", "remi32", "remi64"}
  /\ LET a == Signed(Arg(ws, 1))  b == Signed(Arg(ws, 2))  w == Arithmetic[i.op][2]
     IN  Traps(a, b, w) \/ Traps(b, a, w)
  /\ status' = "fault"
  /\ UNCHANGED <<prog, pc, cs, data, strayed>>

\* The processor takes the amount modulo the width of the operand.
Shift(i, ws) ==
  /\ i.op \in DOMAIN Shifts
  /\ LET w == Shifts[i.op][2]
         n == Unsigned(Arg(ws, 1)) % (w * BitsPerByte)
         v == Unsigned(Arg(ws, 2))
     IN  cs' = Rest(ws) \o Cells(IF Shifts[i.op][1] = "right" THEN v \div 2 ^ n
                             ELSE (v % 2 ^ (w * BitsPerByte - n)) * 2 ^ n, w)
  /\ Advance(i) /\ Same /\ UNCHANGED data

Relate(i, ws) ==
  /\ i.op \in DOMAIN Relations
  /\ LET holds == Compare(Relations[i.op][1], Signed(Arg(ws, 1)), Signed(Arg(ws, 2)))
     IN  cs' = Rest(ws) \o Cells(IF holds THEN 1 ELSE 0, I32)
  /\ Advance(i) /\ Same /\ UNCHANGED data

Convert(i, ws) ==
  /\ i.op \in DOMAIN Unary
  /\ LET f == Unary[i.op][1]  to == Unary[i.op][3]
     IN  \E n \in CASE f = "not" -> {IF Unsigned(Arg(ws, 1)) # 0 THEN 0 ELSE 1}
                    [] f = "neg" -> {-Signed(Arg(ws, 1))}
                    [] f = "widen" -> {Unsigned(Arg(ws, 1))}
                    [] f = "libm" -> Transcend :
           cs' = Rest(ws) \o Cells(n, to)
  /\ Advance(i) /\ Same /\ UNCHANGED data

Branch(i, ws) ==
  /\ i.op \in DOMAIN Branches2 \cup DOMAIN BranchesZero \cup {"buc"}
  /\ \/ /\ i.op \in DOMAIN Branches2
        \* The order of the two pops is open, and matters for < and >.
        /\ \E o \in {<<1, 2>>, <<2, 1>>} :
             pc' = IF Compare(Branches2[i.op][1], Signed(Arg(ws, o[1])), Signed(Arg(ws, o[2])))
                   THEN i.a ELSE pc + ExecutedWidth(i.op)
     \/ /\ i.op \in DOMAIN BranchesZero
        /\ pc' = IF Compare(BranchesZero[i.op][1], Signed(Arg(ws, 1)), 0)
                 THEN i.a ELSE pc + ExecutedWidth(i.op)
     \/ i.op = "buc" /\ pc' = i.a
  /\ cs' = Rest(ws)
  /\ Same /\ UNCHANGED data

Push(i) ==
  /\ i.op \in DOMAIN Immediates \cup DOMAIN RegisterLoads
  /\ LET op == i.op
     IN  cs' = cs \o IF op \in DOMAIN Immediates
                     THEN Cells(i.a + (IF op = "lea_absolute" THEN MemBase ELSE 0), Immediates[op])
                     ELSE Cells(file[i.b] + i.a, RegisterLoads[op])
  /\ Advance(i) /\ Same /\ UNCHANGED data

LoadMem(i, ws) ==
  /\ i.op \in DOMAIN Loads \cup DOMAIN LoadsAtTop
  /\ LET op == i.op
         static == op \in DOMAIN Loads
         w == IF static THEN Loads[op] ELSE LoadsAtTop[op]
         a == IF static THEN i.a ELSE Unsigned(Arg(ws, 1))
     IN  /\ Mapped(a, w)
         /\ cs' = Rest(ws) \o Bytes(a, w)
  /\ Advance(i) /\ Same /\ UNCHANGED data

StoreMem(i, ws) ==
  /\ i.op \in DOMAIN Stores \cup DOMAIN StoresAtTop
  /\ LET op == i.op
         static == op \in DOMAIN Stores
         a == IF static THEN i.a ELSE Unsigned(Arg(ws, 1))
         v == IF static THEN Arg(ws, 1) ELSE Arg(ws, 2)
     IN  /\ Mapped(a, Len(v))
         /\ mem' = Written(a, v)
  /\ cs' = Rest(ws)
  /\ Advance(i) /\ Same /\ UNCHANGED <<file, fired, halts>>

StoreRegister(i, ws) ==
  /\ i.op \in DOMAIN RegisterStores
  /\ LET v == IF i.op = "sti8reg" THEN Unsigned(Arg(ws, 1)) ELSE Signed(Arg(ws, 1))
     IN  file' = [file EXCEPT ![i.b] = v + i.a]
  /\ cs' = Rest(ws)
  /\ Advance(i) /\ Same /\ UNCHANGED <<mem, fired, halts>>

\* pushi64reg reads its register after SP was moved; popi64reg subtracts the
\* offset.
DataStack(i) ==
  LET sp == file["SP"] IN
  /\ \/ /\ i.op = "pushi64reg" /\ Mapped(sp - I64, I64)
        /\ LET moved == [file EXCEPT !["SP"] = sp - I64]
           IN  /\ mem' = Written(sp - I64, Cells(moved[i.b] + i.a, I64))
               /\ file' = moved
     \/ /\ i.op = "popi64reg" /\ Mapped(sp, I64)
        /\ file' = [file EXCEPT !["SP"] = sp + I64,
                                ![i.b] = Signed(Bytes(sp, I64)) - i.a]
        /\ UNCHANGED mem
     \/ /\ i.op \in {"popi32", "popi64"}
        /\ file' = [file EXCEPT !["SP"] = sp + IF i.op = "popi32" THEN I32 ELSE I64]
        /\ UNCHANGED mem
  /\ Advance(i) /\ Same /\ UNCHANGED <<cs, fired, halts>>

Call(i) ==
  LET sp == file["SP"] IN
  /\ \/ /\ i.op = "call" /\ Mapped(sp - Addr, Addr)
        /\ mem' = Written(sp - Addr, Cells(pc + ExecutedWidth("call"), Addr))
        /\ file' = [file EXCEPT !["SP"] = sp - Addr]
        /\ pc' = i.a
     \/ /\ i.op = "ret" /\ Mapped(sp, Addr)
        /\ pc' = Unsigned(Bytes(sp, Addr))
        /\ file' = [file EXCEPT !["SP"] = sp + Addr]
        /\ UNCHANGED mem
  /\ Same /\ UNCHANGED <<cs, fired, halts>>

\* The instructions whose length differs from what was emitted. ldptr and
\* stptr do nothing. pushi32 and pushi64 read their address from the second
\* byte of the opcode, so they push what lies at 0; the register number of
\* pushi32reg and popi32reg begins there too, and is only right for SP.
Misencode(i) ==
  LET sp == file["SP"]  w == IF i.op = "pushi64" THEN I64 ELSE I32 IN
  /\ i.op \in Misencoded
  /\ \/ i.op \in {"ldptr", "stptr"} /\ UNCHANGED <<mem, file>>
     \/ /\ i.op \in {"pushi32", "pushi64"} /\ Mapped(sp - w, w)
        /\ mem' = Written(sp - w, Bytes(0, w))
        /\ file' = [file EXCEPT !["SP"] = sp - w]
     \/ /\ i.op = "pushi32reg" /\ i.b = "SP" /\ Mapped(sp - w, w)
        /\ mem' = Written(sp - w, Cells(sp - w, w))
        /\ file' = [file EXCEPT !["SP"] = sp - w]
     \/ /\ i.op = "popi32reg" /\ i.b = "SP" /\ Mapped(sp, w)
        /\ file' = [file EXCEPT !["SP"] = Signed(Bytes(sp, w))]
        /\ UNCHANGED mem
  /\ strayed' = TRUE
  /\ Advance(i)
  /\ UNCHANGED <<prog, cs, fired, halts, status>>

Quiet(i, ws) ==
  /\ i.op \in Silent \cup DOMAIN Peeks
  /\ Advance(i) /\ Same /\ UNCHANGED <<cs, data>>

FireEvent(i) ==
  /\ i.op \in {"msg", "msg@Event@@OblectamentaDataLabel@"}
  /\ fired' = Append(fired, [ev |-> i.a, payload |-> i.b])
  /\ Advance(i) /\ Same /\ UNCHANGED <<cs, mem, file, halts>>

CString(a) == LET tail == [k \in 1 .. Cardinality(DOMAIN mem) - a |-> mem[a + k - 1]]
              IN  SubSeq(tail, 1, FindTrailingZero(tail))

Holds(i, ws) ==
  LET op == i.op IN
  CASE op \in DOMAIN Asserts -> Signed(Arg(ws, 1)) = i.a
    [] op = "assertszsz" -> CString(Unsigned(Arg(ws, 1))) = CString(i.a)
    [] op = "asserteqi32sz" -> Arg(ws, 1) = Arg(ws, 2)
    [] op = "asserti32imm@OblectamentaReg@" ->
         Cells(file[i.b], I32) = Cells(i.a, I32)
    [] op = "assert_empty_cs" -> cs = <<>>
    [] OTHER -> Deserialize([k \in 1 .. Cardinality(DOMAIN mem) - i.b |->
                               mem[i.b + k - 1]]).tree = i.a

Assertions == DOMAIN Asserts \cup
  {"assertszsz", "asserteqi32sz", "asserti32imm@OblectamentaReg@", "assert_empty_cs",
   "assert_deserialized_protobufish_message_equals_strsz@OblectamentaDataLabel@"}

Assertion(i, ws) ==
  /\ i.op \in Assertions
  /\ \/ Holds(i, ws) /\ cs' = Rest(ws) /\ Advance(i) /\ Same
     \/ ~Holds(i, ws) /\ cs' = Rest(ws) /\ status' = "threw" /\ UNCHANGED <<prog, pc, strayed>>
  /\ UNCHANGED data

\* Mutant of Halt: haltimm does not count down.
HaltUncounted(i) ==
  /\ i.op \in {"halt", "haltimm"}
  /\ IF i.op = "halt" \/ i.a <= 0
     THEN status' = "halted" /\ UNCHANGED pc
     ELSE Advance(i) /\ UNCHANGED status
  /\ UNCHANGED <<prog, cs, mem, file, fired, strayed, halts>>

\* run stops at halt; haltimm(n) is passed n times before it stops.
Halt(i) ==
  /\ i.op \in {"halt", "haltimm"}
  /\ LET n == IF pc \in DOMAIN halts THEN halts[pc] ELSE i.a
     IN  IF i.op = "halt" \/ n <= 0
         THEN status' = "halted" /\ UNCHANGED <<pc, halts>>
         ELSE /\ halts' = [x \in DOMAIN halts \cup {pc} |->
                             IF x = pc THEN n - 1 ELSE halts[x]]
              /\ Advance(i) /\ UNCHANGED status
  /\ UNCHANGED <<prog, cs, mem, file, fired, strayed>>

\* pop_cs on an empty stack throws; on one that holds too few bytes it reads
\* in front of the stack.
Underflow(ws) ==
  /\ LET k == CHOOSE n \in DOMAIN ws : /\ SumTo(ws, n) > Len(cs)
                                       /\ SumTo(ws, n - 1) <= Len(cs)
     IN  status' = IF SumTo(ws, k - 1) = Len(cs) THEN "threw" ELSE "fault"
  /\ UNCHANGED <<prog, pc, cs, data, strayed>>

Throw(i) ==
  /\ i.op \in Deprecated
  /\ status' = "threw"
  /\ UNCHANGED <<prog, pc, cs, data, strayed>>

\* An access outside the memory.
Fault(i, ws) ==
  /\ LET op == i.op  sp == file["SP"]
     IN  \/ op \in DOMAIN Loads /\ ~Mapped(i.a, Loads[op])
         \/ op \in DOMAIN LoadsAtTop /\ ~Mapped(Unsigned(Arg(ws, 1)), LoadsAtTop[op])
         \/ op \in DOMAIN Stores /\ ~Mapped(i.a, Stores[op])
         \/ op \in DOMAIN StoresAtTop /\ ~Mapped(Unsigned(Arg(ws, 1)), StoresAtTop[op])
         \/ op \in {"pushi64reg", "call", "pushi64"} /\ ~Mapped(sp - I64, I64)
         \/ op = "pushi32" /\ ~Mapped(sp - I32, I32)
         \/ op \in {"pushi32reg", "popi32reg"}
              /\ (i.b # "SP" \/ ~Mapped(sp - I32, 2 * I32))
         \/ op \in {"popi64reg", "ret"} /\ ~Mapped(sp, I64)
  /\ status' = "fault"
  /\ UNCHANGED <<prog, pc, cs, data, strayed>>

\* Control outside the emitted text.
LeaveText ==
  /\ status' = "fault"
  /\ UNCHANGED <<prog, pc, cs, data, strayed>>

\* One instruction i that pops values of the widths ws.
Executed(i, ws) ==
  \/ /\ Poppable(ws)
     /\ \/ Shuffle(i, ws) \/ Calculate(i, ws) \/ Trap(i, ws) \/ Shift(i, ws)
        \/ Relate(i, ws) \/ Convert(i, ws) \/ Branch(i, ws) \/ Push(i)
        \/ LoadMem(i, ws) \/ StoreMem(i, ws) \/ StoreRegister(i, ws) \/ DataStack(i)
        \/ Call(i) \/ Misencode(i) \/ Quiet(i, ws) \/ FireEvent(i) \/ Assertion(i, ws)
        \/ Halt(i) \/ Throw(i) \/ Fault(i, ws)
  \/ ~Poppable(ws) /\ Underflow(ws)

Fetch(text) ==
  \/ /\ pc \in DOMAIN text
     /\ \E i \in {text[pc]} : \E ws \in {PopWidths(i.op)} : Executed(i, ws)
  \/ pc \notin DOMAIN text /\ LeaveText

Next == status = "running" /\ \E text \in {Image[prog].text} : Fetch(text)

\* run is a loop of one thread that nothing interrupts.
Fairness == WF_vars(Next)

Spec == Init /\ [][Next]_vars /\ Fairness

(***************************************************************************)
(* Properties.                                                             *)
(***************************************************************************)
TypeOK ==
  /\ pc \in Nat
  /\ cs \in Seq(Byte)
  /\ mem \in [DOMAIN mem -> Byte]
  /\ file \in [Registers -> Int]
  /\ strayed \in BOOLEAN
  /\ status \in {"running", "halted", "threw", "fault"}

\* Control only ever reaches the first byte of an instruction the assembler
\* emitted, through branches, calls and returns, as long as none of the
\* instructions was executed that are shorter or longer than their encoding.
ControlStaysOnInstructions == strayed \/ pc \in DOMAIN Image[prog].text

\* The exchange each swp... instruction is named for: bytes of the block on
\* top and of the block below it.
Exchanges ==
  [swp |-> <<4, 4>>, swpi64 |-> <<8, 8>>, swpi8i64 |-> <<1, 8>>, swpi16i64 |-> <<2, 8>>,
   swpi32i64 |-> <<4, 8>>, swpi8i128 |-> <<1, 16>>, swpi16i128 |-> <<2, 16>>,
   swp128i64 |-> <<16, 8>>, swp192i64 |-> <<24, 8>>, swp96i64 |-> <<12, 8>>,
   swpi160i64 |-> <<20, 8>>, swpi192i32 |-> <<24, 4>>, swpi64b128 |-> <<8, 16>>,
   swp80i64 |-> <<10, 8>>, swp72i64 |-> <<9, 8>>, swpi64b72 |-> <<8, 9>>,
   swp128b8 |-> <<16, 1>>, swpi64i192 |-> <<8, 24>>]

\* A swp... instruction exchanges the block on top of the compute stack with
\* the block under it and leaves every byte of both intact, although it pops
\* and pushes them in other portions.
Exchanged(op) ==
  op \in DOMAIN Exchanges =>
    LET top == Exchanges[op][1]  below == Exchanges[op][2]  n == Len(cs)
    IN  cs' = SubSeq(cs, 1, n - top - below) \o SubSeq(cs, n - top + 1, n)
                \o SubSeq(cs, n - top - below + 1, n - top)
SwapsExchange == [][pc' # pc => Exchanged(Image[prog].text[pc].op)]_vars

\* A branch or call that is taken lands where its label stands. The one
\* exception is a reference no definition followed, which the assembler
\* leaves at 0: there the machine halts.
Lands(machine) ==
  LET i == machine.text[pc]
  IN  i.ref # "" /\ pc' # pc + ExecutedWidth(i.op) =>
        \/ pc' \in machine.sites[i.ref]
        \/ i.lost /\ pc' = 0
BranchesHitTheirLabels == [][pc' # pc => Lands(Image[prog])]_vars
=============================================================================
