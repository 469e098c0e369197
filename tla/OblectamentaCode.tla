-------------------------- MODULE OblectamentaCode --------------------------
(***************************************************************************)
(* The machine language of the Oblectamenta virtual machine                *)
(* (core/include/vm/vm_base.hpp): how values lie in memory, which          *)
(* mnemonics exist, with which argument forms, and how many bytes of text  *)
(* each form takes when it is emitted and when it is executed.             *)
(*                                                                         *)
(* A byte has BitsPerByte bits; the widths of the types, in bytes, are the *)
(* code's. A double stands for the integer of the same width: the programs *)
(* only compute with doubles that are integers.                            *)
(***************************************************************************)
EXTENDS Integers, Sequences, SequencesExt, FiniteSets

CONSTANT BitsPerByte

ASSUME BitsAssumption == BitsPerByte \in 2 .. 3

Radix == 2 ^ BitsPerByte
Byte == 0 .. Radix - 1

\* Mutant of Cells: the bytes are not cut to their width.
CellsUncut(n, w) == [i \in 1 .. w |-> n \div Radix ^ (i - 1)]

\* The bytes of n, lowest first, in two's complement, w of them.
Cells(n, w) == [i \in 1 .. w |-> (n \div Radix ^ (i - 1)) % Radix]

Unsigned(c) ==
  LET sum[i \in 0 .. Len(c)] ==
        IF i = 0 THEN 0 ELSE sum[i - 1] + c[i] * Radix ^ (i - 1)
  IN  sum[Len(c)]

Signed(c) ==
  LET u == Unsigned(c)  m == Radix ^ Len(c)
  IN  IF 2 * u >= m THEN u - m ELSE u

\* sizeof of the types the code moves around.
I8 == 1
I16 == 2
I32 == 4
I64 == 8
Dbl == 8
Addr == 8

(***************************************************************************)
(* The mnemonics, by the emitter the table gives them. An entry of the     *)
(* table is found by the name mangled with the kinds of the arguments.     *)
(***************************************************************************)
NoArg ==
  {"halt", "noop", "ret", "setframe", "assert_empty_cs", "dbg_println",
   "dbg_print_topi32", "dbg_print_topi64", "dbg_print_topf64",
   "addi32", "addi64", "adddbl", "subi32", "subi64", "subdbl",
   "muli32", "muli64", "muldbl", "divi32", "divi64", "divdbl", "remi32", "remi64",
   "andi32", "andi64", "andni32", "andni64", "ori32", "ori64", "xori32", "xori64",
   "noti32", "noti64", "negi32", "negi64", "negdbl",
   "shli32", "shli64", "shri32", "shri64",
   "lti32", "lti64", "ltdbl", "lteqi32", "lteqi64", "lteqdbl",
   "gti32", "gti64", "gtdbl", "gteqi32", "gteqi64", "gteqdbl",
   "eqi32", "eqi64", "eqdbl",
   "sindbl", "cosdbl", "tandbl", "atandbl", "expdbl", "tanhdbl",
   "ui32toui64", "ui8toui32", "ui8toui64",
   "ldsi8", "ldsi32", "ldsi64", "ldsdbl", "stsi8", "stsi32", "stsi64", "stsdbl",
   "popi32", "popi64", "pushi32", "pushi64",
   "duptopi8", "duptopi32", "duptopi64", "duptopi128", "duptopi192",
   "discardtopi32", "discardtopi64",
   "swp", "swpi64", "swpi16i64", "swpi8i64", "swpi8i128", "swpi16i128",
   "swpi32i64", "swp128i64", "swp192i64", "swp96i64", "swpi160i64", "swpi192i32",
   "swpi64b128", "swp80i64", "swp72i64", "swpi64b72", "swp128b8", "swpi64i192"}

Imm ==
  {"asserteqi32sz", "asserti32imm", "asserti64imm", "assertszsz",
   "beq", "bneq", "blt", "blteq", "bgt", "bgteq", "beqi8", "bneqi8", "beqi64",
   "bneqi64", "bgteqzeroi32", "blteqzeroi32", "bltzeroi32", "bzeroi8", "bnzeroi8",
   "bzeroi32", "bnzeroi32", "bzeroi64", "bnzeroi64", "bzerodbl", "bnzerodbl",
   "buc", "call", "callx", "cpysi32", "wrsi32", "haltimm", "msg",
   "dbg_deserialize_protobufish_to_json", "dbg_print_cs_and_regsimm",
   "dbg_print_dataimm", "dbg_print_stackimm", "dbg_printlni32",
   "dbg_printlni32imm", "dbg_printsz@OblectamentaDataLabel@",
   "ldi8", "ldi32", "ldi64", "lddbl", "ldi32imm", "ldi64imm", "lea", "lea_absolute",
   "sti8", "sti32", "sti64", "sri64", "stdbl", "ldptr", "stptr",
   "pushi32reg", "popi32reg"}

Reg == {"ldi32reg", "ldi64reg", "popi64reg", "pushi64reg", "sti32reg", "sti64reg",
        "sti8reg"}

DblImm == {"assertf64imm", "lddblimm"}

ImmImm ==
  {"asserti32immsz", "asserti64immsz", "msg@Event@@OblectamentaDataLabel@",
   "asserti32imm@OblectamentaReg@",
   "assert_deserialized_protobufish_message_equals_strsz@OblectamentaDataLabel@"}

Mnemonics == NoArg \cup Imm \cup Reg \cup DblImm \cup ImmImm

\* What emit<opcode>(...) appends to the text for each argument form.
EmittedWidth(op) ==
  CASE op \in NoArg -> 4
    [] op \in Imm \cup DblImm -> 4 + Addr
    [] op \in Reg -> 4 + 8 + 4
    [] op \in ImmImm -> 4 + 2 * Addr

\* What the instruction adds to the program counter when it does not branch:
\* six of them add something else than what was emitted.
Misencoded == {"ldptr", "stptr", "pushi32reg", "popi32reg", "pushi32", "pushi64"}

\* Mutant of ExecutedWidth: the offset of a register argument is not skipped.
ExecutedWidthNoOffset(op) == IF op \in Reg THEN 4 + 8 ELSE EmittedWidth(op)

ExecutedWidth(op) ==
  CASE op \in {"ldptr", "stptr"} -> 4
    [] op \in Misencoded \ {"ldptr", "stptr"} -> 4 + 1
    [] OTHER -> EmittedWidth(op)

(***************************************************************************)
(* The message format: msg_node and its leaves, packed.                    *)
(***************************************************************************)
ROOT == 1
NODE == 2
INT32 == 3
INT64 == 4
SZ == 7
F64 == 8

What == I32               \* sizeof(msg_node::what)
SizeField == I64          \* sizeof(msg_node::size)
MsgNode == What + SizeField
\* sizeof(msg_node_sz), which is 2^40 + 11, passed as an int.
MsgNodeSz == 11
=============================================================================
