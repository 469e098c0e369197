----------------------- MODULE OblectamentaAssembler -----------------------
(***************************************************************************)
(* The Oblectamenta assembler (core/src/vm/oblectamenta-assembler.cpp). A  *)
(* first pass replaces message directives and expressions by the           *)
(* instructions that carry them out, a second one emits the text, resolves *)
(* data labels and patches forward references to code labels.              *)
(*                                                                         *)
(* A statement is a record: its form says which kind of AST node it is, op *)
(* is the mnemonic, tag or label, arg the argument, body the statements of *)
(* a struct or scope. Names are sequences of non-zero bytes.               *)
(***************************************************************************)
EXTENDS OblectamentaMessage, TLC

RECURSIVE WriteNode(_, _), WriteItems(_, _, _), Match(_, _, _), MatchItems(_, _, _)
RECURSIVE Preprocess(_, _), Assemble(_, _)

Stmt(form, op, arg, body) == [form |-> form, op |-> op, arg |-> arg, body |-> body]

\* gen_mnemonic and its variants: no argument, an integer, a register with an
\* offset, a data label, a code label; and the label itself.
M(op) == Stmt("none", op, 0, <<>>)
N(op, n) == Stmt("int", op, n, <<>>)
R(op, r) == Stmt("reg", op, <<r, 0>>, <<>>)
D(op, l) == Stmt("data", op, l, <<>>)
J(op, l) == Stmt("code", op, l, <<>>)
Lbl(l) == Stmt("label", l, 0, <<>>)

Ops(names) == [i \in DOMAIN names |-> M(names[i])]

\* What a pass produces: statements, the static data they refer to, the
\* next number for a generated label.
Gen(code, heap, lbl) == [code |-> code, heap |-> heap, lbl |-> lbl]
Put(g, stmts) == [g EXCEPT !.code = @ \o stmts]
Fresh(g, k) == "__msgdef_" \o ToString(g.lbl + k)
StoreName(g, name) == [g EXCEPT !.heap = @ \o name \o Zero]

(***************************************************************************)
(* Sequences the generated code repeats.                                   *)
(***************************************************************************)
Plus(n) == <<N("ldi64", n), M("addi64")>>
FrameAddr(k) == <<N("ldi64", k), R("ldi64", "FP"), M("subi64")>>      \* FP - k
FrameLoad(k) == FrameAddr(k) \o Ops(<<"ldsi64">>)                     \* [FP - k]

RelRoot == I64
RelContent == RelRoot + Addr

\* Mutant of EnterFrame: no room for the locals.
EnterFrameNoLocals == <<R("pushi64", "FP"), R("ldi64", "SP"), R("sti64", "FP")>>

EnterFrame ==
  <<R("pushi64", "FP"), R("ldi64", "SP"), R("sti64", "FP"),
    N("ldi64", Addr + SizeField), R("ldi64", "SP"), M("subi64"), R("sti64", "SP")>>
\* Mutant of LeaveFrame: the caller's frame pointer is dropped.
LeaveFrameKeepingFP == <<R("ldi64", "FP"), R("sti64", "SP"), M("popi64")>>

LeaveFrame == <<R("ldi64", "FP"), R("sti64", "SP"), R("popi64", "FP")>>

ClearContent == <<N("ldi64", 0)>> \o FrameAddr(RelContent) \o Ops(<<"stsi64">>)
\* [FP - RelContent] += the value on top
AddToContent ==
  FrameLoad(RelContent) \o Ops(<<"addi64">>) \o FrameAddr(RelContent) \o Ops(<<"stsi64">>)

\* Mutant of NextFree: forgets the zero behind the name.
NextFreeOnZero(name) ==
  FrameLoad(RelRoot) \o Plus(MsgNode + Len(name))
    \o FrameLoad(RelContent) \o Ops(<<"addi64">>)

\* Address of the first byte behind what the node at [FP - RelRoot] holds.
NextFree(name) ==
  FrameLoad(RelRoot) \o Plus(MsgNode + Len(name) + 1)
    \o FrameLoad(RelContent) \o Ops(<<"addi64">>)

(***************************************************************************)
(* Writing a message.                                                      *)
(***************************************************************************)
\* Copies the name at a static address behind the header at ARG0.
CopyName(lbl, from) ==
  <<N("ldi64", 0), Lbl(lbl)>> \o Ops(<<"duptopi64", "duptopi64">>)
    \o Plus(from) \o Ops(<<"swpi64">>) \o <<R("ldi64", "ARG0")>> \o Plus(MsgNode)
    \o Ops(<<"addi64", "swpi64", "ldsi8", "duptopi8", "swpi16i64", "stsi8",
             "ui8toui64", "swpi64">>)
    \o Plus(1) \o Ops(<<"swpi64">>) \o <<J("bnzeroi64", lbl), M("discardtopi64")>>

\* A leaf of a fixed size: the value below the address goes behind a header.
WriteFixed(name, what, w, store) ==
  NextFree(name) \o Ops(<<"duptopi64">>)
    \o <<N("ldi32", what), M("swpi32i64"), M("stsi32"), M("duptopi64")>>
    \o Plus(What) \o <<N("ldi64", MsgNode + w), M("swpi64"), M("stsi64")>>
    \o Plus(MsgNode) \o <<M(store), N("ldi64", MsgNode + w)>> \o AddToContent

\* A string: copied up to and including its zero, sizes computed afterwards.
WriteSz(name, lbl) ==
  NextFree(name) \o Ops(<<"duptopi64">>)
    \o <<N("ldi32", SZ), M("swpi32i64"), M("stsi32")>> \o Plus(MsgNode)
    \o Ops(<<"swpi64", "duptopi64", "swp128i64">>) \o <<Lbl(lbl)>>
    \o Ops(<<"swpi64", "duptopi64", "ldsi8", "duptopi8", "swp80i64", "duptopi64",
             "swpi64b72", "stsi8">>)
    \o Plus(1) \o Ops(<<"swp72i64">>) \o Plus(1)
    \o Ops(<<"swpi64", "swp128b8", "ui8toui32">>) \o <<J("bnzeroi32", lbl)>>
    \o Ops(<<"discardtopi64", "subi64", "duptopi64">>)
    \o FrameLoad(RelContent) \o Ops(<<"addi64">>) \o Plus(MsgNode)
    \o FrameAddr(RelContent) \o Ops(<<"stsi64", "duptopi64">>)
    \o NextFree(name) \o Ops(<<"subi64">>)
    \o <<N("ldi64", SizeField)>> \o Ops(<<"swpi64", "subi64", "swpi64">>)
    \o Plus(MsgNode) \o Ops(<<"swpi64", "stsi64">>)

IsNode(s) == s.form \in {"struct", "scope"}
IsTag(s, t) == s.form = "tag" /\ s.op = t
NameOf(s) == IF s.form = "struct" THEN s.arg ELSE <<>>

\* One child of a node that is written.
WriteItem(g, name, s) ==
  CASE IsNode(s) ->
         Put(WriteNode(Put(g, NextFree(name) \o <<R("sti64", "ARG0")>>), s),
             <<R("ldi64", "RES")>> \o AddToContent)
    [] IsTag(s, "i32") -> Put(g, WriteFixed(name, INT32, I32, "stsi32"))
    [] IsTag(s, "i64") -> Put(g, WriteFixed(name, INT64, I64, "stsi64"))
    [] IsTag(s, "f64") -> Put(g, WriteFixed(name, F64, Dbl, "stsdbl"))
    [] IsTag(s, "sz") -> Put([g EXCEPT !.lbl = @ + 1], WriteSz(name, Fresh(g, 0)))
    [] s.form = "tag" -> g
    [] OTHER -> Put(g, <<s>>)

WriteItems(g, name, items) ==
  IF items = <<>> THEN g
  ELSE WriteItems(WriteItem(g, name, Head(items)), name, Tail(items))

\* oblectamenta_assembler_preproccess(vm, mnemonic, r): writes the node at
\* ARG0 and leaves its size in RES.
WriteNode(g, s) ==
  LET name == NameOf(s)
      header == <<N("ldi32", NODE), R("ldi64", "ARG0"), M("stsi32"),
                  N("ldi64", MsgNode + Len(name) + 1), R("ldi64", "ARG0")>>
                  \o Plus(What) \o Ops(<<"stsi64">>)
      open == header \o CopyName(Fresh(g, 0), Len(g.heap)) \o EnterFrame \o ClearContent
                \o <<R("ldi64", "ARG0")>> \o FrameAddr(RelRoot) \o Ops(<<"stsi64">>)
      size == FrameLoad(RelRoot) \o Plus(What)
      close == FrameLoad(RelContent) \o size \o Ops(<<"ldsi64", "addi64">>)
                 \o <<R("sti64", "RES"), R("ldi64", "RES")>> \o size
                 \o Ops(<<"stsi64">>) \o LeaveFrame
      start == [StoreName(g, name) EXCEPT !.lbl = @ + 1]
  IN  Put(WriteItems(Put(start, open), name, s.body), close)

\* A directive's struct holds its buffer's label, the struct of its error
\* handler and the messages.
Struct(name, body) == Stmt("struct", "", name, body)
IsHandler(s) == s.form = "struct" /\ \E i \in DOMAIN s.body : s.body[i].form = "onerror"

WriteRoot(g, s) ==
  LET buf == D("lea", s.arg)
      kid(h, c) == IF ~IsNode(c) THEN h
                   ELSE Put(WriteNode(Put(h, <<buf>> \o Plus(MsgNode)
                                               \o FrameLoad(RelContent) \o Ops(<<"addi64">>)
                                               \o <<R("sti64", "ARG0")>>), c),
                            <<R("ldi64", "RES")>> \o AddToContent)
      open == <<N("ldi32", ROOT), buf, M("stsi32"),
                N("ldi32", MsgNode), M("ui32toui64"), N("ldi32", What), M("ui32toui64"),
                buf, M("addi64"), M("stsi64")>>
                \o EnterFrame \o <<buf>> \o Plus(What) \o FrameAddr(RelRoot)
                \o Ops(<<"stsi64">>) \o ClearContent
      close == FrameLoad(RelContent) \o <<buf>> \o Plus(What) \o Ops(<<"ldsi64", "addi64">>)
                 \o <<buf>> \o Plus(What) \o Ops(<<"stsi64">>) \o LeaveFrame
  IN  Put(FoldLeft(kid, Put(g, open), s.body), close)

(***************************************************************************)
(* Reading a message. The generated code keeps its state on the compute    *)
(* stack; the comments of the source spell it out step by step.            *)
(***************************************************************************)
\* Address of the current child's size field, of the next child.
SizeAt == Plus(What) \o Ops(<<"ldsi64">>)

\* A leaf of type what: its value is left on top, the child pointer and the
\* offset move on. rotate brings what lies below a value of its width up.
ReadFixed(what, wrong, w, load, back, rotate, toFront, under) ==
  Ops(<<"swp128i64", "duptopi64", "ldsi32">>) \o <<N("ldi32", what), J("bneq", wrong)>>
    \o Plus(MsgNode) \o Ops(<<"duptopi64", load, back>>) \o Plus(w)
    \o Ops(<<rotate>>) \o Plus(MsgNode + w) \o Ops(<<toFront, "swpi64", under>>)

\* A string leaves its address; the next child follows from the size field.
ReadSz(wrong) ==
  Ops(<<"swp128i64", "duptopi64", "ldsi32">>) \o <<N("ldi32", SZ), J("bneq", wrong)>>
    \o Plus(MsgNode) \o Ops(<<"duptopi64", "swpi64">>)
    \o <<N("ldi64", SizeField)>> \o Ops(<<"swpi64", "subi64", "duptopi64", "ldsi64", "swpi64">>)
    \o <<N("ldi64", What)>> \o Ops(<<"swpi64", "subi64", "addi64", "swp128i64">>)
    \o Plus(MsgNodeSz) \o Ops(<<"swp192i64", "swpi64", "swp192i64">>)

ReadTag(tag, wrong32, wrong64) ==
  CASE tag = "i32" -> ReadFixed(INT32, wrong32, I32, "ldsi32", "swpi32i64", "swp96i64",
                                "swpi160i64", "swpi192i32")
    [] tag = "i64" -> ReadFixed(INT64, wrong64, I64, "ldsi64", "swpi64", "swp128i64",
                                "swp192i64", "swp192i64")
    [] tag = "f64" -> ReadFixed(F64, wrong32, Dbl, "ldsdbl", "swpi64", "swp128i64",
                                "swp192i64", "swp192i64")
    [] tag = "sz" -> ReadSz(wrong32)
    [] OTHER -> <<>>

\* Behind a nested match: on to the sibling of the node that matched.
SkipMatched(failed) ==
  <<M("bzeroi32"), J("bzeroi64", failed)>> \o Ops(<<"swpi64", "duptopi64">>)
    \o Plus(MsgNode - SizeField)
    \o Ops(<<"ldsi64", "duptopi64", "swp128i64", "addi64", "swpi64b128", "swpi64",
             "subi64", "swp192i64">>)

MatchItem(g, l, s) ==
  CASE IsNode(s) ->
         Put(Match(Put(g, Ops(<<"swpi64i192">>)), NameOf(s), s.body), SkipMatched(l[11]))
    [] s.form = "tag" -> Put(g, ReadTag(s.op, l[6], l[7]))
    [] OTHER -> Put(g, <<s>>)

MatchItems(g, l, items) ==
  IF items = <<>> THEN g
  ELSE MatchItems(MatchItem(g, l, Head(items)), l, Tail(items))

ReadTags == {"i32", "i64", "f64", "sz"}
TagRead(items) ==
  \E i \in DOMAIN items : IsNode(items[i]) \/ \E t \in ReadTags : IsTag(items[i], t)

\* oblectamenta_assembler_preproccess_match: finds the child with this name
\* from the current one on, then matches its content. The labels, in order:
\* start, next_node, names_equal, check_strings, check_strings_unequal,
\* wrong_i32, wrong_i64, not_enough_space, done, not_found, match_failed.
Match(g, name, items) ==
  LET l == [k \in 1 .. 11 |-> Fresh(g, k - 1)]
      search ==
        <<M("swpi64"), Lbl(l[2])>> \o Ops(<<"swpi64", "duptopi64">>)
          \o <<J("bzeroi64", l[10])>> \o Ops(<<"swpi64", "duptopi64", "ldsi32">>)
          \o <<N("ldi32", NODE), M("subi32"), J("bnzeroi32", l[2]), M("duptopi64")>>
          \o Plus(MsgNode) \o <<N("ldi64", Len(g.heap)), Lbl(l[4])>>
          \o Ops(<<"duptopi128", "ldsi8", "swpi8i64", "ldsi8">>) \o <<J("bneqi8", l[5])>>
          \o Ops(<<"duptopi64", "ldsi8">>) \o <<J("bzeroi8", l[3])>>
          \o Plus(1) \o Ops(<<"swpi64">>) \o Plus(1) \o <<M("swpi64"), J("buc", l[4])>>
      nextChild ==
        <<Lbl(l[5])>> \o Ops(<<"discardtopi64", "discardtopi64", "duptopi64">>) \o SizeAt
          \o Ops(<<"swp128i64", "subi64", "swpi64", "duptopi64">>) \o SizeAt
          \o <<M("addi64"), J("buc", l[2])>>
      enter ==
        <<Lbl(l[3])>>
          \o Ops(<<"discardtopi64", "swpi64", "duptopi64", "swp128i64", "swpi64">>)
          \o Plus(MsgNode) \o Ops(<<"swpi64", "subi64">>) \o Plus(1) \o Ops(<<"duptopi128">>)
          \o Plus(MsgNode) \o Ops(<<"addi64", "swpi64b128", "swpi64", "duptopi64">>)
          \o SizeAt \o Ops(<<"swp128i64", "swpi64", "subi64">>)
          \o <<N("ldi64", MsgNode)>> \o Ops(<<"swpi64", "subi64", "swp128i64", "swpi64">>)
          \o <<N("ldi64", 0)>>
      success ==
        (IF TagRead(items)
         THEN Ops(<<"discardtopi64", "discardtopi64", "discardtopi64", "swpi64">>)
         ELSE <<>>)
          \o <<N("ldi64", 1), J("buc", l[9])>>
      failures ==
        <<Lbl(l[8]), Lbl(l[6]), Lbl(l[7]), Lbl(l[2]), Lbl(l[10]),
          M("swpi64"), N("ldi64", 0), J("buc", l[9]), Lbl(l[11])>>
          \o Ops(<<"discardtopi64", "discardtopi64", "swpi64", "discardtopi64">>)
          \o <<N("ldi64", 0), J("buc", l[9]), Lbl(l[9]), M("noop")>>
      start == [StoreName(g, name) EXCEPT !.lbl = @ + 11]
  IN  Put(MatchItems(Put(start, search \o nextChild \o enter), l, items),
          success \o failures)

AllModifier(items) == \E i \in DOMAIN items : items[i].form = "all"

\* One message pattern of a read directive.
ReadKid(g, error, c) ==
  IF ~IsNode(c) THEN g
  ELSE LET loops == AllModifier(c.body)
           g1 == IF loops THEN Put([g EXCEPT !.lbl = @ + 2], <<Lbl(Fresh(g, 0))>>) ELSE g
           g2 == Match(g1, NameOf(c), c.body)
           continue == Fresh(g2, 0)
           after ==
             <<J("bnzeroi64", continue)>>
               \o (IF loops THEN <<J("buc", Fresh(g, 1))>> ELSE <<>>)
               \o Ops(<<"discardtopi64", "discardtopi64", "discardtopi64">>)
               \o <<J("buc", error), Lbl(continue)>> \o Ops(<<"swpi64", "duptopi64">>)
               \o SizeAt \o Ops(<<"swpi64", "swpi64b128", "swpi64", "subi64", "swpi64",
                                  "duptopi64">>)
               \o SizeAt \o Ops(<<"addi64", "swpi64">>)
               \o (IF loops THEN <<J("buc", Fresh(g, 0)), Lbl(Fresh(g, 1)), M("noop")>>
                   ELSE <<>>)
       IN  Put([g2 EXCEPT !.lbl = @ + 1], after)

\* Every struct of the directive is a pattern, its error handler included.
ReadRoot(g, s) ==
  LET wrong == Fresh(g, 0)  done == Fresh(g, 1)  error == Fresh(g, 2)
      handlers == SelectSeq(s.body, IsHandler)
      open == <<D("lea", s.arg)>> \o Ops(<<"duptopi64", "ldsi32">>)
                \o <<N("ldi32", ROOT), M("subi32"), J("bnzeroi32", wrong), M("duptopi64")>>
                \o SizeAt \o <<N("ldi64", MsgNode)>>
                \o Ops(<<"swpi64", "subi64", "swpi64", "duptopi64", "swp128i64", "swpi64">>)
                \o Plus(MsgNode) \o Ops(<<"swpi64">>)
      handler == IF handlers = <<>> THEN <<>>
                 ELSE SelectSeq(Head(handlers).body, LAMBDA x : x.form # "onerror")
      close == Ops(<<"discardtopi64", "discardtopi64", "discardtopi64">>)
                 \o <<J("buc", done), Lbl(wrong), M("halt"), Lbl(error)>> \o handler
                 \o <<Lbl(done)>>
      kid(h, c) == ReadKid(h, error, c)
  IN  Put(FoldLeft(kid, Put([g EXCEPT !.lbl = @ + 3], open), s.body), close)

(***************************************************************************)
(* Expressions: a data label, possibly under !; the register allocated is  *)
(* always the first, for no second value is ever alive.                    *)
(***************************************************************************)
WriteExpr(g, s) ==
  Put(g, <<D("ldi32", s.arg), R("sti32", "R0")>>
           \o Flat([i \in 1 .. s.op |-> <<R("ldi32", "R0"), M("noti32"), R("sti32", "R0")>>])
           \o <<R("ldi32", "R0"), R("sti32", "RES")>>)

\* oblectamenta_assembler_preproccess: directives are replaced, the rest
\* kept. A directive without a data label is refused before this.
Preprocess(g, stmts) ==
  IF stmts = <<>> THEN g
  ELSE LET s == Head(stmts)
           h == CASE s.form = "read" -> ReadRoot(g, s)
                  [] s.form = "write" -> WriteRoot(g, s)
                  [] s.form = "expr" -> WriteExpr(g, s)
                  [] OTHER -> Put(g, <<s>>)
       IN  Preprocess(h, Tail(stmts))

(***************************************************************************)
(* oblectamenta_assembler_impl. The state of the assembler: the            *)
(* instructions emitted with their places, text_loc, the static data, the  *)
(* code labels of the scope being assembled, the references that wait for  *)
(* a label, whether a statement was refused.                               *)
(***************************************************************************)
Blank(heap, lbl) ==
  [code |-> <<[at |-> 0, op |-> "halt", a |-> 0, b |-> 0, ref |-> ""]>>, loc |-> 4,
   heap |-> heap, lbl |-> lbl, here |-> <<>>, sites |-> <<>>, waiting |-> {},
   ok |-> TRUE]

Emit(st, op, a, b) ==
  [st EXCEPT !.code = Append(@, [at |-> st.loc, op |-> op, a |-> a, b |-> b, ref |-> ""]),
             !.loc = @ + EmittedWidth(op)]
EmitIf(st, known, op, a, b) == IF known THEN Emit(st, op, a, b) ELSE [st EXCEPT !.ok = FALSE]

\* Mutant of Define: a waiting reference is patched relative to itself.
DefineRelative(st, l) ==
  [st EXCEPT !.here = (l :> st.loc) @@ @,
             !.sites = (l :> (IF l \in DOMAIN @ THEN @[l] \cup {st.loc} ELSE {st.loc})) @@ @,
             !.code = [k \in DOMAIN @ |-> IF k \in st.waiting /\ @[k].ref = l
                                          THEN [@[k] EXCEPT !.a = st.loc - st.code[k].at] ELSE @[k]],
             !.waiting = {k \in @ : st.code[k].ref # l}]

\* A code label: known to what follows in this scope; every reference that
\* waits for it, of whatever scope, is patched.
Define(st, l) ==
  [st EXCEPT !.here = (l :> st.loc) @@ @,
             !.sites = (l :> (IF l \in DOMAIN @ THEN @[l] \cup {st.loc} ELSE {st.loc})) @@ @,
             !.code = [k \in DOMAIN @ |-> IF k \in st.waiting /\ @[k].ref = l
                                          THEN [@[k] EXCEPT !.a = st.loc] ELSE @[k]],
             !.waiting = {k \in @ : st.code[k].ref # l}]

Reference(st, op, l) ==
  LET known == l \in DOMAIN st.here
      e == Emit(st, op, IF known THEN st.here[l] ELSE 0, 0)
      k == Len(e.code)
  IN  IF op \notin Imm THEN [st EXCEPT !.ok = FALSE]
      ELSE [e EXCEPT !.code[k].ref = l, !.waiting = IF known THEN @ ELSE @ \cup {k}]

\* One statement that is no scope. labels are the data labels, ids the
\* events' numbers.
EmitStmt(st, s, labels, ids) ==
  CASE s.form = "none" -> IF s.op \in NoArg THEN Emit(st, s.op, 0, 0)
                          ELSE [st EXCEPT !.ok = @ /\ s.op \in Mnemonics]
    [] s.form = "int" -> EmitIf(st, s.op \o "imm" \in Imm, s.op \o "imm", s.arg, 0)
    [] s.form = "dbl" -> EmitIf(st, s.op \o "imm" \in DblImm, s.op \o "imm", s.arg, 0)
    [] s.form = "reg" ->
         LET op == s.op \o "reg"
         IN  IF op \in Reg THEN Emit(st, op, s.arg[2], s.arg[1])
             ELSE [st EXCEPT !.ok = @ /\ op \in Mnemonics]
    [] s.form = "regmod" -> EmitIf(st, s.op \o "reg" \in Imm, s.op \o "reg", 0, s.arg)
    [] s.form = "addr" -> EmitIf(st, s.op \in Imm, s.op, s.arg, 0)
    [] s.form = "data" ->
         LET op == IF s.op \in Mnemonics THEN s.op ELSE s.op \o "@OblectamentaDataLabel@"
         IN  IF s.arg \in DOMAIN labels /\ op \in Imm THEN Emit(st, op, labels[s.arg], 0)
             ELSE [st EXCEPT !.ok = FALSE]
    [] s.form = "code" -> Reference(st, s.op, s.arg)
    [] s.form = "extern" -> EmitIf(st, s.op \o "x" \in Imm, s.op \o "x", s.arg, 0)
    [] s.form = "string" ->
         EmitIf([st EXCEPT !.heap = @ \o s.arg \o Zero], s.op \o "sz" \in Imm,
                s.op \o "sz", Len(st.heap), 0)
    [] s.form = "int_string" ->
         EmitIf([st EXCEPT !.heap = @ \o s.arg[2] \o Zero], s.op \o "immsz" \in ImmImm,
                s.op \o "immsz", s.arg[1], Len(st.heap))
    [] s.form = "int_reg" ->
         EmitIf(st, s.op \o "imm@OblectamentaReg@" \in ImmImm,
                s.op \o "imm@OblectamentaReg@", s.arg[1], s.arg[2])
    [] s.form = "tree_data" ->
         EmitIf(st, s.op \o "sz@OblectamentaDataLabel@" \in ImmImm,
                s.op \o "sz@OblectamentaDataLabel@", s.arg[1], labels[s.arg[2]])
    [] s.form = "event" -> EmitIf(st, s.arg \in DOMAIN ids, "msg", ids[s.arg], 0)
    [] s.form = "label" -> Define(st, s.op)
    [] OTHER -> st

\* An event with a message as argument: the code that writes the message,
\* then, behind it, the instruction that fires the event with the buffer.
EventWithPayload(st, s, labels, ids) ==
  LET put(x, y) == EmitStmt(x, y, labels, ids)
      written(g) == Steps(put, [st EXCEPT !.heap = g.heap, !.lbl = g.lbl], g.code)
  IN  Emit(written(Preprocess(Gen(<<>>, st.heap, st.lbl), s.body)),
           "msg@Event@@OblectamentaDataLabel@", ids[s.arg], labels[Head(s.body).arg])

\* A scope is preprocessed and assembled on its own, with no label of the
\* scopes around it; a statement that was refused ends the assembly.
Assemble(st, p) ==
  LET put(x, s) ==
        IF s.form = "scope"
        THEN [Assemble(x, [p EXCEPT !.stmts = s.body]) EXCEPT !.here = x.here]
        ELSE IF s.form = "eventmsg" THEN EventWithPayload(x, s, p.labels, p.ids)
        ELSE EmitStmt(x, s, p.labels, p.ids)
      emitted(g) == Steps(put, [st EXCEPT !.heap = g.heap, !.lbl = g.lbl, !.here = <<>>], g.code)
  IN  emitted(Preprocess(Gen(<<>>, st.heap, st.lbl), p.stmts))

\* oblectamenta_assembler with append_halt.
Assembled(p) == Emit(Assemble(Blank(p.heap, 0), p), "halt", 0, 0)

\* The machine that is left in: its text by place, its memory, with room for
\* a data stack above the static data.
Loadable(st, stack) ==
  LET instr(k) == [op |-> st.code[k].op, a |-> st.code[k].a, b |-> st.code[k].b,
                   ref |-> st.code[k].ref, lost |-> k \in st.waiting]
      at(i) == CHOOSE k \in DOMAIN st.code : st.code[k].at = i
  IN  [text |-> [i \in {st.code[k].at : k \in DOMAIN st.code} |-> instr(at(i))],
       mem |-> [i \in 0 .. Len(st.heap) + stack - 1 |->
                  IF i < Len(st.heap) THEN st.heap[i + 1] ELSE 0],
       heap |-> Len(st.heap), start |-> 4, cs |-> <<>>, sites |-> st.sites, ok |-> st.ok]

MachineOf(p, stack) == Loadable(Assembled(p), stack)
=============================================================================
