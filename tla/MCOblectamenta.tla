--------------------------- MODULE MCOblectamenta ---------------------------
(***************************************************************************)
(* Programs for the Oblectamenta machine: data sections and asm blocks that*)
(* the assembler's model turns into text, and what they have to achieve.   *)
(***************************************************************************)
EXTENDS OblectamentaAssembler, OblectamentaState

CONSTANT Selected   \* the programs of a run

VARIABLES prog, pc, cs, mem, file, halts, fired, strayed, status

\* Forms of statements that only programs contain.
Str(op, s) == Stmt("string", op, s, <<>>)
Tag(t) == Stmt("tag", t, 0, <<>>)
Wr(body) == Stmt("write", "", "buf", body)
Rd(body) == Stmt("read", "", "buf", body)
Scope(body) == Stmt("scope", "", 0, body)
OnError == Stmt("onerror", "", 0, <<>>)
All == Stmt("all", "", 0, <<>>)
F(op, n) == Stmt("dbl", op, n, <<>>)
A(op, n) == Stmt("addr", op, n, <<>>)

nA == <<1>>
nB == <<2>>
nAB == <<1, 2>>
text == <<3, 2>>

Blanks(n) == [i \in 1 .. n |-> Item("uint8", 0)]
L(l) == <<Item("label", l)>>
MessageInData == Root(<<Node(nA, <<Leaf(INT32, 5)>>), Node(nB, <<Leaf(SZ, text)>>)>>)

\* num and long are the values the programs work on.
Data(num, long) ==
  L("num") \o <<Item("int", num)>> \o L("long") \o <<Item("float", long)>>
    \o L("text") \o <<Item("string", text), Item("uint8", 0)>>
    \o L("out32") \o Blanks(I32) \o L("out64") \o Blanks(I64) \o L("outp") \o Blanks(Addr)
    \o L("flag") \o Blanks(I32) \o L("buf") \o <<Item("payload", 0)>> \o Blanks(110)
    \o L("msg") \o <<Item("msg", MessageInData)>>
Section(num, long) == DataSection(Data(num, long), 1000)
Labels == Section(0, 0).labels

Asm(num, long, stmts) ==
  [heap |-> Section(num, long).heap, labels |-> Labels, ids |-> [e |-> 1, f |-> 2],
   stmts |-> stmts]

(***************************************************************************)
(* Messages.                                                               *)
(***************************************************************************)
Raise == <<N("ldi32", 1), D("sti32", "flag")>>
Handler == Struct(nB \o nB, <<OnError>> \o Raise)

WriteThree ==
  Wr(<<Struct(nA, <<D("ldi32", "num"), Tag("i32")>>),
       Struct(nAB, <<D("ldi64", "long"), Tag("i64"),
                     Struct(nB, <<D("lea", "text"), Tag("sz")>>)>>)>>)
GetA == Struct(nA, <<Tag("i32"), D("sti32", "out32")>>)
GetAB == Struct(nAB, <<Tag("i64"), D("sti64", "out64"),
                       Struct(nB, <<Tag("sz"), D("sti64", "outp")>>)>>)
WriteA == Wr(<<Struct(nA, <<D("ldi32", "num"), Tag("i32")>>)>>)

RoundTrip(n, m) == Asm(n, m, <<WriteThree, Rd(<<GetA, GetAB>>)>>)
\* What the interpreter of data sections writes, too: i32 and sz.
WriteTree ==
  Wr(<<Struct(nB, <<Struct(nA, <<D("ldi32", "num"), Tag("i32")>>), Struct(nAB, <<>>)>>),
       Struct(nA, <<D("lea", "text"), Tag("sz")>>)>>)
Tree(n) == Root(<<Node(nB, <<Node(nA, <<Leaf(INT32, n)>>), Node(nAB, <<>>)>>),
                  Node(nA, <<Leaf(SZ, text)>>)>>)

\* A string with a sibling behind it.
WriteSiblings ==
  Wr(<<Struct(nA, <<D("lea", "text"), Tag("sz"), D("ldi32", "num"), Tag("i32")>>)>>)
Siblings(n) == Root(<<Node(nA, <<Leaf(SZ, text), Leaf(INT32, n)>>)>>)

MessagePrograms ==
  [minus |-> RoundTrip(-1, -1),
   plus |-> RoundTrip(3, 300),
   tree |-> Asm(7, 0, <<WriteTree>>),
   siblings |-> Asm(7, 0, <<WriteSiblings>>),
   fromdata |-> Asm(0, 0, <<Stmt("read", "", "msg", <<GetA>>)>>),
   float |-> Asm(0, 6, <<Wr(<<Struct(nA, <<D("lddbl", "long"), Tag("f64")>>)>>),
                         Rd(<<Struct(nA, <<Tag("f64"), D("stdbl", "out64")>>)>>)>>),
   missing |-> Asm(5, 0, <<WriteA, Rd(<<GetA, GetAB, Handler>>)>>),
   unordered |-> Asm(5, 0, <<WriteThree, Rd(<<GetAB, GetA, Handler>>)>>),
   inner |-> Asm(5, 0, <<WriteTree,
                         Rd(<<Struct(nB, <<Struct(<<3>>, <<Tag("i32"), D("sti32", "out32")>>)>>),
                              Handler>>)>>),
   leaf |-> Asm(5, 0, <<WriteA, Rd(<<Struct(nA, <<GetAB>>), Handler>>)>>),
   all |-> Asm(2, 0,
     <<Wr(<<Struct(nA, <<D("ldi32", "num"), Tag("i32")>>),
            Struct(nA, <<N("ldi32", 9), Tag("i32")>>)>>),
       Rd(<<Struct(nA, <<All, Tag("i32"), D("ldi32", "out32"), M("addi32"),
                         D("sti32", "out32")>>)>>)>>),
   empty |-> Asm(0, 0, <<Wr(<<Scope(<<>>)>>), Rd(<<Scope(<<>>)>>)>>),
   event |-> Asm(4, 0, <<Stmt("event", "msg", "f", <<>>),
                         Stmt("eventmsg", "msg", "e", <<WriteA>>)>>)]

(***************************************************************************)
(* Control: labels before and behind their use, in scopes of their own, a  *)
(* reference to a label of the scope around that the assembler loses,      *)
(* calls, expressions.                                                     *)
(***************************************************************************)
Count(l) == <<N("ldi32", 3), Lbl(l), N("ldi32", 1), M("swp"), M("subi32"), M("duptopi32"),
              J("bnzeroi32", l), M("discardtopi32")>>

ControlPrograms ==
  [scopes |-> Asm(0, 0, Count("x") \o <<Scope(Count("x")), J("buc", "y"), M("halt"), Lbl("y")>>),
   lost |-> Asm(0, 0, <<Lbl("x"), Scope(<<J("buc", "x")>>)>>),
   calls |-> Asm(0, 0,
     <<J("call", "f"), J("call", "f"), M("halt"), Lbl("f"), R("pushi64", "FP"),
       D("ldi32", "out32"), N("ldi32", 1), M("addi32"), D("sti32", "out32"),
       R("popi64", "FP"), M("ret")>>),
   inside |-> Asm(0, 0, <<J("call", "f"), M("halt"), Lbl("f"), R("pushi64", "FP"),
                          N("ldi32", 7), M("halt")>>),
   expr |-> Asm(0, 0, <<Stmt("expr", 1, "num", <<>>),
                        Stmt("int_reg", "asserti32", <<1, "RES">>, <<>>)>>),
   haltimm |-> Asm(0, 0, <<Lbl("x"), D("ldi32", "out32"), N("ldi32", 1), M("addi32"),
                           D("sti32", "out32"), N("halt", 2), J("buc", "x")>>)]

(***************************************************************************)
(* The instructions no directive generates, with their results.            *)
(***************************************************************************)
I(a, b, op, r) == <<N("ldi32", a), N("ldi32", b), M(op), N("asserti32", r)>>
I6(a, b, op, r) == <<N("ldi64", a), N("ldi64", b), M(op), N("asserti64", r)>>
Fl(a, b, op, r) == <<F("lddbl", a), F("lddbl", b), M(op), F("assertf64", r)>>
Rel(ld, a, b, op, r) == <<Stmt(ld[1], ld[2], a, <<>>), Stmt(ld[1], ld[2], b, <<>>), M(op),
                          N("asserti32", r)>>
i32 == <<"int", "ldi32">>
i64 == <<"int", "ldi64">>
f64 == <<"dbl", "lddbl">>

\* Branch on two values (or on one, against zero) that must not be taken,
\* then on others that must.
Taken(op, no, yes, k) ==
  no \o <<J(op, "bad"), J("buc", "go" \o ToString(k)), Lbl("go" \o ToString(k))>>
     \o yes \o <<J(op, "ok" \o ToString(k)), J("buc", "bad"), Lbl("ok" \o ToString(k))>>
Two(n) == <<N("ldi32", n), N("ldi32", n)>>

Base == 4000

OpPrograms ==
  [calc |-> Asm(0, 0,
     I(2, 3, "addi32", 5) \o I6(2, 3, "addi64", 5) \o Fl(2, 3, "adddbl", 5)
       \o I(2, 3, "subi32", 1) \o Fl(2, 3, "subdbl", 1) \o I(2, 3, "muli32", 6)
       \o I6(-2, 3, "muli64", -6) \o Fl(2, 3, "muldbl", 6) \o I(6, 3, "andi32", 2)
       \o I6(6, 3, "andi64", 2) \o I(6, 3, "ori32", 7) \o I6(6, 3, "ori64", 7)
       \o I(6, 3, "xori32", 5) \o I6(6, 3, "xori64", 5)
       \o <<N("ldi32", 0), Stmt("int_string", "asserti32", <<0, text>>, <<>>)>>),
   orders |-> Asm(0, 0, <<N("ldi32", 7), N("ldi32", 2), M("divi32"), M("discardtopi32"),
                          N("ldi64", -7), N("ldi64", 2), M("remi64"), M("discardtopi64"),
                          N("ldi32", 7), N("ldi32", 2), M("andni32"), M("discardtopi32"),
                          F("lddbl", 1), F("lddbl", 1), M("divdbl"), M("discardtopi64"),
                          F("lddbl", 1), M("sindbl"), M("discardtopi64"),
                          N("ldi32", 1), N("ldi32", 2), J("blt", "x"), Lbl("x")>>),
   trap |-> Asm(0, 0, <<N("ldi32", 7), N("ldi32", 0), M("divi32")>>),
   shifts |-> Asm(0, 0,
     <<N("ldi32", 3), N("ldi32", 2), M("shli32"), N("asserti32", 12),
       N("ldi64", 300), N("ldi32", 4), M("shri64"), N("asserti64", 18),
       N("ldi32", -1), N("ldi32", 1), M("shri32"), N("asserti32", 127),
       N("ldi64", 3), N("ldi32", 8), M("shli64"), N("asserti64", 768)>>),
   rel |-> Asm(0, 0,
     Rel(i32, 1, 2, "lti32", 0) \o Rel(i32, 2, 1, "lti32", 1) \o Rel(i64, 2, 1, "lti64", 1)
       \o Rel(f64, 2, 1, "ltdbl", 1) \o Rel(i32, 2, 2, "lteqi32", 1)
       \o Rel(i64, 2, 2, "lteqi64", 1) \o Rel(f64, 2, 2, "lteqdbl", 1)
       \o Rel(i32, 1, 2, "gti32", 1) \o Rel(i64, 1, 2, "gti64", 1)
       \o Rel(f64, 1, 2, "gtdbl", 1) \o Rel(i32, 2, 2, "gteqi32", 1)
       \o Rel(i64, 2, 2, "gteqi64", 1) \o Rel(f64, 2, 2, "gteqdbl", 0)
       \o Rel(i32, 2, 2, "eqi32", 1) \o Rel(i64, 2, 1, "eqi64", 0)
       \o Rel(f64, 2, 2, "eqdbl", 1)),
   unary |-> Asm(0, 0,
     <<N("ldi32", 5), M("noti32"), N("asserti32", 0), N("ldi64", 0), M("noti64"),
       N("asserti64", 1), N("ldi32", 5), M("negi32"), N("asserti32", -5), N("ldi64", 5),
       M("negi64"), M("dbg_print_topi64"), N("asserti64", -5), F("lddbl", 5), M("negdbl"),
       F("assertf64", -5), N("ldi32", 5), N("ldi32", 5), Stmt("string", "asserteqi32", text, <<>>),
       D("lea", "text"), Str("assertsz", text),
       M("assert_empty_cs")>>),
   branches |-> Asm(0, 0,
     Taken("beq", <<N("ldi32", 1), N("ldi32", 2)>>, Two(2), 1)
       \o Taken("blteqzeroi32", <<N("ldi32", 1)>>, <<N("ldi32", 0)>>, 2)
       \o Taken("bgteqzeroi32", <<N("ldi32", -1)>>, <<N("ldi32", 0)>>, 3)
       \o Taken("bltzeroi32", <<N("ldi32", 0)>>, <<N("ldi32", -1)>>, 4)
       \o Taken("bzerodbl", <<F("lddbl", 1)>>, <<F("lddbl", 0)>>, 5)
       \o <<M("halt"), Lbl("bad"), M("cpysi32")>>),
   decoded |-> Asm(0, 0,
     <<Stmt("tree_data", "assert_deserialized_protobufish_message_equals_str",
            <<Root(<<Node(nA, <<Leaf(INT32, 5)>>)>>), "buf">>, <<>>)>>),
   absolute |-> Asm(0, 0, <<D("lea_absolute", "text"), N("asserti64", Base + Labels["text"])>>),
   throws |-> Asm(0, 0, <<M("noop"), M("setframe")>>),
   underflow |-> Asm(0, 0, <<M("addi32")>>),
   short |-> Asm(0, 0, <<N("ldi32", 1), M("addi64")>>),
   stray |-> Asm(0, 0, <<N("ldi64", 0), M("pushi64"), M("noop")>>),
   strayptr |-> Asm(0, 0, <<A("ldptr", 0)>>),
   strayreg |-> Asm(0, 0, <<Stmt("regmod", "pushi32", "SP", <<>>)>>),
   strayget |-> Asm(0, 0, <<R("pushi64", "FP"), Stmt("regmod", "popi32", "SP", <<>>)>>),
   pops |-> Asm(0, 0, <<R("pushi64", "FP"), R("pushi64", "FP"), M("popi64"), M("popi32"),
                        M("popi32")>>),
   outside |-> Asm(0, 0, <<N("ldi64", -1), M("ldsi64")>>)]

Programs == MessagePrograms @@ ControlPrograms @@ OpPrograms
            @@ [present |-> Asm(5, 0, <<WriteA, Rd(<<GetA, Handler>>)>>)]

StackSize == 96

MCImage == [k \in Selected |-> MachineOf(Programs[k], StackSize)]

VM == INSTANCE Oblectamenta WITH Image <- MCImage, MemBase <- Base, Transcend <- {0, 1}
Spec == VM!Spec

AllButPresent == DOMAIN Programs \ {"present"}
OnlyPresent == {"present"}

(***************************************************************************)
(* Properties.                                                             *)
(***************************************************************************)
Value(l, w) == Signed([i \in 1 .. w |-> mem[Labels[l] + i - 1]])
Behind(a) == [i \in 1 .. Cardinality(DOMAIN mem) - a |-> mem[a + i - 1]]
Halted(p) == status = "halted" /\ prog = p

\* Type invariant: bytes stay bytes on the stack and in the memory.
TypeOK == VM!TypeOK

\* Control reaches nothing but instructions.
ControlStaysOnInstructions == VM!ControlStaysOnInstructions

\* The swap instructions exchange what their names say.
SwapsExchange == VM!SwapsExchange

\* Branches and calls land on their labels.
BranchesHitTheirLabels == VM!BranchesHitTheirLabels

\* What a program leaves in its variables: out32, out64 and flag.
Result ==
  [minus |-> <<-1, -1, 0>>, plus |-> <<3, 300, 0>>, fromdata |-> <<5, 0, 0>>,
   float |-> <<0, 6, 0>>, missing |-> <<5, 0, 1>>, unordered |-> <<0, 0, 1>>,
   inner |-> <<0, 0, 1>>, all |-> <<11, 0, 0>>, empty |-> <<0, 0, 0>>,
   calls |-> <<2, 0, 0>>, haltimm |-> <<3, 0, 0>>]

\* The code generated for a message directive carries the values of a
\* message from its writer to its reader, whatever lies between them; a
\* reader whose message lacks a field, or holds it before one already read,
\* runs the error handler and keeps what it had read.
MessagesArrive ==
  (status = "halted" /\ prog \in DOMAIN Result) =>
    /\ <<Value("out32", I32), Value("out64", I64), Value("flag", I32)>> = Result[prog]
    /\ prog \in {"minus", "plus"} =>
         LET s == Behind(Value("outp", Addr)) IN SubSeq(s, 1, FindTrailingZero(s)) = text

\* The three implementations of the message format: the generated code writes
\* the bytes that the serializer of data sections writes. The deserializer
\* finds the tree in the bytes of the serializer exactly if no string has a
\* sibling behind it: it skips a string with the two quotes it has put around
\* it, so that the sibling is read two bytes late, as something else or as
\* nothing, which the loop over the children repeats for ever.
WrittenBy == [tree |-> Tree(7), siblings |-> Siblings(7)]
Leaves == {Leaf(INT32, 0), Leaf(INT32, 7), Leaf(SZ, <<>>), Leaf(SZ, text)}
UpToTwo(S) == {<<>>} \cup {<<x>> : x \in S} \cup (S \X S)
Trees == {Root(ks) : ks \in UpToTwo(Leaves \cup {Node(nA, ks) : ks \in UpToTwo(Leaves)})}
StringsAreLast(kids) == \A i \in DOMAIN kids : kids[i].what = SZ => i = Len(kids)
ReadAgain(t) == LET d == Deserialize(Serialize(t)) IN d.ends /\ d.tree = t

SerializersAgree ==
  (status = "halted" /\ prog \in DOMAIN WrittenBy) =>
    LET bytes == Serialize(WrittenBy[prog])
    IN  /\ SubSeq(Behind(Labels["buf"]), 1, Len(bytes)) = bytes
        /\ \A t \in Trees \cup {Tree(7)} :
             ReadAgain(t) <=> /\ StringsAreLast(t.kids)
                              /\ \A i \in DOMAIN t.kids : StringsAreLast(t.kids[i].kids)

\* A directive leaves the compute stack, the data stack and the frame pointer
\* as it found them, whether its fields are found, missing or out of order. A
\* pattern without any tag is the exception: the code that drops the state of
\* a match is only generated behind a tag.
StacksAreBalanced ==
  (status = "halted" /\ prog \in DOMAIN Result \ {"empty"}) =>
    cs = <<>> /\ file["SP"] = Cardinality(DOMAIN mem) /\ file["FP"] = 0

\* Writing a message changes its buffer and its frames on the data stack, and
\* nothing else: not the names in the static data the code compares with.
WritesStayInside ==
  [][\A x \in DOMAIN mem : mem'[x] # mem[x] =>
       \/ x \in Labels["out32"] .. Labels["msg"] - 1
       \/ x >= file'["SP"]]_mem

\* A machine that is saved to an AST after it halted or threw, anywhere,
\* and restored from it, into a memory of another size, has the same static
\* data, data stack and compute stack, and every label that has data behind it.
Cells2(f, n) == [i \in 1 .. n |-> f[i - 1]]
Restores(r, vm, size) ==
  /\ SubSeq(r.mem, 1, r.heap) = SubSeq(vm.mem, 1, vm.heap)
  /\ SubSeq(r.mem, r.sp + 1, size + 10) = SubSeq(vm.mem, vm.sp + 1, size)
  /\ r.cs = vm.cs
  /\ r.labels = vm.labels
Saved(vm, size) == Restores(Restore(Save(vm), size + 10), vm, size)
SnapshotsRestore ==
  status \in {"halted", "threw"} =>
  LET size == Cardinality(DOMAIN mem)
  IN  Saved([mem |-> Cells2(mem, size), heap |-> MCImage[prog].heap, labels |-> Labels,
             cs |-> cs, sp |-> file["SP"], registers |-> file], size)

\* Every program ends, and in the way its instructions and assertions say. The
\* exception is a pattern that searches a node where a leaf stands: the
\* generated code never gets past that leaf.
Ending(p) ==
  CASE p = "trap" -> {"fault", "halted"}
    [] p \in {"short", "stray", "strayptr", "strayreg", "strayget", "outside"} -> {"fault"}
    [] p \in {"throws", "underflow", "decoded"} -> {"threw"}
    [] OTHER -> {"halted"}
ProgramsEnd == IF prog = "leaf" THEN [](status = "running") ELSE <>(status \in Ending(prog))

\* The handler runs for fields that are not present, and only then.
HandlerOnlyForMissingFields == Halted("present") => Value("flag", I32) = 0
=============================================================================
