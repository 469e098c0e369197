----------------------------- MODULE MCPrograms -----------------------------
(* Programs for model checking the construction of state machines.         *)
EXTENDS Naturals, Sequences

Def(n, ss, ts) ==
    [name |-> n, states |-> ss \union {"Initial"}, trans |-> ts, subs |-> <<>>,
     threads |-> <<>>, imports |-> <<>>, join |-> <<>>, implements |-> <<>>,
     extends |-> <<>>, concept |-> FALSE, abstract |-> FALSE, cover |-> FALSE,
     labels |-> {"e"}]
\* Transitions without label (Go) and on event e (On) between qualified ids.
Go(f, t) == [from |-> f, to |-> t, labels |-> {}]
On(f, t) == [from |-> f, to |-> t, labels |-> {"e"}]
Inst(n, b, as) == [name |-> n, base |-> b, args |-> as]

Leaf == Def("L", {"a", "Final"}, <<Go(<<"Initial">>, <<"a">>), On(<<"a">>, <<"Final">>)>>)
Nested == [Def("N", {"b"}, <<Go(<<"Initial">>, <<"L">>), On(<<"L">>, <<"K">>), Go(<<"K", "a">>, <<"b">>)>>)
             EXCEPT !.subs = <<[Leaf EXCEPT !.name = "K"], Leaf>>, !.cover = TRUE]
Threaded == [Def("R", {"j"}, <<Go(<<"Initial">>, <<"H">>), Go(<<"H">>, <<"j">>)>>)
               EXCEPT !.threads = <<[Leaf EXCEPT !.name = "H"], [Leaf EXCEPT !.name = "H2"]>>,
                      !.join = <<"j">>]
\* Imports of imports, transitions from and into them, a duplicate import.
Mid == [Def("M", {"m"}, <<Go(<<"Initial">>, <<"N">>), On(<<"N">>, <<"m">>)>>) EXCEPT !.imports = <<"N", "N">>]
Main == [Def("P", {"x"}, <<Go(<<"Initial">>, <<"M">>), On(<<"M", "N", "b">>, <<"x">>),
                           Go(<<"x">>, <<"M", "N">>), On(<<"R", "j">>, <<"x">>)>>)
           EXCEPT !.imports = <<"M", "R">>, !.join = <<"M", "m">>]
\* Names that are not defined.
Wrong == [Def("W", {"w"}, <<>>) EXCEPT !.imports = <<"Nowhere">>]
Lost == Def("W", {"w"}, <<Go(<<"w">>, <<"v">>)>>)
LostPath == Def("W", {"w"}, <<Go(<<"w">>, <<"L", "v">>)>>)
LostJoin == [Def("W", {"w"}, <<>>) EXCEPT !.join = <<"v">>]
LostJoinPath == [Def("W", {"w"}, <<>>) EXCEPT !.join = <<"L", "v">>]
BadLabel == [Def("W", {"w"}, <<On(<<"Initial">>, <<"w">>)>>) EXCEPT !.labels = {}]
\* Concepts, their implementations, refinements and extensions.
Concept == [Def("C", {"s", "t"}, <<Go(<<"Initial">>, <<"s">>), Go(<<"s">>, <<"t">>),
                                   On(<<"t">>, <<"s">>), Go(<<"t">>, <<"K">>)>>)
              EXCEPT !.concept = TRUE, !.subs = <<[Leaf EXCEPT !.name = "K"]>>]
Concept2 == [Def("C2", {"u"}, <<Go(<<"s">>, <<"u">>)>>) EXCEPT !.concept = TRUE, !.implements = <<"C">>]
Impl(n, cs) == [Def(n, {"z"}, <<Go(<<"s">>, <<"z">>)>>) EXCEPT !.implements = cs]
Refine(n) == [Impl(n, <<"C">>) EXCEPT !.subs = <<Def("t", {"t1"}, <<Go(<<"Initial">>, <<"t1">>)>>)>>]
Ext == [Def("X", {"y"}, <<Go(<<"y">>, <<"a">>)>>) EXCEPT !.extends = <<"L", "R">>]
Both == [Def("B", {"y"}, <<Go(<<"y">>, <<"a">>)>>) EXCEPT !.implements = <<"C">>, !.extends = <<"L">>]
\* A machine inside that names a state of the outer one.
Escaping == [Def("Z", {"o"}, <<Go(<<"Initial">>, <<"V">>)>>)
               EXCEPT !.subs = <<Def("V", {"v"}, <<Go(<<"v">>, <<"o">>)>>)>>]
EscapingMain == [Def("P", {"x"}, <<Go(<<"Initial">>, <<"Z">>)>>) EXCEPT !.imports = <<"Z">>]

Instances == <<Inst("i1", "P", <<>>), Inst("i2", "L", <<Inst("a", "N", <<Inst("b", "L", <<>>)>>)>>)>>

InAnyOrder(s) ==
    {[i \in DOMAIN s |-> s[f[i]]] :
       f \in {g \in [DOMAIN s -> DOMAIN s] : \A i, j \in DOMAIN s : i # j => g[i] # g[j]}}
Sound(ds, is) == [defs |-> ds, insts |-> is, sound |-> TRUE]
Unsound(ds) == [defs |-> ds, insts |-> <<>>, sound |-> FALSE]

MCPrograms ==
    {Sound(d \o <<Threaded, Leaf>>, Instances) : d \in InAnyOrder(<<Nested, Mid, Main>>)}
    \union {Sound(<<Leaf, Threaded, Concept>> \o d, <<>>) : d \in InAnyOrder(<<Impl("I1", <<"C">>), Concept2, Ext>>)}
    \union {Sound(<<Concept, Concept2, Impl("I1", <<"C2">>), Impl("I2", <<"C2">>), Impl("I3", <<"C">>)>>, <<>>)}
    \union {Unsound(d) : d \in InAnyOrder(<<Leaf, Wrong>>) \union InAnyOrder(<<Leaf, LostPath>>)
                               \union {<<Lost>>, <<LostJoin>>, <<LostJoinPath>>, <<BadLabel>>}}
    \union {Unsound(<<Leaf, Threaded, Concept>> \o d) : d \in InAnyOrder(<<Refine("I1"), Both>>)}
    \union {Unsound(<<Mid, [Impl("I1", <<"M">>) EXCEPT !.trans = <<>>]>>)}
    \union {Unsound(d) : d \in InAnyOrder(<<Escaping, EscapingMain>>)}
=============================================================================
