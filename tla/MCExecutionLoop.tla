-------------------------- MODULE MCExecutionLoop --------------------------
EXTENDS ExecutionLoop

\* A      1: Initial 2, idle 3, done 4; contains B
\* B      5: Initial 6, joined 7; multithreaded, contains T and U
\* T      8: Initial 9, Final 10                           (thread)
\* U     11: Initial 12, Final 13                          (thread)
\* L     14: Initial 15                                   (machine of K)
\* K     16: Initial 17, busy 18; covering concept that A and B shadow: its
\*           own states get the highest indices, those of L do not
MCMachines == {1, 5, 8, 11, 14, 16}
MCParent == <<0, 1, 1, 1, 1, 5, 5, 5, 8, 8, 5, 11, 11, 16, 14, 0, 16, 16>>
PerMachine(f) == [m \in MCMachines |-> f[m]]
MCInitial == PerMachine((1 :> 2) @@ (5 :> 6) @@ (8 :> 9) @@ (11 :> 12) @@ (14 :> 15) @@ (16 :> 17))
MCFinal == PerMachine((1 :> 0) @@ (5 :> 0) @@ (8 :> 10) @@ (11 :> 13) @@ (14 :> 0) @@ (16 :> 0))
MCJoin == PerMachine([m \in MCMachines |-> IF m = 5 THEN 7 ELSE 0])
MCThreads == {8, 11}
MCCover == {16}
MCShadowState == [s \in 1 .. 18 |-> IF s = 3 THEN 17 ELSE IF s = 5 THEN 14 ELSE IF s \in {4, 13} THEN 18 ELSE 0]

Tr(from, to, ev) == [from |-> from, to |-> to, ev |-> ev, guarded |-> FALSE, abstract |-> FALSE]
Abstract(from, to) == [Tr(from, to, 0) EXCEPT !.abstract = TRUE]
MCTransitions == <<
  Tr(2, 3, 0),                                      \*  1 A.Initial -> A.idle
  Tr(3, 5, 1),                                      \*  2 A.idle -> B        on 1
  Tr(3, 13, 2),                                     \*  3 A.idle -> U.Final  on 2
  Tr(3, 4, 3),                                      \*  4 A.idle -> A.done   on 3
  Tr(4, 3, 1),                                      \*  5 A.done -> A.idle   on 1
  Tr(5, 3, 3),                                      \*  6 B -> A.idle        on 3
  Tr(7, 3, 1),                                      \*  7 B.joined -> A.idle on 1
  Tr(9, 10, 1),                                     \*  8 T.Initial -> T.Final on 1
  Tr(9, 4, 2),                                      \*  9 T.Initial -> A.done  on 2
  [Tr(12, 13, 0) EXCEPT !.guarded = TRUE],          \* 10 U.Initial -> U.Final, guarded
  Abstract(14, 17),                                 \* 11 K.L -> K.Initial
  Abstract(17, 14), Abstract(17, 18),               \* 12 K.Initial -> L, 13 K.Initial -> K.busy
  Abstract(18, 17) >>                               \* 14 K.busy -> K.Initial
MCShadowTransition == [t \in 1 .. 14 |-> IF t = 2 THEN 12 ELSE IF t \in {3, 4} THEN 13
                                         ELSE IF t = 5 THEN 14 ELSE IF t = 6 THEN 11 ELSE 0]
MCStarts == <<{1}>>
MCRestarts == {{1}, {5}}

-----------------------------------------------------------------------------
\* A machine with a machine inside.
\* A 1: Initial 2; B 3: Initial 4
NestMachines == {1, 3}
NestParent == <<0, 1, 1, 3>>
NestInitial == (1 :> 2) @@ (3 :> 4)
NestNone == [m \in NestMachines |-> 0]
NestShadowState == [s \in 1 .. 4 |-> 0]
NestTransitions == << Tr(2, 3, 1) >>
NestShadowTransition == << 0 >>

-----------------------------------------------------------------------------
\* An implementation next to an independent machine, and their concept.
\* M 1: Initial 2, q 3;  I 4: Initial 5, a 6, b 7;  K 8: Initial 9, a 10, b 11
ConceptMachines == {1, 4, 8}
ConceptParent == <<0, 1, 1, 0, 4, 4, 4, 0, 8, 8, 8>>
ConceptInitial == (1 :> 2) @@ (4 :> 5) @@ (8 :> 9)
ConceptNone == [m \in ConceptMachines |-> 0]
ConceptShadowState == [s \in 1 .. 11 |-> IF s = 6 THEN 10 ELSE IF s = 7 THEN 11 ELSE 0]
ConceptTransitions == <<
  Tr(2, 3, 1),                                      \* 1 M.Initial -> M.q   on 1
  Tr(5, 6, 0),                                      \* 2 I.Initial -> I.a
  Tr(6, 7, 1),                                      \* 3 I.a -> I.b         on 1
  Tr(7, 6, 2),                                      \* 4 I.b -> I.a         on 2
  [Tr(10, 11, 0) EXCEPT !.abstract = TRUE],         \* 5 K.a -> K.b
  [Tr(11, 10, 0) EXCEPT !.abstract = TRUE] >>       \* 6 K.b -> K.a
ConceptShadowTransition == <<0, 0, 5, 6, 0, 0>>
ConceptStarts == <<{1, 4}>>
=============================================================================
