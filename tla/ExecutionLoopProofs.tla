------------------------ MODULE ExecutionLoopProofs ------------------------
(***************************************************************************)
(* Proofs about ExecutionLoop, for every forest of state machines.         *)
(***************************************************************************)
EXTENDS ExecutionLoop, TLAPS, FiniteSetTheorems, NaturalsInduction, WellFoundedInduction

-----------------------------------------------------------------------------
(* Finite sets of numbers                                                  *)

\* Every set of naturals has a least member (the order is well founded).
LEMMA NatHasLeast ==
  ASSUME NEW S \in SUBSET Nat, S # {}
  PROVE  \E m \in S : \A k \in S : m <= k
<1> DEFINE R == OpToRel(<, Nat)
<1>1. IsWellFoundedOn(R, Nat)
  BY NatLessThanWellFounded
<1>2. \A x, y \in Nat : y < x => <<y, x>> \in R
  BY DEF OpToRel
<1> HIDE DEF R
<1>3. PICK m \in S : \A k \in S : ~(<<k, m>> \in R)
  BY <1>1, WFMin
<1>4. \A k \in S : ~(k < m)
  BY <1>2, <1>3
<1> QED
  BY <1>3, <1>4

\* What Max returns.
LEMMA MaxIsGreatest ==
  ASSUME NEW n \in Nat, NEW S \in SUBSET (1 .. n), S # {}
  PROVE  Max(S) \in S /\ \A k \in S : k <= Max(S)
<1> DEFINE D == {n - k : k \in S}
<1>1. D \in SUBSET Nat /\ D # {}
  <2>1. \A k \in S : n - k \in Nat
    OBVIOUS
  <2> QED
    BY <2>1
<1>2. PICK d \in D : \A e \in D : d <= e
  BY <1>1, NatHasLeast
<1>3. PICK m \in S : d = n - m
  BY <1>2
<1>4. \A k \in S : k <= m
  BY <1>2, <1>3
<1>5. \E x \in S : \A y \in S : x >= y
  BY <1>3, <1>4
<1> QED
  BY <1>5 DEF Max

-----------------------------------------------------------------------------
(* The forest of machines                                                  *)

LEMMA ForestFacts ==
  /\ NStates \in Nat /\ NStates >= 1 /\ Machines \subseteq States /\ 0 \notin States
  /\ \A s \in States : Parent[s] \in Machines \cup {0}
  /\ \A s \in States : s \notin Ancestors[s]
BY ForestAssumption DEF States

\* The machines around a state are closed under Parent ...
LEMMA AncestorsAreClosed ==
  ASSUME NEW s \in States
  PROVE  /\ Ancestors[s] \in ClosedAbove(s)
         /\ \A C \in ClosedAbove(s) : Ancestors[s] \subseteq C
<1>1. Ancestors[s] = {m \in Machines : \A C \in ClosedAbove(s) : m \in C}
  BY DEF Ancestors
<1>2. ASSUME NEW x \in Ancestors[s] \cup {s}
      PROVE  Parent[x] \in Ancestors[s] \cup {0}
  <2>1. x \in States /\ Parent[x] \in Machines \cup {0}
    BY <1>1, ForestFacts
  <2>2. \A C \in ClosedAbove(s) : x \in C \cup {s}
    BY <1>1
  <2>3. \A C \in ClosedAbove(s) : Parent[x] \in C \cup {0}
    BY <2>2 DEF ClosedAbove
  <2> QED
    BY <1>1, <2>1, <2>3
<1>3. Ancestors[s] \in SUBSET Machines
  BY <1>1
<1> QED
  BY <1>1, <1>2, <1>3 DEF ClosedAbove

\* ... and are the parent and the machines around the parent.
LEMMA AncestorsUnfold ==
  ASSUME NEW s \in States
  PROVE  /\ Ancestors[s] \subseteq Machines
         /\ Parent[s] = 0 => Ancestors[s] = {}
         /\ Parent[s] # 0 => /\ Parent[s] \in Machines /\ Parent[s] \in States
                             /\ Ancestors[s] = {Parent[s]} \cup Ancestors[Parent[s]]
<1>1. Ancestors[s] \subseteq Machines /\ \A x \in Ancestors[s] \cup {s} : Parent[x] \in Ancestors[s] \cup {0}
  BY AncestorsAreClosed DEF ClosedAbove
<1>2. ASSUME Parent[s] = 0 PROVE Ancestors[s] = {}
  <2>1. {} \in ClosedAbove(s)
    BY <1>2 DEF ClosedAbove
  <2> QED
    BY <2>1, AncestorsAreClosed
<1>3. ASSUME Parent[s] # 0
      PROVE  /\ Parent[s] \in Machines /\ Parent[s] \in States
             /\ Ancestors[s] = {Parent[s]} \cup Ancestors[Parent[s]]
  <2> DEFINE p == Parent[s]
  <2>1. p \in Machines /\ p \in States /\ p \in Ancestors[s]
    BY <1>1, <1>3, ForestFacts
  <2>2. /\ Ancestors[p] \subseteq Machines
        /\ \A x \in Ancestors[p] \cup {p} : Parent[x] \in Ancestors[p] \cup {0}
    BY <2>1, AncestorsAreClosed DEF ClosedAbove
  <2>3. {p} \cup Ancestors[p] \in ClosedAbove(s)
    BY <2>1, <2>2 DEF ClosedAbove
  <2>4. Ancestors[s] \in ClosedAbove(p)
    BY <1>1, <2>1 DEF ClosedAbove
  <2> QED
    BY <2>1, <2>3, <2>4, AncestorsAreClosed
<1> QED
  BY <1>1, <1>2, <1>3

LEMMA AncestorsAreTransitive ==
  ASSUME NEW s \in States, NEW b \in Ancestors[s]
  PROVE  b \in States /\ Ancestors[b] \subseteq Ancestors[s]
<1>1. Ancestors[s] \subseteq Machines /\ \A x \in Ancestors[s] \cup {s} : Parent[x] \in Ancestors[s] \cup {0}
  BY AncestorsAreClosed DEF ClosedAbove
<1>2. b \in States /\ Ancestors[s] \in ClosedAbove(b)
  BY <1>1, ForestFacts DEF ClosedAbove
<1> QED
  BY <1>2, AncestorsAreClosed

\* The machines around a state form a chain.
LEMMA AncestorsAreChained ==
  ASSUME NEW s \in States, NEW a \in Ancestors[s], NEW b \in Ancestors[s]
  PROVE  a = b \/ a \in Ancestors[b] \/ b \in Ancestors[a]
<1> DEFINE C == {x \in Ancestors[s] : a = x \/ a \in Ancestors[x] \/ x \in Ancestors[a]}
<1>1. Ancestors[s] \subseteq Machines /\ a \in States /\ Machines \subseteq States
  BY AncestorsUnfold, ForestFacts
<1>2. ASSUME NEW x \in C \cup {s}
      PROVE  Parent[x] \in C \cup {0}
  <2> SUFFICES ASSUME Parent[x] # 0 PROVE Parent[x] \in C
    OBVIOUS
  <2> DEFINE q == Parent[x]
  <2>1. x \in States /\ q \in Ancestors[s]
    BY <1>1, AncestorsAreClosed DEF ClosedAbove
  <2>2. q \in States /\ Ancestors[x] = {q} \cup Ancestors[q]
    BY <2>1, AncestorsUnfold
  <2>3. CASE a \in Ancestors[x]
    BY <2>1, <2>2, <2>3
  <2>4. CASE x = a
    BY <2>1, <2>2, <2>4
  <2>5. CASE x \in Ancestors[a]
    <3>1. Ancestors[x] \subseteq Ancestors[a]
      BY <1>1, <2>5, AncestorsAreTransitive
    <3> QED
      BY <2>1, <2>2, <3>1
  <2> QED
    BY <2>3, <2>4, <2>5
<1>3. C \in ClosedAbove(s)
  BY <1>1, <1>2 DEF ClosedAbove
<1> QED
  BY <1>3, AncestorsAreClosed

-----------------------------------------------------------------------------
(* Types                                                                   *)

LEMMA TransFacts ==
  /\ Len(Transitions) \in Nat /\ TransIdx = 1 .. Len(Transitions)
  /\ \A t \in TransIdx : /\ Transitions[t].from \in States /\ Transitions[t].to \in States
                         /\ Transitions[t].guarded \in BOOLEAN
  /\ MaxActive \in Nat /\ MaxActive >= Len(Transitions)
<1> DEFINE R == [from : States, to : States, ev : Nat, guarded : BOOLEAN, abstract : BOOLEAN]
<1>1. Transitions \in Seq(R) /\ MaxActive \in Nat /\ MaxActive >= Len(Transitions)
  BY TransitionAssumption
<1>2. \A r \in R : r.from \in States /\ r.to \in States /\ r.guarded \in BOOLEAN
  OBVIOUS
<1> HIDE DEF R
<1>3. Len(Transitions) \in Nat /\ TransIdx = 1 .. Len(Transitions)
      /\ \A t \in TransIdx : Transitions[t] \in R
  BY <1>1 DEF TransIdx
<1> QED
  BY <1>1, <1>2, <1>3

\* The n-th transition of a set exists.
LEMMA NthIsMember ==
  ASSUME NEW T \in SUBSET TransIdx, NEW n \in Nat, 1 <= n, n <= Cardinality(T)
  PROVE  Nth(T, n) \in T
<1> DEFINE UpTo(t) == {u \in T : u <= t}
           Rank(t) == Cardinality(UpTo(t))
           Big == {t \in T : Rank(t) >= n}
<1>1. PICK k \in Nat : TransIdx = 1 .. k
  BY TransFacts
<1>2. IsFiniteSet(T) /\ \A t \in T : IsFiniteSet(UpTo(t)) /\ Rank(t) \in Nat
  <2>1. IsFiniteSet(1 .. k)
    BY FS_Interval
  <2>2. IsFiniteSet(T)
    BY <1>1, <2>1, FS_Subset
  <2>3. \A t \in T : UpTo(t) \in SUBSET T
    OBVIOUS
  <2> QED
    BY <2>2, <2>3, FS_Subset, FS_CardinalityType
<1>3. T # {}
  BY FS_EmptySet
<1>4. Max(T) \in T /\ \A u \in T : u <= Max(T)
  BY <1>1, <1>3, MaxIsGreatest
<1>5. Max(T) \in Big
  <2>1. UpTo(Max(T)) = T
    BY <1>4
  <2> QED
    BY <1>4, <2>1
<1>6. PICK t \in Big : \A u \in Big : t <= u
  <2>1. Big \subseteq T /\ T \subseteq Nat
    BY <1>1
  <2> QED
    BY <1>5, <2>1, NatHasLeast
<1>7. Rank(t) = n
  <2> DEFINE Less == UpTo(t) \ {t}
  <2>1. t \in T /\ t \in UpTo(t) /\ T \subseteq Nat /\ Rank(t) >= n /\ Rank(t) \in Nat
    <3>1. t \in T /\ Rank(t) >= n
      OBVIOUS
    <3>2. T \subseteq Nat
      BY <1>1
    <3>3. t \in UpTo(t)
      BY <3>1, <3>2
    <3> QED
      BY <1>2, <3>1, <3>2, <3>3
  <2>2. IsFiniteSet(Less) /\ Cardinality(Less) = Rank(t) - 1
    BY <1>2, <2>1, FS_RemoveElement
  <2>3. CASE Less = {}
    <3>1. Cardinality(Less) = 0
      BY <2>3, FS_EmptySet
    <3> QED
      BY <2>1, <2>2, <3>1
  <2>4. CASE Less # {}
    <3> DEFINE m == Max(Less)
    <3>1. m \in Less /\ \A u \in Less : u <= m
      BY <1>1, <2>4, MaxIsGreatest
    <3> HIDE DEF m
    <3>2. UpTo(m) = Less
      <4>1. \A u \in T : u \in Less => u <= m
        BY <3>1
      <4>2. \A u \in T : u <= m => u \in Less
        BY <2>1, <3>1
      <4> QED
        BY <3>1, <4>1, <4>2
    <3>3. m \in T /\ m < t
      BY <1>1, <3>1
    <3>4. m \notin Big
      BY <1>1, <1>6, <2>1, <3>3
    <3>5. Rank(m) < n /\ Rank(m) = Rank(t) - 1
      BY <1>2, <2>2, <3>2, <3>3, <3>4
    <3> QED
      BY <1>2, <1>6, <2>1, <3>5
  <2> QED
    BY <2>3, <2>4
<1> QED
  BY <1>7 DEF Nth

LEMMA MachineFacts ==
  ASSUME NEW m \in Machines
  PROVE  /\ m \in States
         /\ InitialState[m] \in (Children(m) \ Machines) \cup {0}
         /\ FinalState[m] \in States \cup {0} /\ JoinState[m] \in States \cup {0}
         /\ Threads(m) \subseteq Machines
<1>1. ThreadMachines \subseteq Machines /\ m \in States
  BY MachineAssumption, ForestFacts
<1>2. InitialState[m] \in (Children(m) \ Machines) \cup {0}
  BY MachineAssumption
<1>3. FinalState \in [Machines -> States \cup {0}] /\ JoinState \in [Machines -> States \cup {0}]
  BY MachineAssumption
<1> QED
  BY <1>1, <1>2, <1>3 DEF Threads

LEMMA InitialsFacts ==
  ASSUME NEW C \in SUBSET Machines
  PROVE  /\ InitialsOf(C) \subseteq States \ Machines
         /\ \A s \in InitialsOf(C) : Parent[s] \in C
         /\ \A m \in C : InitialState[m] # 0 => InitialState[m] \in InitialsOf(C)
BY MachineFacts DEF InitialsOf, Children

LEMMA OpenedAreMachines ==
  ASSUME NEW s \in States
  PROVE  Opened(s) \subseteq Machines
<1>1. Unentered(s) \subseteq Machines
  BY AncestorsUnfold DEF Unentered
<1> QED
  BY <1>1, MachineFacts DEF Opened

\* The slots stay references to transitions with a shadow.
LEMMA SlotsAreTyped ==
  ASSUME slots \in [1 .. MaxActive -> 0 .. Len(Transitions)], NEW T \in SUBSET TransIdx
  PROVE  SlotsWith(T) \in [1 .. MaxActive -> 0 .. Len(Transitions)]
<1>1. IsFiniteSet(T) /\ Cardinality(T) \in Nat
  <2>1. IsFiniteSet(TransIdx)
    BY TransFacts, FS_Interval
  <2> QED
    BY <2>1, FS_Subset, FS_CardinalityType
<1>2. \A n \in 1 .. MaxActive : ~(n > Cardinality(T)) => Nth(T, n) \in 0 .. Len(Transitions)
  <2> SUFFICES ASSUME NEW n \in 1 .. MaxActive, ~(n > Cardinality(T))
               PROVE  Nth(T, n) \in 0 .. Len(Transitions)
    OBVIOUS
  <2>1. n \in Nat /\ 1 <= n /\ n <= Cardinality(T)
    BY <1>1, TransFacts
  <2>2. Nth(T, n) \in T
    BY <2>1, NthIsMember
  <2>3. Nth(T, n) \in TransIdx
    BY <2>2
  <2> QED
    BY <2>3, TransFacts
<1> QED
  BY <1>2, TransFacts DEF SlotsWith

\* Some state of a set has no machine of the set around it: one with the
\* fewest machines around it.
LEMMA OutermostIsMember ==
  ASSUME NEW C \in SUBSET States, C # {}
  PROVE  Outermost(C) \in C /\ C \cap Ancestors[Outermost(C)] = {}
<1> DEFINE Depth(s) == Cardinality(Ancestors[s])
           D == {Depth(s) : s \in C}
<1>1. \A s \in States : IsFiniteSet(Ancestors[s]) /\ Depth(s) \in Nat
  <2>1. IsFiniteSet(States)
    BY ForestFacts, FS_Interval DEF States
  <2>2. \A s \in States : Ancestors[s] \in SUBSET States
    BY AncestorsUnfold, ForestFacts
  <2> QED
    BY <2>1, <2>2, FS_Subset, FS_CardinalityType
<1>2. D \in SUBSET Nat /\ D # {}
  BY <1>1
<1>3. PICK d \in D : \A e \in D : d <= e
  BY <1>2, NatHasLeast
<1>4. PICK a \in C : Depth(a) = d
  BY <1>3
<1>5. ASSUME NEW b \in C \cap Ancestors[a] PROVE FALSE
  <2>1. Ancestors[b] \in SUBSET Ancestors[a] /\ b \notin Ancestors[b]
    BY AncestorsAreTransitive, ForestFacts
  <2>2. Depth(b) <= Depth(a) /\ Depth(b) # Depth(a)
    BY <1>1, <2>1, FS_Subset
  <2>3. Depth(a) <= Depth(b)
    BY <1>3, <1>4
  <2> QED
    BY <1>1, <2>2, <2>3
<1> QED
  BY <1>4, <1>5 DEF Outermost

LEMMA EffectsAreTyped ==
  ASSUME TypeOK, Effects
  PROVE  holds' \subseteq Guarded /\ sync' \in Seq(SyncEvents) /\ Len(sync') <= SyncCap
<1>1. holds' \subseteq Guarded
  BY DEF Effects
<1>2. PICK q \in {<<>>} \cup {<<e>> : e \in SyncEvents} :
        sync' = IF Len(sync \o q) > SyncCap THEN Tail(sync \o q) ELSE sync \o q
  BY DEF Effects
<1>3. q \in Seq(SyncEvents) /\ Len(q) <= 1
  <2>1. CASE q = <<>>
    BY <2>1
  <2>2. ASSUME NEW e \in SyncEvents, q = <<e>>
        PROVE  q \in Seq(SyncEvents) /\ Len(q) <= 1
    BY <2>2
  <2> QED
    BY <2>1, <2>2
<1> DEFINE c == sync \o q
<1>4. SyncCap \in Nat /\ SyncCap >= 1
  BY TransitionAssumption
<1>5. c \in Seq(SyncEvents) /\ Len(c) = Len(sync) + Len(q) /\ Len(sync) \in Nat /\ Len(q) \in Nat
  BY <1>3 DEF TypeOK
<1>6. Len(c) <= SyncCap + 1
  BY <1>3, <1>4, <1>5 DEF TypeOK
<1> HIDE DEF c
<1>7. CASE Len(c) > SyncCap
  <2>1. c # <<>> /\ sync' = Tail(c)
    BY <1>2, <1>4, <1>5, <1>7 DEF c
  <2>2. Tail(c) \in Seq(SyncEvents) /\ Len(Tail(c)) = Len(c) - 1
    BY <1>5, <2>1
  <2> QED
    BY <1>1, <1>4, <1>5, <1>6, <2>1, <2>2
<1>8. CASE ~(Len(c) > SyncCap)
  <2>1. sync' = c /\ Len(c) \in Nat
    BY <1>2, <1>5, <1>8 DEF c
  <2> QED
    BY <1>1, <1>4, <1>5, <1>8, <2>1
<1> QED
  BY <1>7, <1>8

LEMMA JoinedAreStates ==
  ASSUME NEW S \in SUBSET States, NEW arrived, NEW J, J = Joined(S, arrived)
  PROVE  AfterJoin(S, J) \in SUBSET States
<1>1. \A m \in J : m \in Machines /\ JoinState[m] # 0
  BY DEF Joined
<1>2. \A m \in J : JoinState[m] \in States
  BY <1>1, MachineFacts
<1> QED
  BY <1>2 DEF AfterJoin

\* An iteration up to the completion loops.
LEMMA ProcessIsTyped ==
  ASSUME TypeOK, pc = "loop", NEW evId, NEW evRead, NEW ev \in Event, Process(evId, evRead, ev)
  PROVE  /\ pc' \in {"loop", "enter", "call", "final"}
         /\ i' \in 1 .. NStates + 1 /\ round' \in 0 .. 2
         /\ temp' \subseteq States /\ visited' \subseteq States
         /\ slots' \in [1 .. MaxActive -> 0 .. Len(Transitions)]
         /\ epsilon' \in BOOLEAN /\ curEv' \in Event
         /\ UNCHANGED <<current, entering, exiting, pos, holds, running>>
<1> DEFINE T == TriggeredBy(evId)
<1>1. T \in SUBSET TransIdx
  BY DEF TriggeredBy, OutOf
<1> HIDE DEF T
<1>2. slots \in [1 .. MaxActive -> 0 .. Len(Transitions)]
  BY DEF TypeOK
<1>3. SlotsWith(T) \in [1 .. MaxActive -> 0 .. Len(Transitions)]
  BY <1>1, <1>2, SlotsAreTyped
<1>4. curEv' = ev /\ UNCHANGED <<current, entering, exiting, pos, holds, running>>
  BY DEF Process
<1>5. CASE NothingTriggered(ev)
  BY <1>4, <1>5 DEF NothingTriggered, TypeOK
<1>6. CASE Transit(T)
  <2> DEFINE sl == SlotsWith(T)
             shadows == TriggeredShadows(sl)
             moved == ShadowMoved(Moved(current, T), shadows)
             arrived == {Transitions[t].to : t \in T \cup Range(shadows)}
                          \cup UNION {ShadowsEntered(t) : t \in T}
             J == Joined(moved, arrived)
  <2>1. temp' = AfterJoin(moved, J) /\ slots' = sl /\ round' = 0 /\ i' = 1 /\ epsilon' = TRUE
        /\ pc' \in {"enter", "call"} /\ visited' \in {{}, visited}
    BY <1>6 DEF Transit
  <2>2. moved \in SUBSET States
    BY DEF ShadowMoved
  <2>3. temp' \in SUBSET States
    BY <2>1, <2>2, JoinedAreStates
  <2> QED
    BY <1>3, <1>4, <2>1, <2>3, ForestFacts DEF TypeOK
<1>7. CASE TakeOut(T, ev.machines)
  BY <1>3, <1>4, <1>7, ForestFacts DEF TakeOut, TypeOK
<1> QED
  BY <1>5, <1>6, <1>7 DEF Process, T

LEMMA CalledIsTyped ==
  ASSUME TypeOK, NEW out, NEW in
  PROVE  Called(out, in) \in [Machines -> Int]
BY DEF TypeOK, Called

LEMMA StartedAreStates ==
  ASSUME NEW ms \in SUBSET Machines
  PROVE  Started(ms) \subseteq States
<1>1. ASSUME NEW m \in Machines PROVE StartHull(m) \subseteq States
  <2> DEFINE open == {m} \cup {k \in ThreadMachines : m \in Ancestors[k] /\
                                 Ancestors[k] \cap Descendants(m) \subseteq ThreadMachines}
  <2>1. open \in SUBSET Machines
    BY MachineAssumption
  <2>2. InitialsOf(open) \subseteq States
    BY <2>1, InitialsFacts
  <2> QED
    BY <2>1, <2>2, ForestFacts DEF StartHull
<1> QED
  BY <1>1 DEF Started

LEMMA CompletionIsTyped ==
  ASSUME TypeOK,
         EnterState \/ SkipState \/ EndEnter \/ ExitMachine \/ KeepMachine \/ EndExit
  PROVE  TypeOK'
<1>1. i \in 1 .. NStates + 1 /\ NStates \in Nat
  BY ForestFacts DEF TypeOK
<1>2. UNCHANGED <<round, current, slots, epsilon, curEv, sync, pos, holds, quit, running>>
  BY DEF EnterState, SkipState, EndEnter, ExitMachine, KeepMachine, EndExit, Unchanged1
<1>3. ASSUME i' \in 1 .. NStates + 1, pc' \in {"enter", "exit", "call"}, temp' \subseteq States,
             visited' \subseteq States, entering' \subseteq Machines, exiting' \subseteq Machines
      PROVE  TypeOK'
  BY <1>2, <1>3 DEF TypeOK
<1>4. CASE EnterState
  <2>1. i \in States /\ i' = i + 1 /\ pc' = "enter"
    BY <1>1, <1>4 DEF EnterState, AtState, States
  <2>2. Opened(i) \in SUBSET Machines /\ Machines \subseteq States
    BY <2>1, OpenedAreMachines, ForestFacts
  <2>3. InitialsOf(Opened(i)) \subseteq States
    BY <2>2, InitialsFacts
  <2>4. Opened(i) # {} => Outermost(Opened(i)) \in Machines
    BY <2>2, OutermostIsMember
  <2>5. temp' \subseteq States /\ visited' \subseteq States /\ entering' \subseteq Machines
    BY <1>4, <2>1, <2>2, <2>3, <2>4 DEF EnterState, TypeOK
  <2>6. i' \in 1 .. NStates + 1 /\ exiting' \subseteq Machines
    BY <1>1, <1>4, <2>1 DEF EnterState, TypeOK, States
  <2> QED
    BY <1>3, <2>1, <2>5, <2>6
<1>5. CASE SkipState \/ EndEnter \/ EndExit
  <2>1. i' \in 1 .. NStates + 1 /\ pc' \in {"enter", "exit", "call"}
    BY <1>1, <1>5 DEF SkipState, EndEnter, EndExit, AtState
  <2>2. UNCHANGED <<temp, entering, exiting>> /\ visited' \in {{}, visited}
    BY <1>5 DEF SkipState, EndEnter, EndExit
  <2> QED
    BY <1>3, <2>1, <2>2 DEF TypeOK
<1>6. CASE ExitMachine
  <2>1. i \in Machines /\ i \in States /\ i' = i + 1 /\ pc' = "exit"
    BY <1>6, ForestFacts DEF ExitMachine, AtState
  <2>2. Emptied(i, temp \ (IF i \in temp THEN {i} ELSE Descendants(i))) \subseteq Machines
    BY <2>1, AncestorsUnfold DEF Emptied
  <2> DEFINE gone == IF i \in temp THEN {i} ELSE Descendants(i)
             up == Emptied(i, temp \ gone)
  <2>3. temp' = temp \ (gone \cup up) /\ visited' = visited \cup {i} \cup gone
        /\ exiting' = exiting \cup {Outermost({i} \cup up)} /\ entering' = entering
    BY <1>6 DEF ExitMachine
  <2>4. gone \subseteq States
    BY <2>1 DEF Descendants
  <2>5. Outermost({i} \cup up) \in Machines
    <3>1. {i} \cup up \in SUBSET States /\ {i} \cup up # {} /\ {i} \cup up \subseteq Machines
      BY <2>1, <2>2, ForestFacts
    <3> HIDE DEF up
    <3> QED
      BY <3>1, OutermostIsMember
  <2> HIDE DEF gone, up
  <2>6. temp' \subseteq States /\ visited' \subseteq States /\ exiting' \subseteq Machines
        /\ entering' \subseteq Machines
    BY <2>1, <2>3, <2>4, <2>5 DEF TypeOK
  <2>7. i' \in 1 .. NStates + 1
    BY <1>1, <1>6 DEF ExitMachine, AtState
  <2> QED
    BY <1>3, <2>1, <2>6, <2>7
<1>7. CASE KeepMachine
  <2>1. i' \in 1 .. NStates + 1 /\ pc' = "exit"
    BY <1>1, <1>7 DEF KeepMachine, AtState
  <2>2. UNCHANGED <<temp, entering, exiting>> /\ visited' = visited \cup ({i} \cap Machines)
    BY <1>7 DEF KeepMachine
  <2> QED
    BY <1>3, <2>1, <2>2, ForestFacts DEF TypeOK
<1> QED
  BY <1>4, <1>5, <1>6, <1>7

LEMMA CommitIsTyped ==
  ASSUME TypeOK, Commit \/ PutBack
  PROVE  TypeOK'
<1>1. holds' \subseteq Guarded /\ sync' \in Seq(SyncEvents) /\ Len(sync') <= SyncCap
  BY EffectsAreTyped DEF Commit, PutBack
<1>2. running' \in [Machines -> Int]
  BY CalledIsTyped DEF Commit, PutBack
<1>3. Machines \subseteq States /\ 1 \in 1 .. NStates + 1
  BY ForestFacts
<1>4. CASE Commit
  <2>1. visited' \subseteq States
    BY <1>3, <1>4 DEF Commit, VisitedAfterCalls, Flagged, Reached, TypeOK
  <2>2. current' = temp /\ pc' = "loop" /\ i' = 1 /\ entering' = {} /\ exiting' = {}
        /\ UNCHANGED <<round, temp, slots, epsilon, curEv, pos, quit>>
    BY <1>4 DEF Commit
  <2> QED
    BY <1>1, <1>2, <1>3, <2>1, <2>2 DEF TypeOK
<1>5. CASE PutBack
  <2>1. current' = temp /\ temp' = temp \cup curEv.machines /\ round' = 2 /\ pc' = "enter"
        /\ i' = 1 /\ visited' = {} /\ UNCHANGED <<entering, exiting, slots, epsilon, curEv, pos, quit>>
    BY <1>5 DEF PutBack
  <2>2. curEv.machines \subseteq Machines
    BY DEF TypeOK, Event
  <2> QED
    BY <1>1, <1>2, <1>3, <2>1, <2>2 DEF TypeOK
<1> QED
  BY <1>4, <1>5

\* Every iteration is Process for some event.
LEMMA IterationProcesses ==
  ASSUME TypeOK,
         \/ EpsilonStep \/ SyncStep \/ (\E e \in Events : FetchEvent(e)) \/ FetchExit \/ FetchError
         \/ \E ms \in Restarts : FetchRestart(ms)
  PROVE  \E evId, evRead, ev : ev \in Event /\ Process(evId, evRead, ev)
<1>1. curEv \in Event
  BY DEF TypeOK
<1>2. \A id \in {"other", "restart"}, err \in BOOLEAN, ms \in SUBSET Machines :
        [id |-> id, error |-> err, machines |-> ms] \in Event
  BY DEF Event
<1>3. CASE EpsilonStep
  <2>1. Process(0, FALSE, curEv)
    BY <1>3 DEF EpsilonStep
  <2> QED
    BY <1>1, <2>1, Zenon
<1>4. CASE SyncStep
  <2>1. Process(Head(sync), TRUE, curEv)
    BY <1>4 DEF SyncStep
  <2> QED
    BY <1>1, <2>1, Zenon
<1>5. CASE (\E e \in Events : FetchEvent(e)) \/ FetchExit \/ FetchError
  <2> DEFINE Ev(b) == [id |-> "other", error |-> b, machines |-> {}]
  <2>1. Ev(FALSE) \in Event /\ Ev(TRUE) \in Event
    BY <1>2
  <2>2. (\E e \in Events : Process(e, TRUE, Ev(FALSE))) \/ Process(ExitEv, TRUE, Ev(FALSE))
        \/ Process(ErrorEv, TRUE, Ev(TRUE))
    BY <1>5, Zenon DEF FetchEvent, FetchExit, FetchError
  <2> HIDE DEF Ev
  <2> QED
    BY <2>1, <2>2, Zenon
<1>6. ASSUME NEW ms \in Restarts, FetchRestart(ms)
      PROVE  \E evId, evRead, ev : ev \in Event /\ Process(evId, evRead, ev)
  <2> DEFINE r == [id |-> "restart", error |-> FALSE, machines |-> ms]
  <2>1. r \in Event
    BY <1>2, ProgramAssumption
  <2>2. Process(0, TRUE, r)
    BY <1>6, Zenon DEF FetchRestart
  <2> HIDE DEF r
  <2> QED
    BY <2>1, <2>2, Zenon
<1> QED
  BY <1>3, <1>4, <1>5, <1>6

\* The events run_simulation processes.
LEMMA IterationIsTyped ==
  ASSUME TypeOK,
         \/ EpsilonStep \/ SyncStep \/ (\E e \in Events : FetchEvent(e)) \/ FetchExit \/ FetchError
         \/ \E ms \in Restarts : FetchRestart(ms)
  PROVE  TypeOK'
<1>1. pc = "loop"
  BY DEF EpsilonStep, SyncStep, FetchEvent, FetchExit, FetchError, FetchRestart, Fetching, Looping
<1>2. PICK evId, evRead, ev : ev \in Event /\ Process(evId, evRead, ev)
  BY IterationProcesses
<1>3. sync' \in Seq(SyncEvents) /\ Len(sync') <= SyncCap
  <2>1. CASE sync # <<>> /\ sync' = Tail(sync)
    <3>1. sync \in Seq(SyncEvents) /\ Len(sync) <= SyncCap /\ SyncCap \in Nat
      BY TransitionAssumption DEF TypeOK
    <3>2. Tail(sync) \in Seq(SyncEvents) /\ Len(Tail(sync)) = Len(sync) - 1 /\ Len(sync) \in Nat
      BY <2>1, <3>1
    <3> QED
      BY <2>1, <3>1, <3>2
  <2>2. CASE sync' = sync
    BY <2>2 DEF TypeOK
  <2> QED
    BY <2>1, <2>2 DEF EpsilonStep, SyncStep, FetchEvent, FetchExit, FetchError, FetchRestart
<1>4. quit' \in BOOLEAN
  BY DEF EpsilonStep, SyncStep, FetchEvent, FetchExit, FetchError, FetchRestart, TypeOK
<1> QED
  BY <1>1, <1>2, <1>3, <1>4, ProcessIsTyped DEF TypeOK

LEMMA TypeStep == TypeOK /\ [Next]_vars => TypeOK'
<1> SUFFICES ASSUME TypeOK, [Next]_vars PROVE TypeOK'
  OBVIOUS
<1>1. CASE UNCHANGED vars
  BY <1>1 DEF vars, TypeOK
<1>2. CASE FetchAction \/ FetchSetState
  <2>1. UNCHANGED <<pc, i, round, current, temp, visited, entering, exiting, slots, pos, quit, running>>
    BY <1>2 DEF FetchAction, FetchSetState
  <2>2. curEv' \in Event
    BY <1>2 DEF FetchAction, FetchSetState, TypeOK, Event
  <2>3. holds' \subseteq Guarded /\ sync' \in Seq(SyncEvents) /\ Len(sync') <= SyncCap
    BY <1>2, EffectsAreTyped DEF FetchAction, FetchSetState, TypeOK
  <2>4. epsilon' \in BOOLEAN
    BY <1>2 DEF FetchAction, FetchSetState, TypeOK
  <2> QED
    BY <2>1, <2>2, <2>3, <2>4 DEF TypeOK
<1>3. CASE FetchStart
  <2>1. UNCHANGED <<pc, i, round, temp, visited, entering, exiting, slots, quit>>
        /\ epsilon' = TRUE /\ pos' = pos + 1 /\ pos <= Len(Starts)
        /\ current' = current \cup Started(Starts[pos])
    BY <1>3 DEF FetchStart
  <2>2. curEv' \in Event
    BY <1>3 DEF FetchStart, TypeOK, Event
  <2>3. holds' \subseteq Guarded /\ sync' \in Seq(SyncEvents) /\ Len(sync') <= SyncCap
    BY <1>3, EffectsAreTyped DEF FetchStart
  <2>4. running' \in [Machines -> Int]
    BY <1>3, CalledIsTyped DEF FetchStart
  <2>5. Starts[pos] \in SUBSET Machines /\ pos' \in 1 .. Len(Starts) + 1
    BY <2>1, ProgramAssumption DEF TypeOK
  <2>6. current' \subseteq States
    BY <2>1, <2>5, StartedAreStates DEF TypeOK
  <2> QED
    BY <2>1, <2>2, <2>3, <2>4, <2>5, <2>6 DEF TypeOK
<1>4. CASE LeaveLoop
  BY <1>4 DEF LeaveLoop, TypeOK
<1>5. CASE FinalExits
  <2>1. visited' \subseteq States
    BY <1>5, ForestFacts DEF FinalExits, Flagged, Reached, TypeOK
  <2>2. running' \in [Machines -> Int]
    BY <1>5, CalledIsTyped DEF FinalExits
  <2> QED
    BY <1>5, <2>1, <2>2 DEF FinalExits, TypeOK
<1> QED
  BY <1>1, <1>2, <1>3, <1>4, <1>5, CompletionIsTyped, CommitIsTyped, IterationIsTyped DEF Next

LEMMA InitIsTyped == Init => TypeOK
<1> SUFFICES ASSUME Init PROVE TypeOK
  OBVIOUS
<1>1. i \in 1 .. NStates + 1 /\ round \in 0 .. 2 /\ running \in [Machines -> Int]
  BY ForestFacts DEF Init
<1>2. slots \in [1 .. MaxActive -> 0 .. Len(Transitions)]
  BY TransFacts DEF Init
<1>3. curEv \in Event /\ epsilon \in BOOLEAN /\ quit \in BOOLEAN
  BY DEF Init, Event
<1>4. temp \subseteq States /\ current \subseteq States /\ visited \subseteq States
  BY MachineAssumption, ForestFacts DEF Init
<1>5. sync \in Seq(SyncEvents) /\ Len(sync) <= SyncCap
  BY TransitionAssumption DEF Init
<1>6. pos \in 1 .. Len(Starts) + 1 /\ holds \subseteq Guarded
  BY ProgramAssumption DEF Init
<1>7. pc \in {"loop", "enter"} /\ entering = {} /\ exiting = {}
  BY DEF Init
<1> QED
  BY <1>1, <1>2, <1>3, <1>4, <1>5, <1>6, <1>7 DEF TypeOK

\* The loop's tables and flags keep their types for every forest of machines,
\* transition table and sequence of events: no iteration activates a state
\* that does not exist, and the synchronous queue never holds more than its
\* capacity.
THEOREM LoopIsTyped == Spec => []TypeOK
BY InitIsTyped, TypeStep, PTL DEF Spec

-----------------------------------------------------------------------------
(* Epsilon transitions come first                                          *)

\* An unguarded epsilon transition is triggered by the active states alone;
\* an iteration that moves states sets the phase back.
EpsilonInv ==
  /\ TypeOK
  /\ pc \in {"enter", "exit", "call"} => epsilon
  /\ EpsilonComesFirst

\* The unguarded transitions an event triggers do not depend on the guards.
LEMMA UnguardedNeedNoGuard ==
  ASSUME TriggeredBy(0) \subseteq Guarded, current' = current
  PROVE  TriggeredBy(0)' \subseteq Guarded
<1> SUFFICES ASSUME NEW t \in TriggeredBy(0)', t \notin Guarded PROVE FALSE
  OBVIOUS
<1>1. t \in TransIdx /\ ~Transitions[t].guarded
  BY DEF TriggeredBy, OutOf, Guarded
<1>2. t \in TriggeredBy(0)
  BY <1>1 DEF TriggeredBy, OutOf
<1> QED
  BY <1>2

LEMMA EpsilonStepInductive == EpsilonInv /\ [Next]_vars => EpsilonInv'
<1> SUFFICES ASSUME EpsilonInv, [Next]_vars PROVE EpsilonInv'
  OBVIOUS
<1>1. TypeOK /\ TypeOK' /\ epsilon \in BOOLEAN
  BY TypeStep DEF EpsilonInv, TypeOK
<1>2. ASSUME pc' = pc \/ pc' \notin {"loop", "enter", "exit", "call"}, epsilon' = epsilon, current' = current
      PROVE  EpsilonInv'
  BY <1>1, <1>2, UnguardedNeedNoGuard DEF EpsilonInv, EpsilonComesFirst
<1>3. ASSUME epsilon' PROVE EpsilonInv'
  BY <1>1, <1>3 DEF EpsilonInv, EpsilonComesFirst
<1>4. CASE UNCHANGED vars
  BY <1>2, <1>4 DEF vars
<1>5. CASE EnterState \/ SkipState \/ EndEnter \/ ExitMachine \/ KeepMachine \/ EndExit \/ Commit \/ PutBack
  <2>1. pc \in {"enter", "exit", "call"} /\ epsilon' = epsilon
    BY <1>5 DEF EnterState, SkipState, EndEnter, ExitMachine, KeepMachine, EndExit, Commit, PutBack,
                Unchanged1
  <2> QED
    BY <1>3, <2>1 DEF EpsilonInv
<1>6. CASE EpsilonStep
  <2>1. pc = "loop" /\ epsilon /\ Process(0, FALSE, curEv)
    BY <1>6 DEF EpsilonStep, Looping
  <2>2. CASE TriggeredBy(0) = {} /\ NothingTriggered(curEv)
    <3>1. TriggeredBy(0)' = {} /\ current' = current
      <4>1. holds' = holds /\ current' = current
        BY <2>1 DEF Process
      <4> QED
        BY <2>2, <4>1 DEF TriggeredBy, OutOf
    <3>2. pc' = "final" \/ pc' = "loop"
      BY <2>1, <2>2 DEF NothingTriggered
    <3> QED
      BY <1>1, <3>1, <3>2 DEF EpsilonInv, EpsilonComesFirst
  <2>3. CASE Transit(TriggeredBy(0)) \/ TakeOut(TriggeredBy(0), curEv.machines)
    BY <1>3, <2>3 DEF Transit, TakeOut
  <2> QED
    BY <2>1, <2>2, <2>3 DEF Process
<1>7. CASE SyncStep \/ (\E e \in Events : FetchEvent(e)) \/ FetchExit \/ FetchError
           \/ \E ms \in Restarts : FetchRestart(ms)
  <2>1. pc = "loop" /\ ~epsilon
    BY <1>7 DEF SyncStep, FetchEvent, FetchExit, FetchError, FetchRestart, Fetching, Looping
  <2>2. PICK evId, evRead, ev : ev \in Event /\ Process(evId, evRead, ev)
    BY <1>1, <1>7, IterationProcesses
  <2>3. CASE NothingTriggered(ev)
    <3>1. current' = current
      BY <2>2 DEF Process
    <3>2. (pc' = "final" /\ epsilon' = epsilon) \/ epsilon' = ~epsilon
      BY <2>3 DEF NothingTriggered
    <3> QED
      BY <1>2, <1>3, <2>1, <3>1, <3>2
  <2>4. CASE Transit(TriggeredBy(evId)) \/ TakeOut(TriggeredBy(evId), ev.machines)
    BY <1>3, <2>4 DEF Transit, TakeOut
  <2> QED
    BY <2>2, <2>3, <2>4 DEF Process
<1>8. CASE FetchAction \/ LeaveLoop \/ FinalExits
  BY <1>2, <1>8 DEF FetchAction, LeaveLoop, FinalExits
<1>9. CASE FetchSetState \/ FetchStart
  BY <1>3, <1>9 DEF FetchSetState, FetchStart
<1> QED
  BY <1>4, <1>5, <1>6, <1>7, <1>8, <1>9 DEF Next

\* An event is consumed only when no unguarded epsilon transition is left to
\* take, for every program and every interleaving of fetched events, queued
\* actions and Start directives (taking_epsilon_transitions in run_simulation).
THEOREM EpsilonIsFirst == Spec => []EpsilonComesFirst
<1>1. Init => EpsilonInv
  <2> SUFFICES ASSUME Init PROVE EpsilonInv
    OBVIOUS
  <2>1. TriggeredBy(0) = {}
    BY DEF Init, TriggeredBy, OutOf
  <2>2. pc \in {"enter", "exit", "call"} => epsilon
    BY DEF Init
  <2> QED
    BY <2>1, <2>2, InitIsTyped DEF EpsilonInv, EpsilonComesFirst
<1>2. EpsilonInv => EpsilonComesFirst
  BY DEF EpsilonInv
<1> QED
  BY <1>1, <1>2, EpsilonStepInductive, PTL DEF Spec

-----------------------------------------------------------------------------
(* The active states are nested                                            *)

\* Machines that are not active yet: with nested active states, all inactive
\* machines around a state.
LEMMA UnenteredAreInactive ==
  ASSUME ActiveStatesAreNested, current \subseteq States, NEW s \in States
  PROVE  Unentered(s) = Ancestors[s] \ current
<1>1. ASSUME NEW a \in Ancestors[s], a \notin current, NEW b \in Ancestors[s], a \in Ancestors[b], b \in current
      PROVE  FALSE
  <2> DEFINE C == Ancestors[b] \cap current
  <2>1. b \in States /\ Ancestors[b] \subseteq Machines /\ Machines \subseteq States
    BY AncestorsUnfold, AncestorsAreTransitive, ForestFacts
  <2>2. \A x \in Ancestors[b] \cup {b} : Parent[x] \in Ancestors[b] \cup {0}
    BY <2>1, AncestorsAreClosed DEF ClosedAbove
  <2>3. \A x \in C \cup {b} : Parent[x] \in C \cup {0}
    BY <1>1, <2>2 DEF ActiveStatesAreNested, IsNested
  <2>4. C \in ClosedAbove(b)
    BY <2>1, <2>3 DEF ClosedAbove
  <2>5. a \in C
    BY <1>1, <2>1, <2>4, AncestorsAreClosed
  <2> QED
    BY <1>1, <2>5
<1> QED
  BY <1>1 DEF Unentered

\* What entering a state makes active is nested, and its machines start in
\* their initial states.
LEMMA OpenedAreNested ==
  ASSUME ActiveStatesAreNested, current \subseteq States, NEW s \in States
  PROVE  \A x \in {s} \cup Opened(s) \cup InitialsOf(Opened(s)) :
           Parent[x] \in {s} \cup Opened(s) \cup current \cup {0}
<1>1. Unentered(s) = Ancestors[s] \ current
  BY UnenteredAreInactive
<1>2. \A x \in Ancestors[s] \cup {s} : Parent[x] \in Ancestors[s] \cup {0}
  BY AncestorsAreClosed DEF ClosedAbove
<1>3. \A x \in {s} \cup Unentered(s) : Parent[x] \in Unentered(s) \cup current \cup {0}
  BY <1>1, <1>2
<1>4. \A x \in Threads(s) : Parent[x] = s
  BY DEF Threads, Children
<1>5. \A x \in InitialsOf(Opened(s)) : Parent[x] \in Opened(s)
  BY OpenedAreMachines, InitialsFacts
<1> QED
  BY <1>3, <1>4, <1>5 DEF Opened

\* compute_entered_states keeps its part of the invariant.
LEMMA EnterIsNested ==
  ASSUME TypeOK, NestedInv, EnterState \/ SkipState \/ EndEnter
  PROVE  NestedInv'
<1>1. current' = current /\ pc = "enter" /\ ActiveStatesAreNested /\ ActiveStatesAreNested'
      /\ current \subseteq States /\ temp \subseteq States /\ i \in Nat
  BY DEF EnterState, SkipState, EndEnter, Unchanged1, NestedInv, ActiveStatesAreNested, TypeOK, IsNested
<1>2. \A s \in temp \ current : Treated(s) => Parent[s] \in temp \cup current \cup {0}
  BY <1>1 DEF NestedInv, EnteredAreNested
<1>3. CASE EnterState
  <2> DEFINE new == {i} \cup Opened(i) \cup InitialsOf(Opened(i))
  <2>1. i \in States /\ i \in temp /\ i' = i + 1 /\ pc' = "enter" /\ temp' = temp \cup Opened(i) \cup InitialsOf(Opened(i))
        /\ visited' = visited \cup new
    BY <1>1, <1>3 DEF EnterState, AtState
  <2>2. \A x \in new : Parent[x] \in {i} \cup Opened(i) \cup current \cup {0}
    BY <1>1, <2>1, OpenedAreNested
  <2>3. ASSUME NEW s \in temp' \ current', Treated(s)'
        PROVE  Parent[s] \in temp' \cup current' \cup {0}
    <3>1. CASE s \in new
      BY <1>1, <2>1, <2>2, <3>1
    <3>2. CASE s \notin new
      <4>1. s \in temp \ current /\ s \in Nat /\ s # i
        BY <1>1, <2>1, <2>3, <3>2 DEF States
      <4>2. Treated(s)
        BY <1>1, <2>1, <2>3, <3>2, <4>1 DEF Treated
      <4> QED
        BY <1>1, <1>2, <2>1, <4>1, <4>2
    <3> QED
      BY <3>1, <3>2
  <2> QED
    BY <1>1, <2>1, <2>3 DEF NestedInv, EnteredAreNested, ExitedAreNested, CommittedAreNested
<1>4. CASE SkipState
  <2>1. i' = i + 1 /\ pc' = "enter" /\ temp' = temp /\ visited' = visited
        /\ i \notin temp \ (current \cup visited)
    BY <1>1, <1>4 DEF SkipState, AtState
  <2>2. \A s \in temp \ current : Treated(s)' => Treated(s)
    BY <1>1, <2>1 DEF Treated, States
  <2> QED
    BY <1>1, <1>2, <2>1, <2>2 DEF NestedInv, EnteredAreNested, ExitedAreNested, CommittedAreNested
<1>5. CASE EndEnter
  <2>1. i > NStates /\ pc' = "exit" /\ i' = 1 /\ visited' = {} /\ temp' = temp
    BY <1>5 DEF EndEnter
  <2>2. \A s \in temp : Parent[s] \in temp \cup current \cup {0}
    <3>1. \A s \in temp : Treated(s)
      BY <1>1, <2>1, ForestFacts DEF Treated, States
    <3> QED
      BY <1>1, <1>2, <3>1 DEF ActiveStatesAreNested, IsNested
  <2>3. \A s \in temp : Parent[s] # 0 => ~Treated(Parent[s])'
    <3>1. \A s \in temp : Parent[s] # 0 => Parent[s] \in States
      BY <1>1, ForestFacts
    <3>2. \A x \in States : x \in Nat /\ x >= 1
      BY ForestFacts DEF States
    <3> QED
      BY <2>1, <3>1, <3>2 DEF Treated
  <2> QED
    BY <1>1, <2>1, <2>2, <2>3 DEF NestedInv, EnteredAreNested, ExitedAreNested, CommittedAreNested
<1> QED
  BY <1>3, <1>4, <1>5

\* The machines an exit of m takes along, one by one: a machine around m goes
\* with it exactly if it and all machines between them have nothing else left.
LEMMA EmptiedFacts ==
  ASSUME NEW m \in States, NEW S, NEW a \in Emptied(m, S)
  PROVE  /\ a \in Ancestors[m] /\ a \in States /\ a \in current /\ Children(a) \cap S \subseteq Ancestors[m]
         /\ \A b \in Ancestors[m] : a \in Ancestors[b] => b \in Emptied(m, S)
<1>1. a \in Ancestors[m] /\ a \in States
  BY AncestorsAreTransitive DEF Emptied
<1>2. \A b \in Ancestors[m] :
        b = a \/ a \in Ancestors[b] => b \in current /\ Children(b) \cap S \subseteq Ancestors[m]
  BY DEF Emptied
<1>3. ASSUME NEW b \in Ancestors[m], a \in Ancestors[b] PROVE b \in Emptied(m, S)
  <2>1. \A c \in Ancestors[m] : b \in Ancestors[c] => a \in Ancestors[c]
    BY <1>3, AncestorsAreTransitive
  <2>2. \A c \in Ancestors[m] :
          c = b \/ b \in Ancestors[c] => c \in current /\ Children(c) \cap S \subseteq Ancestors[m]
    BY <1>2, <1>3, <2>1
  <2> QED
    BY <2>2 DEF Emptied
<1> QED
  BY <1>1, <1>2, <1>3

\* A child of a machine that is taken along is taken along, or is gone.
LEMMA EmptiedTakeChildren ==
  ASSUME NEW m \in States, NEW S, NEW s \in S \cap States, Parent[s] \in Emptied(m, S)
  PROVE  s \in Emptied(m, S)
<1>1. Parent[s] # 0 /\ s \in Children(Parent[s])
  <2>1. Parent[s] \in States
    BY EmptiedFacts
  <2> QED
    BY <2>1, ForestFacts DEF Children
<1>2. s \in Ancestors[m]
  BY <1>1, EmptiedFacts
<1>3. Parent[s] \in Ancestors[s]
  BY <1>1, AncestorsUnfold
<1> QED
  BY <1>2, <1>3, EmptiedFacts

\* The states inside a machine are those whose parent is it or inside it.
LEMMA DescendantsUnfold ==
  ASSUME NEW m \in Machines, NEW s \in States
  PROVE  s \in Descendants(m) <=> Parent[s] # 0 /\ (Parent[s] = m \/ Parent[s] \in Descendants(m))
<1>1. CASE Parent[s] = 0
  BY <1>1, AncestorsUnfold DEF Descendants
<1>2. CASE Parent[s] # 0
  BY <1>2, AncestorsUnfold DEF Descendants
<1> QED
  BY <1>1, <1>2

\* compute_exit_states keeps its part of the invariant.
LEMMA ExitIsNested ==
  ASSUME TypeOK, NestedInv, ExitMachine \/ KeepMachine \/ EndExit
  PROVE  NestedInv'
<1>1. current' = current /\ pc = "exit" /\ ActiveStatesAreNested'
      /\ temp \subseteq States /\ i \in Nat
  BY DEF ExitMachine, KeepMachine, EndExit, Unchanged1, NestedInv, ActiveStatesAreNested, TypeOK, IsNested
<1>2. \A s \in temp : Parent[s] \in temp \cup {0} \/ (Parent[s] \in current /\ ~Treated(Parent[s]))
  BY <1>1 DEF NestedInv, ExitedAreNested
<1>3. \A s \in temp : Parent[s] # 0 => Parent[s] \in Machines /\ Parent[s] \in States /\ Parent[s] \in Nat
  <2>1. \A x \in States : x \in Nat
    BY DEF States
  <2> QED
    BY <1>1, <2>1, ForestFacts
<1>4. CASE ExitMachine
  <2> DEFINE gone == IF i \in temp THEN {i} ELSE Descendants(i)
             up == Emptied(i, temp \ gone)
  <2>1. i \in Machines /\ i \in States /\ i' = i + 1 /\ pc' = "exit" /\ temp' = temp \ (gone \cup up)
        /\ visited' = visited \cup {i} \cup gone
    BY <1>1, <1>4, ForestFacts DEF ExitMachine, AtState
  <2>2. i \in temp => Children(i) \cap temp = {}
    BY <1>4 DEF ExitMachine, Leaves
  <2>3. ASSUME NEW s \in temp'
        PROVE  Parent[s] \in temp' \cup {0} \/ (Parent[s] \in current' /\ ~Treated(Parent[s])')
    <3> SUFFICES ASSUME Parent[s] # 0
                 PROVE  Parent[s] \in temp' \/ (Parent[s] \in current' /\ ~Treated(Parent[s])')
      OBVIOUS
    <3>1. s \in temp /\ s \in States /\ s \notin gone /\ s \notin up
      BY <1>1, <2>1
    <3>2. Parent[s] \notin gone /\ (i \notin temp => Parent[s] # i)
      <4>1. CASE i \in temp
        BY <2>2, <3>1, <4>1 DEF Children
      <4>2. CASE i \notin temp
        BY <2>1, <3>1, <4>2, DescendantsUnfold
      <4> QED
        BY <4>1, <4>2
    <3>3. Parent[s] \notin up
      BY <2>1, <3>1, EmptiedTakeChildren
    <3> HIDE DEF gone, up
    <3>4. CASE Parent[s] \in temp
      BY <2>1, <3>2, <3>3, <3>4
    <3>5. CASE Parent[s] \notin temp
      <4>1. Parent[s] \in current /\ ~Treated(Parent[s]) /\ Parent[s] \in Nat
        BY <1>2, <1>3, <3>1, <3>5
      <4>2. Parent[s] # i
        BY <3>2, <3>5
      <4> QED
        BY <1>1, <2>1, <3>2, <4>1, <4>2 DEF Treated
    <3> QED
      BY <3>4, <3>5
  <2> QED
    BY <1>1, <2>1, <2>3 DEF NestedInv, EnteredAreNested, ExitedAreNested, CommittedAreNested
<1>5. CASE KeepMachine
  <2>1. i' = i + 1 /\ pc' = "exit" /\ temp' = temp /\ visited' = visited \cup ({i} \cap Machines)
        /\ (i \in Machines \ visited => i \notin current \ temp)
    BY <1>1, <1>5 DEF KeepMachine, AtState, Leaves
  <2>2. ASSUME NEW s \in temp, Parent[s] # 0, Parent[s] \notin temp
        PROVE  Parent[s] \in current /\ ~Treated(Parent[s])'
    <3>1. Parent[s] \in current /\ ~Treated(Parent[s]) /\ Parent[s] \in Nat /\ Parent[s] \in Machines
      BY <1>2, <1>3, <2>2
    <3>2. Parent[s] # i
      BY <2>1, <2>2, <3>1 DEF Treated
    <3> QED
      BY <1>1, <2>1, <3>1, <3>2 DEF Treated
  <2> QED
    BY <1>1, <2>1, <2>2 DEF NestedInv, EnteredAreNested, ExitedAreNested, CommittedAreNested
<1>6. CASE EndExit
  <2>1. i > NStates /\ pc' = "call" /\ temp' = temp
    BY <1>6 DEF EndExit
  <2>2. \A x \in States : Treated(x)
    BY <1>1, <2>1, ForestFacts DEF Treated, States
  <2>3. IsNested(temp)
    BY <1>2, <1>3, <2>2 DEF IsNested
  <2> QED
    BY <1>1, <2>1, <2>3 DEF NestedInv, EnteredAreNested, ExitedAreNested, CommittedAreNested, IsNested
<1> QED
  BY <1>4, <1>5, <1>6

\* Without a covering part transitions trigger no shadow transitions.
LEMMA NoShadowRun ==
  ASSUME NothingShadowed, NEW t \in 0 .. Len(Transitions)
  PROVE  ShadowRun[t] = <<>>
<1> DEFINE D == 0 .. Len(Transitions)
           F(f) == [u \in D |-> IF u = 0 \/ ShadowTransition[u] = 0 THEN <<>>
                                ELSE <<ShadowTransition[u]>> \o f[ShadowTransition[u]]]
           none == [u \in D |-> <<>>]
<1>1. \A u \in D : u = 0 \/ ShadowTransition[u] = 0
  BY TransFacts DEF NothingShadowed
<1>2. \A f : F(f) = none
  BY <1>1
<1>3. ShadowRun = CHOOSE f : f = F(f)
  BY DEF ShadowRun
<1> HIDE DEF F
<1>4. none = F(none)
  BY <1>2
<1>5. ShadowRun = F(ShadowRun)
  BY <1>3, <1>4
<1>6. ShadowRun = none
  BY <1>2, <1>5
<1> QED
  BY <1>6

LEMMA EmptyRunsFlatten ==
  ASSUME NEW n \in Nat, NEW ss, ss = [k \in 1 .. n |-> <<>>]
  PROVE  FlattenSeq(ss) = <<>>
<1> DEFINE F(f) == [k \in 1 .. n |-> IF k = 1 THEN ss[k] ELSE f[k - 1] \o ss[k]]
           none == [k \in 1 .. n |-> <<>>]
           fl == CHOOSE f : f = F(f)
<1>1. Len(ss) = n
  OBVIOUS
<1>2. CASE n = 0
  <2>1. ss = <<>>
    BY <1>2
  <2> QED
    BY <1>1, <1>2, <2>1 DEF FlattenSeq
<1>3. CASE n # 0
  <2>1. FlattenSeq(ss) = fl[n]
    BY <1>1, <1>3, Zenon DEF FlattenSeq
  <2>2. none = F(none)
    <3>1. \A k \in 1 .. n : k # 1 => k - 1 \in 1 .. n
      OBVIOUS
    <3>2. \A k \in 1 .. n : (IF k = 1 THEN ss[k] ELSE none[k - 1] \o ss[k]) = <<>>
      BY <3>1
    <3> QED
      BY <3>2
  <2> HIDE DEF F
  <2>3. fl = F(fl)
    BY <2>2
  <2> HIDE DEF fl
  <2>4. \A k \in 1 .. n : fl[k] = IF k = 1 THEN ss[k] ELSE fl[k - 1] \o ss[k]
    BY <2>3 DEF F
  <2> DEFINE Bad == {k \in 1 .. n : fl[k] # <<>>}
  <2>5. Bad = {}
    <3> SUFFICES ASSUME Bad # {} PROVE FALSE
      OBVIOUS
    <3>0. Bad \in SUBSET Nat
      OBVIOUS
    <3>1. PICK k \in Bad : \A m \in Bad : k <= m
      BY <3>0, NatHasLeast
    <3>2. k = 1 => fl[k] = <<>>
      BY <2>4
    <3>3. k # 1 => k - 1 \in 1 .. n /\ fl[k - 1] = <<>>
      BY <3>1
    <3>4. k # 1 => fl[k] = <<>> \o <<>>
      BY <2>4, <3>3
    <3> QED
      BY <3>2, <3>4
  <2> QED
    BY <1>3, <2>1, <2>5
<1> QED
  BY <1>2, <1>3

\* The kernel then moves along the triggered transitions only.
LEMMA NoShadowsTriggered ==
  ASSUME NothingShadowed, NEW sl \in [1 .. MaxActive -> 0 .. Len(Transitions)]
  PROVE  TriggeredShadows(sl) = <<>>
<1> DEFINE ss == [n \in 1 .. MaxActive |-> ShadowRun[sl[n]]]
<1>1. \A n \in 1 .. MaxActive : ShadowRun[sl[n]] = <<>>
  BY NoShadowRun
<1>2. ss = [n \in 1 .. MaxActive |-> <<>>]
  BY <1>1
<1> HIDE DEF ss
<1>3. FlattenSeq(ss) = <<>>
  BY <1>2, TransFacts, EmptyRunsFlatten
<1> QED
  BY <1>3 DEF TriggeredShadows, ss

LEMMA KernelMoves ==
  ASSUME NothingShadowed, TypeOK, NEW T \in SUBSET TransIdx, Transit(T), pc' = "call"
  PROVE  /\ temp' = Moved(current, T)
         /\ \A t \in T : ~Crosses(t) /\ ShadowsEntered(t) = {} /\ ShadowsLeft(t) = {}
<1> DEFINE sl == SlotsWith(T)
           shadows == TriggeredShadows(sl)
           moved == ShadowMoved(Moved(current, T), shadows)
           arrived == {Transitions[t].to : t \in T \cup Range(shadows)}
                        \cup UNION {ShadowsEntered(t) : t \in T}
           J == Joined(moved, arrived)
           crossing == \/ \E t \in T \cup Range(shadows) : Crosses(t)
                       \/ \E t \in T : ShadowsEntered(t) \cup ShadowsLeft(t) # {}
                       \/ J # {}
<1>1. slots \in [1 .. MaxActive -> 0 .. Len(Transitions)]
  BY DEF TypeOK
<1>2. sl \in [1 .. MaxActive -> 0 .. Len(Transitions)]
  BY <1>1, SlotsAreTyped
<1>3. shadows = <<>>
  BY <1>2, NoShadowsTriggered
<1>4. temp' = AfterJoin(moved, J) /\ (crossing => pc' = "enter")
  BY DEF Transit
<1> HIDE DEF shadows
<1>5. moved = Moved(current, T)
  <2>1. \A s \in States : {k \in DOMAIN shadows : s \in {Transitions[shadows[k]].from, Transitions[shadows[k]].to}} = {}
    BY <1>3
  <2>2. moved = {s \in States : s \in Moved(current, T)}
    BY <2>1 DEF ShadowMoved
  <2> QED
    BY <2>2 DEF Moved
<1>6. ~crossing
  BY <1>4
<1>7. J = {}
  BY <1>6
<1>8. temp' = moved
  BY <1>4, <1>7 DEF AfterJoin
<1> QED
  BY <1>5, <1>6, <1>8

\* Transitions that stay inside their machines keep the active states nested
\* and no machine empty.
LEMMA MovesInside ==
  ASSUME current \subseteq States, NEW T \in SUBSET OutOf(current),
         \A t \in T : ~Crosses(t) /\ ShadowsEntered(t) = {} /\ ShadowsLeft(t) = {}
  PROVE  /\ IsNested(current) => IsNested(Moved(current, T))
         /\ IsFull(current) => IsFull(Moved(current, T))
         /\ \A m \in Machines : m \in Moved(current, T) <=> m \in current
<1> DEFINE From(t) == Transitions[t].from
           To(t) == Transitions[t].to
           Touching(s) == {t \in T : s = From(t) \/ s = To(t)}
<1>1. T \subseteq TransIdx /\ \A t \in T : /\ From(t) \in current /\ From(t) \in States /\ To(t) \in States
                                           /\ Parent[From(t)] = Parent[To(t)]
                                           /\ From(t) \notin Machines /\ To(t) \notin Machines
  BY TransFacts DEF OutOf, Crosses
<1>2. \A t \in T : SwitchedOff(t) = {From(t)} /\ SwitchedOn(t) = {To(t)}
  BY DEF SwitchedOff, SwitchedOn
<1>3. PICK n \in Nat : TransIdx = 1 .. n
  BY TransFacts
<1>4. ASSUME NEW S \in SUBSET T, S # {} PROVE Max(S) \in S /\ \A k \in S : k <= Max(S)
  BY <1>1, <1>3, <1>4, MaxIsGreatest
<1>5. Moved(current, T) = {s \in States : IF Touching(s) = {} THEN s \in current ELSE s \in SwitchedOn(Max(Touching(s)))}
  <2>1. \A s \in States : {t \in T : s \in SwitchedOff(t) \cup SwitchedOn(t)} = Touching(s)
    BY <1>2
  <2> QED
    BY <2>1 DEF Moved
<1>6. \A m \in Machines : Touching(m) = {}
  BY <1>1
<1>7. \A m \in Machines : m \in Moved(current, T) <=> m \in current
  BY <1>5, <1>6, ForestFacts
<1>8. ASSUME NEW s \in Moved(current, T)
      PROVE  s \in States /\ (s \in current \/ \E t \in T : s = To(t))
  <2>1. CASE Touching(s) = {}
    BY <1>5, <2>1
  <2>2. CASE Touching(s) # {}
    <3>1. Max(Touching(s)) \in T
      BY <1>4, <2>2
    <3> QED
      BY <1>2, <1>5, <2>2, <3>1
  <2> QED
    BY <2>1, <2>2
<1> HIDE DEF Touching
<1>9. ASSUME IsNested(current) PROVE IsNested(Moved(current, T))
  <2> SUFFICES ASSUME NEW s \in Moved(current, T), Parent[s] # 0 PROVE Parent[s] \in Moved(current, T)
    BY DEF IsNested
  <2>1. Parent[s] \in current
    BY <1>1, <1>8, <1>9 DEF IsNested
  <2>2. Parent[s] \in Machines
    BY <1>8, ForestFacts
  <2> QED
    BY <1>7, <2>1, <2>2
<1>10. ASSUME IsFull(current) PROVE IsFull(Moved(current, T))
  <2> SUFFICES ASSUME NEW m \in Machines, m \in current PROVE Children(m) \cap Moved(current, T) # {}
    BY <1>7 DEF IsFull
  <2>1. PICK c \in Children(m) \cap current : TRUE
    BY <1>10 DEF IsFull
  <2>2. c \in States /\ Parent[c] = m
    BY DEF Children
  <2>3. CASE Touching(c) = {}
    BY <1>5, <2>1, <2>2, <2>3
  <2>4. CASE Touching(c) # {}
    <3> DEFINE In == {t \in T : Parent[To(t)] = m}
               t == Max(In)
    <3>1. In # {}
      <4>1. PICK u \in T : c = From(u) \/ c = To(u)
        BY <2>4 DEF Touching
      <4> QED
        BY <1>1, <2>2, <4>1
    <3>2. t \in In /\ \A u \in In : u <= t
      BY <1>4, <3>1
    <3> HIDE DEF t
    <3>3. To(t) \in States /\ t \in Touching(To(t)) /\ Touching(To(t)) \subseteq In
      BY <1>1, <3>2 DEF Touching
    <3>4. Touching(To(t)) \in SUBSET T /\ In \subseteq Nat
      <4>1. In \subseteq TransIdx
        BY <1>1
      <4> QED
        BY <1>3, <4>1 DEF Touching
    <3>5. Max(Touching(To(t))) \in Touching(To(t)) /\ t <= Max(Touching(To(t)))
      BY <1>4, <3>3, <3>4
    <3>6. Max(Touching(To(t))) = t
      <4> DEFINE x == Max(Touching(To(t)))
      <4>1. x \in In /\ t \in In /\ t <= x
        BY <3>2, <3>3, <3>5
      <4> HIDE DEF x
      <4>2. x <= t /\ x \in Nat /\ t \in Nat
        BY <3>2, <3>4, <4>1
      <4>3. x = t
        BY <4>1, <4>2
      <4> QED
        BY <4>3 DEF x
    <3>7. To(t) \in Moved(current, T)
      BY <1>2, <1>5, <3>2, <3>3, <3>6
    <3> QED
      BY <3>2, <3>3, <3>7 DEF Children
  <2> QED
    BY <2>3, <2>4
<1> QED
  BY <1>7, <1>9, <1>10

\* What a Start directive activates: the machines it names, their threads,
\* the threads of those ..., all in their initial states.
LEMMA StartedAreSound ==
  ASSUME NEW ms \in SUBSET {m \in Machines : Parent[m] = 0}
  PROVE  IsNested(Started(ms)) /\ (EveryMachineStarts => IsFull(Started(ms)))
<1> DEFINE Open(m) == {m} \cup {k \in ThreadMachines : m \in Ancestors[k] /\
                                  Ancestors[k] \cap Descendants(m) \subseteq ThreadMachines}
<1>1. ASSUME NEW m \in ms
      PROVE  /\ m \in Machines /\ Parent[m] = 0 /\ Open(m) \in SUBSET Machines
             /\ StartHull(m) = Open(m) \cup InitialsOf(Open(m))
  BY MachineAssumption DEF StartHull
<1>2. ASSUME NEW m \in ms, NEW k \in Open(m), Parent[k] # 0
      PROVE  Parent[k] \in Open(m)
  <2>1. m \in Machines /\ k # m /\ k \in ThreadMachines /\ k \in States /\ m \in Ancestors[k]
        /\ Ancestors[k] \cap Descendants(m) \subseteq ThreadMachines
    BY <1>1, <1>2, ForestFacts
  <2>2. Parent[k] \in States /\ Ancestors[k] = {Parent[k]} \cup Ancestors[Parent[k]]
    BY <1>2, <2>1, AncestorsUnfold
  <2>3. CASE Parent[k] = m
    BY <2>3
  <2>4. CASE Parent[k] # m
    <3>1. m \in Ancestors[Parent[k]] /\ Parent[k] \in Ancestors[k] \cap Descendants(m)
      BY <2>1, <2>2, <2>4 DEF Descendants
    <3>2. Ancestors[Parent[k]] \cap Descendants(m) \subseteq ThreadMachines
      BY <2>1, <2>2
    <3> QED
      BY <2>1, <3>1, <3>2
  <2> QED
    BY <2>3, <2>4
<1> HIDE DEF Open
<1>3. ASSUME NEW m \in ms, NEW s \in StartHull(m)
      PROVE  Parent[s] \in StartHull(m) \cup {0}
  <2>1. CASE s \in Open(m)
    BY <1>1, <1>2, <2>1
  <2>2. CASE s \in InitialsOf(Open(m))
    BY <1>1, <2>2, InitialsFacts
  <2> QED
    BY <1>1, <1>3, <2>1, <2>2
<1>4. IsNested(Started(ms))
  BY <1>3 DEF IsNested, Started
<1>5. ASSUME EveryMachineStarts, NEW m \in ms, NEW k \in Machines \cap StartHull(m)
      PROVE  Children(k) \cap StartHull(m) # {}
  <2>1. k \in Open(m)
    BY <1>1, <1>5, InitialsFacts
  <2>2. InitialState[k] \in InitialsOf(Open(m)) /\ InitialState[k] \in Children(k)
    BY <1>1, <1>5, <2>1, InitialsFacts, MachineFacts DEF EveryMachineStarts
  <2> QED
    BY <1>1, <2>2
<1>6. EveryMachineStarts => IsFull(Started(ms))
  BY <1>5 DEF IsFull, Started
<1> QED
  BY <1>4, <1>6

LEMMA NestedStep ==
  ASSUME NothingShadowed, TypeOK, NestedInv, [Next]_vars
  PROVE  NestedInv'
<1>1. IsNested(current) /\ current \subseteq States /\ TypeOK'
  BY TypeStep DEF NestedInv, ActiveStatesAreNested, TypeOK
<1>2. ASSUME IsNested(current'), pc' \notin {"enter", "exit", "call"}
      PROVE  NestedInv'
  BY <1>2 DEF NestedInv, ActiveStatesAreNested, EnteredAreNested, ExitedAreNested, CommittedAreNested, IsNested
<1>3. ASSUME IsNested(current'), pc' = "enter", i' = 1, visited' = {}
      PROVE  NestedInv'
  <2>1. \A s \in temp' : ~Treated(s)'
    <3>1. \A s \in temp' : s \in Nat /\ s >= 1
      BY <1>1 DEF TypeOK, States
    <3> QED
      BY <1>3, <3>1 DEF Treated
  <2> QED
    BY <1>3, <2>1 DEF NestedInv, ActiveStatesAreNested, EnteredAreNested, ExitedAreNested,
                      CommittedAreNested, IsNested
<1>4. CASE UNCHANGED vars
  BY <1>4 DEF vars, NestedInv, ActiveStatesAreNested, EnteredAreNested, ExitedAreNested,
              CommittedAreNested, IsNested, Treated
<1>5. CASE Commit \/ PutBack
  <2>1. IsNested(temp) /\ current' = temp
    BY <1>5 DEF Commit, PutBack, NestedInv, CommittedAreNested
  <2>2. pc' = "loop" \/ (pc' = "enter" /\ i' = 1 /\ visited' = {})
    BY <1>5 DEF Commit, PutBack
  <2> QED
    BY <1>2, <1>3, <2>1, <2>2
<1>6. CASE \/ EpsilonStep \/ SyncStep \/ (\E e \in Events : FetchEvent(e)) \/ FetchExit \/ FetchError
           \/ \E ms \in Restarts : FetchRestart(ms)
  <2>1. pc = "loop"
    BY <1>6 DEF EpsilonStep, SyncStep, FetchEvent, FetchExit, FetchError, FetchRestart, Fetching, Looping
  <2>2. PICK evId, evRead, ev : ev \in Event /\ Process(evId, evRead, ev)
    BY <1>6, IterationProcesses
  <2>3. current' = current
    BY <2>2 DEF Process
  <2>4. CASE NothingTriggered(ev)
    BY <1>1, <1>2, <2>1, <2>3, <2>4 DEF NothingTriggered
  <2>5. CASE TakeOut(TriggeredBy(evId), ev.machines)
    BY <1>1, <1>3, <2>3, <2>5 DEF TakeOut
  <2>6. CASE Transit(TriggeredBy(evId))
    <3> DEFINE T == TriggeredBy(evId)
    <3>1. T \in SUBSET OutOf(current) /\ T \in SUBSET TransIdx
      BY DEF TriggeredBy, OutOf
    <3> HIDE DEF T
    <3>2. (pc' = "enter" /\ i' = 1 /\ visited' = {}) \/ pc' = "call"
      BY <2>6 DEF Transit
    <3>3. ASSUME pc' = "call" PROVE IsNested(temp')
      <4>1. /\ temp' = Moved(current, T)
            /\ \A t \in T : ~Crosses(t) /\ ShadowsEntered(t) = {} /\ ShadowsLeft(t) = {}
        BY <2>6, <3>1, <3>3, KernelMoves DEF T
      <4>2. IsNested(Moved(current, T))
        BY <1>1, <3>1, <4>1, MovesInside
      <4> QED
        BY <4>1, <4>2 DEF IsNested
    <3> QED
      BY <1>1, <1>3, <2>3, <3>2, <3>3 DEF NestedInv, ActiveStatesAreNested, EnteredAreNested,
                                          ExitedAreNested, CommittedAreNested, IsNested
  <2> QED
    BY <2>2, <2>4, <2>5, <2>6 DEF Process
<1>7. CASE FetchAction \/ FetchSetState \/ LeaveLoop \/ FinalExits
  <2>1. current' = current /\ pc' \in {"loop", "final", "done"}
    BY <1>7 DEF FetchAction, FetchSetState, LeaveLoop, FinalExits, Fetching, Looping
  <2> QED
    BY <1>1, <1>2, <2>1
<1>8. CASE FetchStart
  <2>1. pc' = "loop" /\ current' = current \cup Started(Starts[pos]) /\ pos <= Len(Starts)
    BY <1>8 DEF FetchStart, Fetching, Looping
  <2>2. Starts[pos] \in SUBSET {m \in Machines : Parent[m] = 0}
    BY <2>1, ProgramAssumption DEF TypeOK
  <2>3. IsNested(Started(Starts[pos]))
    BY <2>2, StartedAreSound
  <2>4. IsNested(current \cup Started(Starts[pos]))
    BY <1>1, <2>3 DEF IsNested
  <2> QED
    BY <1>2, <2>1, <2>4 DEF IsNested
<1> QED
  BY <1>4, <1>5, <1>6, <1>7, <1>8, EnterIsNested, ExitIsNested DEF Next

LEMMA InitIsNested == Init => NestedInv
<1> SUFFICES ASSUME Init PROVE NestedInv
  OBVIOUS
<1>1. current = {} /\ pc \in {"loop", "enter"} /\ i = 1 /\ visited = {} /\ temp \subseteq States
  BY InitIsTyped DEF Init, TypeOK
<1>2. \A s \in temp : ~Treated(s)
  BY <1>1 DEF Treated, States
<1> QED
  BY <1>1, <1>2 DEF NestedInv, ActiveStatesAreNested, EnteredAreNested, ExitedAreNested,
                    CommittedAreNested, IsNested

\* The machine around an active state is active, after every commit and for
\* every forest, transition table without a covering part and sequence of
\* events and restarts: compute_entered_states and compute_exit_states
\* together close whatever set of states the kernel leaves.
THEOREM ActiveStatesNest ==
  ASSUME NothingShadowed PROVE Spec => []ActiveStatesAreNested
<1>1. Init => TypeOK /\ NestedInv
  BY InitIsTyped, InitIsNested
<1>2. TypeOK /\ NestedInv /\ [Next]_vars => (TypeOK /\ NestedInv)'
  BY TypeStep, NestedStep
<1>3. NestedInv => ActiveStatesAreNested
  BY DEF NestedInv
<1> QED
  BY <1>1, <1>2, <1>3, PTL DEF Spec

-----------------------------------------------------------------------------
(* No machine is active and empty                                          *)

LEMMA EnterIsFull ==
  ASSUME EveryMachineStarts, TypeOK, FullInv, EnterState \/ SkipState \/ EndEnter
  PROVE  FullInv'
<1>1. current' = current /\ pc = "enter" /\ NoEmptyMachine'
      /\ temp \subseteq States /\ i \in Nat
  BY DEF EnterState, SkipState, EndEnter, Unchanged1, FullInv, NoEmptyMachine, TypeOK, IsFull
<1>2. \A m \in Machines \cap (temp \ current) : Treated(m) => InitialState[m] \in temp
  BY <1>1 DEF FullInv, EnteredAreFull
<1>3. CASE EnterState
  <2> DEFINE open == Opened(i)
             new == {i} \cup open \cup InitialsOf(open)
  <2>1. i \in States /\ i \in temp /\ i' = i + 1 /\ pc' = "enter" /\ temp' = temp \cup open \cup InitialsOf(open)
        /\ visited' = visited \cup new
    BY <1>1, <1>3 DEF EnterState, AtState
  <2>2. open \in SUBSET Machines /\ (i \in Machines => i \in open)
    BY <2>1, OpenedAreMachines DEF Opened
  <2> HIDE DEF open
  <2>3. \A m \in open : InitialState[m] \in InitialsOf(open)
    BY <2>2, InitialsFacts DEF EveryMachineStarts
  <2>4. ASSUME NEW m \in Machines \cap (temp' \ current'), Treated(m)'
        PROVE  InitialState[m] \in temp'
    <3>1. m \notin InitialsOf(open)
      BY <2>2, InitialsFacts
    <3>2. CASE m \in open
      BY <2>1, <2>3, <3>2
    <3>3. CASE m \notin open
      <4>1. m \in temp \ current /\ m # i /\ m \notin new
        BY <1>1, <2>1, <2>2, <2>4, <3>1, <3>3
      <4>2. Treated(m)
        <5>1. m \in Nat
          BY <1>1, <4>1 DEF States
        <5> QED
          BY <1>1, <2>1, <2>4, <4>1, <5>1 DEF Treated
      <4> QED
        BY <1>1, <1>2, <2>1, <4>1, <4>2
    <3> QED
      BY <3>2, <3>3
  <2> QED
    BY <1>1, <2>1, <2>4 DEF FullInv, EnteredAreFull, ExitedAreFull, CommittedAreFull
<1>4. CASE SkipState
  <2>1. i' = i + 1 /\ pc' = "enter" /\ temp' = temp /\ visited' = visited
        /\ i \notin temp \ (current \cup visited)
    BY <1>1, <1>4 DEF SkipState, AtState
  <2>2. \A m \in temp \ current : Treated(m)' => Treated(m)
    BY <1>1, <2>1 DEF Treated, States
  <2> QED
    BY <1>1, <1>2, <2>1, <2>2 DEF FullInv, EnteredAreFull, ExitedAreFull, CommittedAreFull
<1>5. CASE EndEnter
  <2>1. i > NStates /\ pc' = "exit" /\ i' = 1 /\ visited' = {} /\ temp' = temp
    BY <1>5 DEF EndEnter
  <2>2. \A m \in Machines \cap temp : Treated(m) /\ ~Treated(m)'
    BY <1>1, <2>1, ForestFacts DEF Treated, States
  <2> QED
    BY <1>1, <1>2, <2>1, <2>2 DEF FullInv, EnteredAreFull, ExitedAreFull, CommittedAreFull
<1> QED
  BY <1>3, <1>4, <1>5

\* A machine that loses its last active state to an exit is taken along.
LEMMA LastChildTakesParent ==
  ASSUME NEW m \in Machines, NEW S, NEW k \in Machines \cap current, NEW c \in States,
         Parent[c] = k, c = m \/ c \in Emptied(m, S), Children(k) \cap S \subseteq Ancestors[m]
  PROVE  k \in Emptied(m, S)
<1>1. m \in States /\ k \in States /\ k # 0 /\ Ancestors[c] = {k} \cup Ancestors[k]
  BY AncestorsUnfold, ForestFacts
<1>2. k \in Ancestors[m]
  <2>1. CASE c = m
    BY <1>1, <2>1
  <2>2. CASE c \in Emptied(m, S)
    BY <1>1, <2>2, EmptiedFacts, AncestorsAreTransitive
  <2> QED
    BY <2>1, <2>2
<1>3. ASSUME NEW b \in Ancestors[m], k \in Ancestors[b]
      PROVE  b \in Emptied(m, S)
  <2>1. b \in States /\ b \notin Ancestors[b] /\ Ancestors[k] \subseteq Ancestors[b]
    BY <1>1, <1>3, AncestorsAreTransitive, ForestFacts
  <2>2. b \notin Ancestors[c]
    BY <1>1, <1>3, <2>1, ForestFacts, AncestorsAreTransitive
  <2>3. c # m
    BY <2>2
  <2>4. c \in Emptied(m, S) /\ c \in Ancestors[m]
    BY <1>1, <2>3, EmptiedFacts
  <2>5. b = c \/ c \in Ancestors[b]
    BY <1>1, <2>2, <2>4, AncestorsAreChained
  <2> QED
    BY <1>1, <2>4, <2>5, EmptiedFacts
<1>4. \A b \in Ancestors[m] : b = k \/ k \in Ancestors[b] => b \in current /\ Children(b) \cap S \subseteq Ancestors[m]
  BY <1>1, <1>3, EmptiedFacts
<1> QED
  BY <1>2, <1>4 DEF Emptied

LEMMA ExitIsFull ==
  ASSUME EveryMachineStarts, TypeOK, FullInv, ExitMachine \/ KeepMachine \/ EndExit
  PROVE  FullInv'
<1>1. current' = current /\ pc = "exit" /\ NoEmptyMachine' /\ temp \subseteq States /\ i \in Nat
  BY DEF ExitMachine, KeepMachine, EndExit, Unchanged1, FullInv, NoEmptyMachine, TypeOK, IsFull
<1>2. \A m \in Machines \cap temp :
        IF m \in current THEN Children(m) \cap temp # {} \/ ~Treated(m) ELSE InitialState[m] \in temp
  BY <1>1 DEF FullInv, ExitedAreFull
<1>3. \A m \in Machines : m \in Nat /\ m \in States /\ m <= NStates
                          /\ InitialState[m] \in Children(m) \ Machines
  <2>1. \A x \in States : x \in Nat /\ x <= NStates
    BY ForestFacts DEF States
  <2> QED
    BY <2>1, MachineFacts DEF EveryMachineStarts
<1>4. CASE ExitMachine
  <2> DEFINE gone == IF i \in temp THEN {i} ELSE Descendants(i)
             up == Emptied(i, temp \ gone)
  <2>1. i \in Machines /\ i \in States /\ i' = i + 1 /\ pc' = "exit" /\ temp' = temp \ (gone \cup up)
        /\ visited' = visited \cup {i} \cup gone
    BY <1>1, <1>4, ForestFacts DEF ExitMachine, AtState
  <2>2. up \subseteq Machines /\ up \subseteq Ancestors[i]
    BY <2>1, AncestorsUnfold DEF Emptied
  <2>3. ASSUME NEW m \in Machines \cap temp', NEW c \in Children(m), c \in gone
        PROVE  c = i
    <3>1. c \in States /\ Parent[c] = m /\ m \in temp /\ m \notin gone
      BY <2>1, <2>3 DEF Children
    <3>2. CASE i \in temp
      BY <2>3, <3>2
    <3>3. CASE i \notin temp
      BY <2>1, <2>3, <3>1, <3>3, DescendantsUnfold
    <3> QED
      BY <3>2, <3>3
  <2>4. ASSUME NEW m \in Machines \cap temp', m \notin current
        PROVE  InitialState[m] \in temp'
    <3>1. InitialState[m] \in temp /\ InitialState[m] \in Children(m) /\ InitialState[m] \notin Machines
      BY <1>2, <1>3, <2>1, <2>4
    <3>2. InitialState[m] \notin gone
      BY <2>1, <2>3, <3>1
    <3> HIDE DEF gone, up
    <3> QED
      BY <2>1, <2>2, <3>1, <3>2
  <2>5. ASSUME NEW m \in Machines \cap temp', m \in current, Children(m) \cap temp' = {}
        PROVE  ~Treated(m)'
    <3>1. m \in temp /\ m \notin gone /\ m \notin up /\ m # i
      BY <2>1
    <3>2. ASSUME Treated(m) PROVE FALSE
      <4>1. PICK c \in Children(m) \cap temp : TRUE
        BY <1>2, <2>5, <3>1, <3>2
      <4>2. c \in States /\ Parent[c] = m
        BY DEF Children
      <4>3. \A x \in Children(m) \cap temp : x \in gone \/ x \in up
        BY <2>1, <2>5
      <4>4. c = i \/ c \in up
        BY <2>3, <4>1, <4>3
      <4>5. Children(m) \cap (temp \ gone) \subseteq Ancestors[i]
        BY <2>2, <4>3
      <4> HIDE DEF gone
      <4> QED
        BY <2>1, <2>5, <3>1, <4>2, <4>4, <4>5, LastChildTakesParent
    <3> HIDE DEF gone, up
    <3>3. ~Treated(m) /\ m \in Nat
      BY <1>3, <3>2
    <3> QED
      BY <1>1, <2>1, <3>1, <3>3 DEF Treated
  <2> HIDE DEF gone, up
  <2> QED
    BY <1>1, <2>1, <2>4, <2>5 DEF FullInv, EnteredAreFull, ExitedAreFull, CommittedAreFull
<1>5. CASE KeepMachine
  <2>1. i' = i + 1 /\ pc' = "exit" /\ temp' = temp /\ visited' = visited \cup ({i} \cap Machines)
        /\ (i \in Machines \ visited => ~(i \in temp /\ Children(i) \cap temp = {}))
    BY <1>1, <1>5 DEF KeepMachine, AtState, Leaves
  <2>2. ASSUME NEW m \in Machines \cap temp, m \in current, Children(m) \cap temp = {}
        PROVE  ~Treated(m)'
    <3>1. ~Treated(m) /\ m \in Nat
      BY <1>2, <1>3, <2>2
    <3>2. m # i
      BY <2>1, <2>2, <3>1 DEF Treated
    <3> QED
      BY <1>1, <2>1, <3>1, <3>2 DEF Treated
  <2> QED
    BY <1>1, <1>2, <2>1, <2>2 DEF FullInv, EnteredAreFull, ExitedAreFull, CommittedAreFull
<1>6. CASE EndExit
  <2>1. i > NStates /\ pc' = "call" /\ temp' = temp
    BY <1>6 DEF EndExit
  <2>2. \A m \in Machines : Treated(m)
    BY <1>1, <1>3, <2>1, ForestFacts DEF Treated
  <2>3. IsFull(temp)
    BY <1>2, <1>3, <2>2 DEF IsFull
  <2> QED
    BY <1>1, <2>1, <2>3 DEF FullInv, EnteredAreFull, ExitedAreFull, CommittedAreFull, IsFull
<1> QED
  BY <1>4, <1>5, <1>6

LEMMA FullStep ==
  ASSUME NothingShadowed, EveryMachineStarts, TypeOK, FullInv, [Next]_vars
  PROVE  FullInv'
<1>1. IsFull(current) /\ current \subseteq States /\ TypeOK'
  BY TypeStep DEF FullInv, NoEmptyMachine, TypeOK
<1>2. ASSUME IsFull(current'), pc' \notin {"enter", "exit", "call"}
      PROVE  FullInv'
  BY <1>2 DEF FullInv, NoEmptyMachine, EnteredAreFull, ExitedAreFull, CommittedAreFull, IsFull
<1>3. ASSUME IsFull(current'), pc' = "enter", i' = 1, visited' = {}
      PROVE  FullInv'
  <2>1. \A m \in Machines : ~Treated(m)'
    <3>1. \A m \in Machines : m \in Nat /\ m >= 1
      BY ForestFacts DEF States
    <3> QED
      BY <1>3, <3>1 DEF Treated
  <2> QED
    BY <1>3, <2>1 DEF FullInv, NoEmptyMachine, EnteredAreFull, ExitedAreFull, CommittedAreFull, IsFull
<1>4. CASE UNCHANGED vars
  BY <1>4 DEF vars, FullInv, NoEmptyMachine, EnteredAreFull, ExitedAreFull, CommittedAreFull,
              IsFull, Treated
<1>5. CASE Commit \/ PutBack
  <2>1. IsFull(temp) /\ current' = temp
    BY <1>5 DEF Commit, PutBack, FullInv, CommittedAreFull
  <2>2. pc' = "loop" \/ (pc' = "enter" /\ i' = 1 /\ visited' = {})
    BY <1>5 DEF Commit, PutBack
  <2> QED
    BY <1>2, <1>3, <2>1, <2>2
<1>6. CASE \/ EpsilonStep \/ SyncStep \/ (\E e \in Events : FetchEvent(e)) \/ FetchExit \/ FetchError
           \/ \E ms \in Restarts : FetchRestart(ms)
  <2>1. pc = "loop"
    BY <1>6 DEF EpsilonStep, SyncStep, FetchEvent, FetchExit, FetchError, FetchRestart, Fetching, Looping
  <2>2. PICK evId, evRead, ev : ev \in Event /\ Process(evId, evRead, ev)
    BY <1>6, IterationProcesses
  <2>3. current' = current
    BY <2>2 DEF Process
  <2>4. CASE NothingTriggered(ev)
    BY <1>1, <1>2, <2>1, <2>3, <2>4 DEF NothingTriggered
  <2>5. CASE TakeOut(TriggeredBy(evId), ev.machines)
    BY <1>1, <1>3, <2>3, <2>5 DEF TakeOut
  <2>6. CASE Transit(TriggeredBy(evId))
    <3> DEFINE T == TriggeredBy(evId)
    <3>1. T \in SUBSET OutOf(current) /\ T \in SUBSET TransIdx
      BY DEF TriggeredBy, OutOf
    <3> HIDE DEF T
    <3>2. (pc' = "enter" /\ i' = 1 /\ visited' = {}) \/ pc' = "call"
      BY <2>6 DEF Transit
    <3>3. ASSUME pc' = "call" PROVE IsFull(temp')
      <4>1. /\ temp' = Moved(current, T)
            /\ \A t \in T : ~Crosses(t) /\ ShadowsEntered(t) = {} /\ ShadowsLeft(t) = {}
        BY <2>6, <3>1, <3>3, KernelMoves DEF T
      <4>2. IsFull(Moved(current, T))
        BY <1>1, <3>1, <4>1, MovesInside
      <4> QED
        BY <4>1, <4>2 DEF IsFull
    <3> QED
      BY <1>1, <1>3, <2>3, <3>2, <3>3 DEF FullInv, NoEmptyMachine, EnteredAreFull,
                                          ExitedAreFull, CommittedAreFull, IsFull
  <2> QED
    BY <2>2, <2>4, <2>5, <2>6 DEF Process
<1>7. CASE FetchAction \/ FetchSetState \/ LeaveLoop \/ FinalExits
  <2>1. current' = current /\ pc' \in {"loop", "final", "done"}
    BY <1>7 DEF FetchAction, FetchSetState, LeaveLoop, FinalExits, Fetching, Looping
  <2> QED
    BY <1>1, <1>2, <2>1
<1>8. CASE FetchStart
  <2>1. pc' = "loop" /\ current' = current \cup Started(Starts[pos]) /\ pos <= Len(Starts)
    BY <1>8 DEF FetchStart, Fetching, Looping
  <2>2. Starts[pos] \in SUBSET {m \in Machines : Parent[m] = 0}
    BY <2>1, ProgramAssumption DEF TypeOK
  <2>3. IsFull(Started(Starts[pos]))
    BY <2>2, StartedAreSound
  <2>4. IsFull(current \cup Started(Starts[pos]))
    BY <1>1, <2>3 DEF IsFull
  <2> QED
    BY <1>2, <2>1, <2>4 DEF IsFull
<1> QED
  BY <1>4, <1>5, <1>6, <1>7, <1>8, EnterIsFull, ExitIsFull DEF Next

LEMMA InitIsFull == Init => FullInv
<1> SUFFICES ASSUME Init PROVE FullInv
  OBVIOUS
<1>1. current = {} /\ pc \in {"loop", "enter"} /\ i = 1 /\ visited = {}
  BY DEF Init
<1>2. \A m \in Machines : ~Treated(m)
  BY <1>1, ForestFacts DEF Treated, States
<1> QED
  BY <1>1, <1>2 DEF FullInv, NoEmptyMachine, EnteredAreFull, ExitedAreFull, CommittedAreFull, IsFull

\* What the loop keeps true of the active states, for every forest whose
\* machines all have an initial state: they are nested and no active machine
\* is empty, whatever transitions are triggered together and in whatever order
\* the completion loops meet the states (compute_entered_states,
\* compute_exit_states).  A machine without an initial state that is entered
\* for a machine inside it can stay behind empty: an exit takes along only
\* machines that were active before (compute_exit_states).
THEOREM LoopIsSound ==
  ASSUME NothingShadowed, EveryMachineStarts PROVE Spec => []LoopInv
<1>1. Init => LoopInv
  BY InitIsTyped, InitIsNested, InitIsFull DEF LoopInv
<1>2. LoopInv /\ [Next]_vars => LoopInv'
  BY TypeStep, NestedStep, FullStep DEF LoopInv
<1> QED
  BY <1>1, <1>2, PTL DEF Spec

-----------------------------------------------------------------------------
(* Joins                                                                   *)

LEMMA NoShadows ==
  ASSUME NoShadowStates
  PROVE  /\ \A s \in States : Shadows[s] = {}
         /\ \A t \in TransIdx : ShadowsEntered(t) = {} /\ ShadowsLeft(t) = {}
<1> DEFINE F(f) == [s \in States |-> IF ShadowState[s] = 0 THEN {}
                                     ELSE {ShadowState[s]} \cup f[ShadowState[s]]]
           none == [s \in States |-> {}]
<1>1. \A f : F(f) = none
  BY DEF NoShadowStates
<1>2. Shadows = CHOOSE f : f = F(f)
  BY DEF Shadows
<1> HIDE DEF F
<1>3. none = F(none)
  BY <1>1
<1>4. Shadows = F(Shadows)
  BY <1>2, <1>3
<1>5. Shadows = none
  BY <1>1, <1>4
<1>6. \A s \in States : Shadows[s] = {}
  BY <1>5
<1> QED
  BY <1>6, TransFacts DEF ShadowsEntered, ShadowsLeft

\* What the kernel does if nothing has a shadow: it moves along the triggered
\* transitions and takes the joins that are complete.
LEMMA KernelJoins ==
  ASSUME NothingShadowed, NoShadowStates, TypeOK, NEW T \in SUBSET TransIdx, Transit(T)
  PROVE  LET J == Joined(Moved(current, T), {Transitions[t].to : t \in T})
         IN /\ temp' = AfterJoin(Moved(current, T), J)
            /\ (pc' = "enter" /\ i' = 1 /\ visited' = {}) \/ (pc' = "call" /\ J = {})
<1> DEFINE sl == SlotsWith(T)
           shadows == TriggeredShadows(sl)
           moved == ShadowMoved(Moved(current, T), shadows)
           arrived == {Transitions[t].to : t \in T \cup Range(shadows)}
                        \cup UNION {ShadowsEntered(t) : t \in T}
           J == Joined(moved, arrived)
<1>1. slots \in [1 .. MaxActive -> 0 .. Len(Transitions)]
  BY DEF TypeOK
<1>2. sl \in [1 .. MaxActive -> 0 .. Len(Transitions)]
  BY <1>1, SlotsAreTyped
<1>3. shadows = <<>>
  BY <1>2, NoShadowsTriggered
<1>4. /\ temp' = AfterJoin(moved, J)
      /\ (pc' = "enter" /\ i' = 1 /\ visited' = {}) \/ (pc' = "call" /\ J = {})
  BY DEF Transit
<1> HIDE DEF shadows
<1>5. moved = Moved(current, T)
  <2>1. \A s \in States : {k \in DOMAIN shadows : s \in {Transitions[shadows[k]].from, Transitions[shadows[k]].to}} = {}
    BY <1>3
  <2>2. moved = {s \in States : s \in Moved(current, T)}
    BY <2>1 DEF ShadowMoved
  <2> QED
    BY <2>2 DEF Moved
<1>6. arrived = {Transitions[t].to : t \in T}
  <2>1. Range(shadows) = {}
    BY <1>3 DEF Range
  <2>2. \A t \in T : ShadowsEntered(t) = {}
    BY NoShadows
  <2> QED
    BY <2>1, <2>2
<1> QED
  BY <1>4, <1>5, <1>6

\* A state the kernel makes active was active or is the target of a triggered
\* transition.
LEMMA MovedAreTargets ==
  ASSUME NoShadowStates, NEW T \in SUBSET TransIdx, NEW s \in Moved(current, T)
  PROVE  s \in States /\ (s \in current \/ \E t \in T : s = Transitions[t].to)
<1> DEFINE touching == {t \in T : s \in SwitchedOff(t) \cup SwitchedOn(t)}
<1>1. s \in States /\ (IF touching = {} THEN s \in current ELSE s \in SwitchedOn(Max(touching)))
  BY DEF Moved
<1>2. CASE touching # {}
  <2>1. touching \in SUBSET (1 .. Len(Transitions)) /\ Len(Transitions) \in Nat
    BY TransFacts
  <2>2. Max(touching) \in touching
    BY <1>2, <2>1, MaxIsGreatest
  <2> HIDE DEF touching
  <2>3. Max(touching) \in T /\ s \in SwitchedOn(Max(touching))
    BY <1>1, <1>2, <2>2 DEF touching
  <2>4. \A t \in T : SwitchedOn(t) = {Transitions[t].to}
    BY NoShadows DEF SwitchedOn
  <2> QED
    BY <1>1, <2>3, <2>4
<1> QED
  BY <1>1, <1>2

\* Machines with a join state and threads to wait for; their threads have all
\* ended in S.
Joins == {m \in Machines : JoinState[m] # 0 /\ Threads(m) # {}}
Ended(m, S) == \A k \in Threads(m) : FinalState[k] \in S

\* The threads of a machine whose threads have all ended are left in the same
\* iteration: compute_exit_states still has to deal with each of them.
JoinInv ==
  /\ \A m \in Joins : ~Ended(m, current)
  /\ pc = "enter" => \A m \in Joins : Ended(m, temp) => Threads(m) \subseteq current \ temp
  /\ pc = "exit" => \A m \in Joins : Ended(m, temp) =>
                      \A k \in Threads(m) : k \in current \ temp /\ ~Treated(k)
  /\ pc = "call" => \A m \in Joins : ~Ended(m, temp)

LEMMA ThreadFacts ==
  ASSUME FinalsAreInside, NEW m \in Machines, NEW k \in Threads(m)
  PROVE  /\ k \in Machines /\ k \in States /\ Parent[k] = m
         /\ FinalState[k] # 0 =>
              /\ FinalState[k] \in States /\ FinalState[k] \notin Machines /\ Parent[FinalState[k]] = k
              /\ \A t \in TransIdx : Transitions[t].to = FinalState[k] => k \in Ancestors[Transitions[t].from]
              /\ \A C \in SUBSET Machines : FinalState[k] \notin InitialsOf(C)
<1>1. k \in ThreadMachines /\ k \in Machines /\ k \in States /\ Parent[k] = m
  BY MachineFacts, ForestFacts DEF Threads, Children
<1>2. FinalState[k] \in Children(k) \cup {0}
  BY <1>1, MachineAssumption
<1>3. FinalState[k] # 0 =>
        /\ FinalState[k] \in States /\ FinalState[k] \notin Machines /\ Parent[FinalState[k]] = k
        /\ \A t \in TransIdx : Transitions[t].to = FinalState[k] => k \in Ancestors[Transitions[t].from]
  BY <1>1, <1>2 DEF FinalsAreInside, Children
<1>4. ASSUME FinalState[k] # 0, NEW C \in SUBSET Machines, FinalState[k] \in InitialsOf(C) PROVE FALSE
  <2>1. PICK n \in C : FinalState[k] = InitialState[n]
    BY <1>4 DEF InitialsOf
  <2>2. n = k
    BY <1>3, <1>4, <2>1, MachineFacts DEF Children
  <2> QED
    BY <1>1, <1>4, <2>1, <2>2 DEF FinalsAreInside
<1> QED
  BY <1>1, <1>3, <1>4

LEMMA NestedHoldAncestors ==
  ASSUME NEW S \in SUBSET States, IsNested(S), NEW s \in S
  PROVE  Ancestors[s] \subseteq S
<1>1. Ancestors[s] \subseteq Machines /\ \A x \in Ancestors[s] \cup {s} : Parent[x] \in Ancestors[s] \cup {0}
  BY AncestorsAreClosed DEF ClosedAbove
<1>2. \A x \in (Ancestors[s] \cap S) \cup {s} : Parent[x] \in (Ancestors[s] \cap S) \cup {0}
  BY <1>1 DEF IsNested
<1>3. Ancestors[s] \cap S \in ClosedAbove(s)
  BY <1>1, <1>2 DEF ClosedAbove
<1> QED
  BY <1>3, AncestorsAreClosed

\* A thread whose final state the kernel has made active was active before.
LEMMA EndedWereActive ==
  ASSUME NoShadowStates, FinalsAreInside, current \subseteq States, IsNested(current),
         NEW T \in SUBSET OutOf(current),
         NEW m \in Machines, NEW k \in Threads(m), FinalState[k] \in Moved(current, T)
  PROVE  k \in current /\ (FinalState[k] \in current \/ \E t \in T : FinalState[k] = Transitions[t].to)
<1> DEFINE f == FinalState[k]
<1>1. T \in SUBSET TransIdx /\ \A t \in T : Transitions[t].from \in current
  BY DEF OutOf
<1>2. f \in States /\ (f \in current \/ \E t \in T : f = Transitions[t].to)
  BY <1>1, MovedAreTargets
<1>3. f # 0 /\ k \in States /\ k # 0
  BY <1>2, ThreadFacts, ForestFacts
<1>4. CASE f \in current
  <2>1. Parent[f] = k
    BY <1>3, ThreadFacts
  <2> QED
    BY <1>2, <1>3, <1>4, <2>1 DEF IsNested
<1>5. ASSUME NEW t \in T, f = Transitions[t].to PROVE k \in current
  <2>1. k \in Ancestors[Transitions[t].from]
    BY <1>1, <1>3, <1>5, ThreadFacts
  <2> QED
    BY <1>1, <2>1, NestedHoldAncestors
<1> QED
  BY <1>2, <1>4, <1>5

LEMMA TransitJoins ==
  ASSUME NothingShadowed, NoShadowStates, FinalsAreInside, TypeOK, IsNested(current), JoinInv,
         NEW T \in SUBSET OutOf(current), Transit(T), current' = current
  PROVE  JoinInv'
<1> DEFINE S == Moved(current, T)
           A == {Transitions[t].to : t \in T}
           J == Joined(S, A)
<1>1. T \in SUBSET TransIdx /\ current \subseteq States
  BY DEF OutOf, TypeOK
<1>2. /\ temp' = AfterJoin(S, J)
      /\ (pc' = "enter" /\ i' = 1 /\ visited' = {}) \/ (pc' = "call" /\ J = {})
  BY <1>1, KernelJoins, Zenon
<1>3. \A m \in Joins : ~Ended(m, current)
  BY DEF JoinInv
<1>4. ASSUME NEW m \in Machines, NEW k \in Threads(m), FinalState[k] \in S
      PROVE  k \in current /\ (FinalState[k] \in current \/ FinalState[k] \in A)
  BY <1>1, <1>4, EndedWereActive
<1> HIDE DEF S, A
<1>5. ASSUME NEW m \in Joins, Ended(m, S)
      PROVE  m \in J /\ Threads(m) \subseteq current
  <2>1. m \in Machines /\ JoinState[m] # 0
    BY DEF Joins
  <2>2. \A k \in Threads(m) : k \in current /\ (FinalState[k] \in current \/ FinalState[k] \in A)
    BY <1>4, <1>5, <2>1 DEF Ended
  <2>3. \E k \in Threads(m) : FinalState[k] \in A
    BY <1>3, <2>2 DEF Ended
  <2> QED
    BY <1>5, <2>1, <2>2, <2>3 DEF Joined, Ended
<1>6. ASSUME NEW m \in Joins, Ended(m, temp')
      PROVE  Ended(m, S)
  <2> SUFFICES ASSUME NEW k \in Threads(m) PROVE FinalState[k] \in S
    BY DEF Ended
  <2>1. m \in Machines /\ k \in ThreadMachines /\ FinalState[k] \in temp'
    BY <1>6 DEF Joins, Ended, Threads
  <2>2. \A n \in J : n \in Machines /\ JoinState[n] # 0 /\ JoinState[n] # FinalState[k]
    BY <2>1, MachineAssumption DEF Joined
  <2> HIDE DEF J
  <2> QED
    BY <1>2, <2>1, <2>2 DEF AfterJoin
<1>7. ASSUME NEW m \in J, NEW k \in Threads(m) PROVE k \notin temp'
  <2>1. k \in ThreadMachines /\ \A n \in J : JoinState[n] # k
    BY DEF Threads, FinalsAreInside, Joined
  <2> HIDE DEF J
  <2> QED
    BY <1>2, <2>1 DEF AfterJoin
<1> HIDE DEF J
<1>8. \A m \in Joins : Ended(m, temp') => m \in J /\ Threads(m) \subseteq current \ temp'
  BY <1>5, <1>6, <1>7
<1> QED
  BY <1>2, <1>3, <1>8 DEF JoinInv, Ended

\* compute_entered_states brings back no thread that ends.
LEMMA EnterJoins ==
  ASSUME FinalsAreInside, TypeOK, IsNested(current), JoinInv, EnterState \/ SkipState \/ EndEnter
  PROVE  JoinInv'
<1>1. current' = current /\ pc = "enter" /\ i \in Nat /\ \A m \in Joins : ~Ended(m, current)
  BY DEF EnterState, SkipState, EndEnter, Unchanged1, JoinInv, TypeOK
<1>2. \A m \in Joins : Ended(m, temp) => Threads(m) \subseteq current \ temp
  BY <1>1 DEF JoinInv
<1>3. CASE EnterState
  <2> DEFINE open == Opened(i)
  <2>1. i \in States /\ i \in temp \ current /\ pc' = "enter" /\ temp' = temp \cup open \cup InitialsOf(open)
    BY <1>3 DEF EnterState, AtState, TypeOK
  <2>2. open \in SUBSET Machines
    BY <2>1, OpenedAreMachines
  <2>3. ASSUME NEW m \in Joins, Ended(m, temp')
        PROVE  Threads(m) \subseteq current \ temp'
    <3>1. m \in Machines
      BY DEF Joins
    <3>2. ASSUME NEW k \in Threads(m) PROVE FinalState[k] \in temp
      <4>1. FinalState[k] \in temp' /\ temp' \subseteq States
        BY <2>3, TypeStep DEF Ended, TypeOK, Next
      <4>2. FinalState[k] \notin open /\ FinalState[k] \notin InitialsOf(open)
        BY <2>2, <3>1, <4>1, ThreadFacts, ForestFacts
      <4> HIDE DEF open
      <4> QED
        BY <2>1, <4>1, <4>2
    <3>3. Threads(m) \subseteq current \ temp
      BY <1>2, <3>2 DEF Ended
    <3>4. ASSUME NEW k \in Threads(m), k \in temp' PROVE FALSE
      <4>1. k \in current /\ k \notin temp /\ Parent[k] = m /\ k \in Machines /\ m # 0
        BY <3>1, <3>3, ThreadFacts, ForestFacts
      <4>2. m \in current
        BY <4>1 DEF IsNested
      <4>3. k \notin InitialsOf(open)
        BY <2>2, <4>1, InitialsFacts
      <4>4. k \in open
        BY <2>1, <3>4, <4>1, <4>3
      <4>5. k \in Threads(i)
        BY <2>1, <4>1, <4>4 DEF Opened, Unentered
      <4> QED
        BY <2>1, <4>1, <4>2, <4>5 DEF Threads, Children
    <3> QED
      BY <3>3, <3>4
  <2> HIDE DEF open
  <2> QED
    BY <1>1, <2>1, <2>3 DEF JoinInv, Ended
<1>4. CASE SkipState
  BY <1>1, <1>2, <1>4 DEF SkipState, AtState, JoinInv, Ended
<1>5. CASE EndEnter
  <2>1. pc' = "exit" /\ i' = 1 /\ visited' = {} /\ temp' = temp
    BY <1>5 DEF EndEnter
  <2>2. \A m \in Joins : \A k \in Threads(m) : ~Treated(k)'
    <3>1. \A m \in Joins : \A k \in Threads(m) : k \in Nat /\ k >= 1
      BY ThreadFacts DEF Joins, States
    <3> QED
      BY <2>1, <3>1 DEF Treated
  <2> QED
    BY <1>1, <1>2, <2>1, <2>2 DEF JoinInv, Ended
<1> QED
  BY <1>3, <1>4, <1>5

\* compute_exit_states finds every thread that ends and leaves its states.
LEMMA ExitJoins ==
  ASSUME FinalsAreInside, TypeOK, JoinInv, ExitMachine \/ KeepMachine \/ EndExit
  PROVE  JoinInv'
<1>1. current' = current /\ pc = "exit" /\ i \in Nat /\ \A m \in Joins : ~Ended(m, current)
  BY DEF ExitMachine, KeepMachine, EndExit, Unchanged1, JoinInv, TypeOK
<1>2. \A m \in Joins : Ended(m, temp) => \A k \in Threads(m) : k \in current \ temp /\ ~Treated(k)
  BY <1>1 DEF JoinInv
<1>3. \A m \in Joins : \A k \in Threads(m) : k \in Machines /\ k \in States /\ k \in Nat /\ k <= NStates
  BY ThreadFacts, ForestFacts DEF Joins, States
<1>4. CASE ExitMachine
  <2> DEFINE gone == IF i \in temp THEN {i} ELSE Descendants(i)
             up == Emptied(i, temp \ gone)
  <2>1. i \in Machines /\ i \in States /\ i' = i + 1 /\ pc' = "exit" /\ temp' = temp \ (gone \cup up)
        /\ visited' = visited \cup {i} \cup gone
    BY <1>1, <1>4, ForestFacts DEF ExitMachine, AtState
  <2>2. ASSUME NEW m \in Joins, Ended(m, temp'), NEW k \in Threads(m)
        PROVE  k \in current \ temp' /\ ~Treated(k)'
    <3>1. Ended(m, temp)
      BY <2>1, <2>2 DEF Ended
    <3>2. k \in current /\ k \notin temp /\ ~Treated(k) /\ k \in Machines
      BY <1>2, <1>3, <2>2, <3>1
    <3>3. FinalState[k] \in temp' /\ FinalState[k] \in temp /\ FinalState[k] \in States
      BY <2>1, <2>2 DEF Ended, TypeOK
    <3>4. FinalState[k] # 0 /\ Parent[FinalState[k]] = k
      BY <3>3, ThreadFacts, ForestFacts DEF Joins
    <3>5. i # k /\ k \notin gone
      <4>1. CASE i \in temp
        BY <3>2, <4>1
      <4>2. CASE i \notin temp
        <5>1. FinalState[k] \notin Descendants(i)
          BY <2>1, <3>3, <4>2
        <5> QED
          BY <2>1, <3>2, <3>3, <3>4, <4>2, <5>1, DescendantsUnfold, ForestFacts
      <4> QED
        BY <4>1, <4>2
    <3> HIDE DEF gone, up
    <3>6. k \in Nat
      BY <1>3
    <3> QED
      BY <1>1, <2>1, <3>2, <3>5, <3>6 DEF Treated
  <2> HIDE DEF gone, up
  <2> QED
    BY <1>1, <2>1, <2>2 DEF JoinInv, Ended
<1>5. CASE KeepMachine
  <2>1. i' = i + 1 /\ pc' = "exit" /\ temp' = temp /\ visited' = visited \cup ({i} \cap Machines)
        /\ (i \in Machines \ visited => i \notin current \ temp)
    BY <1>1, <1>5 DEF KeepMachine, AtState, Leaves
  <2>2. ASSUME NEW m \in Joins, Ended(m, temp), NEW k \in Threads(m)
        PROVE  k \in current \ temp /\ ~Treated(k)'
    <3>1. k \in current \ temp /\ ~Treated(k) /\ k \in Machines /\ k \in Nat
      BY <1>2, <1>3, <2>2
    <3>2. k # i
      BY <2>1, <3>1 DEF Treated
    <3> QED
      BY <1>1, <2>1, <3>1, <3>2 DEF Treated
  <2> QED
    BY <1>1, <2>1, <2>2 DEF JoinInv, Ended
<1>6. CASE EndExit
  <2>1. i > NStates /\ pc' = "call" /\ temp' = temp
    BY <1>6 DEF EndExit
  <2>2. \A m \in Joins : \A k \in Threads(m) : Treated(k)
    BY <1>1, <1>3, <2>1, ForestFacts DEF Treated
  <2>3. \A m \in Joins : ~Ended(m, temp)
    BY <1>2, <2>2 DEF Joins
  <2> QED
    BY <1>1, <2>1, <2>3 DEF JoinInv, Ended
<1> QED
  BY <1>4, <1>5, <1>6

LEMMA JoinStep ==
  ASSUME NothingShadowed, NoShadowStates, FinalsAreInside, TypeOK, NestedInv, JoinInv, [Next]_vars
  PROVE  JoinInv'
<1>1. IsNested(current) /\ current \subseteq States /\ temp \subseteq States
      /\ \A m \in Joins : m \in Machines /\ ~Ended(m, current)
  BY DEF NestedInv, ActiveStatesAreNested, TypeOK, JoinInv, Joins
<1>2. ASSUME \A m \in Joins : ~Ended(m, current'), pc' \notin {"enter", "exit", "call"}
      PROVE  JoinInv'
  BY <1>2 DEF JoinInv, Ended
<1>3. ASSUME \A m \in Joins : ~Ended(m, current'), \A m \in Joins : ~Ended(m, temp'), pc' = "enter"
      PROVE  JoinInv'
  BY <1>3 DEF JoinInv, Ended
<1>4. CASE UNCHANGED vars
  BY <1>4 DEF vars, JoinInv, Ended, Treated
<1>5. CASE Commit
  BY <1>2, <1>5 DEF Commit, JoinInv
<1>6. CASE PutBack
  <2>1. pc = "call" /\ current' = temp /\ temp' = temp \cup curEv.machines /\ pc' = "enter"
        /\ curEv.machines \subseteq Machines
    BY <1>6 DEF PutBack, TypeOK, Event
  <2>2. \A m \in Joins : ~Ended(m, temp)
    BY <2>1 DEF JoinInv
  <2>3. ASSUME NEW m \in Joins, Ended(m, temp') PROVE Ended(m, temp)
    <3> SUFFICES ASSUME NEW k \in Threads(m) PROVE FinalState[k] \in temp
      BY DEF Ended
    <3>1. FinalState[k] \in temp' /\ FinalState[k] # 0
      BY <1>1, <2>1, <2>3, ForestFacts DEF Ended
    <3>2. FinalState[k] \notin Machines
      BY <1>1, <3>1, ThreadFacts
    <3> QED
      BY <2>1, <3>1, <3>2
  <2> QED
    BY <1>3, <2>1, <2>2, <2>3
<1>7. CASE \/ EpsilonStep \/ SyncStep \/ (\E e \in Events : FetchEvent(e)) \/ FetchExit \/ FetchError
           \/ \E ms \in Restarts : FetchRestart(ms)
  <2>1. pc = "loop"
    BY <1>7 DEF EpsilonStep, SyncStep, FetchEvent, FetchExit, FetchError, FetchRestart, Fetching, Looping
  <2>2. PICK evId, evRead, ev : ev \in Event /\ Process(evId, evRead, ev)
    BY <1>7, IterationProcesses
  <2>3. current' = current
    BY <2>2 DEF Process
  <2>4. CASE NothingTriggered(ev)
    BY <1>1, <1>2, <2>1, <2>3, <2>4 DEF NothingTriggered
  <2>5. CASE TakeOut(TriggeredBy(evId), ev.machines)
    <3>1. temp' \subseteq current /\ pc' = "enter"
      BY <2>5 DEF TakeOut
    <3>2. \A m \in Joins : ~Ended(m, temp')
      BY <1>1, <3>1 DEF Ended
    <3> QED
      BY <1>1, <1>3, <2>3, <3>1, <3>2
  <2>6. CASE Transit(TriggeredBy(evId))
    <3>1. TriggeredBy(evId) \in SUBSET OutOf(current)
      BY DEF TriggeredBy
    <3> QED
      BY <1>1, <2>3, <2>6, <3>1, TransitJoins
  <2> QED
    BY <2>2, <2>4, <2>5, <2>6 DEF Process
<1>8. CASE FetchAction \/ FetchSetState \/ LeaveLoop \/ FinalExits
  <2>1. current' = current /\ pc' \in {"loop", "final", "done"}
    BY <1>8 DEF FetchAction, FetchSetState, LeaveLoop, FinalExits, Fetching, Looping
  <2> QED
    BY <1>1, <1>2, <2>1
<1>9. CASE FetchStart
  <2>1. pc' = "loop" /\ current' = current \cup Started(Starts[pos]) /\ pos <= Len(Starts)
    BY <1>9 DEF FetchStart, Fetching, Looping
  <2>2. Starts[pos] \in SUBSET Machines
    BY <2>1, ProgramAssumption DEF TypeOK
  <2>3. ASSUME NEW m \in Joins, NEW k \in Threads(m), FinalState[k] \in Started(Starts[pos]) PROVE FALSE
    <3>1. FinalState[k] # 0
      BY <2>2, <2>3, StartedAreStates, ForestFacts
    <3>2. PICK n \in Starts[pos] : FinalState[k] \in StartHull(n)
      BY <2>3 DEF Started
    <3>3. PICK open \in SUBSET Machines : StartHull(n) = open \cup InitialsOf(open)
      BY <2>2, MachineAssumption DEF StartHull
    <3> QED
      BY <1>1, <3>1, <3>2, <3>3, ThreadFacts
  <2>4. \A m \in Joins : ~Ended(m, current')
    BY <1>1, <2>1, <2>3 DEF Ended
  <2> QED
    BY <1>2, <2>1, <2>4
<1> QED
  BY <1>1, <1>4, <1>5, <1>6, <1>7, <1>8, <1>9, EnterJoins, ExitJoins DEF Next

\* A machine with a join state never rests with all of its threads ended, in
\* whatever order and in however many iterations they ended
\* (triggered_thread_regions in compute_transition_kernel), if final states
\* are reached from inside their threads only.  A transition from outside into
\* the final state of an only thread takes the join state and activates the
\* thread again (compute_entered_states), with both of its states.
THEOREM JoinsAreTaken ==
  ASSUME NothingShadowed, NoShadowStates, FinalsAreInside
  PROVE  Spec => []JoinIsTaken
<1> DEFINE Inv == TypeOK /\ NestedInv /\ JoinInv
<1>1. Init => Inv
  <2> SUFFICES ASSUME Init PROVE JoinInv
    BY InitIsTyped, InitIsNested
  <2>1. current = {} /\ pc \in {"loop", "enter"} /\ temp \subseteq Machines
    BY MachineAssumption DEF Init
  <2>2. ASSUME NEW m \in Joins PROVE ~Ended(m, current) /\ ~Ended(m, temp)
    <3>1. PICK k \in Threads(m) : TRUE
      BY DEF Joins
    <3>2. FinalState[k] # 0 => FinalState[k] \notin Machines
      BY ThreadFacts DEF Joins
    <3> QED
      BY <2>1, <3>2, ForestFacts DEF Ended
  <2> QED
    BY <2>1, <2>2 DEF JoinInv
<1>2. Inv /\ [Next]_vars => Inv'
  BY TypeStep, NestedStep, JoinStep
<1>3. Inv => JoinIsTaken
  BY DEF JoinInv, Joins, Ended, JoinIsTaken
<1> QED
  BY <1>1, <1>2, <1>3, PTL DEF Spec

-----------------------------------------------------------------------------
(* on_enter and on_exit come in pairs                                      *)

\* m is one of the roots R or inside one.
Covered(R, m) == \E r \in R : m = r \/ r \in Ancestors[m]

\* The root lists, while they are built: the roots compute_entered_states has
\* found are machines that become active and hold every such machine it has
\* dealt with; those of compute_exit_states are machines that were active and
\* are not any more, and hold every machine it has dealt with that was left.
\* The first round of a restart activates nothing, and the machines it has
\* left are not active in the second, whose lists still name them.
FirstRoundInv == pc \in {"enter", "exit", "call"} /\ round = 1 => entering = {} /\ temp \subseteq current
EnterRootsInv ==
  pc = "enter" =>
    /\ exiting \cap current = {}
    /\ entering \subseteq temp \ current
    /\ \A m \in Machines \cap (temp \ current) : Treated(m) => Covered(entering, m)
ExitRootsInv ==
  pc \in {"exit", "call"} =>
    /\ exiting \cap current \cap temp = {}
    /\ \A m \in Machines \cap (temp \ current) : Covered(entering \cap (temp \ current), m)
    /\ \A m \in Machines \cap (current \ temp) :
         Covered(exiting \cap current, m) \/ (pc = "exit" /\ ~Treated(m))
RootsInv ==
  /\ pc = "loop" => entering = {} /\ exiting = {}
  /\ FirstRoundInv /\ EnterRootsInv /\ ExitRootsInv

\* The outermost machine of a chain holds all of it.
LEMMA OutermostCovers ==
  ASSUME NEW s \in States, NEW C \in SUBSET ({s} \cup Ancestors[s]), C # {}
  PROVE  Outermost(C) \in C /\ \A x \in C : Covered({Outermost(C)}, x)
<1>1. C \in SUBSET States
  BY AncestorsUnfold, ForestFacts
<1>2. PICK r \in C : r = Outermost(C) /\ C \cap Ancestors[r] = {}
  BY <1>1, OutermostIsMember
<1>3. ASSUME NEW x \in C PROVE x = r \/ r \in Ancestors[x]
  <2>1. x \notin Ancestors[r]
    BY <1>2
  <2>2. CASE x = s
    BY <2>2
  <2>3. CASE r = s
    BY <2>1, <2>3
  <2>4. CASE x # s /\ r # s
    BY <2>1, <2>4, AncestorsAreChained
  <2> QED
    BY <2>2, <2>3, <2>4
<1> QED
  BY <1>2, <1>3 DEF Covered

LEMMA OpenedHaveRoot ==
  ASSUME ActiveStatesAreNested, current \subseteq States, NEW s \in States \ current, Opened(s) # {}
  PROVE  /\ Outermost(Opened(s)) \in Opened(s) /\ Opened(s) \cap current = {}
         /\ \A x \in Opened(s) : Covered({Outermost(Opened(s))}, x)
<1> DEFINE C == Opened(s)
<1>1. C \in SUBSET States /\ Ancestors[s] \subseteq Machines
  BY OpenedAreMachines, ForestFacts, AncestorsUnfold
<1>2. PICK r \in C : r = Outermost(C) /\ C \cap Ancestors[r] = {}
  BY <1>1, OutermostIsMember
<1>3. \A k \in Threads(s) : k \in States /\ k # 0 /\ Parent[k] = s
  BY ForestFacts DEF Threads, Children
<1>4. s \in Machines => \A k \in Threads(s) : Ancestors[k] = {s} \cup Ancestors[s]
  BY <1>3, AncestorsUnfold, ForestFacts
<1>5. C \cap current = {}
  <2>1. s \in Machines => Threads(s) \cap current = {}
    BY <1>3, ForestFacts DEF ActiveStatesAreNested, IsNested
  <2> QED
    BY <2>1 DEF Opened, Unentered
<1>6. r \in {s} \cup Ancestors[s]
  <2>1. ASSUME s \in Machines, r \in Threads(s) PROVE FALSE
    BY <1>2, <1>4, <2>1 DEF Opened
  <2> QED
    BY <2>1 DEF Opened, Unentered
<1>7. ASSUME NEW x \in C PROVE x = r \/ r \in Ancestors[x]
  <2>1. CASE s \in Machines /\ x \in Threads(s)
    BY <1>4, <1>6, <2>1
  <2>2. CASE x \in {s} \cup Ancestors[s]
    <3>1. x \notin Ancestors[r]
      BY <1>2
    <3>2. CASE x # s /\ r # s
      BY <1>6, <2>2, <3>1, <3>2, AncestorsAreChained
    <3>3. CASE x = s
      BY <1>6, <3>3
    <3>4. CASE r = s
      BY <2>2, <3>1, <3>4
    <3> QED
      BY <3>2, <3>3, <3>4
  <2> QED
    BY <2>1, <2>2 DEF Opened, Unentered
<1> QED
  BY <1>2, <1>5, <1>7 DEF Covered

LEMMA EnterRoots ==
  ASSUME TypeOK, NestedInv, RootsInv, EnterState \/ SkipState \/ EndEnter
  PROVE  RootsInv'
<1>1. current' = current /\ round' = round /\ exiting' = exiting /\ pc = "enter" /\ i \in Nat
      /\ ActiveStatesAreNested /\ current \subseteq States /\ temp \subseteq States
  BY DEF EnterState, SkipState, EndEnter, Unchanged1, NestedInv, TypeOK
<1>2. /\ round = 1 => entering = {} /\ temp \subseteq current
      /\ exiting \cap current = {} /\ entering \subseteq temp \ current
      /\ \A m \in Machines \cap (temp \ current) : Treated(m) => Covered(entering, m)
  BY <1>1 DEF RootsInv, FirstRoundInv, EnterRootsInv
<1>3. CASE EnterState
  <2> DEFINE open == Opened(i)
  <2>1. i \in States /\ i \in temp \ current /\ i' = i + 1 /\ pc' = "enter"
        /\ temp' = temp \cup open \cup InitialsOf(open)
        /\ visited' = visited \cup {i} \cup open \cup InitialsOf(open)
        /\ entering' = entering \cup (IF open = {} THEN {} ELSE {Outermost(open)})
    BY <1>1, <1>3 DEF EnterState, AtState
  <2>2. open \in SUBSET Machines /\ (i \in Machines => i \in open)
    BY <2>1, OpenedAreMachines DEF Opened
  <2>3. open # {} => /\ Outermost(open) \in open /\ open \cap current = {}
                     /\ \A x \in open : Covered({Outermost(open)}, x)
    BY <1>1, <2>1, OpenedHaveRoot
  <2>4. InitialsOf(open) \cap Machines = {}
    BY <2>2, InitialsFacts
  <2> HIDE DEF open
  <2>5. entering' \subseteq temp' \ current'
    BY <1>1, <1>2, <2>1, <2>3
  <2>6. ASSUME NEW m \in Machines \cap (temp' \ current'), Treated(m)'
        PROVE  Covered(entering', m)
    <3>1. CASE m \in open
      BY <2>1, <2>3, <3>1 DEF Covered
    <3>2. CASE m \notin open
      <4>0. m \in Nat
        BY ForestFacts DEF States
      <4>1. m \in temp \ current /\ m # i /\ m \in Nat
        BY <1>1, <2>1, <2>2, <2>4, <3>2, <4>0
      <4>2. Treated(m)
        BY <1>1, <2>1, <2>4, <2>6, <3>2, <4>1 DEF Treated
      <4> QED
        BY <1>2, <2>1, <4>1, <4>2 DEF Covered
    <3> QED
      BY <3>1, <3>2
  <2>7. round # 1
    BY <1>2, <2>1
  <2> QED
    BY <1>1, <1>2, <2>1, <2>5, <2>6, <2>7 DEF RootsInv, FirstRoundInv, EnterRootsInv, ExitRootsInv, Covered
<1>4. CASE SkipState
  <2>1. i' = i + 1 /\ pc' = "enter" /\ temp' = temp /\ visited' = visited /\ entering' = entering
        /\ i \notin temp \ (current \cup visited)
    BY <1>1, <1>4 DEF SkipState, AtState
  <2>2. \A s \in temp \ current : Treated(s)' => Treated(s)
    BY <1>1, <2>1 DEF Treated, States
  <2> QED
    BY <1>1, <1>2, <2>1, <2>2 DEF RootsInv, FirstRoundInv, EnterRootsInv, ExitRootsInv, Covered
<1>5. CASE EndEnter
  <2>1. i > NStates /\ pc' = "exit" /\ i' = 1 /\ visited' = {} /\ temp' = temp /\ entering' = entering
    BY <1>5 DEF EndEnter
  <2>2. \A m \in Machines : ~Treated(m)' /\ Treated(m)
    <3>1. \A m \in Machines : m \in Nat /\ m >= 1 /\ m <= NStates
      BY ForestFacts DEF States
    <3> QED
      BY <1>1, <2>1, <3>1, ForestFacts DEF Treated
  <2>3. \A m \in Machines \cap (temp \ current) : Covered(entering \cap (temp \ current), m)
    BY <1>2, <2>2 DEF Covered
  <2> QED
    BY <1>1, <1>2, <2>1, <2>2, <2>3 DEF RootsInv, FirstRoundInv, EnterRootsInv, ExitRootsInv, Covered
<1> QED
  BY <1>3, <1>4, <1>5

LEMMA ExitRoots ==
  ASSUME EveryMachineStarts, TypeOK, FullInv, RootsInv, ExitMachine \/ KeepMachine \/ EndExit
  PROVE  RootsInv'
<1>1. current' = current /\ round' = round /\ entering' = entering /\ pc = "exit" /\ i \in Nat
      /\ current \subseteq States /\ temp \subseteq States
  BY DEF ExitMachine, KeepMachine, EndExit, Unchanged1, TypeOK
<1>2. /\ round = 1 => entering = {} /\ temp \subseteq current
      /\ exiting \cap current \cap temp = {}
      /\ \A m \in Machines \cap (temp \ current) : Covered(entering \cap (temp \ current), m)
      /\ \A m \in Machines \cap (current \ temp) : Covered(exiting \cap current, m) \/ ~Treated(m)
  BY <1>1 DEF RootsInv, FirstRoundInv, ExitRootsInv
<1>3. \A m \in Machines : m \in Nat /\ m \in States /\ m <= NStates /\ m # 0
                          /\ InitialState[m] \in Children(m)
  <2>1. \A x \in States : x \in Nat /\ x <= NStates /\ x # 0
    BY ForestFacts DEF States
  <2> QED
    BY <2>1, MachineFacts DEF EveryMachineStarts
<1>4. CASE ExitMachine
  <2> DEFINE gone == IF i \in temp THEN {i} ELSE Descendants(i)
             up == Emptied(i, temp \ gone)
             r == Outermost({i} \cup up)
  <2>1. i \in Machines /\ i \in States /\ i' = i + 1 /\ pc' = "exit" /\ temp' = temp \ (gone \cup up)
        /\ visited' = visited \cup {i} \cup gone /\ exiting' = exiting \cup {r}
    BY <1>1, <1>4, ForestFacts DEF ExitMachine, AtState
  <2>2. i \in current /\ (i \in temp => Children(i) \cap temp = {})
    <3>1. (i \in temp /\ Children(i) \cap temp = {}) \/ i \in current \ temp
      BY <1>4 DEF ExitMachine, Leaves
    <3>2. i \in temp /\ i \notin current => InitialState[i] \in temp
      BY <1>1, <2>1 DEF FullInv, ExitedAreFull
    <3> QED
      BY <1>3, <2>1, <3>1, <3>2
  <2>3. up \subseteq current /\ up \subseteq Ancestors[i]
    BY <2>1, EmptiedFacts
  <2>4. r \in {i} \cup up /\ \A x \in {i} \cup up : Covered({r}, x)
    <3>1. {i} \cup up \in SUBSET ({i} \cup Ancestors[i]) /\ {i} \cup up # {}
      BY <2>3
    <3> HIDE DEF up
    <3> QED
      BY <2>1, <3>1, OutermostCovers
  <2>5. r \in current /\ r \notin temp'
    <3>1. i \notin temp'
      BY <2>1
    <3> HIDE DEF gone, up, r
    <3> QED
      BY <2>1, <2>2, <2>3, <2>4, <3>1
  <2>6. ASSUME NEW x \in {i} \cup gone \cup up PROVE Covered({r}, x)
    <3>1. CASE x \in {i} \cup up
      BY <2>4, <3>1
    <3>2. CASE x \in Descendants(i)
      <4>1. x \in States /\ i \in Ancestors[x]
        BY <3>2 DEF Descendants
      <4>2. Ancestors[i] \subseteq Ancestors[x]
        BY <4>1, AncestorsAreTransitive
      <4>3. i = r \/ r \in Ancestors[i]
        BY <2>4 DEF Covered
      <4> HIDE DEF r
      <4> QED
        BY <4>1, <4>2, <4>3 DEF Covered
    <3> QED
      BY <2>6, <3>1, <3>2
  <2>7. ASSUME NEW m \in Machines \cap (temp' \ current)
        PROVE  Covered(entering \cap (temp' \ current), m)
    <3>1. m \in temp \ current /\ m \notin gone
      BY <2>1
    <3>2. PICK e \in entering \cap (temp \ current) : m = e \/ e \in Ancestors[m]
      BY <1>2, <3>1 DEF Covered
    <3>3. e \notin up
      BY <2>3, <3>2
    <3>4. e \notin gone
      <4>1. CASE i \in temp
        BY <2>2, <3>2, <4>1
      <4>2. CASE i \notin temp
        <5>1. ASSUME e \in Descendants(i) PROVE m \in Descendants(i)
          <6>1. m \in States /\ i \in Ancestors[e]
            BY <1>3, <5>1 DEF Descendants
          <6>2. i \in Ancestors[m]
            BY <3>2, <6>1, AncestorsAreTransitive
          <6> QED
            BY <6>1, <6>2 DEF Descendants
        <5> QED
          BY <3>1, <4>2, <5>1
      <4> QED
        BY <4>1, <4>2
    <3> HIDE DEF gone, up
    <3> QED
      BY <2>1, <3>2, <3>3, <3>4 DEF Covered
  <2>8. ASSUME NEW m \in Machines \cap (current \ temp')
        PROVE  Covered(exiting' \cap current, m) \/ ~Treated(m)'
    <3>1. CASE m \in {i} \cup gone \cup up
      <4>1. m = r \/ r \in Ancestors[m]
        BY <2>6, <3>1 DEF Covered
      <4> HIDE DEF gone, up, r
      <4> QED
        BY <2>1, <2>5, <4>1 DEF Covered
    <3>2. CASE m \notin {i} \cup gone \cup up
      <4> HIDE DEF gone, up, r
      <4>1. m \in current \ temp /\ m # i /\ m \notin gone /\ m \in Nat
        BY <1>3, <2>1, <3>2
      <4>2. CASE ~Treated(m)
        BY <1>1, <2>1, <4>1, <4>2 DEF Treated
      <4>3. CASE Covered(exiting \cap current, m)
        BY <2>1, <4>3 DEF Covered
      <4> QED
        BY <1>2, <4>1, <4>2, <4>3
    <3> QED
      BY <3>1, <3>2
  <2>9. exiting' \cap current \cap temp' = {} /\ temp' \subseteq temp
    <3> HIDE DEF gone, up, r
    <3> QED
      BY <1>2, <2>1, <2>5
  <2> HIDE DEF gone, up, r
  <2> QED
    BY <1>1, <1>2, <2>1, <2>7, <2>8, <2>9 DEF RootsInv, FirstRoundInv, EnterRootsInv, ExitRootsInv, Covered
<1>5. CASE KeepMachine
  <2>1. i' = i + 1 /\ pc' = "exit" /\ temp' = temp /\ visited' = visited \cup ({i} \cap Machines)
        /\ exiting' = exiting /\ (i \in Machines \ visited => i \notin current \ temp)
    BY <1>1, <1>5 DEF KeepMachine, AtState, Leaves
  <2>2. ASSUME NEW m \in Machines \cap (current \ temp), ~Treated(m) PROVE ~Treated(m)'
    <3>1. m # i /\ m \in Nat
      BY <1>3, <2>1, <2>2 DEF Treated
    <3> QED
      BY <1>1, <2>1, <2>2, <3>1 DEF Treated
  <2>3. \A m \in Machines \cap (current \ temp) : Covered(exiting \cap current, m) \/ ~Treated(m)'
    BY <1>2, <2>2
  <2> QED
    BY <1>1, <1>2, <2>1, <2>3 DEF RootsInv, FirstRoundInv, EnterRootsInv, ExitRootsInv, Covered
<1>6. CASE EndExit
  <2>1. i > NStates /\ pc' = "call" /\ temp' = temp /\ exiting' = exiting
    BY <1>6 DEF EndExit
  <2>2. \A m \in Machines : Treated(m)
    BY <1>1, <1>3, <2>1, ForestFacts DEF Treated
  <2>3. \A m \in Machines \cap (current \ temp) : Covered(exiting \cap current, m)
    BY <1>2, <2>2
  <2> QED
    BY <1>1, <1>2, <2>1, <2>3 DEF RootsInv, FirstRoundInv, EnterRootsInv, ExitRootsInv, Covered
<1> QED
  BY <1>4, <1>5, <1>6

LEMMA RootsStep ==
  ASSUME NothingShadowed, EveryMachineStarts, LoopInv, RootsInv, [Next]_vars
  PROVE  RootsInv'
<1>1. TypeOK /\ NestedInv /\ FullInv /\ TypeOK' /\ current \subseteq States
  BY TypeStep DEF LoopInv, TypeOK
<1>2. ASSUME entering' = {}, exiting' = {}, pc' \notin {"enter", "exit", "call"}
      PROVE  RootsInv'
  BY <1>2 DEF RootsInv, FirstRoundInv, EnterRootsInv, ExitRootsInv
<1>3. ASSUME pc' = "enter", i' = 1, visited' = {}, entering' = {}, exiting' \cap current' = {},
             round' = 1 => temp' \subseteq current'
      PROVE  RootsInv'
  <2>1. \A m \in Machines : ~Treated(m)'
    <3>1. \A m \in Machines : m \in Nat /\ m >= 1
      BY ForestFacts DEF States
    <3> QED
      BY <1>3, <3>1 DEF Treated
  <2> QED
    BY <1>3, <2>1 DEF RootsInv, FirstRoundInv, EnterRootsInv, ExitRootsInv
<1>4. CASE UNCHANGED vars
  BY <1>4 DEF vars, RootsInv, FirstRoundInv, EnterRootsInv, ExitRootsInv, Covered, Treated
<1>5. CASE Commit
  BY <1>2, <1>5 DEF Commit
<1>6. CASE PutBack
  <2>1. pc = "call" /\ round = 1 /\ current' = temp /\ round' = 2 /\ pc' = "enter" /\ i' = 1
        /\ visited' = {} /\ entering' = entering /\ exiting' = exiting
    BY <1>6 DEF PutBack
  <2>2. entering = {} /\ temp \subseteq current /\ exiting \cap current \cap temp = {}
    BY <2>1 DEF RootsInv, FirstRoundInv, ExitRootsInv
  <2> QED
    BY <1>3, <2>1, <2>2
<1>7. CASE \/ EpsilonStep \/ SyncStep \/ (\E e \in Events : FetchEvent(e)) \/ FetchExit \/ FetchError
           \/ \E ms \in Restarts : FetchRestart(ms)
  <2>1. pc = "loop"
    BY <1>7 DEF EpsilonStep, SyncStep, FetchEvent, FetchExit, FetchError, FetchRestart, Fetching, Looping
  <2>2. PICK evId, evRead, ev : ev \in Event /\ Process(evId, evRead, ev)
    BY <1>1, <1>7, IterationProcesses
  <2>3. current' = current /\ entering' = {} /\ exiting' = {}
    BY <2>1, <2>2 DEF Process, RootsInv
  <2>4. CASE NothingTriggered(ev)
    BY <1>2, <2>1, <2>3, <2>4 DEF NothingTriggered
  <2>5. CASE TakeOut(TriggeredBy(evId), ev.machines)
    <3>1. pc' = "enter" /\ i' = 1 /\ visited' = {} /\ temp' \subseteq current
      BY <2>5 DEF TakeOut
    <3> QED
      BY <1>3, <2>3, <3>1
  <2>6. CASE Transit(TriggeredBy(evId))
    <3> DEFINE T == TriggeredBy(evId)
    <3>1. T \in SUBSET OutOf(current) /\ T \in SUBSET TransIdx
      BY DEF TriggeredBy, OutOf
    <3> HIDE DEF T
    <3>2. round' = 0 /\ ((pc' = "enter" /\ i' = 1 /\ visited' = {}) \/ pc' = "call")
      BY <2>6 DEF Transit
    <3>3. ASSUME pc' = "call" PROVE RootsInv'
      <4>1. /\ temp' = Moved(current, T)
            /\ \A t \in T : ~Crosses(t) /\ ShadowsEntered(t) = {} /\ ShadowsLeft(t) = {}
        BY <1>1, <2>6, <3>1, <3>3, KernelMoves DEF T
      <4>2. \A m \in Machines : m \in temp' <=> m \in current'
        BY <1>1, <2>3, <3>1, <4>1, MovesInside
      <4> QED
        BY <2>3, <3>2, <3>3, <4>2 DEF RootsInv, FirstRoundInv, EnterRootsInv, ExitRootsInv
    <3> QED
      BY <1>3, <2>3, <3>2, <3>3
  <2> QED
    BY <2>2, <2>4, <2>5, <2>6 DEF Process
<1>8. CASE FetchAction \/ FetchSetState \/ FetchStart
  <2>1. pc = "loop" /\ pc' = "loop" /\ entering' = entering /\ exiting' = exiting
    BY <1>8 DEF FetchAction, FetchSetState, FetchStart, Fetching, Looping
  <2> QED
    BY <1>2, <2>1 DEF RootsInv
<1>9. CASE LeaveLoop \/ FinalExits
  <2>1. pc' \in {"final", "done"}
    BY <1>9 DEF LeaveLoop, FinalExits
  <2> QED
    BY <2>1 DEF RootsInv, FirstRoundInv, EnterRootsInv, ExitRootsInv
<1> QED
  BY <1>1, <1>4, <1>5, <1>6, <1>7, <1>8, <1>9, EnterRoots, ExitRoots DEF Next

LEMMA InitHasNoRoots == Init => RootsInv
<1> SUFFICES ASSUME Init PROVE RootsInv
  OBVIOUS
<1>1. current = {} /\ pc \in {"loop", "enter"} /\ i = 1 /\ round = 0 /\ visited = {}
      /\ entering = {} /\ exiting = {}
  BY DEF Init
<1>2. \A m \in Machines : ~Treated(m)
  BY <1>1, ForestFacts DEF Treated, States
<1> QED
  BY <1>1, <1>2 DEF RootsInv, FirstRoundInv, EnterRootsInv, ExitRootsInv

\* From the roots the recursions do_exit_impl and do_enter_impl reach exactly
\* the machines that stop and that start being active.
LEMMA CallbacksReach ==
  ASSUME LoopInv, RootsInv, pc = "call"
  PROVE  OnExit = Machines \cap (current \ temp) /\ OnEnter = Machines \cap (temp \ current)
<1>1. current \in SUBSET States /\ temp \in SUBSET States /\ IsNested(current) /\ IsNested(temp)
  BY DEF LoopInv, TypeOK, NestedInv, ActiveStatesAreNested, CommittedAreNested
<1>2. /\ exiting \cap current \cap temp = {}
      /\ \A m \in Machines \cap (temp \ current) : Covered(entering \cap (temp \ current), m)
      /\ \A m \in Machines \cap (current \ temp) : Covered(exiting \cap current, m)
  BY DEF RootsInv, ExitRootsInv
<1>3. ASSUME NEW m \in Machines \cap (current \ temp) PROVE m \in OnExit
  <2>1. PICK r \in exiting \cap current : m = r \/ r \in Ancestors[m]
    BY <1>2 DEF Covered
  <2>2. Ancestors[m] \subseteq current
    BY <1>1, NestedHoldAncestors
  <2> QED
    BY <2>1, <2>2 DEF OnExit, Reached
<1>4. ASSUME NEW m \in OnExit PROVE m \in Machines \cap (current \ temp)
  <2>1. m \in Machines \cap current /\ \E r \in exiting \cap current : m = r \/ r \in Ancestors[m]
    BY DEF OnExit, Reached
  <2>2. PICK r \in exiting \cap current : m = r \/ r \in Ancestors[m]
    BY <2>1
  <2>3. m \in temp => r \in temp
    BY <1>1, <2>2, NestedHoldAncestors
  <2> QED
    BY <1>2, <2>1, <2>3
<1>5. ASSUME NEW m \in Machines \cap (temp \ current) PROVE m \in OnEnter
  <2>1. PICK r \in entering \cap (temp \ current) : m = r \/ r \in Ancestors[m]
    BY <1>2 DEF Covered
  <2>2. Ancestors[m] \subseteq temp
    BY <1>1, NestedHoldAncestors
  <2> QED
    BY <2>1, <2>2 DEF OnEnter, Reached
<1>6. OnEnter \subseteq Machines \cap (temp \ current)
  BY DEF OnEnter, Reached
<1> QED
  BY <1>3, <1>4, <1>5, <1>6

\* on_enter and on_exit come in pairs, for every forest whose machines all have
\* an initial state: an iteration calls on_enter once for each machine it
\* activates, on_exit once for each machine it deactivates, and neither for
\* any other, although do_enter and do_exit follow root lists that are built
\* one state at a time and that a restart does not empty between its rounds.
THEOREM CallbacksPair ==
  ASSUME NothingShadowed, EveryMachineStarts PROVE Spec => CallbacksMatchActivity
<1> DEFINE Inv == LoopInv /\ RootsInv
           Pairs == pc = "call" => \A m \in Machines :
                      running'[m] - running[m] = Active(m, current') - Active(m, current)
<1>1. Init => Inv
  BY InitIsTyped, InitIsNested, InitIsFull, InitHasNoRoots DEF LoopInv
<1>2. Inv /\ [Next]_vars => Inv'
  <2>1. LoopInv /\ [Next]_vars => LoopInv'
    BY TypeStep, NestedStep, FullStep DEF LoopInv
  <2> QED
    BY <2>1, RootsStep
<1>3. Inv /\ [Next]_vars => [Pairs]_vars
  <2> SUFFICES ASSUME Inv, Next, pc = "call", NEW m \in Machines
               PROVE  running'[m] - running[m] = Active(m, current') - Active(m, current)
    OBVIOUS
  <2>1. Commit \/ PutBack
    BY DEF Next, EnterState, SkipState, EndEnter, ExitMachine, KeepMachine, EndExit, EpsilonStep, SyncStep,
           FetchEvent, FetchExit, FetchError, FetchRestart, FetchAction, FetchSetState, FetchStart,
           LeaveLoop, FinalExits, Fetching, Looping
  <2>2. running' = Called(OnExit, OnEnter) /\ current' = temp
    BY <2>1 DEF Commit, PutBack
  <2>3. OnExit = Machines \cap (current \ temp) /\ OnEnter = Machines \cap (temp \ current)
    BY CallbacksReach
  <2>4. running[m] \in Int
    BY DEF LoopInv, TypeOK
  <2>5. running'[m] = running[m] - (IF m \in OnExit THEN 1 ELSE 0) + (IF m \in OnEnter THEN 1 ELSE 0)
    BY <2>2 DEF Called
  <2> QED
    BY <2>2, <2>3, <2>4, <2>5 DEF Active
<1> HIDE DEF Inv
<1>4. Spec => []Inv
  BY <1>1, <1>2, PTL DEF Spec
<1> QED
  BY <1>3, <1>4, PTL DEF Spec, CallbacksMatchActivity

-----------------------------------------------------------------------------
(* Restarts                                                                *)

\* The two rounds of a restart of the machines ms.  The first takes them out.
\* The second starts from states none of which is in one of them, adds states
\* only, and enters each machine of ms when compute_entered_states gets to it.
Afresh(m) == Children(m) \cap temp = {InitialState[m]} \cup Threads(m)
RestartInv ==
  LET ms == curEv.machines
      inside == pc \in {"enter", "exit", "call"}
  IN /\ curEv.id = "restart" => ms \in Restarts
     /\ inside /\ round # 0 => ms \in Restarts
     /\ inside /\ round = 1 => temp \cap ms = {}
     /\ inside /\ round = 2 => current \subseteq temp /\ ms \subseteq temp \ current
     /\ pc = "enter" /\ round = 2 =>
          /\ temp \ (current \cup visited) \subseteq ms
          /\ \A m \in ms : IF m \in visited THEN Afresh(m)
                           ELSE Children(m) \cap temp = {} /\ i <= m
     /\ pc \in {"exit", "call"} /\ round = 2 => IsFull(temp) /\ \A m \in ms : Afresh(m)

\* What entering the machine i opens inside the machines of the restart.
LEMMA OpenedAfresh ==
  ASSUME EveryMachineStarts, NEW ms \in SUBSET Machines, NEW n \in ms,
         \A a, b \in ms : a \notin Ancestors[b]
  PROVE  LET new == Opened(n) \cup InitialsOf(Opened(n))
         IN /\ Children(n) \cap new = {InitialState[n]} \cup Threads(n)
            /\ \A m \in ms \ {n} : Children(m) \cap new = {} /\ m \notin new
<1> DEFINE C == Opened(n)
           new == C \cup InitialsOf(C)
<1>1. n \in Machines /\ n \in States /\ n # 0 /\ C \in SUBSET Machines /\ Ancestors[n] \subseteq Machines
  BY OpenedAreMachines, AncestorsUnfold, ForestFacts
<1>2. n \in C /\ Threads(n) \subseteq C /\ \A x \in C : x = n \/ x \in Ancestors[n] \/ x \in Threads(n)
  BY <1>1 DEF Opened, Unentered
<1>3. \A x \in Threads(n) : x \in States /\ Parent[x] = n
  BY DEF Threads, Children
<1>4. ASSUME NEW x \in States, NEW m \in Machines, Parent[x] = m PROVE m \in Ancestors[x]
  BY <1>4, AncestorsUnfold, ForestFacts
<1>5. n \notin Ancestors[n] /\ \A x \in Ancestors[n] : n \notin Ancestors[x] /\ x \in States
  BY <1>1, AncestorsAreTransitive, ForestFacts
<1>6. \A x \in InitialsOf(C) : x \in States /\ x \notin Machines /\ Parent[x] \in C
  BY <1>1, InitialsFacts
<1>7. Children(n) \cap C = Threads(n)
  <2>1. ASSUME NEW x \in C, Parent[x] = n PROVE x \in Threads(n)
    BY <1>1, <1>2, <1>4, <1>5, <2>1
  <2>2. Threads(n) \subseteq Children(n)
    BY DEF Threads
  <2> QED
    BY <1>2, <2>1, <2>2 DEF Children
<1>8. Children(n) \cap InitialsOf(C) = {InitialState[n]}
  <2>1. InitialState[n] \in InitialsOf(C) /\ InitialState[n] \in Children(n)
    BY <1>1, <1>2, InitialsFacts, MachineFacts DEF EveryMachineStarts
  <2>2. ASSUME NEW x \in InitialsOf(C), Parent[x] = n PROVE x = InitialState[n]
    <3>1. PICK k \in C : x = InitialState[k]
      BY DEF InitialsOf
    <3>2. k \in Machines /\ InitialState[k] \in Children(k)
      BY <1>1, MachineFacts DEF EveryMachineStarts
    <3> QED
      BY <2>2, <3>1, <3>2 DEF Children
  <2> QED
    BY <2>1, <2>2 DEF Children
<1>9. ASSUME NEW m \in ms \ {n} PROVE Children(m) \cap new = {} /\ m \notin new
  <2>1. m \in Machines /\ m \in States /\ m \notin Ancestors[n] /\ n \notin Ancestors[m]
    BY ForestFacts
  <2>2. m \notin C
    BY <1>1, <1>2, <1>3, <1>4, <2>1
  <2>3. m \notin new
    BY <1>6, <2>1, <2>2
  <2>4. ASSUME NEW x \in C, Parent[x] = m PROVE FALSE
    <3>1. CASE x = n
      BY <1>1, <1>4, <2>1, <2>4, <3>1
    <3>2. CASE x \in Ancestors[n]
      BY <1>1, <1>4, <1>5, <2>1, <2>4, <3>2, AncestorsAreTransitive
    <3>3. CASE x \in Threads(n)
      BY <1>3, <2>4, <3>3
    <3> QED
      BY <1>2, <3>1, <3>2, <3>3
  <2>5. ASSUME NEW x \in InitialsOf(C), Parent[x] = m PROVE FALSE
    BY <1>6, <2>2, <2>5
  <2> QED
    BY <2>3, <2>4, <2>5 DEF Children
<1> QED
  BY <1>7, <1>8, <1>9

LEMMA EnterRestarts ==
  ASSUME EveryMachineStarts, RestartsApart, LoopInv, RootsInv, RestartInv, EnterState \/ SkipState \/ EndEnter
  PROVE  RestartInv'
<1> DEFINE ms == curEv.machines
<1>1. current' = current /\ round' = round /\ curEv' = curEv /\ pc = "enter" /\ i \in Nat
      /\ temp \subseteq States /\ current \subseteq States /\ round \in {0, 1, 2} /\ ms \in SUBSET Machines
  BY DEF EnterState, SkipState, EndEnter, Unchanged1, LoopInv, TypeOK, Event
<1>2. /\ curEv.id = "restart" => ms \in Restarts
      /\ round # 0 => ms \in Restarts
      /\ round = 1 => temp \cap ms = {} /\ temp \subseteq current
      /\ round = 2 => /\ current \subseteq temp /\ ms \subseteq temp \ current
                      /\ temp \ (current \cup visited) \subseteq ms
                      /\ \A m \in ms : IF m \in visited THEN Afresh(m)
                                       ELSE Children(m) \cap temp = {} /\ i <= m
  BY <1>1 DEF RestartInv, RootsInv, FirstRoundInv
<1>3. pc' \in {"enter", "exit"}
  BY <1>1 DEF EnterState, SkipState, EndEnter, AtState
<1>4. CASE round = 0
  BY <1>1, <1>2, <1>3, <1>4 DEF RestartInv
<1>5. CASE round = 1
  <2>1. ~EnterState
    BY <1>2, <1>5 DEF EnterState
  <2>2. temp' = temp
    BY <2>1 DEF SkipState, EndEnter
  <2> QED
    BY <1>1, <1>2, <1>3, <1>5, <2>2 DEF RestartInv
<1>6. CASE round = 2
  <2>1. ms \in Restarts /\ \A a, b \in ms : a \notin Ancestors[b]
    BY <1>2, <1>6 DEF RestartsApart
  <2>2. \A m \in ms : m \in Nat /\ m <= NStates
    <3>1. \A x \in States : x \in Nat /\ x <= NStates
      BY ForestFacts DEF States
    <3>2. ms \subseteq States
      BY <1>1, ForestFacts
    <3> QED
      BY <3>1, <3>2
  <2>3. CASE EnterState
    <3> DEFINE new == Opened(i) \cup InitialsOf(Opened(i))
    <3>1. i \in temp \ (current \cup visited) /\ i' = i + 1 /\ pc' = "enter" /\ temp' = temp \cup new
          /\ visited' = visited \cup {i} \cup new
      BY <1>1, <2>3 DEF EnterState, AtState
    <3>2. i \in ms /\ i \notin visited
      BY <1>2, <1>6, <3>1
    <3>3. /\ Children(i) \cap new = {InitialState[i]} \cup Threads(i)
          /\ \A m \in ms \ {i} : Children(m) \cap new = {} /\ m \notin new
      BY <1>1, <2>1, <3>2, OpenedAfresh
    <3> HIDE DEF new
    <3>4. ASSUME NEW m \in ms
          PROVE  IF m \in visited' THEN Children(m) \cap temp' = {InitialState[m]} \cup Threads(m)
                 ELSE Children(m) \cap temp' = {} /\ i' <= m
      <4>1. CASE m = i
        BY <1>2, <1>6, <3>1, <3>2, <3>3, <4>1
      <4>2. CASE m # i
        <5>1. Children(m) \cap temp' = Children(m) \cap temp /\ (m \in visited' <=> m \in visited)
          BY <3>1, <3>3, <4>2
        <5>2. i <= m => i' <= m
          BY <1>1, <2>2, <3>1, <4>2
        <5> QED
          BY <1>2, <1>6, <5>1, <5>2 DEF Afresh
      <4> QED
        BY <4>1, <4>2
    <3>5. current \subseteq temp' /\ ms \subseteq temp' \ current /\ temp' \ (current \cup visited') \subseteq ms
      BY <1>2, <1>6, <3>1
    <3> QED
      BY <1>1, <1>6, <2>1, <3>1, <3>4, <3>5 DEF RestartInv, Afresh
  <2>4. CASE SkipState
    <3>1. i' = i + 1 /\ pc' = "enter" /\ temp' = temp /\ visited' = visited
          /\ i \notin temp \ (current \cup visited)
      BY <1>1, <2>4 DEF SkipState, AtState
    <3>2. \A m \in ms : m \notin visited => m # i
      BY <1>2, <1>6, <3>1
    <3>3. \A m \in ms : m \notin visited => i' <= m
      BY <1>1, <1>2, <1>6, <2>2, <3>1, <3>2
    <3> QED
      BY <1>1, <1>2, <1>6, <2>1, <3>1, <3>3 DEF RestartInv, Afresh
  <2>5. CASE EndEnter
    <3>1. i > NStates /\ pc' = "exit" /\ temp' = temp
      BY <2>5 DEF EndEnter
    <3>2. \A m \in ms : m \in visited
      BY <1>1, <1>2, <1>6, <2>2, <3>1, ForestFacts
    <3>3. IsFull(temp)
      <4> SUFFICES ASSUME NEW m \in Machines \cap temp PROVE Children(m) \cap temp # {}
        BY DEF IsFull
      <4>1. CASE m \in current
        BY <1>2, <1>6, <4>1 DEF LoopInv, FullInv, NoEmptyMachine, IsFull
      <4>2. CASE m \notin current
        <5>1. Treated(m)
          BY <1>1, <3>1, ForestFacts DEF Treated, States
        <5>2. InitialState[m] \in temp
          BY <1>1, <4>2, <5>1 DEF LoopInv, FullInv, EnteredAreFull
        <5> QED
          BY <5>2, MachineFacts DEF EveryMachineStarts
      <4> QED
        BY <4>1, <4>2
    <3> QED
      BY <1>1, <1>2, <1>6, <2>1, <3>1, <3>2, <3>3 DEF RestartInv, Afresh, IsFull
  <2> QED
    BY <2>3, <2>4, <2>5
<1> QED
  BY <1>1, <1>4, <1>5, <1>6

\* The second round leaves nothing: no machine is empty.
LEMMA ExitRestarts ==
  ASSUME LoopInv, RestartInv, ExitMachine \/ KeepMachine \/ EndExit
  PROVE  RestartInv'
<1> DEFINE ms == curEv.machines
<1>1. current' = current /\ round' = round /\ curEv' = curEv /\ pc = "exit" /\ round \in {0, 1, 2}
  BY DEF ExitMachine, KeepMachine, EndExit, Unchanged1, LoopInv, TypeOK
<1>2. /\ curEv.id = "restart" => ms \in Restarts
      /\ round # 0 => ms \in Restarts
      /\ round = 1 => temp \cap ms = {}
      /\ round = 2 => /\ current \subseteq temp /\ ms \subseteq temp \ current
                      /\ IsFull(temp) /\ \A m \in ms : Afresh(m)
  BY <1>1 DEF RestartInv
<1>3. pc' \in {"exit", "call"} /\ temp' \subseteq temp
  BY <1>1 DEF ExitMachine, KeepMachine, EndExit, AtState
<1>4. CASE round # 2
  BY <1>1, <1>2, <1>3, <1>4 DEF RestartInv
<1>5. CASE round = 2
  <2>1. ~ExitMachine
    BY <1>2, <1>5 DEF ExitMachine, Leaves, IsFull
  <2>2. temp' = temp
    BY <2>1 DEF KeepMachine, EndExit
  <2> QED
    BY <1>1, <1>2, <1>3, <1>5, <2>2 DEF RestartInv, Afresh, IsFull
<1> QED
  BY <1>4, <1>5

LEMMA RestartStep ==
  ASSUME EveryMachineStarts, RestartsApart, LoopInv, RootsInv, RestartInv, [Next]_vars
  PROVE  RestartInv'
<1> DEFINE ms == curEv.machines
<1>1. TypeOK /\ current \subseteq States /\ temp \subseteq States /\ ms \in SUBSET Machines
      /\ (curEv.id = "restart" => ms \in Restarts)
  BY DEF LoopInv, TypeOK, Event, RestartInv
<1>2. ASSUME curEv'.id = "restart" => curEv'.machines \in Restarts,
             pc' \notin {"enter", "exit", "call"} \/ round' = 0
      PROVE  RestartInv'
  BY <1>2 DEF RestartInv
<1>3. CASE UNCHANGED vars
  BY <1>3 DEF vars, RestartInv, Afresh, IsFull
<1>4. CASE Commit \/ LeaveLoop \/ FinalExits
  <2>1. curEv' = curEv /\ pc' \in {"loop", "final", "done"}
    BY <1>4 DEF Commit, LeaveLoop, FinalExits
  <2> QED
    BY <1>1, <1>2, <2>1
<1>5. CASE PutBack
  <2>1. pc = "call" /\ round = 1 /\ current' = temp /\ temp' = temp \cup ms /\ round' = 2 /\ pc' = "enter"
        /\ i' = 1 /\ visited' = {} /\ curEv' = curEv
    BY <1>5 DEF PutBack
  <2>2. ms \in Restarts /\ temp \cap ms = {} /\ IsNested(temp)
    BY <2>1 DEF RestartInv, LoopInv, NestedInv, CommittedAreNested
  <2>3. ASSUME NEW m \in ms PROVE Children(m) \cap temp' = {} /\ 1 <= m
    <3>0. \A x \in States : x # 0 /\ 1 <= x
      BY ForestFacts DEF States
    <3>1. m \in Machines /\ m # 0 /\ m \in States /\ 1 <= m
      BY <1>1, <3>0, ForestFacts
    <3>2. \A x \in temp : Parent[x] # m
      BY <2>2, <3>1 DEF IsNested
    <3>3. \A x \in ms : Parent[x] # m
      <4>1. \A x \in ms : m \notin Ancestors[x] /\ x \in States
        BY <1>1, <2>2, ForestFacts DEF RestartsApart
      <4> QED
        BY <3>1, <4>1, AncestorsUnfold
    <3> QED
      BY <2>1, <3>1, <3>2, <3>3 DEF Children
  <2> QED
    BY <2>1, <2>2, <2>3 DEF RestartInv
<1>6. CASE \/ EpsilonStep \/ SyncStep \/ (\E e \in Events : FetchEvent(e)) \/ FetchExit \/ FetchError
           \/ \E rs \in Restarts : FetchRestart(rs)
  <2>1. pc = "loop"
    BY <1>6 DEF EpsilonStep, SyncStep, FetchEvent, FetchExit, FetchError, FetchRestart, Fetching, Looping
  <2>2. PICK evId, evRead, ev : ev \in Event /\ Process(evId, evRead, ev)
    BY <1>1, <1>6, IterationProcesses
  <2>3. current' = current /\ curEv' = ev
    BY <2>2 DEF Process
  <2>4. ev.id = "restart" => ev.machines \in Restarts
    <3>1. curEv' = curEv \/ curEv'.id = "other" \/ curEv'.machines \in Restarts
      BY <1>6 DEF EpsilonStep, SyncStep, FetchEvent, FetchExit, FetchError, FetchRestart, Process
    <3> QED
      BY <1>1, <2>3, <3>1
  <2>5. CASE NothingTriggered(ev)
    <3>1. pc' \in {"loop", "final"}
      BY <2>1, <2>5 DEF NothingTriggered
    <3> QED
      BY <1>2, <2>3, <2>4, <3>1
  <2>6. CASE Transit(TriggeredBy(evId))
    <3>1. round' = 0
      BY <2>6 DEF Transit
    <3> QED
      BY <1>2, <2>3, <2>4, <3>1
  <2>7. CASE ev.id = "restart" /\ TakeOut(TriggeredBy(evId), ev.machines)
    <3>1. temp' = current \ ev.machines /\ round' = 1 /\ pc' = "enter"
      BY <2>7 DEF TakeOut
    <3> QED
      BY <2>3, <2>4, <2>7, <3>1 DEF RestartInv
  <2> QED
    BY <2>2, <2>5, <2>6, <2>7 DEF Process
<1>7. CASE FetchAction \/ FetchSetState \/ FetchStart
  <2>1. pc' = "loop" /\ curEv' = [curEv EXCEPT !.id = "none"]
    BY <1>7 DEF FetchAction, FetchSetState, FetchStart, Fetching, Looping
  <2>2. curEv'.id # "restart"
    BY <1>1, <2>1 DEF TypeOK, Event
  <2> QED
    BY <1>2, <2>1, <2>2
<1> QED
  BY <1>3, <1>4, <1>5, <1>6, <1>7, EnterRestarts, ExitRestarts DEF Next

\* After a restart every restarted machine is in its initial state, with all
\* of its threads, and in nothing else, wherever in the forest it is, whether
\* or not it was active and whatever is restarted beside it (the two rounds in
\* run_simulation), as long as no machine is restarted together with one
\* inside it: that one would be active in it, too.
THEOREM RestartsAreFresh ==
  ASSUME NothingShadowed, EveryMachineStarts, RestartsApart PROVE Spec => RestartReinitialises
<1> DEFINE Inv == LoopInv /\ RootsInv /\ RestartInv
           Fresh == Commit /\ round = 2 =>
                      \A m \in curEv.machines : InitialState[m] # 0 => RestartedAfresh(m)
<1>1. Init => Inv
  <2>1. Init => LoopInv
    BY InitIsTyped, InitIsNested, InitIsFull DEF LoopInv
  <2>2. Init => RestartInv
    BY DEF Init, RestartInv
  <2> QED
    BY <2>1, <2>2, InitHasNoRoots
<1>2. Inv /\ [Next]_vars => Inv'
  <2>1. LoopInv /\ [Next]_vars => LoopInv'
    BY TypeStep, NestedStep, FullStep DEF LoopInv
  <2> QED
    BY <2>1, RootsStep, RestartStep
<1>3. Inv /\ [Next]_vars => [Fresh]_vars
  <2> SUFFICES ASSUME Inv, Commit, round = 2, NEW m \in curEv.machines PROVE RestartedAfresh(m)
    OBVIOUS
  <2>1. pc = "call" /\ current' = temp
    BY DEF Commit
  <2> QED
    BY <2>1 DEF RestartInv, RestartedAfresh, Afresh
<1> HIDE DEF Inv
<1>4. Spec => []Inv
  BY <1>1, <1>2, PTL DEF Spec
<1> QED
  BY <1>3, <1>4, PTL DEF Spec, RestartReinitialises
=============================================================================
