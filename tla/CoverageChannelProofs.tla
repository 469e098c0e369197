------------------------- MODULE CoverageChannelProofs -------------------------
(***************************************************************************)
(* Proofs about CoverageChannel, for any machines, transitions, ring size  *)
(* and number of subscribers: every difference the publisher sends is      *)
(* exact, the ring holds consecutive messages up to the newest one, a      *)
(* subscriber gets one init message and that first, one that was never     *)
(* overtaken knows what the publisher knows, and the report counts what    *)
(* the channel counts.                                                     *)
(***************************************************************************)
EXTENDS CoverageChannel, FiniteSetTheorems, SequenceTheorems, TLAPS

-----------------------------------------------------------------------------
(* The invariant of the queue: each table follows from the one before it,  *)
(* the first from what the publisher has and the loop's from the last.     *)

\* What has changed from table a to table m can be told from m: counts only
\* grow, the times that changed or were lost are after the barrier or lost,
\* and a machine with a transition visited since has a state visited since.
Follows(a, m) ==
  /\ \A s \in States : a.covS[s] <= m.covS[s]
  /\ \A x \in Stamps : (m.times[x] # a.times[x] \/ x \in a.lost) => x \in m.after \cup m.lost
  /\ \A t \in DOMAIN Transitions : m.covT[t] # a.covT[t] =>
       \E s \in States : /\ RootSm(s) = RootSm(Transitions[t].from)
                         /\ a.covS[s] # m.covS[s]

Now == [covS |-> covS, covT |-> covT, times |-> times, after |-> sinceLast, lost |-> lost]

IsTable(i) == i \in DOMAIN q /\ q[i].what # "NEW_CHANNEL"
FirstTable(i) == IsTable(i) /\ \A k \in DOMAIN q : k < i => ~ IsTable(k)
NextTable(j, i) ==
  IsTable(j) /\ IsTable(i) /\ j < i /\ \A k \in DOMAIN q : (j < k /\ k < i) => ~ IsTable(k)
LastTable(i) == IsTable(i) /\ \A k \in DOMAIN q : i < k => ~ IsTable(k)

TableTyped(m) ==
  /\ m.covS \in [States -> Nat] /\ m.covT \in [DOMAIN Transitions -> Nat]
  /\ m.times \in [Stamps -> Nat]

PubInv == pub.tablesCurrent => pub.cats = ActiveCategories(pub.states)

QueueInv ==
  /\ \A i \in DOMAIN q : (FirstTable(i) /\ q[i].what = "UPDATE")
                            => pub.tablesCurrent /\ Follows(pub, q[i])
  /\ \A i, j \in DOMAIN q : NextTable(j, i) => q[i].what = "UPDATE" /\ Follows(q[j], q[i])

LoopInv ==
  /\ handler # "registered" => \A i \in DOMAIN q : ~ IsTable(i)
  /\ handler = "registered" =>
       /\ \A i \in DOMAIN q : LastTable(i) => Follows(q[i], Now)
       /\ (\A i \in DOMAIN q : ~ IsTable(i)) => pub.tablesCurrent /\ Follows(pub, Now)

Msg == [what : {"NEW_CHANNEL", "INIT", "UPDATE"}, client : Clients \cup {"none"},
        states : SUBSET States, covS : [States -> Nat],
        covT : [DOMAIN Transitions -> Nat], times : [Stamps -> Nat],
        after : SUBSET Stamps, lost : SUBSET Stamps]
Categories == [TopLevelSms -> SUBSET UNION {Category[s] : s \in States}]
Pub == [covS : [States -> Nat], covT : [DOMAIN Transitions -> Nat], tablesCurrent : BOOLEAN,
        states : SUBSET States, times : [Stamps -> Nat], lost : SUBSET Stamps,
        cats : Categories]

TablesTyped ==
  /\ covS \in [States -> Nat] /\ covT \in [DOMAIN Transitions -> Nat]
  /\ times \in [Stamps -> Nat] /\ steps \in Nat /\ current \subseteq States
  /\ sinceLast \subseteq Stamps /\ lost \subseteq Stamps
  /\ q \in Seq(Msg) /\ pub \in Pub

DiffInv == TablesTyped /\ PubInv /\ QueueInv /\ LoopInv

-----------------------------------------------------------------------------
(* Merging.                                                                *)

LEMMA MergeGives ==
  ASSUME NEW f, NEW g, NEW h, NEW D, DOMAIN f \subseteq D,
         DOMAIN g = D, h = [x \in D |-> h[x]],
         \A x \in DOMAIN f : f[x] = h[x],
         \A x \in D : x \notin DOMAIN f => g[x] = h[x]
  PROVE  Merged(f, g) = h
<1>1. (DOMAIN f) \cup (DOMAIN g) = D
  OBVIOUS
<1>2. Merged(f, g) = [x \in D |-> IF x \in DOMAIN f THEN f[x] ELSE g[x]]
  BY <1>1 DEF Merged
<1>3. \A x \in D : (IF x \in DOMAIN f THEN f[x] ELSE g[x]) = h[x]
  OBVIOUS
<1> QED
  BY <1>2, <1>3

\* The head of the queue and the others.
LEMMA QueueTyped ==
  ASSUME TablesTyped
  PROVE  /\ Len(q) \in Nat /\ DOMAIN q = 1 .. Len(q)
         /\ \A i \in DOMAIN q : q[i] \in Msg /\ TableTyped(q[i]) /\ q[i].after \subseteq Stamps
<1>1. q \in Seq(Msg)
  BY DEF TablesTyped
<1>2. Len(q) \in Nat /\ DOMAIN q = 1 .. Len(q) /\ \A i \in DOMAIN q : q[i] \in Msg
  BY <1>1
<1>3. \A m \in Msg : TableTyped(m) /\ m.after \subseteq Stamps
  BY DEF Msg, TableTyped
<1> QED
  BY <1>2, <1>3

LEMMA HeadTyped ==
  ASSUME TablesTyped, q # <<>>
  PROVE  /\ Head(q) = q[1] /\ 1 \in DOMAIN q /\ q[1] \in Msg
         /\ Tail(q) \in Seq(Msg) /\ Len(q) \in Nat \ {0}
         /\ DOMAIN Tail(q) = 1 .. Len(q) - 1
         /\ \A i \in 1 .. Len(q) - 1 : Tail(q)[i] = q[i + 1]
<1>1. q \in Seq(Msg)
  BY DEF TablesTyped
<1>2. /\ Head(q) = q[1] /\ 1 \in DOMAIN q /\ q[1] \in Msg
      /\ Tail(q) \in Seq(Msg) /\ Len(q) \in Nat \ {0} /\ Len(Tail(q)) = Len(q) - 1
      /\ \A i \in 1 .. Len(q) - 1 : Tail(q)[i] = q[i + 1]
  BY <1>1
<1>3. DOMAIN Tail(q) = 1 .. Len(Tail(q))
  BY <1>2
<1> QED
  BY <1>2, <1>3

LEMMA PubTyped ==
  ASSUME TablesTyped
  PROVE  TableTyped(pub) /\ pub.states \subseteq States /\ pub.tablesCurrent \in BOOLEAN
<1>1. pub \in Pub
  BY DEF TablesTyped
<1> QED
  BY <1>1 DEF Pub, TableTyped

LEMMA CategoriesTyped ==
  ASSUME NEW S \in SUBSET States
  PROVE  ActiveCategories(S) \in Categories
<1>1. ASSUME NEW r \in TopLevelSms
      PROVE  UNION {Category[s] : s \in {x \in S : RootSm(x) = r}}
               \in SUBSET UNION {Category[s] : s \in States}
  OBVIOUS
<1> QED
  BY <1>1 DEF ActiveCategories, Categories

-----------------------------------------------------------------------------
(* A difference between two tables of which one follows the other.         *)

\* Machines without a state visited since have no transition visited since.
LEMMA CoverageKept ==
  ASSUME NEW a, NEW m, TableTyped(a), TableTyped(m), Follows(a, m), MachinesAreClosed,
         NEW r \in TopLevelSms, \A s \in States : RootSm(s) = r => m.covS[s] = a.covS[s]
  PROVE  Sm2Cov(a.covT)[r] = Sm2Cov(m.covT)[r]
<1>1. \A t \in DOMAIN Transitions : RootSm(Transitions[t].from) = r => m.covT[t] = a.covT[t]
  BY DEF Follows
<1>2. {t \in DOMAIN Transitions :
         Counted(t) /\ a.covT[t] > 0 /\ RootSm(Transitions[t].from) = r}
       = {t \in DOMAIN Transitions :
            Counted(t) /\ m.covT[t] > 0 /\ RootSm(Transitions[t].from) = r}
  BY <1>1
<1>3. TransitionCoverage(a.covT, r) = TransitionCoverage(m.covT, r)
  BY <1>2 DEF TransitionCoverage
<1> QED
  BY <1>3 DEF Sm2Cov

LEMMA DifferenceIsExact ==
  ASSUME NEW a, NEW m, NEW id, TableTyped(a), TableTyped(m), Follows(a, m), MachinesAreClosed,
         m.after \subseteq Stamps, a.cats = ActiveCategories(a.states)
  PROVE  LET d == UpdateMsg(id, a, m)
         IN /\ CoveredStates(a.covS) \cup d.covered = CoveredStates(m.covS)
            /\ Merged(d.cov, Sm2Cov(a.covT)) = Sm2Cov(m.covT)
            /\ \A x \in Stamps \ m.lost : /\ x \in DOMAIN Merged(d.times, Known(a))
                                          /\ Merged(d.times, Known(a))[x] = m.times[x]
            /\ Merged(d.cats, ActiveCategories(a.states)) = ActiveCategories(m.states)
<1> DEFINE changed == {s \in States : m.covS[s] # a.covS[s]}
           roots == {RootSm(s) : s \in changed}
           cats == ActiveCategories(m.states)
           moved == {r \in TopLevelSms : cats[r] # a.cats[r]}
           d == UpdateMsg(id, a, m)
<1>1. /\ d.covered = {s \in changed : m.covS[s] > 0}
      /\ d.cov = Restrict(Sm2Cov(m.covT), roots)
      /\ d.times = Restrict(m.times, m.after)
      /\ d.cats = Restrict(cats, moved)
  BY DEF UpdateMsg
<1>2. CoveredStates(a.covS) \cup d.covered = CoveredStates(m.covS)
  <2>1. \A s \in States : a.covS[s] \in Nat /\ m.covS[s] \in Nat /\ a.covS[s] <= m.covS[s]
    BY DEF TableTyped, Follows
  <2>2. \A s \in States : m.covS[s] > 0 <=> (a.covS[s] > 0 \/ (m.covS[s] # a.covS[s] /\ m.covS[s] > 0))
    BY <2>1
  <2> QED
    BY <1>1, <2>2 DEF CoveredStates
<1>3. Merged(d.cov, Sm2Cov(a.covT)) = Sm2Cov(m.covT)
  <2>1. roots \subseteq TopLevelSms
    BY DEF MachinesAreClosed
  <2>2. DOMAIN d.cov = roots /\ \A r \in roots : d.cov[r] = Sm2Cov(m.covT)[r]
    BY <1>1 DEF Restrict
  <2>3. DOMAIN Sm2Cov(a.covT) = TopLevelSms
    BY DEF Sm2Cov
  <2>4. Sm2Cov(m.covT) = [r \in TopLevelSms |-> Sm2Cov(m.covT)[r]]
    BY DEF Sm2Cov
  <2>5. ASSUME NEW r \in TopLevelSms, r \notin roots
        PROVE  Sm2Cov(a.covT)[r] = Sm2Cov(m.covT)[r]
    <3>1. \A s \in States : RootSm(s) = r => m.covS[s] = a.covS[s]
      BY <2>5
    <3> QED
      BY <3>1, CoverageKept
  <2> HIDE DEF roots, d
  <2> QED
    BY <2>1, <2>2, <2>3, <2>4, <2>5, MergeGives
<1>4. ASSUME NEW x \in Stamps \ m.lost
      PROVE  /\ x \in DOMAIN Merged(d.times, Known(a))
             /\ Merged(d.times, Known(a))[x] = m.times[x]
  <2>1. DOMAIN d.times = m.after /\ \A y \in m.after : d.times[y] = m.times[y]
    BY <1>1 DEF Restrict
  <2>2. /\ DOMAIN Known(a) = Stamps \ a.lost
        /\ \A y \in Stamps \ a.lost : Known(a)[y] = a.times[y]
    BY DEF Known, Restrict
  <2>3. x \in m.after \/ (x \in Stamps \ a.lost /\ a.times[x] = m.times[x])
    BY DEF Follows
  <2> HIDE DEF d
  <2> QED
    BY <2>1, <2>2, <2>3 DEF Merged
<1>5. Merged(d.cats, ActiveCategories(a.states)) = ActiveCategories(m.states)
  <2>1. DOMAIN d.cats = moved /\ \A r \in moved : d.cats[r] = cats[r]
    BY <1>1 DEF Restrict
  <2>2. DOMAIN ActiveCategories(a.states) = TopLevelSms
    BY DEF ActiveCategories
  <2>3. cats = [r \in TopLevelSms |-> cats[r]]
    BY DEF ActiveCategories
  <2>4. moved \subseteq TopLevelSms
    OBVIOUS
  <2>5. \A r \in TopLevelSms : r \notin moved => ActiveCategories(a.states)[r] = cats[r]
    OBVIOUS
  <2> HIDE DEF moved, cats, d
  <2>6. Merged(d.cats, ActiveCategories(a.states)) = cats
    BY <2>1, <2>2, <2>3, <2>4, <2>5, MergeGives
  <2> QED
    BY <2>6 DEF cats
<1> QED
  BY <1>2, <1>3, <1>4, <1>5

\* The invariant makes every published difference exact.
LEMMA DiffInvImplies ==
  ASSUME DiffInv, MachinesAreClosed
  PROVE  DifferencesAreExact
<1>1. SUFFICES ASSUME q # <<>>, Head(q).what = "UPDATE"
               PROVE  LET m == Head(q)
                          d == UpdateMsg(nextId, pub, m)
                      IN /\ pub.tablesCurrent
                         /\ CoveredStates(pub.covS) \cup d.covered = CoveredStates(m.covS)
                         /\ Merged(d.cov, Sm2Cov(pub.covT)) = Sm2Cov(m.covT)
                         /\ \A x \in Stamps \ m.lost :
                              /\ x \in DOMAIN Merged(d.times, Known(pub))
                              /\ Merged(d.times, Known(pub))[x] = m.times[x]
                         /\ Merged(d.cats, ActiveCategories(pub.states)) = ActiveCategories(m.states)
  BY DEF DifferencesAreExact
<1>2. Head(q) = q[1] /\ 1 \in DOMAIN q /\ DOMAIN q = 1 .. Len(q) /\ Len(q) \in Nat
  BY <1>1, HeadTyped, QueueTyped DEF DiffInv
<1>3. FirstTable(1) /\ q[1].what = "UPDATE"
  BY <1>1, <1>2 DEF FirstTable, IsTable
<1>4. pub.tablesCurrent /\ Follows(pub, q[1])
  BY <1>2, <1>3 DEF DiffInv, QueueInv
<1>5. TableTyped(q[1]) /\ q[1].after \subseteq Stamps /\ TableTyped(pub)
  BY <1>2, QueueTyped, PubTyped DEF DiffInv
<1>6. pub.cats = ActiveCategories(pub.states)
  BY <1>4 DEF DiffInv, PubInv
<1> QED
  BY <1>2, <1>4, <1>5, <1>6, DifferenceIsExact

-----------------------------------------------------------------------------
(* The queue grows and shrinks.                                            *)

\* A request for a channel lies between the tables and changes nothing.
LEMMA ChannelAppended ==
  ASSUME DiffInv, NEW m \in Msg, m.what = "NEW_CHANNEL", q' = Append(q, m),
         UNCHANGED <<pub, covS, covT, times, sinceLast, lost>>,
         (handler' = "registered") <=> (handler = "registered")
  PROVE  q' \in Seq(Msg) /\ QueueInv' /\ LoopInv'
<1>1. /\ q \in Seq(Msg) /\ Len(q) \in Nat /\ DOMAIN q = 1 .. Len(q)
      /\ q' \in Seq(Msg) /\ DOMAIN q' = 1 .. Len(q) + 1 /\ q'[Len(q) + 1] = m
      /\ \A i \in DOMAIN q : q'[i] = q[i] /\ i \in DOMAIN q'
  <2>1. q \in Seq(Msg)
    BY DEF DiffInv, TablesTyped
  <2> QED
    BY <2>1
<1>2. ASSUME NEW i \in DOMAIN q'
      PROVE  IsTable(i)' <=> IsTable(i)
  BY <1>1 DEF IsTable
<1>3. \A i \in DOMAIN q' : IsTable(i) => i \in DOMAIN q
  BY DEF IsTable
<1>4. ASSUME NEW i \in DOMAIN q', FirstTable(i)'
      PROVE  FirstTable(i)
  BY <1>1, <1>2, <1>4 DEF FirstTable
<1>5. ASSUME NEW i \in DOMAIN q', NEW j \in DOMAIN q', NextTable(j, i)'
      PROVE  NextTable(j, i)
  BY <1>1, <1>2, <1>5 DEF NextTable
<1>6. ASSUME NEW i \in DOMAIN q', LastTable(i)'
      PROVE  LastTable(i)
  BY <1>1, <1>2, <1>6 DEF LastTable
<1>7. QueueInv'
  <2>1. ASSUME NEW i \in DOMAIN q', FirstTable(i)', q'[i].what = "UPDATE"
        PROVE  pub'.tablesCurrent /\ Follows(pub, q[i])'
    <3>1. FirstTable(i) /\ i \in DOMAIN q /\ q'[i] = q[i]
      BY <1>1, <1>3, <1>4, <2>1 DEF FirstTable
    <3>2. pub.tablesCurrent /\ Follows(pub, q[i])
      BY <2>1, <3>1 DEF DiffInv, QueueInv
    <3> QED
      BY <3>1, <3>2 DEF Follows
  <2>2. ASSUME NEW i \in DOMAIN q', NEW j \in DOMAIN q', NextTable(j, i)'
        PROVE  q'[i].what = "UPDATE" /\ Follows(q[j], q[i])'
    <3>1. NextTable(j, i) /\ i \in DOMAIN q /\ j \in DOMAIN q /\ q'[i] = q[i] /\ q'[j] = q[j]
      BY <1>1, <1>3, <1>5, <2>2 DEF NextTable
    <3>2. q[i].what = "UPDATE" /\ Follows(q[j], q[i])
      BY <3>1 DEF DiffInv, QueueInv
    <3> QED
      BY <3>1, <3>2 DEF Follows
  <2> QED
    BY <2>1, <2>2 DEF QueueInv
<1>8. LoopInv'
  <2>1. ASSUME handler' # "registered"
        PROVE  \A i \in DOMAIN q' : ~ IsTable(i)'
    BY <1>2, <1>3, <2>1 DEF DiffInv, LoopInv
  <2>2. ASSUME handler' = "registered", NEW i \in DOMAIN q', LastTable(i)'
        PROVE  Follows(q[i], Now)'
    <3>1. LastTable(i) /\ i \in DOMAIN q /\ q'[i] = q[i]
      BY <1>1, <1>3, <1>6, <2>2 DEF LastTable
    <3>2. Follows(q[i], Now)
      BY <2>2, <3>1 DEF DiffInv, LoopInv
    <3> QED
      BY <3>1, <3>2 DEF Follows, Now
  <2>3. ASSUME handler' = "registered", \A i \in DOMAIN q' : ~ IsTable(i)'
        PROVE  pub'.tablesCurrent /\ Follows(pub, Now)'
    <3>1. \A i \in DOMAIN q : ~ IsTable(i)
      BY <1>1, <1>2, <2>3
    <3>2. pub.tablesCurrent /\ Follows(pub, Now)
      BY <2>3, <3>1 DEF DiffInv, LoopInv
    <3> QED
      BY <3>2 DEF Follows, Now
  <2> QED
    BY <2>1, <2>2, <2>3 DEF LoopInv
<1> QED
  BY <1>1, <1>7, <1>8

\* The loop's tables as they are after a step, with a barrier.
After(S) == [covS |-> covS', covT |-> covT', times |-> times', after |-> S, lost |-> lost]

\* The loop pushes its tables; they follow from the last of the queue, or
\* from what the publisher has.  The init tables come first and once.
LEMMA TableAppended ==
  ASSUME DiffInv, NEW m \in Msg, m.what \in {"INIT", "UPDATE"}, q' = Append(q, m),
         UNCHANGED pub, handler' = "registered",
         m.covS = covS', m.covT = covT', m.times = times', m.lost = lost',
         m.what = "INIT" => handler # "registered",
         m.what = "UPDATE" =>
            /\ handler = "registered"
            /\ \A a : (TableTyped(a) /\ Follows(a, Now)) => Follows(a, m)
  PROVE  q' \in Seq(Msg) /\ QueueInv' /\ LoopInv'
<1>1. /\ q \in Seq(Msg) /\ Len(q) \in Nat /\ DOMAIN q = 1 .. Len(q)
      /\ q' \in Seq(Msg) /\ DOMAIN q' = 1 .. Len(q) + 1 /\ q'[Len(q) + 1] = m
      /\ \A i \in DOMAIN q : q'[i] = q[i] /\ i \in DOMAIN q'
  <2>1. q \in Seq(Msg)
    BY DEF DiffInv, TablesTyped
  <2> QED
    BY <2>1
<1>0. PICK n : n = Len(q) + 1
  OBVIOUS
<1>2. n \in DOMAIN q' /\ IsTable(n)' /\ q'[n] = m
  BY <1>0, <1>1 DEF IsTable
<1>3. \A i \in DOMAIN q : IsTable(i)' <=> IsTable(i)
  BY <1>1 DEF IsTable
<1>4. \A i \in DOMAIN q' : (i \in DOMAIN q /\ i < n) \/ i = n
  BY <1>0, <1>1
<1>5. \A i \in DOMAIN q : TableTyped(q[i])
  BY QueueTyped DEF DiffInv
<1>6. QueueInv'
  <2>1. ASSUME NEW i \in DOMAIN q', FirstTable(i)', q'[i].what = "UPDATE"
        PROVE  pub'.tablesCurrent /\ Follows(pub, q[i])'
    <3>1. CASE i = n
      <4>1. m.what = "UPDATE"
        BY <1>2, <2>1, <3>1
      <4>2. \A k \in DOMAIN q : ~ IsTable(k)
        BY <1>0, <1>1, <1>3, <1>4, <2>1, <3>1 DEF FirstTable
      <4>3. pub.tablesCurrent /\ Follows(pub, Now)
        BY <4>1, <4>2 DEF DiffInv, LoopInv
      <4>4. Follows(pub, m)
        BY <4>1, <4>3, PubTyped DEF DiffInv
      <4> QED
        BY <1>2, <3>1, <4>3, <4>4 DEF Follows
    <3>2. CASE i \in DOMAIN q
      <4>1. FirstTable(i)
        BY <1>1, <1>3, <2>1, <3>2 DEF FirstTable
      <4>2. pub.tablesCurrent /\ Follows(pub, q[i])
        BY <1>1, <2>1, <3>2, <4>1 DEF DiffInv, QueueInv
      <4> QED
        BY <1>1, <3>2, <4>2 DEF Follows
    <3> QED
      BY <1>4, <3>1, <3>2
  <2>2. ASSUME NEW i \in DOMAIN q', NEW j \in DOMAIN q', NextTable(j, i)'
        PROVE  q'[i].what = "UPDATE" /\ Follows(q[j], q[i])'
    <3>1. j < i /\ i \in Int /\ j \in Int /\ n \in Int /\ IsTable(j)' /\ IsTable(i)'
      BY <1>0, <1>1, <2>2 DEF NextTable
    <3>2. j \in DOMAIN q
      BY <1>0, <1>1, <3>1
    <3>3. CASE i = n
      <4>1. LastTable(j)
        <5>1. ASSUME NEW k \in DOMAIN q, j < k
              PROVE  ~ IsTable(k)
          <6>1. k < i /\ k \in DOMAIN q'
            BY <1>0, <1>1, <3>3
          <6> QED
            BY <1>3, <2>2, <5>1, <6>1 DEF NextTable
        <5> QED
          BY <1>3, <3>1, <3>2, <5>1 DEF LastTable
      <4>2. handler = "registered"
        BY <3>2, <4>1 DEF DiffInv, LoopInv, LastTable
      <4>3. Follows(q[j], Now) /\ m.what = "UPDATE"
        BY <3>2, <4>1, <4>2 DEF DiffInv, LoopInv
      <4>4. Follows(q[j], m)
        BY <1>5, <3>2, <4>3
      <4> QED
        BY <1>1, <1>2, <3>2, <3>3, <4>3, <4>4 DEF Follows
    <3>4. CASE i \in DOMAIN q
      <4>1. NextTable(j, i)
        BY <1>1, <1>3, <2>2, <3>2, <3>4 DEF NextTable
      <4>2. q[i].what = "UPDATE" /\ Follows(q[j], q[i])
        BY <3>2, <3>4, <4>1 DEF DiffInv, QueueInv
      <4> QED
        BY <1>1, <3>2, <3>4, <4>2 DEF Follows
    <3> QED
      BY <1>4, <3>3, <3>4
  <2> QED
    BY <2>1, <2>2 DEF QueueInv
<1>7. LoopInv'
  <2>1. ASSUME NEW i \in DOMAIN q', LastTable(i)'
        PROVE  Follows(q[i], Now)'
    <3>1. i = n
      BY <1>2, <1>4, <2>1 DEF LastTable
    <3>2. m \in Msg /\ q'[i] = m
      BY <1>2, <3>1
    <3>3. TableTyped(m)
      BY DEF Msg, TableTyped
    <3>4. \A s \in States : m.covS[s] \in Nat
      BY <3>3 DEF TableTyped
    <3>5. \A s \in States : m.covS[s] <= m.covS[s]
      BY <3>4
    <3> QED
      BY <3>2, <3>5 DEF Follows, Now
  <2>2. \E i \in DOMAIN q' : IsTable(i)'
    BY <1>2
  <2> QED
    BY <2>1, <2>2 DEF LoopInv
<1> QED
  BY <1>1, <1>6, <1>7

\* Where the tables of the shorter queue were.
LEMMA PopIndices ==
  ASSUME TablesTyped, q # <<>>, q' = Tail(q)
  PROVE  /\ q' \in Seq(Msg)
         /\ \A i \in DOMAIN q' : i + 1 \in DOMAIN q /\ q'[i] = q[i + 1]
         /\ \A i \in DOMAIN q' : LastTable(i)' => LastTable(i + 1)
         /\ \A i, j \in DOMAIN q' : NextTable(j, i)' => NextTable(j + 1, i + 1)
         /\ IsTable(1) => \A i \in DOMAIN q' : FirstTable(i)' => NextTable(1, i + 1)
         /\ ~ IsTable(1) => \A i \in DOMAIN q' : FirstTable(i)' => FirstTable(i + 1)
         /\ (\A i \in DOMAIN q' : ~ IsTable(i)') =>
               \A i \in DOMAIN q : IsTable(i) => i = 1 /\ LastTable(1)
<1>1. /\ q' \in Seq(Msg) /\ Len(q) \in Nat \ {0} /\ 1 \in DOMAIN q
      /\ DOMAIN q' = 1 .. Len(q) - 1 /\ DOMAIN q = 1 .. Len(q)
      /\ \A i \in 1 .. Len(q) - 1 : q'[i] = q[i + 1]
  BY HeadTyped, QueueTyped
<1>2. \A i \in DOMAIN q' : i \in Int /\ i + 1 \in DOMAIN q /\ q'[i] = q[i + 1] /\ 1 < i + 1
  BY <1>1
<1>3. \A i \in DOMAIN q' : IsTable(i)' <=> IsTable(i + 1)
  BY <1>2 DEF IsTable
<1>4. \A k \in DOMAIN q : k \in Int /\ (k # 1 => k - 1 \in DOMAIN q' /\ (k - 1) + 1 = k)
  BY <1>1
<1>5. ASSUME NEW i \in DOMAIN q', LastTable(i)'
      PROVE  LastTable(i + 1)
  <2>1. ASSUME NEW k \in DOMAIN q, i + 1 < k
        PROVE  ~ IsTable(k)
    <3>1. k - 1 \in DOMAIN q' /\ (k - 1) + 1 = k /\ i < k - 1
      BY <1>2, <1>4, <2>1
    <3>2. PICK l : l = k - 1
      OBVIOUS
    <3>3. ~ IsTable(l)'
      BY <1>5, <3>1, <3>2 DEF LastTable
    <3> QED
      BY <1>3, <3>1, <3>2, <3>3
  <2> QED
    BY <1>3, <1>5, <2>1 DEF LastTable
<1>6. ASSUME NEW i \in DOMAIN q', NEW j \in DOMAIN q', NextTable(j, i)'
      PROVE  NextTable(j + 1, i + 1)
  <2>1. j < i /\ j + 1 < i + 1 /\ IsTable(i + 1) /\ IsTable(j + 1)
    BY <1>2, <1>3, <1>6 DEF NextTable
  <2>2. ASSUME NEW k \in DOMAIN q, j + 1 < k, k < i + 1
        PROVE  ~ IsTable(k)
    <3>1. k - 1 \in DOMAIN q' /\ (k - 1) + 1 = k /\ j < k - 1 /\ k - 1 < i
      BY <1>2, <1>4, <2>2
    <3>2. PICK l : l = k - 1
      OBVIOUS
    <3>3. ~ IsTable(l)'
      BY <1>6, <3>1, <3>2 DEF NextTable
    <3> QED
      BY <1>3, <3>1, <3>2, <3>3
  <2> QED
    BY <2>1, <2>2 DEF NextTable
<1>7. ASSUME NEW i \in DOMAIN q', FirstTable(i)'
      PROVE  /\ IsTable(i + 1) /\ 1 < i + 1
             /\ \A k \in DOMAIN q : (k # 1 /\ k < i + 1) => ~ IsTable(k)
  <2>1. ASSUME NEW k \in DOMAIN q, k # 1, k < i + 1
        PROVE  ~ IsTable(k)
    <3>1. k - 1 \in DOMAIN q' /\ (k - 1) + 1 = k /\ k - 1 < i
      BY <1>2, <1>4, <2>1
    <3>2. PICK l : l = k - 1
      OBVIOUS
    <3>3. ~ IsTable(l)'
      BY <1>7, <3>1, <3>2 DEF FirstTable
    <3> QED
      BY <1>3, <3>1, <3>2, <3>3
  <2> QED
    BY <1>2, <1>3, <1>7, <2>1 DEF FirstTable
<1>8. ASSUME IsTable(1), NEW i \in DOMAIN q', FirstTable(i)'
      PROVE  NextTable(1, i + 1)
  <2>1. \A k \in DOMAIN q : 1 < k => k # 1
    BY <1>4
  <2> QED
    BY <1>7, <1>8, <2>1 DEF NextTable
<1>9. ASSUME ~ IsTable(1), NEW i \in DOMAIN q', FirstTable(i)'
      PROVE  FirstTable(i + 1)
  BY <1>7, <1>9 DEF FirstTable
<1>10. ASSUME \A i \in DOMAIN q' : ~ IsTable(i)', NEW i \in DOMAIN q, IsTable(i)
       PROVE  i = 1 /\ LastTable(1)
  <2>1. \A k \in DOMAIN q : k # 1 => ~ IsTable(k)
    BY <1>3, <1>4, <1>10
  <2>2. \A k \in DOMAIN q : 1 < k => k # 1
    BY <1>4
  <2> QED
    BY <1>10, <2>1, <2>2 DEF LastTable
<1> QED
  BY <1>1, <1>2, <1>5, <1>6, <1>8, <1>9, <1>10

\* Follows depends on the tables only.
LEMMA SameFollows ==
  ASSUME NEW a, NEW b, NEW m, Follows(a, m),
         b.covS = a.covS, b.covT = a.covT, b.times = a.times, b.lost = a.lost
  PROVE  Follows(b, m)
BY DEF Follows

\* The publisher takes the first message: the tables it has then are those
\* of the message, or the ones it had when the message asks for a channel.
LEMMA HeadTaken ==
  ASSUME DiffInv, q # <<>>, q' = Tail(q), UNCHANGED <<covS, covT, times, sinceLast, lost, handler>>,
         IF Head(q).what = "NEW_CHANNEL"
         THEN /\ pub'.covS = pub.covS /\ pub'.covT = pub.covT /\ pub'.times = pub.times
              /\ pub'.tablesCurrent = pub.tablesCurrent /\ pub'.lost = pub.lost
         ELSE /\ pub'.covS = Head(q).covS /\ pub'.covT = Head(q).covT
              /\ pub'.times = Head(q).times /\ pub'.lost = Head(q).lost /\ pub'.tablesCurrent
  PROVE  q' \in Seq(Msg) /\ QueueInv' /\ LoopInv'
<1>1. /\ q' \in Seq(Msg)
      /\ \A i \in DOMAIN q' : i + 1 \in DOMAIN q /\ q'[i] = q[i + 1]
  BY PopIndices DEF DiffInv
<1>2. Head(q) = q[1] /\ 1 \in DOMAIN q
  BY HeadTyped DEF DiffInv
<1>3. IsTable(1) <=> Head(q).what # "NEW_CHANNEL"
  BY <1>2 DEF IsTable
<1>4. ASSUME NEW m, Follows(IF IsTable(1) THEN q[1] ELSE pub, m)
      PROVE  Follows(pub', m)
  <2>1. CASE IsTable(1)
    BY <1>2, <1>3, <1>4, <2>1, SameFollows
  <2>2. CASE ~ IsTable(1)
    BY <1>3, <1>4, <2>2, SameFollows
  <2> QED
    BY <2>1, <2>2
<1>5. QueueInv'
  <2>1. ASSUME NEW i \in DOMAIN q', FirstTable(i)', q'[i].what = "UPDATE"
        PROVE  pub'.tablesCurrent /\ Follows(pub', q'[i])
    <3>1. CASE IsTable(1)
      <4>1. NextTable(1, i + 1)
        BY <2>1, <3>1, PopIndices DEF DiffInv
      <4>2. Follows(q[1], q[i + 1])
        BY <1>1, <1>2, <4>1 DEF DiffInv, QueueInv
      <4> QED
        BY <1>1, <1>3, <1>4, <3>1, <4>2
    <3>2. CASE ~ IsTable(1)
      <4>1. FirstTable(i + 1)
        BY <2>1, <3>2, PopIndices DEF DiffInv
      <4>2. pub.tablesCurrent /\ Follows(pub, q[i + 1])
        BY <1>1, <2>1, <4>1 DEF DiffInv, QueueInv
      <4> QED
        BY <1>1, <1>3, <1>4, <3>2, <4>2
    <3> QED
      BY <3>1, <3>2
  <2>2. ASSUME NEW i \in DOMAIN q', NEW j \in DOMAIN q', NextTable(j, i)'
        PROVE  q'[i].what = "UPDATE" /\ Follows(q'[j], q'[i])
    <3>1. NextTable(j + 1, i + 1)
      BY <2>2, PopIndices DEF DiffInv
    <3>2. q[i + 1].what = "UPDATE" /\ Follows(q[j + 1], q[i + 1])
      BY <1>1, <3>1 DEF DiffInv, QueueInv
    <3> QED
      BY <1>1, <3>2
  <2> QED
    BY <2>1, <2>2 DEF QueueInv, Follows
<1>6. LoopInv'
  <2>1. ASSUME handler' # "registered", NEW i \in DOMAIN q'
        PROVE  ~ IsTable(i)'
    <3>1. ~ IsTable(i + 1)
      BY <1>1, <2>1 DEF DiffInv, LoopInv
    <3> QED
      BY <1>1, <3>1 DEF IsTable
  <2>2. Now' = Now
    BY DEF Now
  <2>3. ASSUME handler' = "registered", NEW i \in DOMAIN q', LastTable(i)'
        PROVE  Follows(q'[i], Now)
    <3>1. LastTable(i + 1)
      BY <2>3, PopIndices DEF DiffInv
    <3> QED
      BY <1>1, <2>3, <3>1 DEF DiffInv, LoopInv
  <2>4. ASSUME handler' = "registered", \A i \in DOMAIN q' : ~ IsTable(i)'
        PROVE  pub'.tablesCurrent /\ Follows(pub', Now)
    <3>1. \A i \in DOMAIN q : IsTable(i) => i = 1 /\ LastTable(1)
      BY <2>4, PopIndices DEF DiffInv
    <3>2. CASE IsTable(1)
      <4>1. Follows(q[1], Now)
        BY <1>2, <2>4, <3>1, <3>2 DEF DiffInv, LoopInv
      <4> QED
        BY <1>3, <1>4, <3>2, <4>1
    <3>3. CASE ~ IsTable(1)
      <4>1. pub.tablesCurrent /\ Follows(pub, Now)
        BY <2>4, <3>1, <3>3 DEF DiffInv, LoopInv
      <4> QED
        BY <1>3, <1>4, <3>3, <4>1
    <3> QED
      BY <3>2, <3>3
  <2> QED
    BY <2>1, <2>2, <2>3, <2>4 DEF LoopInv, Follows
<1> QED
  BY <1>1, <1>5, <1>6

-----------------------------------------------------------------------------
(* The publisher.                                                          *)

\* The publisher's state after a message was taken over.
\* The tables of an INIT or UPDATE message become the publisher's.
LEMMA TablesTaken ==
  ASSUME DiffInv, InitTables \/ Update, NEW m, m = Head(q)
  PROVE  /\ m \in Msg /\ pub' \in Pub
         /\ pub'.covS = m.covS /\ pub'.covT = m.covT /\ pub'.times = m.times /\ pub'.lost = m.lost
         /\ pub'.tablesCurrent /\ pub'.states = m.states /\ pub'.cats = ActiveCategories(m.states)
<1>1. q # <<>>
  BY DEF InitTables, Update
<1>2. m \in Msg
  BY <1>1, HeadTyped DEF DiffInv
<1>3. /\ m.covS \in [States -> Nat] /\ m.covT \in [DOMAIN Transitions -> Nat]
      /\ m.times \in [Stamps -> Nat] /\ m.states \in SUBSET States /\ m.lost \in SUBSET Stamps
  BY <1>2 DEF Msg
<1>4. pub \in Pub
  BY DEF DiffInv, TablesTyped
<1>5. ActiveCategories(m.states) \in Categories
  BY <1>3, CategoriesTyped
<1>6. \/ pub' = [Received(m) EXCEPT !.tablesCurrent = TRUE, !.cats = ActiveCategories(m.states)]
      \/ /\ pub' = [Received(m) EXCEPT !.cats = ActiveCategories(m.states)]
         /\ m.what = "UPDATE"
  <2>1. CASE InitTables
    <3>1. [Received(m) EXCEPT !.tablesCurrent = TRUE].states = m.states
      BY <1>2, <1>4 DEF Received, Msg, Pub
    <3>2. pub' = [[Received(m) EXCEPT !.tablesCurrent = TRUE] EXCEPT
                     !.cats = ActiveCategories(m.states)]
      BY <2>1, <3>1 DEF InitTables, CreateInitMsg
    <3> QED
      BY <3>2
  <2>2. CASE Update
    BY <2>2 DEF Update
  <2> QED
    BY <2>1, <2>2
<1>7. /\ Received(m) \in Pub /\ Received(m).covS = m.covS /\ Received(m).covT = m.covT
      /\ Received(m).times = m.times /\ Received(m).lost = m.lost /\ Received(m).states = m.states
      /\ Received(m).tablesCurrent = pub.tablesCurrent
  BY <1>3, <1>4 DEF Received, Pub
<1>8. m.what = "UPDATE" => pub.tablesCurrent
  <2>1. Head(q) = q[1] /\ 1 \in DOMAIN q /\ DOMAIN q = 1 .. Len(q) /\ Len(q) \in Nat
    BY <1>1, HeadTyped, QueueTyped DEF DiffInv
  <2>2. m.what = "UPDATE" => FirstTable(1) /\ q[1].what = "UPDATE"
    BY <2>1 DEF FirstTable, IsTable
  <2> QED
    BY <2>1, <2>2 DEF DiffInv, QueueInv
<1>9. PICK r \in Pub : r = Received(m)
  BY <1>7
<1>10. r.tablesCurrent \in BOOLEAN
  BY DEF Pub
<1>11. /\ pub' \in Pub /\ pub'.covS = m.covS /\ pub'.covT = m.covT /\ pub'.times = m.times
       /\ pub'.lost = m.lost
       /\ pub'.tablesCurrent /\ pub'.states = m.states /\ pub'.cats = ActiveCategories(m.states)
  BY <1>5, <1>6, <1>7, <1>8, <1>9, <1>10 DEF Pub
<1> QED
  BY <1>2, <1>11

LEMMA PublishDiff ==
  ASSUME DiffInv, Publish
  PROVE  DiffInv'
<1>1. /\ q # <<>> /\ q' = Tail(q)
      /\ UNCHANGED <<covS, covT, times, current, sinceLast, lost, steps, handler>>
  BY DEF Publish, NewChannel, InitTables, Update, execVars
<1>2. PICK m : m = Head(q)
  OBVIOUS
<1>3. pub \in Pub
  BY DEF DiffInv, TablesTyped
<1>4. ActiveCategories(pub.states) \in Categories
  BY CategoriesTyped, PubTyped DEF DiffInv
<1>5. CASE NewChannel
  <2>1. m.what = "NEW_CHANNEL"
    BY <1>2, <1>5 DEF NewChannel
  <2>2. \/ pub' = pub
        \/ pub' = [pub EXCEPT !.cats = ActiveCategories(pub.states)]
    BY <1>5 DEF NewChannel, CreateInitMsg, pubVars
  <2>3. /\ pub' \in Pub
        /\ pub'.covS = pub.covS /\ pub'.covT = pub.covT /\ pub'.times = pub.times
        /\ pub'.lost = pub.lost
        /\ pub'.tablesCurrent = pub.tablesCurrent /\ pub'.states = pub.states
        /\ pub'.cats = pub.cats \/ pub'.cats = ActiveCategories(pub.states)
    BY <1>3, <1>4, <2>2 DEF Pub
  <2>4. q' \in Seq(Msg) /\ QueueInv' /\ LoopInv'
    BY <1>1, <1>2, <2>1, <2>3, HeadTaken
  <2>5. PubInv'
    BY <2>3 DEF DiffInv, PubInv, ActiveCategories
  <2> QED
    BY <1>1, <2>3, <2>4, <2>5 DEF DiffInv, TablesTyped
<1>6. CASE InitTables \/ Update
  <2>1. m.what # "NEW_CHANNEL"
    BY <1>2, <1>6 DEF InitTables, Update
  <2>2. /\ pub' \in Pub /\ pub'.covS = m.covS /\ pub'.covT = m.covT /\ pub'.times = m.times
        /\ pub'.lost = m.lost
        /\ pub'.tablesCurrent /\ pub'.states = m.states /\ pub'.cats = ActiveCategories(m.states)
    BY <1>2, <1>6, TablesTaken
  <2>3. q' \in Seq(Msg) /\ QueueInv' /\ LoopInv'
    BY <1>1, <1>2, <2>1, <2>2, HeadTaken
  <2>4. PubInv'
    BY <2>2 DEF PubInv, ActiveCategories
  <2> QED
    BY <1>1, <2>2, <2>3, <2>4 DEF DiffInv, TablesTyped
<1> QED
  BY <1>5, <1>6 DEF Publish

-----------------------------------------------------------------------------
(* The loop and the subscribers.                                           *)

LEMMA TableMsgTyped ==
  ASSUME NEW what \in {"INIT", "UPDATE"}, NEW S \in SUBSET Stamps, NEW active \in SUBSET States,
         NEW cs \in [States -> Nat], NEW ct \in [DOMAIN Transitions -> Nat],
         NEW tm \in [Stamps -> Nat], NEW L \in SUBSET Stamps
  PROVE  LET m == TableMsg(what, S, active, cs, ct, tm, L)
         IN /\ m \in Msg /\ m.what = what /\ m.covS = cs /\ m.covT = ct
            /\ m.times = tm /\ m.after = S /\ m.lost = L
BY DEF TableMsg, Msg

LEMMA SubscribeDiff ==
  ASSUME DiffInv, NEW c \in Clients, Subscribe(c)
  PROVE  DiffInv'
<1>1. PICK m : m = [NoTables EXCEPT !.what = "NEW_CHANNEL", !.client = c]
  OBVIOUS
<1>2. m \in Msg /\ m.what = "NEW_CHANNEL"
  BY <1>1 DEF NoTables, TableMsg, Msg
<1>3. /\ q' = Append(q, m) /\ UNCHANGED <<pub, covS, covT, times, sinceLast, lost, steps, current>>
      /\ (handler' = "registered") <=> (handler = "registered")
  BY <1>1 DEF Subscribe, pubVars
<1>4. q' \in Seq(Msg) /\ QueueInv' /\ LoopInv'
  BY <1>2, <1>3, ChannelAppended
<1>5. PubInv'
  BY <1>3 DEF DiffInv, PubInv, ActiveCategories
<1> QED
  BY <1>3, <1>4, <1>5 DEF DiffInv, TablesTyped

LEMMA RegisterDiff ==
  ASSUME DiffInv, Register
  PROVE  DiffInv'
<1>1. UNCHANGED <<pub, covS, covT, times, current, steps>> /\ handler = "requested"
  BY DEF Register, pubVars
<1>2. PubInv'
  BY <1>1 DEF DiffInv, PubInv, ActiveCategories
<1>3. CASE covering
  <2>1. PICK m : m = TableMsg("INIT", {}, current, covS, covT, times, {})
    OBVIOUS
  <2>2. /\ m \in Msg /\ m.what = "INIT" /\ m.covS = covS' /\ m.covT = covT' /\ m.times = times'
        /\ m.lost = {}
    BY <1>1, <2>1, TableMsgTyped DEF DiffInv, TablesTyped
  <2>3. q' = Append(q, m) /\ handler' = "registered" /\ sinceLast' = {} /\ lost' = {}
    BY <1>3, <2>1 DEF Register
  <2>4. q' \in Seq(Msg) /\ QueueInv' /\ LoopInv'
    BY <1>1, <2>2, <2>3, TableAppended
  <2> QED
    BY <1>1, <1>2, <2>3, <2>4 DEF DiffInv, TablesTyped
<1>4. CASE ~ covering
  <2>1. UNCHANGED <<q, sinceLast, lost>> /\ handler' = "refused"
    BY <1>4 DEF Register
  <2>2. QueueInv'
    BY <1>1, <2>1 DEF DiffInv, QueueInv, FirstTable, NextTable, IsTable, Follows
  <2>3. LoopInv'
    BY <1>1, <2>1 DEF DiffInv, LoopInv, IsTable
  <2> QED
    BY <1>1, <1>2, <2>1, <2>2, <2>3 DEF DiffInv, TablesTyped
<1> QED
  BY <1>3, <1>4

\* Steps of the others.
LEMMA QuietDiff ==
  ASSUME DiffInv,
         UNCHANGED <<pub, q, covS, covT, times, sinceLast, lost, steps, current, handler>>
  PROVE  DiffInv'
<1>1. PubInv'
  BY DEF DiffInv, PubInv, ActiveCategories
<1>2. QueueInv'
  BY DEF DiffInv, QueueInv, FirstTable, NextTable, IsTable, Follows
<1>3. LoopInv'
  BY DEF DiffInv, LoopInv, LastTable, IsTable, Follows, Now
<1> QED
  BY <1>1, <1>2, <1>3 DEF DiffInv, TablesTyped

\* What a run of the handlers does to the queue: nothing, and the stamps of
\* the iteration are remembered or lost, or the tables are pushed with the
\* barrier, and the stamps since the last message are forgotten.
QueueTold(fresh) ==
  \/ /\ UNCHANGED q
     /\ \/ sinceLast' = sinceLast /\ lost' = lost \cup fresh
        \/ sinceLast' = sinceLast \cup fresh /\ lost' = lost \ fresh
  \/ /\ handler = "registered" /\ sinceLast' = {} /\ lost' = lost \ fresh
     /\ q' = Append(q, TableMsg("UPDATE", sinceLast \cup fresh, current', covS', covT', times', lost \ fresh))

\* What may be told or is lost may grow.
LEMMA WiderFollows ==
  ASSUME NEW a, NEW m, NEW n, Follows(a, m),
         n.covS = m.covS, n.covT = m.covT, n.times = m.times,
         m.after \cup m.lost \subseteq n.after \cup n.lost
  PROVE  Follows(a, n)
BY DEF Follows

LEMMA QueueToldDiff ==
  ASSUME DiffInv, UNCHANGED <<pub, handler>>, NEW fresh \in SUBSET Stamps, QueueTold(fresh),
         covS' \in [States -> Nat], covT' \in [DOMAIN Transitions -> Nat],
         times' \in [Stamps -> Nat], current' \subseteq States, steps' \in Nat,
         \A a : (TableTyped(a) /\ Follows(a, Now)) => Follows(a, After(sinceLast \cup fresh))
  PROVE  DiffInv'
<1>1. PubInv'
  BY DEF DiffInv, PubInv, ActiveCategories
<1>2. CASE /\ UNCHANGED q
           /\ \/ sinceLast' = sinceLast /\ lost' = lost \cup fresh
              \/ sinceLast' = sinceLast \cup fresh /\ lost' = lost \ fresh
  <2>1. ASSUME NEW a, TableTyped(a), Follows(a, Now)
        PROVE  Follows(a, Now')
    <3>1. Follows(a, After(sinceLast \cup fresh))
      BY <2>1
    <3>2. /\ Now'.covS = After(sinceLast \cup fresh).covS /\ Now'.covT = After(sinceLast \cup fresh).covT
          /\ Now'.times = After(sinceLast \cup fresh).times
          /\ After(sinceLast \cup fresh).after \cup After(sinceLast \cup fresh).lost
               \subseteq Now'.after \cup Now'.lost
      BY <1>2 DEF After, Now
    <3> QED
      BY <3>1, <3>2, WiderFollows
  <2>2. QueueInv'
    BY <1>2 DEF DiffInv, QueueInv, FirstTable, NextTable, IsTable, Follows
  <2>3. ASSUME handler = "registered", NEW i \in DOMAIN q, LastTable(i)
        PROVE  Follows(q[i], Now')
    <3>1. Follows(q[i], Now) /\ TableTyped(q[i])
      BY <2>3, QueueTyped DEF DiffInv, LoopInv
    <3> QED
      BY <2>1, <3>1
  <2>4. ASSUME handler = "registered", \A i \in DOMAIN q : ~ IsTable(i)
        PROVE  pub.tablesCurrent /\ Follows(pub, Now')
    <3>1. pub.tablesCurrent /\ Follows(pub, Now) /\ TableTyped(pub)
      BY <2>4, PubTyped DEF DiffInv, LoopInv
    <3> QED
      BY <2>1, <3>1
  <2>5. LoopInv'
    <3>1. \A i : (LastTable(i)' <=> LastTable(i)) /\ (IsTable(i)' <=> IsTable(i))
      BY <1>2 DEF LastTable, IsTable
    <3>2. ASSUME NEW a, Follows(a, Now') PROVE Follows(a, Now)'
      BY <3>2 DEF Follows
    <3>3. ASSUME handler # "registered", NEW i \in DOMAIN q PROVE ~ IsTable(i)'
      BY <3>1, <3>3 DEF DiffInv, LoopInv
    <3>4. ASSUME handler = "registered", NEW i \in DOMAIN q, LastTable(i)'
          PROVE  Follows(q[i], Now)'
      BY <1>2, <2>3, <3>1, <3>4 DEF Follows
    <3>5. ASSUME handler = "registered", \A i \in DOMAIN q : ~ IsTable(i)'
          PROVE  pub'.tablesCurrent /\ Follows(pub, Now)'
      BY <2>4, <3>1, <3>5 DEF Follows
    <3> QED
      BY <1>2, <3>3, <3>4, <3>5 DEF LoopInv
  <2> QED
    BY <1>1, <1>2, <2>2, <2>5 DEF DiffInv, TablesTyped
<1>3. CASE /\ handler = "registered" /\ sinceLast' = {} /\ lost' = lost \ fresh
           /\ q' = Append(q, TableMsg("UPDATE", sinceLast \cup fresh, current', covS', covT', times', lost \ fresh))
  <2>1. PICK m : m = TableMsg("UPDATE", sinceLast \cup fresh, current', covS', covT', times', lost \ fresh)
    OBVIOUS
  <2>0. PICK S \in SUBSET Stamps, L \in SUBSET Stamps : S = sinceLast \cup fresh /\ L = lost \ fresh
    BY DEF DiffInv, TablesTyped
  <2>2. /\ m \in Msg /\ m.what = "UPDATE" /\ m.covS = covS' /\ m.covT = covT'
        /\ m.times = times' /\ m.after = sinceLast \cup fresh /\ m.lost = lost \ fresh
    BY <2>0, <2>1, TableMsgTyped
  <2>3. ASSUME NEW a, TableTyped(a), Follows(a, Now)
        PROVE  Follows(a, m)
    <3>1. Follows(a, After(sinceLast \cup fresh))
      BY <2>3
    <3>2. /\ After(sinceLast \cup fresh).covS = m.covS /\ After(sinceLast \cup fresh).covT = m.covT
          /\ After(sinceLast \cup fresh).times = m.times
          /\ After(sinceLast \cup fresh).after \cup After(sinceLast \cup fresh).lost
               \subseteq m.after \cup m.lost
      BY <2>2 DEF After
    <3> QED
      BY <3>1, <3>2, WiderFollows
  <2>4. q' \in Seq(Msg) /\ QueueInv' /\ LoopInv'
    BY <1>3, <2>1, <2>2, <2>3, TableAppended
  <2> QED
    BY <1>1, <1>3, <2>0, <2>4 DEF DiffInv, TablesTyped
<1> QED
  BY <1>2, <1>3 DEF QueueTold

LEMMA DanglingDiff ==
  ASSUME DiffInv, Dangling
  PROVE  DiffInv'
<1>1. UNCHANGED <<pub, handler, covS, covT, times, current, steps>>
  BY DEF Dangling, pubVars
<1>2. QueueTold({})
  BY <1>1 DEF Dangling, RunHandlers, Pushed, NothingPushed, QueueTold
<1>3. After(sinceLast \cup {}) = Now
  BY <1>1 DEF After, Now
<1>4. \A a : (TableTyped(a) /\ Follows(a, Now)) => Follows(a, After(sinceLast \cup {}))
  BY <1>3
<1> QED
  BY <1>1, <1>2, <1>4, QueueToldDiff DEF DiffInv, TablesTyped

\* A step of the loop counts at least one state of the machine whose
\* transitions it visits, and enters a time only for the states it enters.
LEMMA StepDiff ==
  ASSUME DiffInv, MachinesAreClosed, NEW s \in States, Step(s)
  PROVE  DiffInv'
<1>1. PICK T \in SUBSET {t \in DOMAIN Transitions : Transitions[t].from = s} :
       /\ T # {}
       /\ LET to     == {Transitions[t].to : t \in T}
              active == (current \ {s}) \cup to
              cs     == [x \in States |-> covS[x] + Cardinality(
                           {t \in T : Transitions[t].to = x})]
              ct     == [t \in DOMAIN Transitions |->
                           covT[t] + (IF t \in Visited(s, T) THEN 1 ELSE 0)]
              fresh  == {x \in Stamps : IF x[2] = "LOG_ENTER_TIME" THEN x[1] \in active \ current
                                        ELSE x[1] \in current \ active}
              tm     == [x \in Stamps |-> IF x \in fresh THEN steps + 1 ELSE times[x]]
          IN /\ current' = active /\ covS' = cs /\ covT' = ct /\ times' = tm
             /\ IF covering /\ (dangling \/ active # current)
                THEN RunHandlers(active, cs, ct, tm, fresh)
                ELSE NothingPushed(fresh) /\ UNCHANGED dangling
  BY DEF Step
<1>2. PICK fresh : fresh = {x \in Stamps : IF x[2] = "LOG_ENTER_TIME"
          THEN x[1] \in ((current \ {s}) \cup {Transitions[t].to : t \in T}) \ current
          ELSE x[1] \in current \ ((current \ {s}) \cup {Transitions[t].to : t \in T})}
  OBVIOUS
<1>3. /\ current' = (current \ {s}) \cup {Transitions[t].to : t \in T}
      /\ covS' = [x \in States |-> covS[x] + Cardinality({t \in T : Transitions[t].to = x})]
      /\ covT' = [t \in DOMAIN Transitions |->
                    covT[t] + (IF t \in Visited(s, T) THEN 1 ELSE 0)]
      /\ times' = [x \in Stamps |-> IF x \in fresh THEN steps + 1 ELSE times[x]]
      /\ \/ NothingPushed(fresh)
         \/ RunHandlers(current', covS', covT', times', fresh)
  BY <1>1, <1>2
<1>4. QueueTold(fresh)
  BY <1>3 DEF RunHandlers, Pushed, NothingPushed, QueueTold
<1>5. \A t \in DOMAIN Transitions : Transitions[t].from = s => Transitions[t].to \in States /\ ~ Start(t)
  <2> DEFINE R == [from : States, to : States] \cup {[from |-> 0, to |-> 0]}
  <2>1. Transitions \in Seq(R) /\ s # 0
    BY DEF MachinesAreClosed
  <2>2. \A r \in R : r.from = s => r.to \in States
    BY <2>1
  <2> HIDE DEF R
  <2>3. \A t \in DOMAIN Transitions : Transitions[t] \in R
    BY <2>1
  <2> QED
    BY <2>1, <2>2, <2>3 DEF Start
<1>6. fresh \subseteq Stamps /\ current' \subseteq States
  BY <1>2, <1>3, <1>5 DEF DiffInv, TablesTyped
<1>7. IsFiniteSet(T)
  <2>1. DOMAIN Transitions = 1 .. Len(Transitions) /\ Len(Transitions) \in Nat
    BY DEF MachinesAreClosed
  <2>2. IsFiniteSet(1 .. Len(Transitions))
    BY <2>1, FS_Interval
  <2> QED
    BY <2>1, <2>2, FS_Subset
<1>8. \A x \in States : /\ IsFiniteSet({t \in T : Transitions[t].to = x})
                        /\ Cardinality({t \in T : Transitions[t].to = x}) \in Nat
  BY <1>7, FS_Subset, FS_CardinalityType
<1>9. /\ \A x \in States : covS[x] \in Nat /\ covS'[x] \in Nat /\ covS[x] <= covS'[x]
      /\ covS' \in [States -> Nat]
  <2>1. covS \in [States -> Nat]
    BY DEF DiffInv, TablesTyped
  <2> DEFINE Hits(x) == Cardinality({t \in T : Transitions[t].to = x})
  <2>2. covS' = [x \in States |-> covS[x] + Hits(x)] /\ \A x \in States : Hits(x) \in Nat
    BY <1>3, <1>8
  <2> HIDE DEF Hits
  <2>3. \A x \in States : covS'[x] = covS[x] + Hits(x) /\ covS[x] \in Nat
    BY <2>1, <2>2
  <2>4. \A x \in States : covS[x] \in Nat /\ covS'[x] \in Nat /\ covS[x] <= covS'[x]
    BY <2>2, <2>3
  <2> QED
    BY <2>2, <2>4
<1>10. covT' \in [DOMAIN Transitions -> Nat]
  BY <1>3 DEF DiffInv, TablesTyped
<1>11. times' \in [Stamps -> Nat] /\ steps' \in Nat
  BY <1>3 DEF Step, DiffInv, TablesTyped
<1>12. PICK t0 \in T : TRUE
  BY <1>1
<1>13. /\ Transitions[t0].to \in States /\ RootSm(Transitions[t0].to) = RootSm(s)
       /\ covS[Transitions[t0].to] < covS'[Transitions[t0].to]
  <2>1. t0 \in DOMAIN Transitions /\ Transitions[t0].from = s
    OBVIOUS
  <2>2. Transitions[t0].to \in States /\ RootSm(Transitions[t0].to) = RootSm(s)
    BY <1>5, <2>1 DEF MachinesAreClosed
  <2>3. {t \in T : Transitions[t].to = Transitions[t0].to} # {}
    OBVIOUS
  <2>4. Cardinality({t \in T : Transitions[t].to = Transitions[t0].to}) # 0
    BY <1>8, <2>2, <2>3, FS_EmptySet
  <2>5. covS'[Transitions[t0].to]
          = covS[Transitions[t0].to] + Cardinality({t \in T : Transitions[t].to = Transitions[t0].to})
    BY <1>3, <2>2
  <2>6. PICK h : h = Cardinality({t \in T : Transitions[t].to = Transitions[t0].to})
    OBVIOUS
  <2>7. h \in Nat /\ h # 0 /\ covS'[Transitions[t0].to] = covS[Transitions[t0].to] + h
    BY <1>8, <2>2, <2>4, <2>5, <2>6
  <2>8. covS[Transitions[t0].to] \in Nat
    BY <1>9, <2>2
  <2> QED
    BY <2>2, <2>7, <2>8
<1>14. ASSUME NEW a, TableTyped(a), Follows(a, Now)
       PROVE  Follows(a, After(sinceLast \cup fresh))
  <2>1. /\ \A x \in States : a.covS[x] \in Nat /\ a.covS[x] <= covS[x]
        /\ \A x \in Stamps : (times[x] # a.times[x] \/ x \in a.lost) => x \in sinceLast \cup lost
        /\ \A t \in DOMAIN Transitions : covT[t] # a.covT[t] =>
             \E x \in States : /\ RootSm(x) = RootSm(Transitions[t].from)
                               /\ a.covS[x] # covS[x]
    BY <1>14 DEF TableTyped, Follows, Now
  <2>2. \A x \in States : a.covS[x] <= covS'[x]
    BY <1>9, <2>1
  <2>3. \A x \in Stamps : (times'[x] # a.times[x] \/ x \in a.lost)
                             => x \in (sinceLast \cup fresh) \cup lost
    BY <1>3, <2>1
  <2>4. ASSUME NEW t \in DOMAIN Transitions, covT'[t] # a.covT[t]
        PROVE  \E x \in States : /\ RootSm(x) = RootSm(Transitions[t].from)
                                 /\ a.covS[x] # covS'[x]
    <3>1. CASE t \in Visited(s, T)
      <4>1. Transitions[t].from = s
        BY <3>1 DEF Visited
      <4>2. a.covS[Transitions[t0].to] # covS'[Transitions[t0].to]
        BY <1>9, <1>13, <2>1
      <4> QED
        BY <1>13, <4>1, <4>2
    <3>2. CASE t \notin Visited(s, T)
      <4>1. covT[t] \in Nat
        BY DEF DiffInv, TablesTyped
      <4>2. covT'[t] = covT[t]
        BY <1>3, <3>2, <4>1
      <4>3. PICK x \in States : /\ RootSm(x) = RootSm(Transitions[t].from)
                                /\ a.covS[x] # covS[x]
        BY <2>1, <2>4, <4>2
      <4>4. a.covS[x] # covS'[x]
        BY <1>9, <2>1, <4>3
      <4> QED
        BY <4>3, <4>4
    <3> QED
      BY <3>1, <3>2
  <2> QED
    BY <2>2, <2>3, <2>4 DEF Follows, After
<1>15. UNCHANGED <<pub, handler>>
  BY DEF Step, pubVars
<1> QED
  BY <1>3, <1>4, <1>6, <1>9, <1>10, <1>11, <1>14, <1>15, QueueToldDiff

LEMMA DiffInit ==
  ASSUME Init
  PROVE  DiffInv
<1>1. current \subseteq States /\ sinceLast = {} /\ lost = {} /\ steps = 0 /\ q = <<>>
  BY DEF Init
<1>2. /\ covS \in [States -> Nat] /\ covT \in [DOMAIN Transitions -> Nat]
      /\ times \in [Stamps -> Nat]
  BY DEF Init, NoTables, TableMsg
<1>3. pub \in Pub /\ pub.tablesCurrent = FALSE
  <2>1. [r \in TopLevelSms |-> {}] \in Categories
    BY DEF Categories
  <2>2. /\ NoTables.covS \in [States -> Nat] /\ NoTables.times \in [Stamps -> Nat]
        /\ NoTables.covT \in [DOMAIN Transitions -> Nat]
    BY DEF NoTables, TableMsg
  <2> QED
    BY <2>1, <2>2 DEF Init, Pub
<1>4. DOMAIN q = {} /\ q \in Seq(Msg)
  BY <1>1
<1>5. handler # "registered"
  BY DEF Init
<1>6. QueueInv /\ LoopInv /\ PubInv
  BY <1>3, <1>4, <1>5 DEF QueueInv, LoopInv, PubInv
<1> QED
  BY <1>1, <1>2, <1>3, <1>4, <1>6 DEF DiffInv, TablesTyped

LEMMA DiffStep ==
  ASSUME DiffInv, MachinesAreClosed, [Next]_vars
  PROVE  DiffInv'
<1>1. CASE UNCHANGED vars
  BY <1>1, QuietDiff DEF vars, execVars, pubVars
<1>2. CASE Tick \/ Idle
  BY <1>2, QuietDiff DEF Tick, Idle, pubVars
<1>3. ASSUME NEW c \in Clients, WriteIntro(c) \/ ReadRing(c) \/ SendMsg(c) \/ WriterEnds(c)
      PROVE  DiffInv'
  <2>1. UNCHANGED <<execVars, q, pubVars>>
    BY <1>3 DEF WriteIntro, ReadRing, SendMsg, WriterEnds
  <2> QED
    BY <2>1, QuietDiff DEF execVars, pubVars
<1> QED
  BY <1>1, <1>2, <1>3, StepDiff, DanglingDiff, RegisterDiff, PublishDiff, SubscribeDiff DEF Next

\* Every difference the publisher puts into the ring is exact: merged into
\* the tables the publisher had it gives the tables the loop pushed, for
\* covered states, transition coverage, categories and the times that are not
\* lost (stamped before the last message and throttled), however
\* many calls of the handlers were skipped, whatever the loop counted in
\* between and whoever subscribed meanwhile; and no difference is made before
\* the tables were received.
THEOREM UpdatesAreExact ==
  ASSUME MachinesAreClosed
  PROVE  Spec => []DifferencesAreExact
<1>1. Init => DiffInv
  BY DiffInit
<1>2. DiffInv /\ [Next]_vars => DiffInv'
  BY DiffStep
<1>3. DiffInv => DifferencesAreExact
  BY DiffInvImplies
<1> QED
  BY <1>1, <1>2, <1>3, PTL DEF Spec

-----------------------------------------------------------------------------
(* The ring.                                                               *)

\* How many messages the ring holds, and where the i-th of them is.
Held == (ringEnd - ringStart + ChannelSize) % ChannelSize
Place(i) == (ringStart + i - 1) % ChannelSize

RingInv ==
  /\ ringStart \in 0 .. ChannelSize - 1 /\ ringEnd \in 0 .. ChannelSize - 1
  /\ nextId \in Nat /\ ring = [i \in 0 .. ChannelSize - 1 |-> ring[i]]
  /\ \A i \in 1 .. Held : ring[Place(i)].id = nextId - Held + i - 1
  /\ nextId > 0 => Held > 0

FlagsInv == covering \in BOOLEAN /\ due \in BOOLEAN /\ dangling \in BOOLEAN

\* The modulus at the sizes that occur.
LEMMA Wraps ==
  ASSUME NEW n \in Nat \ {0}, NEW x \in 0 .. 2 * n - 1
  PROVE  x % n = IF x < n THEN x ELSE x - n
<1>1. CASE x < n
  <2>1. x \in 0 .. n - 1
    BY <1>1
  <2>2. ASSUME NEW y \in 0 .. n - 1 PROVE y % n = y
    OBVIOUS
  <2> QED
    BY <1>1, <2>1, <2>2
<1>2. CASE ~ (x < n)
  <2>1. x \in n .. 2 * n - 1
    BY <1>2
  <2>2. ASSUME NEW y \in n .. 2 * n - 1 PROVE y % n = y - n
    OBVIOUS
  <2> QED
    BY <1>2, <2>1, <2>2
<1> QED
  BY <1>1, <1>2

LEMMA HeldAt ==
  ASSUME NEW n \in Nat \ {0}, NEW s \in 0 .. n - 1, NEW e \in 0 .. n - 1
  PROVE  (e - s + n) % n = IF s <= e THEN e - s ELSE e - s + n
<1>1. PICK x : x = e - s + n
  OBVIOUS
<1>2. x \in 0 .. 2 * n - 1
  BY <1>1
<1>3. x % n = IF x < n THEN x ELSE x - n
  BY <1>2, Wraps
<1>4. x % n = IF s <= e THEN e - s ELSE e - s + n
  BY <1>1, <1>3
<1> QED
  BY <1>1, <1>4, Zenon

LEMMA PlaceAt ==
  ASSUME NEW n \in Nat \ {0}, NEW s \in 0 .. n - 1, NEW i \in 1 .. n
  PROVE  (s + i - 1) % n = IF s + i - 1 < n THEN s + i - 1 ELSE s + i - 1 - n
<1>1. PICK x : x = s + i - 1
  OBVIOUS
<1>2. x \in 0 .. 2 * n - 1
  BY <1>1
<1>3. x % n = IF x < n THEN x ELSE x - n
  BY <1>2, Wraps
<1>4. x % n = IF s + i - 1 < n THEN s + i - 1 ELSE s + i - 1 - n
  BY <1>1, <1>3
<1> QED
  BY <1>1, <1>4, Zenon

LEMMA HeldIs ==
  ASSUME RingHasRoom, ringStart \in 0 .. ChannelSize - 1, ringEnd \in 0 .. ChannelSize - 1
  PROVE  /\ Held = IF ringStart <= ringEnd THEN ringEnd - ringStart
                   ELSE ringEnd - ringStart + ChannelSize
         /\ Held \in 0 .. ChannelSize - 1
         /\ \A i \in 1 .. ChannelSize :
              Place(i) = IF ringStart + i - 1 < ChannelSize THEN ringStart + i - 1
                         ELSE ringStart + i - 1 - ChannelSize
<1>1. ChannelSize \in Nat \ {0}
  BY DEF RingHasRoom
<1>2. Held = IF ringStart <= ringEnd THEN ringEnd - ringStart
             ELSE ringEnd - ringStart + ChannelSize
  BY <1>1, HeldAt, Zenon DEF Held
<1>3. ASSUME NEW i \in 1 .. ChannelSize
      PROVE  Place(i) = IF ringStart + i - 1 < ChannelSize THEN ringStart + i - 1
                        ELSE ringStart + i - 1 - ChannelSize
  BY <1>1, PlaceAt, Zenon DEF Place
<1>4. Held \in 0 .. ChannelSize - 1
  BY <1>1, <1>2
<1> QED
  BY <1>2, <1>3, <1>4

LEMMA FollowingIs ==
  ASSUME RingHasRoom, NEW i \in 0 .. ChannelSize - 1
  PROVE  /\ Following(i) = IF i + 1 = ChannelSize THEN 0 ELSE i + 1
         /\ Following(i) \in 0 .. ChannelSize - 1
<1>1. ChannelSize \in Nat \ {0}
  BY DEF RingHasRoom
<1>2. PICK x : x = i + 1
  OBVIOUS
<1>3. x \in 0 .. 2 * ChannelSize - 1
  BY <1>1, <1>2
<1>4. x % ChannelSize = IF x < ChannelSize THEN x ELSE x - ChannelSize
  BY <1>1, <1>3, Wraps
<1>5. Following(i) = x % ChannelSize
  BY <1>2, Zenon DEF Following
<1>6. Following(i) = IF i + 1 = ChannelSize THEN 0 ELSE i + 1
  BY <1>1, <1>2, <1>4, <1>5
<1> QED
  BY <1>1, <1>6

\* An update is appended; a full ring gives up its oldest message.
LEMMA UpdateMoves ==
  ASSUME RingHasRoom, RingInv, Update
  PROVE  /\ Held \in 0 .. ChannelSize - 1
         /\ ringStart' \in 0 .. ChannelSize - 1 /\ ringEnd' \in 0 .. ChannelSize - 1
         /\ ring' = [i \in 0 .. ChannelSize - 1 |-> ring'[i]]
         /\ \E d \in {0, 1} :
              /\ Held' = Held + 1 - d /\ Held' > 0
              /\ \A i \in 1 .. Held - d : ring'[Place(i)'] = ring[Place(i + d)]
              /\ \A i \in 1 .. Held' : i > Held - d =>
                   ring'[Place(i)'] = UpdateMsg(nextId, pub, Head(q))
<1>1. PICK m : m = UpdateMsg(nextId, pub, Head(q))
  OBVIOUS
<1>2. /\ ring' = [ring EXCEPT ![ringEnd] = m]
      /\ ringEnd' = Following(ringEnd)
      /\ ringStart' = IF Following(ringEnd) = ringStart THEN Following(ringStart) ELSE ringStart
  BY <1>1 DEF Update
<1>3. /\ ChannelSize \in Nat /\ ChannelSize >= 2 /\ nextId \in Nat
      /\ ringStart \in 0 .. ChannelSize - 1 /\ ringEnd \in 0 .. ChannelSize - 1
  BY DEF RingHasRoom, RingInv
<1>4. /\ Following(ringEnd) = IF ringEnd + 1 = ChannelSize THEN 0 ELSE ringEnd + 1
      /\ Following(ringStart) = IF ringStart + 1 = ChannelSize THEN 0 ELSE ringStart + 1
  BY <1>3, FollowingIs
<1>5. ringStart' \in 0 .. ChannelSize - 1 /\ ringEnd' \in 0 .. ChannelSize - 1
  BY <1>2, <1>3, <1>4
<1>6. /\ ring' = [i \in 0 .. ChannelSize - 1 |-> ring'[i]] /\ ring'[ringEnd] = m
      /\ \A i \in 0 .. ChannelSize - 1 : i # ringEnd => ring'[i] = ring[i]
  BY <1>2, <1>3 DEF RingInv
<1>7. /\ Held = IF ringStart <= ringEnd THEN ringEnd - ringStart
                ELSE ringEnd - ringStart + ChannelSize
      /\ Held \in 0 .. ChannelSize - 1
      /\ \A i \in 1 .. ChannelSize :
           Place(i) = IF ringStart + i - 1 < ChannelSize THEN ringStart + i - 1
                      ELSE ringStart + i - 1 - ChannelSize
  BY <1>3, HeldIs
<1>8. /\ Held' = IF ringStart' <= ringEnd' THEN ringEnd' - ringStart'
                 ELSE ringEnd' - ringStart' + ChannelSize
      /\ \A i \in 1 .. ChannelSize :
           Place(i)' = IF ringStart' + i - 1 < ChannelSize THEN ringStart' + i - 1
                       ELSE ringStart' + i - 1 - ChannelSize
  <2>1. ChannelSize \in Nat \ {0}
    BY <1>3
  <2>2. Held' = IF ringStart' <= ringEnd' THEN ringEnd' - ringStart'
                ELSE ringEnd' - ringStart' + ChannelSize
    BY <1>5, <2>1, HeldAt, Zenon DEF Held
  <2>3. ASSUME NEW i \in 1 .. ChannelSize
        PROVE  Place(i)' = IF ringStart' + i - 1 < ChannelSize THEN ringStart' + i - 1
                           ELSE ringStart' + i - 1 - ChannelSize
    BY <1>5, <2>1, PlaceAt, Zenon DEF Place
  <2> QED
    BY <2>2, <2>3
<1>9. CASE Following(ringEnd) # ringStart
  <2>1. ringStart' = ringStart /\ Held' = Held + 1 - 0 /\ Held + 1 <= ChannelSize - 1
    BY <1>2, <1>3, <1>4, <1>7, <1>8, <1>9
  <2>2. \A i \in 1 .. ChannelSize : Place(i)' = Place(i)
    BY <1>7, <1>8, <2>1
  <2>3. ASSUME NEW i \in 1 .. Held - 0
        PROVE  ring'[Place(i)'] = ring[Place(i + 0)]
    <3>1. Place(i) # ringEnd /\ Place(i) \in 0 .. ChannelSize - 1 /\ Place(i)' = Place(i)
      BY <1>3, <1>7, <2>2
    <3>2. i + 0 = i
      OBVIOUS
    <3> QED
      BY <1>6, <3>1, <3>2
  <2>4. ASSUME NEW i \in 1 .. Held', i > Held - 0
        PROVE  ring'[Place(i)'] = m
    <3>1. Place(i)' = ringEnd
      BY <1>3, <1>7, <2>1, <2>2, <2>4
    <3> QED
      BY <1>6, <3>1
  <2>5. Held' > 0
    BY <1>7, <2>1
  <2> QED
    BY <1>1, <1>5, <1>6, <1>7, <2>1, <2>3, <2>4, <2>5
<1>10. CASE Following(ringEnd) = ringStart
  <2>1. ringStart' = Following(ringStart) /\ Held' = Held + 1 - 1 /\ Held = ChannelSize - 1
    BY <1>2, <1>3, <1>4, <1>7, <1>8, <1>10
  <2>2. \A i \in 1 .. ChannelSize - 1 : Place(i)' = Place(i + 1)
    BY <1>3, <1>4, <1>7, <1>8, <2>1
  <2>3. ASSUME NEW i \in 1 .. Held - 1
        PROVE  ring'[Place(i)'] = ring[Place(i + 1)]
    <3>1. Place(i + 1) # ringEnd /\ Place(i + 1) \in 0 .. ChannelSize - 1
      BY <1>3, <1>7, <2>1
    <3>2. Place(i)' = Place(i + 1)
      BY <2>1, <2>2
    <3> QED
      BY <1>6, <3>1, <3>2
  <2>4. ASSUME NEW i \in 1 .. Held', i > Held - 1
        PROVE  ring'[Place(i)'] = m
    <3>1. Place(i)' = Place(i + 1) /\ i = ChannelSize - 1
      BY <1>3, <2>1, <2>2, <2>4
    <3>2. Place(i + 1) = ringEnd
      BY <1>3, <1>7, <2>1, <3>1
    <3> QED
      BY <1>6, <3>1, <3>2
  <2>5. Held' > 0
    BY <1>3, <2>1
  <2> QED
    BY <1>1, <1>5, <1>6, <1>7, <2>1, <2>3, <2>4, <2>5
<1> QED
  BY <1>9, <1>10

LEMMA UpdateRing ==
  ASSUME RingHasRoom, RingInv, Update
  PROVE  RingInv'
<1>1. PICK d \in {0, 1} :
        /\ Held' = Held + 1 - d /\ Held' > 0
        /\ \A i \in 1 .. Held - d : ring'[Place(i)'] = ring[Place(i + d)]
        /\ \A i \in 1 .. Held' : i > Held - d =>
             ring'[Place(i)'] = UpdateMsg(nextId, pub, Head(q))
  BY UpdateMoves
<1>2. /\ Held \in Nat /\ nextId \in Nat /\ nextId' = nextId + 1
      /\ UpdateMsg(nextId, pub, Head(q)).id = nextId
      /\ \A i \in 1 .. Held : ring[Place(i)].id = nextId - Held + i - 1
  <2>1. Held \in 0 .. ChannelSize - 1 /\ ChannelSize \in Nat
    BY UpdateMoves DEF RingHasRoom
  <2>2. UpdateMsg(nextId, pub, Head(q)).id = nextId
    BY DEF UpdateMsg
  <2>3. nextId' = nextId + 1
    BY DEF Update
  <2>4. nextId \in Nat /\ \A i \in 1 .. Held : ring[Place(i)].id = nextId - Held + i - 1
    BY DEF RingInv
  <2> QED
    BY <2>1, <2>2, <2>3, <2>4
<1>3. ASSUME NEW i \in 1 .. Held'
      PROVE  ring'[Place(i)'].id = nextId' - Held' + i - 1
  <2>1. CASE i \in 1 .. Held - d
    <3>1. i + d \in 1 .. Held
      BY <1>2, <2>1
    <3>2. ring'[Place(i)'].id = nextId - Held + (i + d) - 1
      BY <1>1, <1>2, <2>1, <3>1
    <3> QED
      BY <1>1, <1>2, <3>2
  <2>2. CASE i = Held'
    <3>1. ring'[Place(i)'].id = nextId
      BY <1>1, <1>2, <2>2
    <3> QED
      BY <1>1, <1>2, <2>2, <3>1
  <2> QED
    BY <1>1, <1>2, <2>1, <2>2
<1>4. nextId' \in Nat
  BY <1>2
<1> QED
  BY <1>1, <1>3, <1>4, UpdateMoves DEF RingInv

\* An init message empties the ring and is alone in it.
LEMMA InitRing ==
  ASSUME RingHasRoom, RingInv, NEW p, CreateInitMsg(p)
  PROVE  RingInv' /\ Held' = 1 /\ ring'[Place(1)'] = InitMsg(nextId, p)
<1>1. /\ ring' = [ring EXCEPT ![0] = InitMsg(nextId, p)] /\ InitMsg(nextId, p).id = nextId
      /\ ringStart' = 0 /\ ringEnd' = 1 /\ nextId' = nextId + 1
  BY DEF CreateInitMsg, InitMsg
<1>2. ChannelSize \in Nat \ {0} /\ ChannelSize >= 2 /\ nextId \in Nat
  BY DEF RingHasRoom, RingInv
<1>3. /\ ring' = [i \in 0 .. ChannelSize - 1 |-> ring'[i]] /\ ring'[0].id = nextId
      /\ ring'[0] = InitMsg(nextId, p)
  <2>1. 0 \in 0 .. ChannelSize - 1
    BY <1>2
  <2>2. PICK m : m = InitMsg(nextId, p)
    OBVIOUS
  <2>3. ring' = [ring EXCEPT ![0] = m] /\ m.id = nextId
    BY <1>1, <2>2
  <2>4. ring = [i \in 0 .. ChannelSize - 1 |-> ring[i]]
    BY DEF RingInv
  <2> QED
    BY <2>1, <2>2, <2>3, <2>4
<1>4. Held' = 1
  <2>1. Held' = IF ringStart' <= ringEnd' THEN ringEnd' - ringStart'
                ELSE ringEnd' - ringStart' + ChannelSize
    <3>1. ringStart' \in 0 .. ChannelSize - 1 /\ ringEnd' \in 0 .. ChannelSize - 1
      BY <1>1, <1>2
    <3> QED
      BY <1>2, <3>1, HeldAt, Zenon DEF Held
  <2> QED
    BY <1>1, <2>1
<1>5. Place(1)' = 0
  <2>1. Place(1)' = (0 + 1 - 1) % ChannelSize
    BY <1>1, Zenon DEF Place
  <2>2. (0 + 1 - 1) % ChannelSize = IF 0 + 1 - 1 < ChannelSize THEN 0 + 1 - 1
                                    ELSE 0 + 1 - 1 - ChannelSize
    <3>1. 0 \in 0 .. ChannelSize - 1 /\ 1 \in 1 .. ChannelSize
      BY <1>2
    <3> QED
      BY <1>2, <3>1, PlaceAt, Zenon
  <2> QED
    BY <1>2, <2>1, <2>2
<1>6. \A i \in 1 .. 1 : i = 1
  OBVIOUS
<1>7. nextId' - Held' + 1 - 1 = nextId /\ nextId' \in Nat
  BY <1>1, <1>2, <1>4
<1>8. \A i \in 1 .. Held' : ring'[Place(i)'].id = nextId' - Held' + i - 1
  <2> TAKE i \in 1 .. Held'
  <2>1. i = 1
    BY <1>4
  <2> QED
    BY <1>3, <1>5, <1>7, <2>1
<1>9. RingInv'
  BY <1>1, <1>2, <1>3, <1>4, <1>7, <1>8 DEF RingInv
<1> QED
  BY <1>3, <1>4, <1>5, <1>9

LEMMA RingInit ==
  ASSUME RingHasRoom
  PROVE  Init => RingInv /\ FlagsInv
<1> SUFFICES ASSUME Init PROVE RingInv /\ FlagsInv
  OBVIOUS
<1>1. /\ ringStart = 0 /\ ringEnd = 0 /\ nextId = 0 /\ FlagsInv
      /\ ring = [i \in 0 .. ChannelSize - 1 |-> <<>>]
  BY DEF Init, FlagsInv
<1>2. ChannelSize \in Nat /\ ChannelSize >= 2
  BY DEF RingHasRoom
<1>3. Held = 0
  <2>1. ringStart \in 0 .. ChannelSize - 1 /\ ringEnd \in 0 .. ChannelSize - 1
    BY <1>1, <1>2
  <2>2. Held = IF ringStart <= ringEnd THEN ringEnd - ringStart
               ELSE ringEnd - ringStart + ChannelSize
    BY <2>1, HeldIs
  <2> QED
    BY <1>1, <2>2
<1>4. \A i \in 1 .. Held : FALSE
  BY <1>3
<1>5. ring = [i \in 0 .. ChannelSize - 1 |-> ring[i]]
  BY <1>1
<1> QED
  BY <1>1, <1>2, <1>4, <1>5 DEF RingInv

\* The publisher is the only one that changes the ring.
LEMMA RingStep ==
  ASSUME RingHasRoom
  PROVE  RingInv /\ FlagsInv /\ [Next]_vars => RingInv' /\ FlagsInv'
<1> SUFFICES ASSUME RingInv, FlagsInv, [Next]_vars PROVE RingInv' /\ FlagsInv'
  OBVIOUS
<1>1. UNCHANGED pubVars => RingInv'
  BY DEF RingInv, Held, Place, pubVars
<1>2. UNCHANGED execVars => FlagsInv'
  BY DEF FlagsInv, execVars
<1>3. ASSUME NEW s \in States, Step(s) PROVE RingInv' /\ FlagsInv'
  <2>1. UNCHANGED pubVars /\ covering' = covering
    BY <1>3 DEF Step
  <2>2. due' \in BOOLEAN /\ dangling' \in BOOLEAN
    <3>1. PICK active, cs, ct, tm, fresh :
            \/ RunHandlers(active, cs, ct, tm, fresh)
            \/ NothingPushed(fresh) /\ UNCHANGED dangling
      BY <1>3 DEF Step
    <3> QED
      BY <3>1 DEF RunHandlers, Pushed, NothingPushed, FlagsInv
  <2> QED
    BY <1>1, <2>1, <2>2 DEF FlagsInv
<1>4. CASE Dangling
  BY <1>1, <1>4 DEF Dangling, RunHandlers, Pushed, NothingPushed, FlagsInv
<1>5. CASE Tick \/ Idle
  BY <1>1, <1>5 DEF Tick, Idle, FlagsInv
<1>6. CASE Register
  BY <1>1, <1>6 DEF Register, FlagsInv
<1>7. CASE NewChannel
  <2>1. CreateInitMsg(pub) \/ UNCHANGED pubVars
    BY <1>7 DEF NewChannel
  <2>2. RingInv'
    BY <1>1, <2>1, InitRing
  <2> QED
    BY <1>2, <1>7, <2>2 DEF NewChannel
<1>8. CASE InitTables
  <2>1. RingInv'
    BY <1>8, InitRing DEF InitTables
  <2> QED
    BY <1>2, <1>8, <2>1 DEF InitTables
<1>9. CASE Update
  <2>1. RingInv'
    BY <1>9, UpdateRing
  <2> QED
    BY <1>2, <1>9, <2>1 DEF Update
<1>10. ASSUME NEW c \in Clients, Subscribe(c) PROVE RingInv' /\ FlagsInv'
  BY <1>1, <1>10 DEF Subscribe, FlagsInv
<1>11. ASSUME NEW c \in Clients, WriteIntro(c) \/ ReadRing(c) \/ SendMsg(c) \/ WriterEnds(c)
       PROVE  RingInv' /\ FlagsInv'
  <2>1. UNCHANGED pubVars /\ UNCHANGED execVars
    BY <1>11 DEF WriteIntro, ReadRing, SendMsg, WriterEnds
  <2> QED
    BY <1>1, <1>2, <2>1
<1>12. CASE UNCHANGED vars
  BY <1>1, <1>2, <1>12 DEF vars
<1> QED
  BY <1>3, <1>4, <1>5, <1>6, <1>7, <1>8, <1>9, <1>10, <1>11, <1>12 DEF Next, Publish

LEMMA RingInvImplies ==
  ASSUME RingHasRoom, RingInv
  PROVE  /\ \A i \in DOMAIN Slots : Slots[i].id = nextId - Len(Slots) + i - 1
         /\ nextId > 0 => Slots # <<>>
<1>1. Held \in 0 .. ChannelSize - 1 /\ ChannelSize \in Nat
  BY HeldIs DEF RingInv, RingHasRoom
<1>2. Slots = [i \in 1 .. Held |-> ring[Place(i)]]
  BY DEF Slots, Held, Place
<1>3. PICK h : h = Held
  OBVIOUS
<1>4. h \in Nat /\ Slots = [i \in 1 .. h |-> ring[Place(i)]]
  BY <1>1, <1>2, <1>3
<1>5. DOMAIN Slots = 1 .. h /\ Len(Slots) = h /\ \A i \in 1 .. h : Slots[i] = ring[Place(i)]
  BY <1>4
<1>6. h > 0 => Slots # <<>>
  BY <1>4, <1>5
<1> QED
  BY <1>3, <1>5, <1>6 DEF RingInv

\* In every behaviour the ring the writer threads copy under the channel
\* mutex holds the newest messages with consecutive numbers and, from the
\* first message on, never nothing: the publisher overwrites the oldest
\* message of a full ring, and an init message empties it, without ever
\* leaving a stale slot between ch_out_start and ch_out_end.  The tables the
\* main loop counts in keep their types.
THEOREM RingIsConsecutive ==
  ASSUME MachinesAreClosed, RingHasRoom
  PROVE  Spec => []TypeOK
<1>1. Init => DiffInv /\ RingInv /\ FlagsInv
  BY DiffInit, RingInit
<1>2. DiffInv /\ RingInv /\ FlagsInv /\ [Next]_vars => (DiffInv /\ RingInv /\ FlagsInv)'
  BY DiffStep, RingStep
<1>3. DiffInv /\ RingInv /\ FlagsInv => TypeOK
  BY RingInvImplies DEF DiffInv, TablesTyped, RingInv, FlagsInv, TypeOK
<1> QED
  BY <1>1, <1>2, <1>3, PTL DEF Spec

-----------------------------------------------------------------------------
(* What the subscribers know.  T names the tables behind each message: a   *)
(* message with number k was published when the publisher had T[k].        *)

\* A client or a message knows what table p says, but for the lost times.
Knows(v, p) ==
  /\ v.covered = CoveredStates(p.covS) /\ v.cov = Sm2Cov(p.covT)
  /\ DOMAIN v.times = Stamps /\ \A x \in Stamps \ p.lost : v.times[x] = p.times[x]
  /\ v.cats = ActiveCategories(p.states)

\* Message m is the difference that leads from a to b.
Exact(m, a, b) ==
  /\ CoveredStates(a.covS) \cup m.covered = CoveredStates(b.covS)
  /\ Merged(m.cov, Sm2Cov(a.covT)) = Sm2Cov(b.covT)
  /\ \A x \in Stamps \ b.lost : /\ x \in DOMAIN Merged(m.times, Known(a))
                                /\ Merged(m.times, Known(a))[x] = b.times[x]
  /\ Merged(m.cats, ActiveCategories(a.states)) = ActiveCategories(b.states)

Same(a, b) ==
  /\ a.covS = b.covS /\ a.covT = b.covT /\ a.times = b.times /\ a.lost = b.lost
  /\ a.states = b.states

\* An init message says everything, and after the first it says nothing new.
MsgOK(m, T) ==
  /\ m.id \in Nat /\ m.init \in BOOLEAN
  /\ m.id = 0 => m.init
  /\ m.init => Knows(m, T[m.id]) /\ (m.id > 0 => Same(T[m.id - 1], T[m.id]))
  /\ ~ m.init => Exact(m, T[m.id - 1], T[m.id])
  /\ DOMAIN m.cov \subseteq TopLevelSms /\ DOMAIN m.times \subseteq Stamps
  /\ DOMAIN m.cats \subseteq TopLevelSms

\* Consecutive messages up to number top - 1, only the first an init message.
Queued(s, top, T) ==
  /\ \E S : s \in Seq(S)
  /\ \A i \in 1 .. Len(s) :
       s[i].id = top - Len(s) + i - 1 /\ MsgOK(s[i], T) /\ (s[i].init => i = 1)

Pending(w) == w.msgs # <<>> /\ w.msgs[1].init

\* A writer thread w and its client's view v: the messages the thread copied
\* are the ones after the client's last; a client that was never overtaken
\* knows the tables before the first of them, or gets an init message next.
Told(w, v, T) ==
  (w.st # "closed" /\ ~ v.gap /\ w.unseen > 0) =>
    /\ v.inits > 0 \/ Pending(w)
    /\ Pending(w) \/ Knows(v, T[w.unseen - Len(w.msgs) - 1])
Numbers(w, v) ==
  /\ v.lastId \in Int /\ v.lastId < w.unseen - Len(w.msgs) /\ v.ordered
  /\ v.inits \in {0, 1} /\ v.gap \in BOOLEAN /\ v.ordered \in BOOLEAN
  /\ Pending(w) => v.inits = 0
  /\ (v.inits > 0 \/ Pending(w)) => w.initRead
  /\ w.initRead => w.unseen > 0
Shape(w, v) ==
  /\ w = [st |-> w.st, unseen |-> w.unseen, initRead |-> w.initRead, msgs |-> w.msgs]
  /\ v = [inits |-> v.inits, lastId |-> v.lastId, gap |-> v.gap, ordered |-> v.ordered,
          covered |-> v.covered, cov |-> v.cov, times |-> v.times, cats |-> v.cats]
  /\ DOMAIN v.cov \subseteq TopLevelSms /\ DOMAIN v.times \subseteq Stamps
  /\ DOMAIN v.cats \subseteq TopLevelSms
ClientOK(w, v, T) ==
  /\ w.unseen \in Nat /\ w.initRead \in BOOLEAN /\ Queued(w.msgs, w.unseen, T)
  /\ w.msgs # <<>> => w.st = "send"
  /\ Numbers(w, v) /\ Told(w, v, T) /\ Shape(w, v)

ViewInv(T) ==
  /\ Queued(Slots, nextId, T)
  /\ nextId > 0 => Same(T[nextId - 1], pub)
  /\ \A c \in Clients : writer[c].unseen <= nextId /\ ClientOK(writer[c], view[c], T)

\* The init tables come once, and nothing is published before them; a
\* request for a channel is that of a subscriber without a writer thread.
OrderInv ==
  /\ pub.tablesCurrent <=> nextId > 0
  /\ handler # "registered" => ~ pub.tablesCurrent
  /\ \A i \in DOMAIN q : q[i].what = "INIT" => ~ pub.tablesCurrent
  /\ \A i, j \in DOMAIN q : (q[i].what = "INIT" /\ q[j].what = "INIT") => i = j
  /\ \A i \in DOMAIN q : q[i].what = "NEW_CHANNEL" =>
       q[i].client \in Clients /\ writer[q[i].client].st = "asked"
  /\ \A i, j \in DOMAIN q : (q[i].what = "NEW_CHANNEL" /\ q[j].what = "NEW_CHANNEL"
                               /\ q[i].client = q[j].client) => i = j
  /\ writer = [c \in Clients |-> writer[c]] /\ view = [c \in Clients |-> view[c]]

TopicInv == OrderInv /\ \E T \in [Nat -> Pub] : ViewInv(T)

-----------------------------------------------------------------------------
(* One client.                                                             *)

\* A client that applies an init message knows what it says.
LEMMA InitApplied ==
  ASSUME NEW v, NEW m, NEW p, Knows(m, p), m.init = TRUE,
         DOMAIN v.cov \subseteq TopLevelSms, DOMAIN v.times \subseteq Stamps,
         DOMAIN v.cats \subseteq TopLevelSms
  PROVE  Knows(Applied(v, m), p)
<1>1. /\ Applied(v, m).covered = m.covered /\ Applied(v, m).cov = Merged(m.cov, v.cov)
      /\ Applied(v, m).times = Merged(m.times, v.times)
      /\ Applied(v, m).cats = Merged(m.cats, v.cats)
  BY DEF Applied
<1>2. ASSUME NEW f, NEW g, NEW D, f = [x \in D |-> f[x]], DOMAIN g \subseteq D
      PROVE  Merged(f, g) = f
  <2>1. DOMAIN f = D /\ (DOMAIN f) \cup (DOMAIN g) = D
    BY <1>2
  <2>2. Merged(f, g) = [x \in D |-> IF x \in D THEN f[x] ELSE g[x]]
    BY <2>1 DEF Merged
  <2> QED
    BY <1>2, <2>2
<1>3. /\ Sm2Cov(p.covT) = [r \in TopLevelSms |-> Sm2Cov(p.covT)[r]]
      /\ ActiveCategories(p.states) = [r \in TopLevelSms |-> ActiveCategories(p.states)[r]]
  BY DEF Sm2Cov, ActiveCategories
<1>4. Merged(m.cov, v.cov) = m.cov
  BY <1>2, <1>3 DEF Knows
<1>5. /\ DOMAIN Merged(m.times, v.times) = Stamps
      /\ \A x \in Stamps : Merged(m.times, v.times)[x] = m.times[x]
  BY DEF Knows, Merged
<1>6. Merged(m.cats, v.cats) = m.cats
  BY <1>2, <1>3 DEF Knows
<1> QED
  BY <1>1, <1>4, <1>5, <1>6 DEF Knows

LEMMA UpdateApplied ==
  ASSUME NEW v, NEW m, NEW a, NEW b, Knows(v, a), Exact(m, a, b), m.init = FALSE,
         DOMAIN m.times \subseteq Stamps
  PROVE  Knows(Applied(v, m), b)
<1>1. /\ Applied(v, m).covered = v.covered \cup m.covered
      /\ Applied(v, m).cov = Merged(m.cov, v.cov)
      /\ Applied(v, m).times = Merged(m.times, v.times)
      /\ Applied(v, m).cats = Merged(m.cats, v.cats)
  BY DEF Applied
<1>2. DOMAIN Merged(m.times, v.times) = Stamps
  BY DEF Knows, Merged
<1>3. ASSUME NEW x \in Stamps \ b.lost
      PROVE  Merged(m.times, v.times)[x] = b.times[x]
  <2>1. /\ x \in DOMAIN Merged(m.times, Known(a)) /\ Merged(m.times, Known(a))[x] = b.times[x]
    BY DEF Exact
  <2>2. /\ DOMAIN Known(a) = Stamps \ a.lost
        /\ \A y \in Stamps \ a.lost : Known(a)[y] = a.times[y]
    BY DEF Known, Restrict
  <2>3. CASE x \in DOMAIN m.times
    BY <2>1, <2>3 DEF Merged
  <2>4. CASE x \notin DOMAIN m.times
    <3>1. x \in Stamps \ a.lost /\ a.times[x] = b.times[x]
      BY <2>1, <2>2, <2>4 DEF Merged
    <3> QED
      BY <2>4, <3>1 DEF Merged, Knows
  <2> QED
    BY <2>3, <2>4
<1>4. /\ v.covered \cup m.covered = CoveredStates(b.covS)
      /\ Merged(m.cov, v.cov) = Sm2Cov(b.covT)
      /\ Merged(m.cats, v.cats) = ActiveCategories(b.states)
  BY DEF Knows, Exact
<1> QED
  BY <1>1, <1>2, <1>3, <1>4 DEF Knows

LEMMA QueuedBy ==
  ASSUME NEW s, NEW top, NEW T, NEW S, s \in Seq(S),
         \A i \in 1 .. Len(s) :
           s[i].id = top - Len(s) + i - 1 /\ MsgOK(s[i], T) /\ (s[i].init => i = 1)
  PROVE  Queued(s, top, T)
BY DEF Queued

\* The tail of a queue of messages.
LEMMA QueuedTail ==
  ASSUME NEW s, NEW top \in Nat, NEW T, Queued(s, top, T), s # <<>>
  PROVE  /\ Queued(Tail(s), top, T) /\ Len(s) \in Nat \ {0} /\ Len(Tail(s)) = Len(s) - 1
         /\ Head(s) = s[1] /\ s[1].id = top - Len(s) /\ MsgOK(s[1], T)
         /\ \A i \in 1 .. Len(Tail(s)) : ~ Tail(s)[i].init
<1>1. PICK S : s \in Seq(S)
  BY DEF Queued
<1>2. /\ Len(s) \in Nat \ {0} /\ Len(Tail(s)) = Len(s) - 1 /\ Head(s) = s[1]
      /\ Tail(s) \in Seq(S) /\ \A i \in 1 .. Len(s) - 1 : Tail(s)[i] = s[i + 1]
  BY <1>1
<1>3. s[1].id = top - Len(s) + 1 - 1 /\ MsgOK(s[1], T)
  BY <1>2 DEF Queued
<1>4. ASSUME NEW i \in 1 .. Len(Tail(s))
      PROVE  /\ Tail(s)[i].id = top - Len(Tail(s)) + i - 1 /\ MsgOK(Tail(s)[i], T)
             /\ ~ Tail(s)[i].init
  <2>1. i + 1 \in 1 .. Len(s) /\ i + 1 # 1 /\ Tail(s)[i] = s[i + 1]
    BY <1>2
  <2>2. s[i + 1].id = top - Len(s) + (i + 1) - 1 /\ MsgOK(s[i + 1], T) /\ ~ s[i + 1].init
    BY <2>1 DEF Queued
  <2> QED
    BY <1>2, <2>1, <2>2
<1>5. Queued(Tail(s), top, T)
  BY <1>2, <1>4 DEF Queued
<1> QED
  BY <1>2, <1>3, <1>4, <1>5

\* The writer thread sends the first of its messages and the client applies
\* it.
LEMMA MsgSent ==
  ASSUME NEW T \in [Nat -> Pub], NEW w, NEW v, ClientOK(w, v, T), w.st = "send",
         w.msgs # <<>>, NEW x, NEW y, y = Applied(v, Head(w.msgs)),
         x = [w EXCEPT !.st = IF Tail(w.msgs) = <<>> THEN "wait" ELSE "send",
                       !.msgs = Tail(w.msgs)]
  PROVE  ClientOK(x, y, T) /\ x.unseen = w.unseen
<1>1. PICK m, s : m = Head(w.msgs) /\ s = Tail(w.msgs)
  OBVIOUS
<1>2. /\ w.unseen \in Nat /\ w.initRead \in BOOLEAN /\ Queued(w.msgs, w.unseen, T)
      /\ Numbers(w, v) /\ Told(w, v, T) /\ Shape(w, v)
  BY DEF ClientOK
<1>3. /\ Queued(s, w.unseen, T) /\ Len(w.msgs) \in Nat \ {0} /\ Len(s) = Len(w.msgs) - 1
      /\ m = w.msgs[1] /\ m.id = w.unseen - Len(w.msgs) /\ MsgOK(m, T)
      /\ \A i \in 1 .. Len(s) : ~ s[i].init
  BY <1>1, <1>2, QueuedTail
<1>4. /\ x.st = (IF s = <<>> THEN "wait" ELSE "send") /\ x.msgs = s /\ x.unseen = w.unseen
      /\ x.initRead = w.initRead
      /\ x = [st |-> x.st, unseen |-> x.unseen, initRead |-> x.initRead, msgs |-> x.msgs]
  BY <1>1, <1>2 DEF Shape
<1>5. /\ y.inits = v.inits + (IF m.init THEN 1 ELSE 0) /\ y.lastId = m.id /\ y.gap = v.gap
      /\ y.ordered = (v.ordered /\ m.id > v.lastId /\ (m.init \/ v.inits > 0 \/ v.gap))
      /\ y.cov = Merged(m.cov, v.cov) /\ y.times = Merged(m.times, v.times)
      /\ y.cats = Merged(m.cats, v.cats)
      /\ y = [inits |-> y.inits, lastId |-> y.lastId, gap |-> y.gap, ordered |-> y.ordered,
              covered |-> y.covered, cov |-> y.cov, times |-> y.times, cats |-> y.cats]
  BY <1>1 DEF Applied
<1>6. m.id \in Nat /\ m.init \in BOOLEAN /\ (m.id = 0 => m.init)
  BY <1>3 DEF MsgOK
<1>7. Pending(w) <=> m.init
  BY <1>3, <1>6 DEF Pending
<1>8. ~ Pending(x)
  <2>1. CASE s = <<>>
    BY <1>4, <2>1 DEF Pending
  <2>2. CASE s # <<>>
    <3>1. 1 \in 1 .. Len(s)
      BY <1>2, <1>3, <2>2, QueuedTail
    <3> QED
      BY <1>3, <1>4, <3>1 DEF Pending
  <2> QED
    BY <2>1, <2>2
<1>9. w.unseen > 0
  BY <1>2, <1>3, <1>6
<1>10. ~ v.gap => v.inits > 0 \/ m.init
  BY <1>2, <1>7, <1>9 DEF Told
<1>11. Numbers(x, y)
  <2>1. v.inits \in {0, 1} /\ (m.init => v.inits = 0) /\ v.gap \in BOOLEAN /\ v.ordered \in BOOLEAN
    BY <1>2, <1>7 DEF Numbers
  <2>2. y.inits \in {0, 1} /\ (y.inits > 0 <=> (v.inits > 0 \/ m.init))
    BY <1>5, <1>6, <2>1
  <2>3. v.ordered /\ v.lastId < w.unseen - Len(w.msgs) /\ v.lastId \in Int
    BY <1>2 DEF Numbers
  <2>4. m.id > v.lastId
    BY <1>2, <1>3, <1>6, <2>3
  <2>5. y.ordered = TRUE
    BY <1>5, <1>6, <1>10, <2>1, <2>3, <2>4
  <2>6. y.lastId \in Int /\ y.lastId < x.unseen - Len(x.msgs)
    BY <1>2, <1>3, <1>4, <1>5, <1>6
  <2>7. (v.inits > 0 \/ m.init) => w.initRead
    BY <1>2, <1>7 DEF Numbers
  <2>8. w.initRead => w.unseen > 0
    BY <1>9
  <2> QED
    BY <1>4, <1>5, <1>8, <2>1, <2>2, <2>5, <2>6, <2>7, <2>8 DEF Numbers
<1>12. ASSUME ~ v.gap PROVE Knows(y, T[m.id])
  <2>1. CASE m.init
    <3>1. Knows(m, T[m.id]) /\ m.init = TRUE
      BY <1>3, <1>6, <2>1 DEF MsgOK
    <3>2. /\ DOMAIN v.cov \subseteq TopLevelSms /\ DOMAIN v.times \subseteq Stamps
          /\ DOMAIN v.cats \subseteq TopLevelSms
      BY <1>2 DEF Shape
    <3> QED
      BY <1>1, <3>1, <3>2, InitApplied
  <2>2. CASE ~ m.init
    <3>1. Exact(m, T[m.id - 1], T[m.id]) /\ m.init = FALSE
      BY <1>3, <1>6, <2>2 DEF MsgOK
    <3>2. Knows(v, T[w.unseen - Len(w.msgs) - 1])
      BY <1>2, <1>7, <1>9, <1>12, <2>2 DEF Told
    <3>3. Knows(v, T[m.id - 1])
      BY <1>3, <3>2
    <3>4. DOMAIN m.times \subseteq Stamps
      BY <1>3 DEF MsgOK
    <3> QED
      BY <1>1, <3>1, <3>3, <3>4, UpdateApplied
  <2> QED
    BY <2>1, <2>2
<1>13. Told(x, y, T)
  <2>1. x.unseen - Len(x.msgs) - 1 = m.id
    BY <1>2, <1>3, <1>4
  <2>2. v.inits \in {0, 1}
    BY <1>2 DEF Numbers
  <2>3. ~ v.gap => y.inits > 0
    BY <1>5, <1>10, <2>2
  <2> QED
    BY <1>5, <1>12, <2>1, <2>3 DEF Told
<1>14. Shape(x, y)
  <2>1. /\ DOMAIN v.cov \subseteq TopLevelSms /\ DOMAIN v.times \subseteq Stamps
        /\ DOMAIN v.cats \subseteq TopLevelSms
    BY <1>2 DEF Shape
  <2>2. /\ DOMAIN m.cov \subseteq TopLevelSms /\ DOMAIN m.times \subseteq Stamps
        /\ DOMAIN m.cats \subseteq TopLevelSms
    BY <1>3 DEF MsgOK
  <2>3. \A f, g : DOMAIN Merged(f, g) = (DOMAIN f) \cup (DOMAIN g)
    BY DEF Merged
  <2>4. /\ DOMAIN y.cov \subseteq TopLevelSms /\ DOMAIN y.times \subseteq Stamps
        /\ DOMAIN y.cats \subseteq TopLevelSms
    <3>1. /\ y.cov = Merged(m.cov, v.cov) /\ y.times = Merged(m.times, v.times)
          /\ y.cats = Merged(m.cats, v.cats)
      BY <1>5
    <3>2. /\ DOMAIN y.cov = (DOMAIN m.cov) \cup (DOMAIN v.cov)
          /\ DOMAIN y.times = (DOMAIN m.times) \cup (DOMAIN v.times)
          /\ DOMAIN y.cats = (DOMAIN m.cats) \cup (DOMAIN v.cats)
      BY <2>3, <3>1
    <3> QED
      BY <2>1, <2>2, <3>2
  <2> QED
    BY <1>4, <1>5, <2>4 DEF Shape
<1>15. x.msgs # <<>> => x.st = "send"
  BY <1>4
<1> QED
  BY <1>2, <1>3, <1>4, <1>11, <1>13, <1>14, <1>15 DEF ClientOK

LEMMA FirstIsInit ==
  ASSUME NEW U, NEW top \in Nat, NEW T, Queued(U, top, T), U # <<>>
  PROVE  (\E m \in ToSet(U) : m.init) <=> U[1].init
<1>1. PICK S : U \in Seq(S)
  BY DEF Queued
<1>2. DOMAIN U = 1 .. Len(U) /\ 1 \in 1 .. Len(U)
  BY <1>1
<1>3. \A i \in 1 .. Len(U) : U[i].init => i = 1
  BY DEF Queued
<1> QED
  BY <1>2, <1>3 DEF ToSet

\* The writer thread and its client once the thread has read messages U.
Reading(w, U, top) ==
  [st |-> "send", unseen |-> top,
   msgs |-> IF w.initRead /\ U[1].init THEN Tail(U) ELSE U,
   initRead |-> (w.initRead \/ U[1].init)]
Overtaken(v, w, U, missed) ==
  [v EXCEPT !.gap = (v.gap \/ (missed /\ ~ (~ w.initRead /\ U[1].init)))]

\* The writer thread copies the messages U after the last one it has seen,
\* or after those that left the ring before.
LEMMA MsgsRead ==
  ASSUME NEW T \in [Nat -> Pub], NEW w, NEW v, ClientOK(w, v, T), w.st = "wait",
         NEW top \in Nat, w.unseen < top, NEW U, Queued(U, top, T), U # <<>>,
         w.unseen <= top - Len(U), NEW missed \in BOOLEAN, missed <=> w.unseen < top - Len(U)
  PROVE  ClientOK(Reading(w, U, top), Overtaken(v, w, U, missed), T)
<1> DEFINE x == Reading(w, U, top)
           y == Overtaken(v, w, U, missed)
<1>0. /\ x = [st |-> "send", unseen |-> top,
              msgs |-> IF w.initRead /\ U[1].init THEN Tail(U) ELSE U,
              initRead |-> (w.initRead \/ U[1].init)]
      /\ y = [v EXCEPT !.gap = (v.gap \/ (missed /\ ~ (~ w.initRead /\ U[1].init)))]
  BY DEF Reading, Overtaken
<1> HIDE DEF x, y
<1>1. /\ w.unseen \in Nat /\ w.initRead \in BOOLEAN /\ w.msgs = <<>>
      /\ Numbers(w, v) /\ Told(w, v, T) /\ Shape(w, v)
  BY DEF ClientOK
<1>2. /\ Queued(Tail(U), top, T) /\ Len(U) \in Nat \ {0} /\ Len(Tail(U)) = Len(U) - 1
      /\ U[1].id = top - Len(U) /\ MsgOK(U[1], T)
      /\ \A i \in 1 .. Len(Tail(U)) : ~ Tail(U)[i].init
  BY QueuedTail
<1>3. U[1].id \in Nat /\ U[1].init \in BOOLEAN /\ (U[1].id = 0 => U[1].init)
  BY <1>2 DEF MsgOK
<1>4. ~ Pending(w) /\ Len(w.msgs) = 0
  BY <1>1 DEF Pending
<1>5. /\ x.st = "send" /\ x.unseen = top /\ x.initRead = (w.initRead \/ U[1].init)
      /\ x.initRead \in BOOLEAN
      /\ x = [st |-> x.st, unseen |-> x.unseen, initRead |-> x.initRead, msgs |-> x.msgs]
  BY <1>0, <1>1, <1>3
<1>6. x.msgs = IF w.initRead /\ U[1].init THEN Tail(U) ELSE U
  BY <1>0
<1>7. /\ y.inits = v.inits /\ y.lastId = v.lastId /\ y.ordered = v.ordered
      /\ y.covered = v.covered /\ y.cov = v.cov /\ y.times = v.times /\ y.cats = v.cats
      /\ y = [inits |-> y.inits, lastId |-> y.lastId, gap |-> y.gap, ordered |-> y.ordered,
              covered |-> y.covered, cov |-> y.cov, times |-> y.times, cats |-> y.cats]
      /\ y.gap = (v.gap \/ (missed /\ ~ (~ w.initRead /\ U[1].init)))
  BY <1>0, <1>1 DEF Shape
<1>8. v.gap \in BOOLEAN /\ y.gap \in BOOLEAN
  BY <1>1, <1>7 DEF Numbers
<1>9. Shape(x, y)
  BY <1>1, <1>5, <1>7 DEF Shape
<1>10. Queued(x.msgs, top, T)
  BY <1>2, <1>6
<1>11. Pending(x) <=> (~ w.initRead /\ U[1].init)
  <2>1. CASE w.initRead /\ U[1].init
    <3>1. CASE Tail(U) = <<>>
      BY <1>6, <2>1, <3>1 DEF Pending
    <3>2. CASE Tail(U) # <<>>
      <4>1. 1 \in 1 .. Len(Tail(U))
        BY <1>2, <3>2, QueuedTail
      <4> QED
        BY <1>2, <1>6, <2>1, <4>1 DEF Pending
    <3> QED
      BY <3>1, <3>2
  <2>2. CASE ~ (w.initRead /\ U[1].init)
    BY <1>6, <2>2 DEF Pending
  <2> QED
    BY <2>1, <2>2
<1>12. Len(x.msgs) \in Nat /\ top - Len(x.msgs) >= top - Len(U)
  BY <1>2, <1>6
<1>13. Numbers(x, y)
  <2>1. /\ v.lastId \in Int /\ v.lastId < w.unseen - Len(w.msgs) /\ v.ordered /\ v.inits \in {0, 1}
        /\ v.ordered \in BOOLEAN
        /\ (v.inits > 0 => w.initRead)
    BY <1>1 DEF Numbers
  <2>2. v.lastId < top - Len(x.msgs)
    BY <1>1, <1>2, <1>4, <1>12, <2>1
  <2>3. Pending(x) => v.inits = 0
    BY <1>11, <2>1
  <2>4. top > 0
    BY <1>1
  <2> QED
    BY <1>5, <1>7, <1>8, <1>11, <2>1, <2>2, <2>3, <2>4 DEF Numbers
<1>14. ASSUME ~ y.gap, ~ Pending(x)
       PROVE  v.inits > 0 /\ Knows(v, T[top - Len(x.msgs) - 1])
  <2>1. ~ v.gap /\ ~ missed /\ w.unseen = top - Len(U)
    BY <1>1, <1>2, <1>7, <1>8, <1>11, <1>14
  <2>2. w.unseen > 0
    <3>1. w.initRead => w.unseen > 0
      BY <1>1 DEF Numbers
    <3>2. w.unseen = 0 => U[1].init
      BY <1>2, <1>3, <2>1
    <3> QED
      BY <1>1, <1>11, <1>14, <3>1, <3>2
  <2>3. v.inits > 0 /\ Knows(v, T[w.unseen - 0 - 1])
    BY <1>1, <1>4, <2>1, <2>2 DEF Told
  <2>4. CASE w.initRead /\ U[1].init
    <3>1. top - Len(x.msgs) - 1 = w.unseen /\ U[1].id = w.unseen /\ w.unseen - 0 - 1 = w.unseen - 1
      BY <1>1, <1>2, <1>6, <2>1, <2>4
    <3>2. Same(T[w.unseen - 1], T[w.unseen])
      BY <1>2, <2>2, <2>4, <3>1 DEF MsgOK
    <3>3. Knows(v, T[w.unseen])
      BY <2>3, <3>1, <3>2 DEF Knows, Same
    <3> QED
      BY <2>3, <3>1, <3>3
  <2>5. CASE ~ (w.initRead /\ U[1].init)
    <3>1. top - Len(x.msgs) - 1 = w.unseen - 0 - 1
      BY <1>1, <1>2, <1>6, <2>1, <2>5
    <3> QED
      BY <2>3, <3>1
  <2> QED
    BY <2>4, <2>5
<1>15. Told(x, y, T)
  <2>1. ASSUME NEW p PROVE Knows(v, p) => Knows(y, p)
    BY <1>7 DEF Knows
  <2> QED
    BY <1>5, <1>7, <1>14, <2>1 DEF Told
<1>16. ClientOK(x, y, T)
  BY <1>5, <1>9, <1>10, <1>13, <1>15 DEF ClientOK
<1> QED
  BY <1>16 DEF x, y

\* The messages before number u are the first ones of the queue.
LEMMA SkipIs ==
  ASSUME NEW s, NEW top \in Nat, NEW T, Queued(s, top, T), s # <<>>, NEW u \in Nat, u < top
  PROVE  \E j \in 0 .. Len(s) : \A i \in DOMAIN s : i <= j <=> s[i].id < u
<1>1. PICK S : s \in Seq(S)
  BY DEF Queued
<1>2. PICK n \in Nat \ {0} : n = Len(s) /\ DOMAIN s = 1 .. n
  BY <1>1
<1>3. /\ \A i \in 1 .. n : s[i].id = top - n + i - 1 /\ MsgOK(s[i], T) /\ (s[i].init => i = 1)
      /\ \A i \in 1 .. n : s[i] \in S
  BY <1>1, <1>2 DEF Queued
<1>4. \E j \in 0 .. n : \A i \in 1 .. n : i <= j <=> s[i].id < u
  <2>1. CASE u <= top - n
    <3>1. 0 \in 0 .. n /\ \A i \in 1 .. n : i <= 0 <=> top - n + i - 1 < u
      BY <2>1
    <3> QED
      BY <1>3, <3>1
  <2>2. CASE u > top - n
    <3>1. PICK j : j = u - (top - n)
      OBVIOUS
    <3>2. j \in 0 .. n /\ \A i \in 1 .. n : i <= j <=> top - n + i - 1 < u
      BY <2>2, <3>1
    <3> QED
      BY <1>3, <3>2
  <2> QED
    BY <2>1, <2>2
<1> QED
  BY <1>2, <1>4

\* The ones from number u on are its last ones.
LEMMA SuffixQueued ==
  ASSUME NEW s, NEW top \in Nat, NEW T, Queued(s, top, T), s # <<>>, NEW u \in Nat, u < top,
         NEW k \in 0 .. Len(s), \A i \in DOMAIN s : i <= k <=> s[i].id < u
  PROVE  /\ Queued(SubSeq(s, k + 1, Len(s)), top, T) /\ SubSeq(s, k + 1, Len(s)) # <<>>
         /\ u <= top - Len(SubSeq(s, k + 1, Len(s)))
<1>1. PICK S : s \in Seq(S)
  BY DEF Queued
<1>2. PICK n \in Nat \ {0} : n = Len(s) /\ DOMAIN s = 1 .. n
  BY <1>1
<1>3. /\ \A i \in 1 .. n : s[i].id = top - n + i - 1 /\ MsgOK(s[i], T) /\ (s[i].init => i = 1)
      /\ \A i \in 1 .. n : s[i] \in S
  BY <1>1, <1>2 DEF Queued
<1>5. k \in 0 .. n /\ \A i \in 1 .. n : i <= k <=> s[i].id < u
  BY <1>2
<1>6. k < n
  <2>1. s[n].id = top - 1
    BY <1>3
  <2> QED
    BY <1>5, <2>1
<1>7. u <= top - (n - k)
  <2>1. k + 1 \in 1 .. n /\ ~ (k + 1 <= k)
    BY <1>5, <1>6
  <2>2. ~ (s[k + 1].id < u) /\ s[k + 1].id = top - n + (k + 1) - 1
    BY <1>3, <1>5, <2>1
  <2> QED
    BY <1>5, <2>2
<1>8. PICK h \in Nat \ {0}, f \in Int : h = n - k /\ f = k + 1
  <2>1. n - k \in Nat \ {0} /\ k + 1 \in Int
    BY <1>5, <1>6
  <2> QED
    BY <2>1
<1> DEFINE U == SubSeq(s, k + 1, Len(s))
<1>9. U \in Seq(S) /\ Len(U) = h /\ \A i \in 1 .. h : U[i] = s[i + k]
  <2>1. U = SubSeq(s, f, n)
    BY <1>2, <1>8
  <2>2. \A i \in f .. n : s[i] \in S
    BY <1>3, <1>5, <1>8
  <2>3. /\ SubSeq(s, f, n) \in Seq(S) /\ Len(SubSeq(s, f, n)) = IF f <= n THEN n - f + 1 ELSE 0
        /\ \A i \in 1 .. n - f + 1 : SubSeq(s, f, n)[i] = s[f + i - 1]
    BY <2>2, SubSeqProperties
  <2>4. f <= n /\ n - f + 1 = h /\ \A i \in 1 .. h : f + i - 1 = i + k
    BY <1>5, <1>6, <1>8
  <2> HIDE DEF U
  <2> QED
    BY <2>1, <2>3, <2>4
<1> HIDE DEF U
<1>10. ASSUME NEW i \in 1 .. h
       PROVE  U[i].id = top - h + i - 1 /\ MsgOK(U[i], T) /\ (U[i].init => i = 1)
  <2>1. U[i] = s[i + k] /\ i + k \in 1 .. n
    BY <1>5, <1>8, <1>9
  <2>2. s[i + k].id = top - n + (i + k) - 1 /\ MsgOK(s[i + k], T) /\ (s[i + k].init => i + k = 1)
    BY <1>3, <2>1
  <2>3. top - n + (i + k) - 1 = top - h + i - 1 /\ (i + k = 1 => i = 1)
    BY <1>5, <1>8
  <2> QED
    BY <2>1, <2>2, <2>3
<1>11. Queued(U, top, T)
  BY <1>9, <1>10 DEF Queued
<1>12. U # <<>>
  BY <1>9
<1> QED
  BY <1>7, <1>8, <1>9, <1>11, <1>12 DEF U

\* The next number to read, and whether one was missed.
LEMMA ReadTo ==
  ASSUME NEW s, NEW top \in Nat, NEW T, Queued(s, top, T), s # <<>>, NEW u \in Nat,
         u <= top - Len(s)
  PROVE  /\ Max({u} \cup {m.id + 1 : m \in ToSet(s)}) = top
         /\ (\E id \in u .. top - 1 : \A m \in ToSet(s) : m.id # id) <=> u < top - Len(s)
<1>1. PICK S : s \in Seq(S)
  BY DEF Queued
<1>2. PICK n \in Nat \ {0} : n = Len(s) /\ DOMAIN s = 1 .. n
  BY <1>1
<1>3. \A i \in 1 .. n : s[i].id = top - n + i - 1
  BY <1>2 DEF Queued
<1>4. ToSet(s) = {s[i] : i \in 1 .. n}
  BY <1>2 DEF ToSet
<1>5. \A m \in ToSet(s) : m.id \in top - n .. top - 1
  BY <1>3, <1>4
<1>6. \A id \in top - n .. top - 1 : \E m \in ToSet(s) : m.id = id
  <2> SUFFICES ASSUME NEW id \in top - n .. top - 1 PROVE \E m \in ToSet(s) : m.id = id
    OBVIOUS
  <2>1. PICK i \in 1 .. n : i = id - (top - n) + 1
    OBVIOUS
  <2>2. s[i].id = id
    BY <1>3, <2>1
  <2> QED
    BY <1>4, <2>2
<1>7. Max({u} \cup {m.id + 1 : m \in ToSet(s)}) = top
  <2> DEFINE A == {u} \cup {m.id + 1 : m \in ToSet(s)}
  <2>1. A \subseteq Int /\ \A a \in A : a <= top
    BY <1>2, <1>5
  <2>2. top \in A
    <3>1. PICK m \in ToSet(s) : m.id = top - 1
      BY <1>6
    <3>2. m.id + 1 = top
      BY <3>1
    <3> QED
      BY <3>2
  <2> HIDE DEF A
  <2>3. \A a \in A : (\A b \in A : a >= b) => a = top
    BY <2>1, <2>2
  <2>4. \A b \in A : top >= b
    BY <2>1
  <2>5. Max(A) = top
    BY <2>2, <2>3, <2>4 DEF Max
  <2> QED
    BY <2>5 DEF A
<1>8. CASE u < top - n
  <2>1. u \in u .. top - 1 /\ \A m \in ToSet(s) : m.id # u
    BY <1>5, <1>8
  <2> QED
    BY <1>2, <1>7, <1>8, <2>1
<1>9. CASE u = top - n
  <2>1. \A id \in u .. top - 1 : \E m \in ToSet(s) : m.id = id
    BY <1>6, <1>9
  <2> QED
    BY <1>2, <1>7, <1>9, <2>1
<1> QED
  BY <1>2, <1>8, <1>9

-----------------------------------------------------------------------------
(* The slots of the ring as a queue of messages.                           *)

LEMMA FunctionIsSeq ==
  ASSUME NEW h \in Nat, NEW s, s = [i \in 1 .. h |-> s[i]]
  PROVE  Len(s) = h /\ DOMAIN s = 1 .. h /\ \E S : s \in Seq(S)
<1> DEFINE S == {s[i] : i \in 1 .. h}
<1>1. s \in [1 .. h -> S]
  OBVIOUS
<1> HIDE DEF S
<1>2. s \in Seq(S) /\ Len(s) = h /\ DOMAIN s = 1 .. h
  BY <1>1
<1> QED
  BY <1>2

LEMMA SlotsAre ==
  ASSUME RingHasRoom, RingInv
  PROVE  /\ Held \in Nat /\ Len(Slots) = Held /\ \E S : Slots \in Seq(S)
         /\ \A i \in 1 .. Held : Slots[i] = ring[Place(i)]
         /\ nextId > 0 => Held > 0 /\ Slots # <<>>
<1>1. Held \in 0 .. ChannelSize - 1 /\ ChannelSize \in Nat
  BY HeldIs DEF RingInv, RingHasRoom
<1>2. Slots = [i \in 1 .. Held |-> ring[Place(i)]]
  BY DEF Slots, Held, Place
<1>3. Held \in Nat /\ Slots = [i \in 1 .. Held |-> Slots[i]]
  BY <1>1, <1>2
<1>4. Len(Slots) = Held /\ \E S : Slots \in Seq(S)
  BY <1>3, FunctionIsSeq
<1>5. nextId > 0 => Held > 0
  BY DEF RingInv
<1>6. Held > 0 => Slots # <<>>
  BY <1>3, <1>4
<1> QED
  BY <1>2, <1>3, <1>4, <1>5, <1>6

\* The slots after a step that keeps RingInv.
LEMMA SlotsAreNext ==
  ASSUME RingHasRoom, RingInv'
  PROVE  /\ Held' \in Nat /\ Len(Slots') = Held' /\ \E S : Slots' \in Seq(S)
         /\ \A i \in 1 .. Held' : Slots'[i] = ring'[Place(i)']
<1>1. Held' \in Nat
  <2>1. /\ ChannelSize \in Nat \ {0} /\ ringStart' \in 0 .. ChannelSize - 1
        /\ ringEnd' \in 0 .. ChannelSize - 1
    BY DEF RingInv, RingHasRoom
  <2>2. Held' = IF ringStart' <= ringEnd' THEN ringEnd' - ringStart'
                ELSE ringEnd' - ringStart' + ChannelSize
    BY <2>1, HeldAt, Zenon DEF Held
  <2>3. PICK n, a, b : n = ChannelSize /\ a = ringStart' /\ b = ringEnd'
    OBVIOUS
  <2>4. Held' = IF a <= b THEN b - a ELSE b - a + n
    BY <2>2, <2>3, Zenon
  <2>5. n \in Nat /\ a \in 0 .. n - 1 /\ b \in 0 .. n - 1
    BY <2>1, <2>3
  <2>6. (IF a <= b THEN b - a ELSE b - a + n) \in Nat
    BY <2>5
  <2> QED
    BY <2>4, <2>6, Zenon
<1>2. Slots' = [i \in 1 .. Held' |-> ring'[Place(i)']]
  BY DEF Slots, Held, Place
<1>3. Slots' = [i \in 1 .. Held' |-> Slots'[i]]
  BY <1>2
<1>4. Len(Slots') = Held' /\ \E S : Slots' \in Seq(S)
  BY <1>1, <1>3, FunctionIsSeq
<1> QED
  BY <1>1, <1>2, <1>4

\* What is published later does not change what earlier messages carry.
LEMMA MsgStays ==
  ASSUME NEW T, NEW V, NEW top \in Nat, \A j \in 0 .. top - 1 : V[j] = T[j],
         NEW m, MsgOK(m, T), m.id < top
  PROVE  MsgOK(m, V)
<1>1. m.id \in 0 .. top - 1 /\ (m.id > 0 => m.id - 1 \in 0 .. top - 1)
  BY DEF MsgOK
<1>2. V[m.id] = T[m.id] /\ (m.id > 0 => V[m.id - 1] = T[m.id - 1])
  BY <1>1
<1>3. ~ m.init => m.id > 0
  BY <1>1 DEF MsgOK
<1> QED
  BY <1>2, <1>3 DEF MsgOK

LEMMA QueuedStays ==
  ASSUME NEW T, NEW V, NEW top \in Nat, \A j \in 0 .. top - 1 : V[j] = T[j],
         NEW s, NEW u \in Nat, u <= top, Queued(s, u, T)
  PROVE  Queued(s, u, V)
<1>1. Len(s) \in Nat
  BY DEF Queued
<1>2. ASSUME NEW i \in 1 .. Len(s) PROVE MsgOK(s[i], V)
  <2>1. MsgOK(s[i], T) /\ s[i].id = u - Len(s) + i - 1
    BY DEF Queued
  <2>2. s[i].id < top
    BY <1>1, <2>1
  <2> QED
    BY <2>1, <2>2, MsgStays
<1> QED
  BY <1>2 DEF Queued

LEMMA ClientStays ==
  ASSUME NEW T, NEW V, NEW top \in Nat, \A j \in 0 .. top - 1 : V[j] = T[j],
         NEW w, NEW v, ClientOK(w, v, T), w.unseen <= top
  PROVE  ClientOK(w, v, V)
<1>1. w.unseen \in Nat /\ Queued(w.msgs, w.unseen, T) /\ Told(w, v, T)
  BY DEF ClientOK
<1>2. Queued(w.msgs, w.unseen, V) /\ Len(w.msgs) \in Nat
  <2>1. Queued(w.msgs, w.unseen, V)
    BY <1>1, QueuedStays
  <2>2. Len(w.msgs) \in Nat
    BY <1>1 DEF Queued
  <2> QED
    BY <2>1, <2>2
<1>3. Told(w, v, V)
  <2>1. SUFFICES ASSUME w.unseen > 0, ~ Pending(w)
                 PROVE  V[w.unseen - Len(w.msgs) - 1] = T[w.unseen - Len(w.msgs) - 1]
    BY <1>1 DEF Told
  <2>2. w.unseen - Len(w.msgs) - 1 \in 0 .. top - 1
    <3>1. CASE w.msgs = <<>>
      BY <1>1, <1>2, <2>1, <3>1
    <3>2. CASE w.msgs # <<>>
      <4>1. w.msgs[1].id = w.unseen - Len(w.msgs) /\ MsgOK(w.msgs[1], T)
        BY <1>1, <3>2, QueuedTail
      <4>2. w.msgs[1].id \in Nat \ {0}
        BY <2>1, <3>2, <4>1 DEF MsgOK, Pending
      <4> QED
        BY <1>1, <1>2, <4>1, <4>2
    <3> QED
      BY <3>1, <3>2
  <2> QED
    BY <2>2
<1> QED
  BY <1>2, <1>3 DEF ClientOK

-----------------------------------------------------------------------------
(* The steps of the publisher.                                             *)

LEMMA UpdateQueued ==
  ASSUME RingHasRoom, MachinesAreClosed, DiffInv, RingInv, OrderInv, Update,
         NEW T \in [Nat -> Pub], Queued(Slots, nextId, T),
         nextId > 0 => Same(T[nextId - 1], pub),
         NEW V, V = [T EXCEPT ![nextId] = pub']
  PROVE  Queued(Slots', nextId', V)
<1>1. PICK m : m = UpdateMsg(nextId, pub, Head(q))
  OBVIOUS
<1>2. PICK p \in Msg : /\ p = Head(q) /\ pub'.covS = p.covS /\ pub'.covT = p.covT
                       /\ pub'.times = p.times /\ pub'.lost = p.lost /\ pub'.states = p.states
  BY TablesTaken
<1>3. nextId \in Nat /\ nextId' = nextId + 1
  BY DEF RingInv, Update
<1>4. nextId > 0
  BY DiffInvImplies DEF DifferencesAreExact, OrderInv, Update
<1>5. V[nextId] = pub' /\ \A j \in 0 .. nextId - 1 : V[j] = T[j]
  BY <1>3
<1>6. MsgOK(m, V)
  <2>1. m.id = nextId /\ m.init = FALSE
    BY <1>1 DEF UpdateMsg
  <2>2. Exact(m, pub, p)
    BY <1>1, <1>2, DiffInvImplies DEF DifferencesAreExact, Exact, Update
  <2>3. V[nextId - 1] = T[nextId - 1]
    BY <1>3, <1>4, <1>5
  <2>4. Exact(m, V[nextId - 1], pub')
    <3>1. Same(V[nextId - 1], pub)
      BY <1>4, <2>3
    <3>2. Known(V[nextId - 1]) = Known(pub)
      BY <3>1 DEF Same, Known
    <3> QED
      BY <1>2, <2>2, <3>1, <3>2 DEF Exact, Same
  <2>5. /\ DOMAIN m.cov \subseteq TopLevelSms /\ DOMAIN m.times \subseteq Stamps
        /\ DOMAIN m.cats \subseteq TopLevelSms
    <3>1. p.after \subseteq Stamps
      BY DEF Msg
    <3>2. /\ DOMAIN m.cov = {RootSm(s) : s \in {s \in States : p.covS[s] # pub.covS[s]}}
          /\ DOMAIN m.times = p.after /\ DOMAIN m.cats \subseteq TopLevelSms
      BY <1>1, <1>2 DEF UpdateMsg, Restrict
    <3> QED
      BY <3>1, <3>2 DEF MachinesAreClosed
  <2>6. m.id \in Nat /\ m.init \in BOOLEAN /\ m.id # 0 /\ ~ m.init
    <3>1. nextId \in Nat /\ nextId # 0
      BY <1>3, <1>4
    <3> QED
      BY <2>1, <3>1, Zenon
  <2>7. Exact(m, V[m.id - 1], V[m.id])
    BY <1>5, <2>1, <2>4
  <2> QED
    BY <2>5, <2>6, <2>7, Zenon DEF MsgOK
<1>7. RingInv'
  BY UpdateRing
<1>8. PICK d \in {0, 1} :
        /\ Held' = Held + 1 - d /\ Held' > 0
        /\ \A i \in 1 .. Held - d : ring'[Place(i)'] = ring[Place(i + d)]
        /\ \A i \in 1 .. Held' : i > Held - d => ring'[Place(i)'] = m
  BY <1>1, UpdateMoves
<1>9. /\ Held \in Nat /\ Len(Slots) = Held /\ \A i \in 1 .. Held : Slots[i] = ring[Place(i)]
      /\ Held' \in Nat /\ Len(Slots') = Held' /\ \E S : Slots' \in Seq(S)
      /\ \A i \in 1 .. Held' : Slots'[i] = ring'[Place(i)']
  BY <1>7, SlotsAre, SlotsAreNext
<1>10. PICK h, s, r, top : h = Held /\ s = Slots /\ r = Slots' /\ h \in Nat /\ top = nextId'
  BY <1>9
<1>11. /\ Len(s) = h /\ Len(r) = h + 1 - d /\ h + 1 - d > 0 /\ \E S : r \in Seq(S)
       /\ \A i \in 1 .. h - d : r[i] = s[i + d]
       /\ \A i \in 1 .. h + 1 - d : i > h - d => r[i] = m
  <2>1. \A i \in 1 .. h - d : i \in 1 .. Held' /\ i + d \in 1 .. Held
    BY <1>8, <1>10
  <2>2. \A i \in 1 .. h - d : r[i] = s[i + d]
    BY <1>8, <1>9, <1>10, <2>1
  <2> QED
    BY <1>8, <1>9, <1>10, <2>2
<1>12. \A i \in 1 .. h : s[i].id = nextId - h + i - 1 /\ MsgOK(s[i], T) /\ (s[i].init => i = 1)
  BY <1>9, <1>10 DEF Queued
<1>13. ASSUME NEW i \in 1 .. h + 1 - d
       PROVE  /\ r[i].id = top - (h + 1 - d) + i - 1 /\ MsgOK(r[i], V)
              /\ (r[i].init => i = 1)
  <2>1. CASE i > h - d
    <3>1. r[i] = m /\ i = h + 1 - d
      BY <1>11, <2>1
    <3>2. m.id = nextId /\ ~ m.init
      BY <1>1 DEF UpdateMsg
    <3> QED
      BY <1>3, <1>6, <1>10, <3>1, <3>2
  <2>2. CASE i <= h - d
    <3>1. i + d \in 1 .. h /\ i \in 1 .. h - d
      BY <1>10, <2>2
    <3>2. /\ r[i] = s[i + d] /\ s[i + d].id = nextId - h + (i + d) - 1 /\ MsgOK(s[i + d], T)
          /\ (s[i + d].init => i + d = 1)
      BY <1>11, <1>12, <3>1
    <3>3. s[i + d].id < nextId
      BY <1>3, <1>10, <3>1, <3>2
    <3>4. MsgOK(s[i + d], V)
      BY <1>3, <1>5, <3>2, <3>3, MsgStays
    <3>5. nextId - h + (i + d) - 1 = top - (h + 1 - d) + i - 1 /\ (i + d = 1 => i = 1)
      BY <1>3, <1>10
    <3> QED
      BY <3>2, <3>4, <3>5
  <2> QED
    BY <1>10, <2>1, <2>2
<1>14. \A i \in 1 .. Len(r) :
         r[i].id = top - Len(r) + i - 1 /\ MsgOK(r[i], V) /\ (r[i].init => i = 1)
  BY <1>11, <1>13
<1>15. Queued(r, top, V)
  <2>1. PICK S : r \in Seq(S)
    BY <1>11
  <2> QED
    BY <1>14, <2>1, QueuedBy
<1> QED
  BY <1>10, <1>15

\* With an init message the queue is that message.
LEMMA InitQueued ==
  ASSUME RingHasRoom, RingInv, NEW p \in Pub, CreateInitMsg(p),
         NEW T \in [Nat -> Pub], nextId > 0 => Same(T[nextId - 1], p),
         NEW V, V = [T EXCEPT ![nextId] = pub']
  PROVE  Queued(Slots', nextId', V) /\ Same(pub', p)
<1>1. RingInv' /\ Held' = 1 /\ ring'[Place(1)'] = InitMsg(nextId, p)
  BY InitRing
<1>2. PICK m, r, top : m = InitMsg(nextId, p) /\ r = Slots' /\ top = nextId'
  OBVIOUS
<1>3. Len(r) = 1 /\ r[1] = m /\ \E S : r \in Seq(S)
  BY <1>1, <1>2, SlotsAreNext
<1>4. nextId \in Nat /\ nextId' = nextId + 1
  BY DEF RingInv, CreateInitMsg
<1>5. Same(pub', p)
  BY DEF CreateInitMsg, Same, Pub
<1>6. V[nextId] = pub' /\ \A j \in 0 .. nextId - 1 : V[j] = T[j]
  BY <1>4
<1>7. MsgOK(m, V)
  <2>1. m.id = nextId /\ m.init = TRUE /\ Knows(m, p)
    BY <1>2 DEF InitMsg, Knows, Pub
  <2>2. Knows(m, pub')
    BY <1>5, <2>1 DEF Knows, Same
  <2>3. nextId > 0 => Same(V[nextId - 1], pub')
    BY <1>4, <1>5, <1>6 DEF Same
  <2>4. /\ DOMAIN m.cov = TopLevelSms /\ DOMAIN m.times = Stamps /\ DOMAIN m.cats = TopLevelSms
    BY <1>2 DEF InitMsg, Sm2Cov, ActiveCategories, Pub
  <2> QED
    BY <1>4, <1>6, <2>1, <2>2, <2>3, <2>4 DEF MsgOK
<1>8. ASSUME NEW i \in 1 .. Len(r)
      PROVE  /\ r[i].id = top - Len(r) + i - 1 /\ MsgOK(r[i], V)
             /\ (r[i].init => i = 1)
  <2>1. i = 1 /\ m.id = nextId
    BY <1>2, <1>3 DEF InitMsg
  <2> QED
    BY <1>2, <1>3, <1>4, <1>7, <2>1
<1>9. Queued(r, top, V)
  <2>1. PICK S : r \in Seq(S)
    BY <1>3
  <2> QED
    BY <1>8, <2>1, QueuedBy
<1> QED
  BY <1>2, <1>5, <1>9

LEMMA StateChanges ==
  ASSUME NEW T, NEW w, NEW v, ClientOK(w, v, T), w.msgs = <<>>, w.st # "closed",
         NEW st, NEW x, x = [w EXCEPT !.st = st]
  PROVE  ClientOK(x, v, T) /\ x.unseen = w.unseen
<1>1. /\ w.unseen \in Nat /\ w.initRead \in BOOLEAN /\ Queued(w.msgs, w.unseen, T)
      /\ Numbers(w, v) /\ Told(w, v, T) /\ Shape(w, v)
  BY DEF ClientOK
<1>2. /\ x.unseen = w.unseen /\ x.initRead = w.initRead /\ x.msgs = w.msgs
      /\ x = [st |-> x.st, unseen |-> x.unseen, initRead |-> x.initRead, msgs |-> x.msgs]
  BY <1>1 DEF Shape
<1>3. Pending(x) <=> Pending(w)
  BY <1>2 DEF Pending
<1>4. Numbers(x, v)
  BY <1>1, <1>2, <1>3 DEF Numbers
<1>5. Told(x, v, T)
  BY <1>1, <1>2, <1>3 DEF Told
<1>6. Shape(x, v)
  BY <1>1, <1>2 DEF Shape
<1> QED
  BY <1>1, <1>2, <1>4, <1>5, <1>6 DEF ClientOK

LEMMA WriterGone ==
  ASSUME NEW T, NEW w, NEW v, ClientOK(w, v, T), NEW x,
         x = [w EXCEPT !.st = "closed", !.msgs = <<>>]
  PROVE  ClientOK(x, v, T) /\ x.unseen = w.unseen
<1>1. /\ w.unseen \in Nat /\ w.initRead \in BOOLEAN /\ Queued(w.msgs, w.unseen, T)
      /\ Numbers(w, v) /\ Shape(w, v)
  BY DEF ClientOK
<1>2. /\ x.st = "closed" /\ x.unseen = w.unseen /\ x.initRead = w.initRead /\ x.msgs = <<>>
      /\ x = [st |-> x.st, unseen |-> x.unseen, initRead |-> x.initRead, msgs |-> x.msgs]
  BY <1>1 DEF Shape
<1>3. ~ Pending(x)
  BY <1>2 DEF Pending
<1>4. Numbers(x, v)
  <2>1. Len(w.msgs) \in Nat
    BY <1>1 DEF Queued
  <2>2. v.lastId \in Int /\ v.lastId < w.unseen - Len(w.msgs)
    BY <1>1 DEF Numbers
  <2>3. Len(x.msgs) = 0
    BY <1>2
  <2>4. v.lastId < x.unseen - Len(x.msgs)
    BY <1>1, <1>2, <2>1, <2>2, <2>3
  <2> QED
    BY <1>1, <1>2, <1>3, <2>4 DEF Numbers
<1>5. Told(x, v, T)
  BY <1>2 DEF Told
<1>6. Shape(x, v)
  BY <1>1, <1>2 DEF Shape
<1>7. Queued(x.msgs, x.unseen, T)
  <2>1. x.msgs \in Seq({}) /\ Len(x.msgs) = 0
    BY <1>2
  <2>2. \A i \in 1 .. Len(x.msgs) : FALSE
    BY <2>1
  <2> QED
    BY <2>1, <2>2, QueuedBy
<1> QED
  BY <1>1, <1>2, <1>4, <1>5, <1>6, <1>7 DEF ClientOK

\* The publisher starts the writer thread of the subscriber that asked.
LEMMA WriterStarted ==
  ASSUME DiffInv, OrderInv, NewChannel, NEW T, NEW c \in Clients,
         ClientOK(writer[c], view[c], T)
  PROVE  writer'[c].unseen = writer[c].unseen /\ ClientOK(writer'[c], view'[c], T)
<1>1. q # <<>> /\ Head(q).what = "NEW_CHANNEL" /\ view' = view
  BY DEF NewChannel
<1>2. Head(q) = q[1] /\ 1 \in DOMAIN q
  BY <1>1, HeadTyped DEF DiffInv
<1>3. PICK d \in Clients : d = Head(q).client /\ writer[d].st = "asked"
  BY <1>1, <1>2 DEF OrderInv
<1>4. writer' = [writer EXCEPT ![d].st = "intro"]
  BY <1>3 DEF NewChannel
<1>5. writer = [e \in Clients |-> writer[e]]
  BY DEF OrderInv
<1>6. CASE c = d
  <2>1. writer'[c] = [writer[c] EXCEPT !.st = "intro"]
    BY <1>4, <1>5, <1>6
  <2>2. writer[c].msgs = <<>> /\ writer[c].st # "closed"
    BY <1>3, <1>6 DEF ClientOK
  <2>3. PICK w, v, x, st : w = writer[c] /\ v = view[c] /\ x = writer'[c] /\ st = "intro"
    OBVIOUS
  <2>4. /\ ClientOK(w, v, T) /\ w.msgs = <<>> /\ w.st # "closed"
        /\ x = [w EXCEPT !.st = st]
    BY <2>1, <2>2, <2>3
  <2>5. ClientOK(x, v, T) /\ x.unseen = w.unseen
    BY <2>4, StateChanges
  <2> QED
    BY <1>1, <2>3, <2>5
<1>7. CASE c # d
  <2>1. writer'[c] = writer[c]
    BY <1>4, <1>5, <1>7
  <2> QED
    BY <1>1, <2>1
<1> QED
  BY <1>6, <1>7

LEMMA PublishView ==
  ASSUME RingHasRoom, MachinesAreClosed, DiffInv, RingInv, OrderInv, Publish,
         NEW T \in [Nat -> Pub], ViewInv(T)
  PROVE  \E V \in [Nat -> Pub] : ViewInv(V)'
<1>1. /\ Queued(Slots, nextId, T) /\ (nextId > 0 => Same(T[nextId - 1], pub))
      /\ \A c \in Clients : writer[c].unseen <= nextId /\ ClientOK(writer[c], view[c], T)
  BY DEF ViewInv
<1>2. nextId \in Nat /\ pub \in Pub /\ pub' \in Pub
  BY PublishDiff DEF RingInv, DiffInv, TablesTyped
<1>3. \A c \in Clients : writer[c].unseen \in Nat
  BY <1>1 DEF ClientOK
<1>4. \A c \in Clients : /\ writer'[c].unseen = writer[c].unseen
                         /\ ClientOK(writer'[c], view'[c], T)
  <2>1. CASE NewChannel
    BY <1>1, <2>1, WriterStarted
  <2>2. CASE InitTables \/ Update
    BY <1>1, <2>2 DEF InitTables, Update, clientVars
  <2> QED
    BY <2>1, <2>2 DEF Publish
<1>5. CASE UNCHANGED pubVars
  <2>1. Slots' = Slots /\ nextId' = nextId /\ pub' = pub
    BY <1>5 DEF Slots, pubVars
  <2>2. ViewInv(T)'
    BY <1>1, <1>4, <2>1 DEF ViewInv
  <2> QED
    BY <2>2
<1>6. ASSUME NEW V, V = [T EXCEPT ![nextId] = pub'], Queued(Slots', nextId', V),
             nextId' = nextId + 1
      PROVE  \E W \in [Nat -> Pub] : ViewInv(W)'
  <2>1. V \in [Nat -> Pub] /\ V[nextId] = pub' /\ \A j \in 0 .. nextId - 1 : V[j] = T[j]
    BY <1>2, <1>6
  <2>2. Same(V[nextId' - 1], pub')
    <3>1. nextId' - 1 = nextId
      BY <1>2, <1>6
    <3> QED
      BY <2>1, <3>1 DEF Same
  <2>3. ASSUME NEW c \in Clients
        PROVE  writer'[c].unseen <= nextId' /\ ClientOK(writer'[c], view'[c], V)
    <3>1. writer'[c].unseen <= nextId
      BY <1>1, <1>4
    <3>2. ClientOK(writer'[c], view'[c], V)
      BY <1>2, <1>4, <2>1, <3>1, ClientStays
    <3> QED
      BY <1>2, <1>3, <1>4, <1>6, <3>1, <3>2
  <2>4. ViewInv(V)'
    BY <1>6, <2>2, <2>3 DEF ViewInv
  <2> QED
    BY <2>1, <2>4
<1>7. PICK V : V = [T EXCEPT ![nextId] = pub']
  OBVIOUS
<1>8. CASE NewChannel /\ ~ UNCHANGED pubVars
  <2>1. CreateInitMsg(pub)
    BY <1>8 DEF NewChannel
  <2>2. Queued(Slots', nextId', V)
    BY <1>1, <1>2, <1>7, <2>1, InitQueued
  <2>3. nextId' = nextId + 1
    BY <2>1 DEF CreateInitMsg
  <2> QED
    BY <1>6, <1>7, <2>2, <2>3
<1>9. CASE InitTables
  <2>1. PICK p : p = [Received(Head(q)) EXCEPT !.tablesCurrent = TRUE]
    OBVIOUS
  <2>2. CreateInitMsg(p)
    BY <1>9, <2>1 DEF InitTables
  <2>3. p \in Pub
    <3>1. Head(q) \in Msg
      BY <1>9, TablesTaken
    <3> QED
      BY <1>2, <2>1, <3>1 DEF Received, Msg, Pub
  <2>4. ~ (nextId > 0)
    <3>1. Head(q) = q[1] /\ 1 \in DOMAIN q /\ Head(q).what = "INIT"
      BY <1>9, HeadTyped DEF InitTables, DiffInv
    <3> QED
      BY <3>1 DEF OrderInv
  <2>5. Queued(Slots', nextId', V)
    BY <1>7, <2>2, <2>3, <2>4, InitQueued
  <2>6. nextId' = nextId + 1
    BY <2>2 DEF CreateInitMsg
  <2> QED
    BY <1>6, <1>7, <2>5, <2>6
<1>10. CASE Update
  <2>1. Queued(Slots', nextId', V)
    BY <1>1, <1>7, <1>10, UpdateQueued
  <2>2. nextId' = nextId + 1
    BY <1>10 DEF Update
  <2> QED
    BY <1>6, <1>7, <2>1, <2>2
<1> QED
  BY <1>5, <1>8, <1>9, <1>10 DEF Publish

-----------------------------------------------------------------------------
(* The steps of the subscribers and of the loop.                           *)

\* One writer thread and its client change.
LEMMA OneClient ==
  ASSUME OrderInv, NEW T, ViewInv(T), UNCHANGED pubVars, NEW c \in Clients, NEW x, NEW y,
         ClientOK(x, y, T), x.unseen <= nextId,
         writer' = [writer EXCEPT ![c] = x], view' = [view EXCEPT ![c] = y]
  PROVE  ViewInv(T)'
<1>1. Slots' = Slots /\ nextId' = nextId /\ pub' = pub
  BY DEF Slots, pubVars
<1>2. /\ writer'[c] = x /\ view'[c] = y
      /\ \A d \in Clients : d # c => writer'[d] = writer[d] /\ view'[d] = view[d]
  BY DEF OrderInv
<1>3. ASSUME NEW d \in Clients
      PROVE  writer'[d].unseen <= nextId' /\ ClientOK(writer'[d], view'[d], T)
  <2>1. CASE d = c
    BY <1>1, <1>2, <2>1
  <2>2. CASE d # c
    BY <1>1, <1>2, <2>2 DEF ViewInv
  <2> QED
    BY <2>1, <2>2
<1> QED
  BY <1>1, <1>3 DEF ViewInv

LEMMA ReadView ==
  ASSUME RingHasRoom, RingInv, OrderInv, NEW T \in [Nat -> Pub], ViewInv(T),
         NEW c \in Clients, ReadRing(c)
  PROVE  ViewInv(T)'
<1>1. PICK w, v, u, top, s : /\ w = writer[c] /\ v = view[c] /\ u = writer[c].unseen
                             /\ top = nextId /\ s = Slots
  OBVIOUS
<1>2. /\ ClientOK(w, v, T) /\ u <= top /\ Queued(s, top, T) /\ top \in Nat /\ u \in Nat
  BY <1>1 DEF ViewInv, RingInv, ClientOK
<1>3. w.st = "wait" /\ u < top
  BY <1>1, <1>2 DEF ReadRing
<1>4. s # <<>>
  BY <1>1, <1>2, <1>3, SlotsAre
<1>5. PICK k : k = CHOOSE j \in 0 .. Len(s) : \A i \in DOMAIN s : i <= j <=> s[i].id < u
  OBVIOUS
<1>6. k \in 0 .. Len(s) /\ \A i \in DOMAIN s : i <= k <=> s[i].id < u
  <2>1. \E j \in 0 .. Len(s) : \A i \in DOMAIN s : i <= j <=> s[i].id < u
    BY <1>2, <1>3, <1>4, SkipIs
  <2> QED
    BY <1>5, <2>1
<1>7. PICK U : U = SubSeq(s, k + 1, Len(s))
  OBVIOUS
<1>8. Unseen(c) = U
  BY <1>1, <1>5, <1>7 DEF Unseen
<1>9. Queued(U, top, T) /\ U # <<>> /\ u <= top - Len(U)
  BY <1>2, <1>3, <1>4, <1>6, <1>7, SuffixQueued
<1>10. /\ Max({u} \cup {m.id + 1 : m \in ToSet(U)}) = top
       /\ (\E id \in u .. top - 1 : \A m \in ToSet(U) : m.id # id) <=> u < top - Len(U)
  BY <1>2, <1>9, ReadTo
<1>11. PICK missed : missed = \E id \in u .. top - 1 : \A m \in ToSet(U) : m.id # id
  OBVIOUS
<1>12. missed \in BOOLEAN /\ (missed <=> w.unseen < top - Len(U))
  BY <1>1, <1>10, <1>11
<1>13. PICK x, y : x = Reading(w, U, top) /\ y = Overtaken(v, w, U, missed)
  OBVIOUS
<1>14. /\ MsgsToSend(c) = (IF w.initRead /\ U[1].init THEN Tail(U) ELSE U)
       /\ (w.initRead \/ \E m \in ToSet(U) : m.init) = (w.initRead \/ U[1].init)
  <2>1. MsgsToSend(c) = IF w.initRead /\ U[1].init THEN Tail(U) ELSE U
    BY <1>1, <1>8, <1>9 DEF MsgsToSend
  <2>2. (\E m \in ToSet(U) : m.init) <=> U[1].init
    BY <1>2, <1>9, FirstIsInit
  <2>3. w.initRead \in BOOLEAN /\ U[1].init \in BOOLEAN
    <3>1. MsgOK(U[1], T)
      BY <1>2, <1>9, QueuedTail
    <3> QED
      BY <1>2, <3>1 DEF ClientOK, MsgOK
  <2>4. (w.initRead \/ \E m \in ToSet(U) : m.init) = (w.initRead \/ U[1].init)
    BY <2>2, <2>3
  <2> QED
    BY <2>1, <2>4
<1>15. /\ writer = [d \in Clients |-> writer[d]] /\ view = [d \in Clients |-> view[d]]
  BY DEF OrderInv
<1>16. writer' = [writer EXCEPT ![c] = x]
  <2>1. writer' = [writer EXCEPT ![c] =
           [st |-> "send", unseen |-> Max({u} \cup {m.id + 1 : m \in ToSet(U)}),
            msgs |-> MsgsToSend(c),
            initRead |-> writer[c].initRead \/ \E m \in ToSet(U) : m.init]]
    BY <1>1, <1>8 DEF ReadRing
  <2> QED
    BY <1>1, <1>10, <1>13, <1>14, <2>1 DEF Reading
<1>17. view' = [view EXCEPT ![c] = y]
  <2>1. view' = [view EXCEPT ![c].gap = @ \/ (missed /\ ~ (~ w.initRead /\ U[1].init))]
    BY <1>1, <1>8, <1>11 DEF ReadRing
  <2> QED
    BY <1>1, <1>13, <1>15, <2>1 DEF Overtaken
<1>18. ClientOK(x, y, T)
  <2>1. /\ ClientOK(w, v, T) /\ w.st = "wait" /\ top \in Nat /\ w.unseen < top
        /\ Queued(U, top, T) /\ U # <<>> /\ w.unseen <= top - Len(U)
    BY <1>1, <1>2, <1>3, <1>9
  <2> QED
    BY <1>12, <1>13, <2>1, MsgsRead
<1>19. x.unseen <= nextId
  BY <1>1, <1>2, <1>13 DEF Reading
<1>20. UNCHANGED pubVars
  BY DEF ReadRing
<1> QED
  BY <1>16, <1>17, <1>18, <1>19, <1>20, OneClient

LEMMA ClientView ==
  ASSUME OrderInv, NEW T \in [Nat -> Pub], ViewInv(T), NEW c \in Clients,
         Subscribe(c) \/ WriteIntro(c) \/ SendMsg(c) \/ WriterEnds(c)
  PROVE  ViewInv(T)'
<1>1. PICK w, v : w = writer[c] /\ v = view[c]
  OBVIOUS
<1>2. ClientOK(w, v, T) /\ w.unseen <= nextId
  BY <1>1 DEF ViewInv
<1>3. /\ writer = [d \in Clients |-> writer[d]] /\ view = [d \in Clients |-> view[d]]
  BY DEF OrderInv
<1>4. UNCHANGED pubVars
  BY DEF Subscribe, WriteIntro, SendMsg, WriterEnds
<1>5. view = [view EXCEPT ![c] = v]
  BY <1>1, <1>3
<1>6. ASSUME NEW st, w.msgs = <<>>, w.st # "closed", view' = view,
             writer' = [writer EXCEPT ![c].st = st]
      PROVE  ViewInv(T)'
  <2>1. PICK x : x = [w EXCEPT !.st = st]
    OBVIOUS
  <2>2. writer' = [writer EXCEPT ![c] = x]
    BY <1>1, <1>3, <1>6, <2>1
  <2>3. ClientOK(x, v, T) /\ x.unseen = w.unseen
    BY <1>2, <1>6, <2>1, StateChanges
  <2> QED
    BY <1>2, <1>4, <1>5, <1>6, <2>2, <2>3, OneClient
<1>7. CASE Subscribe(c)
  <2>1. w.st = "none" /\ view' = view /\ writer' = [writer EXCEPT ![c].st = "asked"]
    BY <1>1, <1>7 DEF Subscribe
  <2>2. w.msgs = <<>>
    BY <1>2, <2>1 DEF ClientOK
  <2> QED
    BY <1>6, <2>1, <2>2
<1>8. CASE WriteIntro(c)
  <2>1. w.st = "intro" /\ view' = view /\ writer' = [writer EXCEPT ![c].st = "wait"]
    BY <1>1, <1>8 DEF WriteIntro
  <2>2. w.msgs = <<>>
    BY <1>2, <2>1 DEF ClientOK
  <2> QED
    BY <1>6, <2>1, <2>2
<1>9. CASE SendMsg(c) /\ w.msgs = <<>>
  <2>1. w.st = "send" /\ view' = view /\ writer' = [writer EXCEPT ![c].st = "wait"]
    BY <1>1, <1>9 DEF SendMsg
  <2> QED
    BY <1>6, <1>9, <2>1
<1>10. CASE SendMsg(c) /\ w.msgs # <<>>
  <2>1. PICK x, y : /\ x = [w EXCEPT !.st = IF Tail(w.msgs) = <<>> THEN "wait" ELSE "send",
                                     !.msgs = Tail(w.msgs)]
                    /\ y = Applied(v, Head(w.msgs))
    OBVIOUS
  <2>2. w.st = "send" /\ view' = [view EXCEPT ![c] = y]
    BY <1>1, <1>3, <1>10, <2>1 DEF SendMsg
  <2>3. writer' = [writer EXCEPT ![c] = x]
    <3>1. writer' = [writer EXCEPT ![c].st = IF Tail(w.msgs) = <<>> THEN "wait" ELSE "send",
                                   ![c].msgs = Tail(w.msgs)]
      BY <1>1, <1>10 DEF SendMsg
    <3> QED
      BY <1>1, <1>3, <2>1, <3>1
  <2>4. ClientOK(x, y, T) /\ x.unseen = w.unseen
    BY <1>2, <1>10, <2>1, <2>2, MsgSent
  <2> QED
    BY <1>2, <1>4, <2>2, <2>3, <2>4, OneClient
<1>11. CASE WriterEnds(c)
  <2>1. PICK x : x = [w EXCEPT !.st = "closed", !.msgs = <<>>]
    OBVIOUS
  <2>2. view' = view /\ writer' = [writer EXCEPT ![c].st = "closed", ![c].msgs = <<>>]
    BY <1>11 DEF WriterEnds
  <2>3. writer' = [writer EXCEPT ![c] = x]
    BY <1>1, <1>3, <2>1, <2>2
  <2>4. ClientOK(x, v, T) /\ x.unseen = w.unseen
    BY <1>2, <2>1, WriterGone
  <2> QED
    BY <1>2, <1>4, <1>5, <2>2, <2>3, <2>4, OneClient
<1> QED
  BY <1>7, <1>8, <1>9, <1>10, <1>11

-----------------------------------------------------------------------------
(* The order of the queue.                                                 *)

LEMMA AppendIs ==
  ASSUME NEW S, NEW s \in Seq(S), NEW m, NEW r, r = Append(s, m)
  PROVE  /\ DOMAIN r = 1 .. Len(s) + 1 /\ r[Len(s) + 1] = m
         /\ \A i \in 1 .. Len(s) : r[i] = s[i]
OBVIOUS

LEMMA PublishOrder ==
  ASSUME MachinesAreClosed, DiffInv, RingInv, OrderInv, Publish
  PROVE  OrderInv'
<1>1. q # <<>> /\ q' = Tail(q) /\ handler' = handler
  BY DEF Publish, NewChannel, InitTables, Update, execVars
<1>2. /\ Head(q) = q[1] /\ 1 \in DOMAIN q /\ DOMAIN q = 1 .. Len(q) /\ Len(q) \in Nat \ {0}
      /\ DOMAIN q' = 1 .. Len(q) - 1 /\ \A i \in 1 .. Len(q) - 1 : q'[i] = q[i + 1]
  BY <1>1, HeadTyped, QueueTyped DEF DiffInv
<1>3. \A i \in DOMAIN q' : i + 1 \in DOMAIN q /\ i + 1 # 1 /\ q'[i] = q[i + 1] /\ i \in Nat
  BY <1>2
<1>4. pub.tablesCurrent \in BOOLEAN /\ nextId \in Nat
  BY PubTyped DEF DiffInv, RingInv
<1>5. \A i, j \in DOMAIN q' : (q'[i].what = "INIT" /\ q'[j].what = "INIT") => i = j
  <2> SUFFICES ASSUME NEW i \in DOMAIN q', NEW j \in DOMAIN q',
                      q'[i].what = "INIT", q'[j].what = "INIT"
               PROVE  i = j
    OBVIOUS
  <2>1. i + 1 = j + 1
    BY <1>3 DEF OrderInv
  <2> QED
    BY <1>3, <2>1
<1>6. \A i, j \in DOMAIN q' : (q'[i].what = "NEW_CHANNEL" /\ q'[j].what = "NEW_CHANNEL"
                                 /\ q'[i].client = q'[j].client) => i = j
  <2> SUFFICES ASSUME NEW i \in DOMAIN q', NEW j \in DOMAIN q', q'[i].what = "NEW_CHANNEL",
                      q'[j].what = "NEW_CHANNEL", q'[i].client = q'[j].client
               PROVE  i = j
    OBVIOUS
  <2>1. i + 1 = j + 1
    BY <1>3 DEF OrderInv
  <2> QED
    BY <1>3, <2>1
<1>7. CASE NewChannel
  <2>1. /\ Head(q).what = "NEW_CHANNEL" /\ view' = view
        /\ writer' = [writer EXCEPT ![Head(q).client].st = "intro"]
    BY <1>7 DEF NewChannel
  <2>2. /\ writer' = [c \in Clients |-> writer'[c]] /\ view' = [c \in Clients |-> view'[c]]
    BY <2>1 DEF OrderInv
  <2>3. /\ pub'.tablesCurrent = pub.tablesCurrent
        /\ pub.tablesCurrent => nextId' = nextId + 1
        /\ ~ pub.tablesCurrent => nextId' = nextId
    <3>1. pub \in Pub
      BY DEF DiffInv, TablesTyped
    <3>2. CASE pub.tablesCurrent
      <4>1. CreateInitMsg(pub)
        BY <1>7, <3>2 DEF NewChannel
      <4>2. pub' = [pub EXCEPT !.cats = ActiveCategories(pub.states)] /\ nextId' = nextId + 1
        BY <4>1 DEF CreateInitMsg
      <4> QED
        BY <3>1, <3>2, <4>2 DEF Pub
    <3>3. CASE ~ pub.tablesCurrent
      BY <1>7, <3>3 DEF NewChannel, pubVars
    <3> QED
      BY <3>2, <3>3
  <2>4. pub'.tablesCurrent <=> nextId' > 0
    BY <1>4, <2>3 DEF OrderInv
  <2>5. ASSUME NEW i \in DOMAIN q', q'[i].what = "NEW_CHANNEL"
        PROVE  q'[i].client \in Clients /\ writer'[q'[i].client].st = "asked"
    <3>1. /\ i + 1 \in DOMAIN q /\ i + 1 # 1 /\ q'[i] = q[i + 1]
          /\ q[i + 1].what = "NEW_CHANNEL" /\ q[1].what = "NEW_CHANNEL"
      BY <1>2, <1>3, <2>1, <2>5
    <3>2. q[i + 1].client # q[1].client
      BY <1>2, <3>1 DEF OrderInv
    <3>3. q[i + 1].client \in Clients /\ writer[q[i + 1].client].st = "asked"
      BY <3>1 DEF OrderInv
    <3>4. PICK c, d : c \in Clients /\ c = q[i + 1].client /\ d = Head(q).client /\ c # d
      BY <1>2, <3>2, <3>3
    <3>5. writer'[c] = writer[c]
      <4>1. writer = [e \in Clients |-> writer[e]]
        BY DEF OrderInv
      <4> QED
        BY <2>1, <3>4, <4>1
    <3> QED
      BY <3>1, <3>3, <3>4, <3>5
  <2>6. \A i \in DOMAIN q' : q'[i].what = "INIT" => ~ pub'.tablesCurrent
    BY <1>3, <2>3 DEF OrderInv
  <2>7. handler' # "registered" => ~ pub'.tablesCurrent
    BY <1>1, <2>3 DEF OrderInv
  <2> QED
    BY <1>5, <1>6, <2>2, <2>4, <2>5, <2>6, <2>7 DEF OrderInv
<1>8. CASE InitTables \/ Update
  <2>1. writer' = writer /\ view' = view /\ nextId' = nextId + 1 /\ Head(q).what # "NEW_CHANNEL"
    BY <1>8 DEF InitTables, Update, clientVars, CreateInitMsg
  <2>2. pub'.tablesCurrent
    BY <1>8, TablesTaken
  <2>3. pub'.tablesCurrent <=> nextId' > 0
    BY <1>4, <2>1, <2>2
  <2>4. handler' = "registered"
    BY <1>1, <1>2, <2>1 DEF DiffInv, LoopInv, IsTable
  <2>5. ASSUME NEW i \in DOMAIN q' PROVE q'[i].what # "INIT"
    <3>1. CASE InitTables
      <4>1. q[1].what = "INIT"
        BY <1>2, <3>1 DEF InitTables
      <4> QED
        BY <1>2, <1>3, <4>1 DEF OrderInv
    <3>2. CASE Update
      <4>1. pub.tablesCurrent
        BY <3>2, DiffInvImplies DEF DifferencesAreExact, Update
      <4> QED
        BY <1>3, <4>1 DEF OrderInv
    <3> QED
      BY <1>8, <3>1, <3>2
  <2>6. ASSUME NEW i \in DOMAIN q', q'[i].what = "NEW_CHANNEL"
        PROVE  q'[i].client \in Clients /\ writer'[q'[i].client].st = "asked"
    BY <1>3, <2>1, <2>6 DEF OrderInv
  <2> QED
    BY <1>5, <1>6, <2>1, <2>2, <2>3, <2>4, <2>5, <2>6 DEF OrderInv
<1> QED
  BY <1>7, <1>8 DEF Publish

\* A message is put at the end of the queue, or none.
LEMMA GrownOrder ==
  ASSUME DiffInv, OrderInv, UNCHANGED <<pub, nextId, clientVars>>,
         handler = "registered" => handler' = "registered",
         \/ q' = q
         \/ \E m : /\ q' = Append(q, m)
                   /\ \/ m.what = "UPDATE" /\ handler = "registered"
                      \/ m.what = "INIT" /\ handler # "registered"
  PROVE  OrderInv'
<1>1. UNCHANGED <<writer, view, pub, nextId>>
  BY DEF clientVars
<1>2. handler' # "registered" => ~ pub'.tablesCurrent
  BY <1>1 DEF OrderInv
<1>3. CASE q' = q
  BY <1>1, <1>2, <1>3 DEF OrderInv
<1>4. ASSUME NEW m, q' = Append(q, m),
             \/ m.what = "UPDATE" /\ handler = "registered"
             \/ m.what = "INIT" /\ handler # "registered"
      PROVE  OrderInv'
  <2>1. q \in Seq(Msg) /\ Len(q) \in Nat /\ DOMAIN q = 1 .. Len(q)
    BY QueueTyped DEF DiffInv, TablesTyped
  <2>2. /\ DOMAIN q' = 1 .. Len(q) + 1 /\ q'[Len(q) + 1] = m
        /\ \A i \in 1 .. Len(q) : q'[i] = q[i]
    <3>1. PICK s, r : s = q /\ r = q'
      OBVIOUS
    <3>2. s \in Seq(Msg) /\ r = Append(s, m)
      BY <1>4, <2>1, <3>1, Zenon
    <3>3. /\ DOMAIN r = 1 .. Len(s) + 1 /\ r[Len(s) + 1] = m
          /\ \A i \in 1 .. Len(s) : r[i] = s[i]
      BY <3>2, AppendIs
    <3> QED
      BY <3>1, <3>3, Zenon
  <2>3. \A i \in DOMAIN q' : (i \in DOMAIN q /\ q'[i] = q[i]) \/ (i = Len(q) + 1 /\ q'[i] = m)
    BY <2>1, <2>2
  <2>4. m.what = "INIT" => /\ ~ pub.tablesCurrent
                           /\ \A i \in DOMAIN q : q[i].what # "INIT"
    BY <1>4 DEF OrderInv, DiffInv, LoopInv, IsTable
  <2>5. \A i \in DOMAIN q' : q'[i].what = "INIT" => ~ pub'.tablesCurrent
    BY <1>1, <2>3, <2>4 DEF OrderInv
  <2>6. \A i, j \in DOMAIN q' : (q'[i].what = "INIT" /\ q'[j].what = "INIT") => i = j
    BY <2>3, <2>4 DEF OrderInv
  <2>7. \A i \in DOMAIN q' : q'[i].what = "NEW_CHANNEL" => i \in DOMAIN q /\ q'[i] = q[i]
    BY <1>4, <2>3
  <2>8. \A i \in DOMAIN q' : q'[i].what = "NEW_CHANNEL" =>
          q'[i].client \in Clients /\ writer'[q'[i].client].st = "asked"
    BY <1>1, <2>7 DEF OrderInv
  <2>9. \A i, j \in DOMAIN q' : (q'[i].what = "NEW_CHANNEL" /\ q'[j].what = "NEW_CHANNEL"
                                   /\ q'[i].client = q'[j].client) => i = j
    BY <2>7 DEF OrderInv
  <2> QED
    BY <1>1, <1>2, <2>5, <2>6, <2>8, <2>9 DEF OrderInv
<1> QED
  BY <1>3, <1>4

LEMMA SubscribeOrder ==
  ASSUME DiffInv, OrderInv, NEW c \in Clients, Subscribe(c),
         NEW T, ClientOK(writer[c], view[c], T)
  PROVE  OrderInv'
<1>1. PICK m : m = [NoTables EXCEPT !.what = "NEW_CHANNEL", !.client = c]
  OBVIOUS
<1>2. m.what = "NEW_CHANNEL" /\ m.client = c /\ m \in Msg
  BY <1>1 DEF NoTables, TableMsg, Msg
<1>3. /\ q' = Append(q, m) /\ UNCHANGED <<pub, nextId, view>> /\ writer[c].st = "none"
      /\ writer' = [writer EXCEPT ![c].st = "asked"]
      /\ (handler' = "registered") <=> (handler = "registered")
  BY <1>1 DEF Subscribe, pubVars
<1>4. q \in Seq(Msg) /\ Len(q) \in Nat /\ DOMAIN q = 1 .. Len(q)
  BY QueueTyped DEF DiffInv, TablesTyped
<1>5. /\ DOMAIN q' = 1 .. Len(q) + 1 /\ q'[Len(q) + 1] = m
      /\ \A i \in 1 .. Len(q) : q'[i] = q[i]
  <2>1. PICK s, r : s = q /\ r = q'
    OBVIOUS
  <2>2. s \in Seq(Msg) /\ r = Append(s, m)
    BY <1>2, <1>3, <1>4, <2>1, Zenon
  <2>3. /\ DOMAIN r = 1 .. Len(s) + 1 /\ r[Len(s) + 1] = m
        /\ \A i \in 1 .. Len(s) : r[i] = s[i]
    BY <2>2, AppendIs
  <2> QED
    BY <2>1, <2>3, Zenon
<1>6. \A i \in DOMAIN q' : (i \in DOMAIN q /\ q'[i] = q[i]) \/ (i = Len(q) + 1 /\ q'[i] = m)
  BY <1>4, <1>5
<1>7. \A i \in DOMAIN q : q[i].what = "NEW_CHANNEL" =>
        q[i].client \in Clients /\ writer[q[i].client].st = "asked" /\ q[i].client # c
  BY <1>3 DEF OrderInv
<1>8. /\ writer = [d \in Clients |-> writer[d]] /\ view = [d \in Clients |-> view[d]]
  BY DEF OrderInv
<1>9. writer'[c].st = "asked" /\ \A d \in Clients : d # c => writer'[d] = writer[d]
  <2>1. writer'[c] = [writer[c] EXCEPT !.st = "asked"]
    BY <1>3, <1>8
  <2>2. "st" \in DOMAIN writer[c]
    BY DEF ClientOK, Shape
  <2> QED
    BY <1>3, <1>8, <2>1, <2>2
<1>10. \A i \in DOMAIN q' : q'[i].what = "NEW_CHANNEL" =>
         q'[i].client \in Clients /\ writer'[q'[i].client].st = "asked"
  BY <1>2, <1>6, <1>7, <1>9
<1>11. \A i, j \in DOMAIN q' : (q'[i].what = "NEW_CHANNEL" /\ q'[j].what = "NEW_CHANNEL"
                                  /\ q'[i].client = q'[j].client) => i = j
  BY <1>2, <1>6, <1>7 DEF OrderInv
<1>12. \A i \in DOMAIN q' : q'[i].what = "INIT" => i \in DOMAIN q /\ q'[i] = q[i]
  BY <1>2, <1>6
<1>13. /\ writer' = [d \in Clients |-> writer'[d]] /\ view' = [d \in Clients |-> view'[d]]
  BY <1>3, <1>8
<1>14. \A i \in DOMAIN q' : q'[i].what = "INIT" => ~ pub'.tablesCurrent
  BY <1>3, <1>12 DEF OrderInv
<1>15. \A i, j \in DOMAIN q' : (q'[i].what = "INIT" /\ q'[j].what = "INIT") => i = j
  BY <1>12 DEF OrderInv
<1>16. /\ pub'.tablesCurrent <=> nextId' > 0
       /\ handler' # "registered" => ~ pub'.tablesCurrent
  BY <1>3 DEF OrderInv
<1> QED
  BY <1>10, <1>11, <1>13, <1>14, <1>15, <1>16 DEF OrderInv

\* A writer thread changes its own state, which is not that of a subscriber
\* that waits for one.
LEMMA ClientOrder ==
  ASSUME OrderInv, NEW c \in Clients, WriteIntro(c) \/ ReadRing(c) \/ SendMsg(c) \/ WriterEnds(c)
  PROVE  OrderInv'
<1>1. UNCHANGED <<pub, nextId, handler, q>> /\ writer[c].st # "asked"
  BY DEF WriteIntro, ReadRing, SendMsg, WriterEnds, execVars, pubVars
<1>2. /\ writer = [d \in Clients |-> writer[d]] /\ view = [d \in Clients |-> view[d]]
  BY DEF OrderInv
<1>3. ASSUME NEW f, NEW g, NEW x, f = [d \in Clients |-> f[d]], g = [f EXCEPT ![c] = x]
      PROVE  g = [d \in Clients |-> g[d]] /\ \A d \in Clients : d # c => g[d] = f[d]
  BY <1>3
<1>4. \E x : writer' = [writer EXCEPT ![c] = x]
  <2>1. CASE WriteIntro(c)
    BY <1>2, <2>1 DEF WriteIntro
  <2>2. CASE ReadRing(c)
    BY <1>2, <2>2 DEF ReadRing
  <2>3. CASE SendMsg(c)
    BY <1>2, <2>3 DEF SendMsg
  <2>4. CASE WriterEnds(c)
    BY <1>2, <2>4 DEF WriterEnds
  <2> QED
    BY <2>1, <2>2, <2>3, <2>4
<1>5. view' = view \/ \E y : view' = [view EXCEPT ![c] = y]
  <2>1. CASE ReadRing(c)
    BY <1>2, <2>1 DEF ReadRing
  <2>2. CASE WriteIntro(c) \/ SendMsg(c) \/ WriterEnds(c)
    BY <1>2, <2>2 DEF WriteIntro, SendMsg, WriterEnds
  <2> QED
    BY <2>1, <2>2
<1>6. /\ writer' = [d \in Clients |-> writer'[d]]
      /\ \A d \in Clients : d # c => writer'[d] = writer[d]
  BY <1>2, <1>3, <1>4
<1>7. view' = [d \in Clients |-> view'[d]]
  BY <1>2, <1>3, <1>5
<1>8. \A i \in DOMAIN q : q[i].what = "NEW_CHANNEL" =>
        q[i].client \in Clients /\ writer'[q[i].client].st = "asked"
  BY <1>1, <1>6 DEF OrderInv
<1> QED
  BY <1>1, <1>6, <1>7, <1>8 DEF OrderInv

LEMMA LoopTopic ==
  ASSUME DiffInv, TopicInv,
         (\E s \in States : Step(s)) \/ Idle \/ Dangling \/ Tick \/ Register
  PROVE  TopicInv'
<1>1. UNCHANGED pubVars /\ UNCHANGED clientVars
  BY DEF Step, Idle, Dangling, Tick, Register
<1>2. PICK T \in [Nat -> Pub] : ViewInv(T)
  BY DEF TopicInv
<1>3. ViewInv(T)'
  <2>1. Slots' = Slots /\ nextId' = nextId /\ pub' = pub /\ writer' = writer /\ view' = view
    BY <1>1 DEF Slots, pubVars, clientVars
  <2> QED
    BY <1>2, <2>1 DEF ViewInv
<1>4. ASSUME NEW active, NEW cs, NEW ct, NEW tm, NEW fresh,
             RunHandlers(active, cs, ct, tm, fresh) \/ NothingPushed(fresh)
      PROVE  q' = q \/ \E m : q' = Append(q, m) /\ m.what = "UPDATE" /\ handler = "registered"
  <2>1. TableMsg("UPDATE", sinceLast \cup fresh, active, cs, ct, tm, lost \ fresh).what = "UPDATE"
    BY DEF TableMsg
  <2> QED
    BY <1>4, <2>1 DEF RunHandlers, Pushed, NothingPushed
<1>5. /\ handler = "registered" => handler' = "registered"
      /\ \/ q' = q
         \/ \E m : /\ q' = Append(q, m)
                   /\ \/ m.what = "UPDATE" /\ handler = "registered"
                      \/ m.what = "INIT" /\ handler # "registered"
  <2>1. ASSUME NEW s \in States, Step(s)
        PROVE  /\ handler' = handler
               /\ \E active, cs, ct, tm, fresh :
                    RunHandlers(active, cs, ct, tm, fresh) \/ NothingPushed(fresh)
    BY <2>1 DEF Step
  <2>2. CASE Dangling
    BY <1>4, <2>2 DEF Dangling
  <2>3. CASE Tick \/ Idle
    BY <2>3 DEF Tick, Idle
  <2>4. CASE Register
    <3>1. TableMsg("INIT", {}, current, covS, covT, times, {}).what = "INIT"
      BY DEF TableMsg
    <3> QED
      BY <2>4, <3>1 DEF Register
  <2> QED
    BY <1>4, <2>1, <2>2, <2>3, <2>4
<1>6. OrderInv'
  BY <1>1, <1>5, GrownOrder DEF TopicInv, pubVars
<1> QED
  BY <1>3, <1>6 DEF TopicInv

LEMMA TopicInit ==
  ASSUME RingHasRoom
  PROVE  Init => TopicInv
<1> SUFFICES ASSUME Init PROVE TopicInv
  OBVIOUS
<1>1. /\ q = <<>> /\ nextId = 0 /\ ~ pub.tablesCurrent
      /\ writer = [c \in Clients |-> [st |-> "none", unseen |-> 0, initRead |-> FALSE,
                                      msgs |-> <<>>]]
      /\ view = [c \in Clients |-> [inits |-> 0, lastId |-> -1, gap |-> FALSE,
                   ordered |-> TRUE, covered |-> {}, cov |-> Sm2Cov(covT),
                   times |-> NoTables.times, cats |-> [r \in TopLevelSms |-> {}]]]
  BY DEF Init
<1>2. OrderInv
  <2>1. DOMAIN q = {}
    BY <1>1
  <2> QED
    BY <1>1, <2>1 DEF OrderInv
<1>3. pub \in Pub
  BY DiffInit DEF DiffInv, TablesTyped
<1>4. PICK T \in [Nat -> Pub] : TRUE
  <2>1. [i \in Nat |-> pub] \in [Nat -> Pub]
    BY <1>3
  <2> QED
    BY <2>1
<1>5. Queued(Slots, nextId, T)
  <2>1. RingInv
    BY RingInit
  <2>2. Held = 0
    <3>1. /\ ringStart = 0 /\ ringEnd = 0
      BY DEF Init
    <3>2. Held = IF ringStart <= ringEnd THEN ringEnd - ringStart
                 ELSE ringEnd - ringStart + ChannelSize
      BY <2>1, HeldIs DEF RingInv
    <3> QED
      BY <3>1, <3>2
  <2>3. Len(Slots) = 0 /\ \E S : Slots \in Seq(S)
    BY <2>1, <2>2, SlotsAre
  <2>4. \A i \in 1 .. Len(Slots) : FALSE
    BY <2>3
  <2> QED
    BY <2>3, <2>4, QueuedBy
<1>6. ASSUME NEW c \in Clients
      PROVE  writer[c].unseen <= nextId /\ ClientOK(writer[c], view[c], T)
  <2>1. PICK w, v : w = writer[c] /\ v = view[c]
    OBVIOUS
  <2>2. w = [st |-> "none", unseen |-> 0, initRead |-> FALSE, msgs |-> <<>>]
    BY <1>1, <2>1
  <2>3. v = [inits |-> 0, lastId |-> -1, gap |-> FALSE, ordered |-> TRUE, covered |-> {},
             cov |-> Sm2Cov(covT), times |-> NoTables.times,
             cats |-> [r \in TopLevelSms |-> {}]]
    BY <1>1, <2>1
  <2>4. w.st = "none" /\ w.unseen = 0 /\ w.initRead = FALSE /\ w.msgs = <<>>
    BY <2>2
  <2>5. Queued(w.msgs, w.unseen, T)
    <3>1. w.msgs \in Seq({}) /\ Len(w.msgs) = 0
      BY <2>4
    <3>2. \A i \in 1 .. Len(w.msgs) : FALSE
      BY <3>1
    <3> QED
      BY <3>1, <3>2, QueuedBy
  <2>6. ~ Pending(w)
    BY <2>4 DEF Pending
  <2>7. v.inits = 0 /\ v.lastId = -1 /\ v.gap = FALSE /\ v.ordered = TRUE
    BY <2>3
  <2>8. Len(w.msgs) = 0
    BY <2>4
  <2>9. Numbers(w, v)
    <3>1. /\ v.lastId \in Int /\ v.lastId < w.unseen - Len(w.msgs)
          /\ v.inits \in {0, 1} /\ v.inits = 0 /\ ~ (v.inits > 0)
      BY <2>4, <2>7, <2>8
    <3>2. v.ordered /\ v.gap \in BOOLEAN /\ v.ordered \in BOOLEAN /\ ~ w.initRead
      BY <2>4, <2>7, Zenon
    <3> QED
      BY <2>6, <3>1, <3>2, Zenon DEF Numbers
  <2>10. Told(w, v, T)
    BY <2>4 DEF Told
  <2>11. Shape(w, v)
    <3>1. /\ DOMAIN v.cov = TopLevelSms /\ DOMAIN v.times = Stamps
          /\ DOMAIN v.cats = TopLevelSms
      BY <2>3 DEF Sm2Cov, NoTables, TableMsg
    <3>2. w = [st |-> w.st, unseen |-> w.unseen, initRead |-> w.initRead, msgs |-> w.msgs]
      BY <2>2
    <3>3. v = [inits |-> v.inits, lastId |-> v.lastId, gap |-> v.gap, ordered |-> v.ordered,
               covered |-> v.covered, cov |-> v.cov, times |-> v.times, cats |-> v.cats]
      BY <2>3
    <3> QED
      BY <3>1, <3>2, <3>3 DEF Shape
  <2>12. ClientOK(w, v, T)
    <3>1. w.unseen \in Nat
      BY <2>4
    <3>2. w.initRead \in BOOLEAN /\ w.msgs = <<>>
      BY <2>4, Zenon
    <3> QED
      BY <2>5, <2>9, <2>10, <2>11, <3>1, <3>2, Zenon DEF ClientOK
  <2>13. w.unseen <= nextId
    BY <1>1, <2>4
  <2> QED
    BY <2>1, <2>12, <2>13, Zenon
<1>7. ViewInv(T)
  <2>1. ~ (nextId > 0)
    BY <1>1
  <2> QED
    BY <1>5, <1>6, <2>1, Zenon DEF ViewInv
<1> QED
  BY <1>2, <1>7 DEF TopicInv

LEMMA TopicStep ==
  ASSUME MachinesAreClosed, RingHasRoom
  PROVE  DiffInv /\ RingInv /\ TopicInv /\ [Next]_vars => TopicInv'
<1> SUFFICES ASSUME DiffInv, RingInv, TopicInv, [Next]_vars PROVE TopicInv'
  OBVIOUS
<1>1. PICK T \in [Nat -> Pub] : ViewInv(T)
  BY DEF TopicInv
<1>2. OrderInv
  BY DEF TopicInv
<1>3. CASE (\E s \in States : Step(s)) \/ Idle \/ Dangling \/ Tick \/ Register
  BY <1>3, LoopTopic
<1>4. CASE Publish
  <2>1. \E V \in [Nat -> Pub] : ViewInv(V)'
    BY <1>1, <1>2, <1>4, PublishView
  <2>2. OrderInv'
    BY <1>2, <1>4, PublishOrder
  <2> QED
    BY <2>1, <2>2 DEF TopicInv
<1>5. ASSUME NEW c \in Clients, ReadRing(c) PROVE TopicInv'
  <2>1. ViewInv(T)'
    BY <1>1, <1>2, <1>5, ReadView
  <2>2. OrderInv'
    BY <1>2, <1>5, ClientOrder
  <2> QED
    BY <2>1, <2>2 DEF TopicInv
<1>6. ASSUME NEW c \in Clients, WriteIntro(c) \/ SendMsg(c) \/ WriterEnds(c) PROVE TopicInv'
  <2>1. ViewInv(T)'
    BY <1>1, <1>2, <1>6, ClientView
  <2>2. OrderInv'
    BY <1>2, <1>6, ClientOrder
  <2> QED
    BY <2>1, <2>2 DEF TopicInv
<1>7. ASSUME NEW c \in Clients, Subscribe(c) PROVE TopicInv'
  <2>1. ViewInv(T)'
    BY <1>1, <1>2, <1>7, ClientView
  <2>2. OrderInv'
    BY <1>1, <1>2, <1>7, SubscribeOrder DEF ViewInv
  <2> QED
    BY <2>1, <2>2 DEF TopicInv
<1>8. CASE UNCHANGED vars
  <2>1. /\ UNCHANGED <<pub, ring, ringStart, ringEnd, nextId, writer, view, q, handler>>
    BY <1>8 DEF vars, execVars, pubVars, clientVars
  <2>2. Slots' = Slots
    BY <2>1 DEF Slots
  <2>3. ViewInv(T)'
    BY <1>1, <2>1, <2>2 DEF ViewInv
  <2>4. OrderInv'
    BY <1>2, <2>1 DEF OrderInv
  <2> QED
    BY <2>3, <2>4 DEF TopicInv
<1> QED
  BY <1>3, <1>4, <1>5, <1>6, <1>7, <1>8 DEF Next

LEMMA TopicInvImplies ==
  ASSUME TopicInv
  PROVE  GapFreeViewIsCurrent /\ InitComesFirstAndOnce
<1>1. PICK T \in [Nat -> Pub] : ViewInv(T)
  BY DEF TopicInv
<1>2. \A c \in Clients : ClientOK(writer[c], view[c], T)
  BY <1>1 DEF ViewInv
<1>3. InitComesFirstAndOnce
  BY <1>2 DEF ClientOK, Numbers, InitComesFirstAndOnce
<1>4. ASSUME NEW c \in Clients, writer[c].st = "wait", writer[c].unseen = nextId, nextId > 0,
             ~ view[c].gap
      PROVE  Knows(view[c], pub)
  <2>1. PICK w, v : w = writer[c] /\ v = view[c]
    OBVIOUS
  <2>2. w.msgs = <<>> /\ w.unseen \in Nat /\ Told(w, v, T)
    BY <1>2, <1>4, <2>1 DEF ClientOK
  <2>3. ~ Pending(w) /\ Len(w.msgs) = 0
    BY <2>2 DEF Pending
  <2>4. Knows(v, T[w.unseen - 0 - 1])
    BY <1>4, <2>1, <2>2, <2>3 DEF Told
  <2>5. w.unseen - 0 - 1 = nextId - 1
    BY <1>4, <2>1, <2>2
  <2>6. Same(T[nextId - 1], pub)
    BY <1>1, <1>4 DEF ViewInv
  <2> QED
    BY <2>1, <2>4, <2>5, <2>6 DEF Knows, Same
<1>5. GapFreeViewIsCurrent
  BY <1>4 DEF GapFreeViewIsCurrent, Knows
<1> QED
  BY <1>3, <1>5

\* In every behaviour a subscriber that was never overtaken and has read
\* everything knows exactly what the publisher thread knows (of the times,
\* those that no message has skipped for good), although it got one init
\* message and then only differences, the publisher makes a new init message
\* for every later subscriber, the ring wraps around, and the messages are sent
\* one by one outside of the channel mutex.
THEOREM ViewsAreCurrent ==
  ASSUME MachinesAreClosed, RingHasRoom
  PROVE  Spec => []GapFreeViewIsCurrent
<1>1. Init => DiffInv /\ RingInv /\ FlagsInv /\ TopicInv
  BY DiffInit, RingInit, TopicInit
<1>2. DiffInv /\ RingInv /\ FlagsInv /\ TopicInv /\ [Next]_vars
        => (DiffInv /\ RingInv /\ FlagsInv /\ TopicInv)'
  BY DiffStep, RingStep, TopicStep
<1>3. TopicInv => GapFreeViewIsCurrent
  BY TopicInvImplies
<1> QED
  BY <1>1, <1>2, <1>3, PTL DEF Spec

\* In every behaviour the numbers of the messages a subscriber gets ascend,
\* it gets at most one init message, and unless it was overtaken this comes
\* before every update, whatever other subscribers ask for.
THEOREM InitIsFirst ==
  ASSUME MachinesAreClosed, RingHasRoom
  PROVE  Spec => []InitComesFirstAndOnce
<1>1. Init => DiffInv /\ RingInv /\ FlagsInv /\ TopicInv
  BY DiffInit, RingInit, TopicInit
<1>2. DiffInv /\ RingInv /\ FlagsInv /\ TopicInv /\ [Next]_vars
        => (DiffInv /\ RingInv /\ FlagsInv /\ TopicInv)'
  BY DiffStep, RingStep, TopicStep
<1>3. TopicInv => InitComesFirstAndOnce
  BY TopicInvImplies
<1> QED
  BY <1>1, <1>2, <1>3, PTL DEF Spec

\* In every behaviour the ratios of the channel are those of make_report as
\* soon as the publisher thread has the loop's table: the loops that find the
\* total, the covered ones and the report's two lists filter alike.
LEMMA ReportsAgree ==
  ASSUME MachinesAreClosed
  PROVE  Spec => []ReportAgrees
<1>0. ASSUME NEW t \in DOMAIN Transitions
      PROVE  Reported(t) <=> Counted(t)
  BY DEF Reported, Counted, Start, Excluded, IsLoopNotCovered
<1>1. ReportAgrees
  <2> SUFFICES ASSUME pub.covT = covT, NEW r \in TopLevelSms
               PROVE  Sm2Cov(covT)[r] =
                        Ratio(Cardinality(ReportOfTransitions(r).covered),
                              Cardinality(ReportOfTransitions(r).covered
                                            \cup ReportOfTransitions(r).missing))
    BY DEF ReportAgrees
  <2> DEFINE mine == {t \in DOMAIN Transitions :
                        Counted(t) /\ RootSm(Transitions[t].from) = r}
             hit  == {t \in mine : covT[t] > 0}
  <2>1. /\ ReportOfTransitions(r).covered = hit
        /\ ReportOfTransitions(r).missing = mine \ hit
    BY <1>0 DEF ReportOfTransitions
  <2>2. hit \cup (mine \ hit) = mine
    OBVIOUS
  <2>3. hit = {t \in DOMAIN Transitions :
                 /\ Counted(t) /\ covT[t] > 0 /\ RootSm(Transitions[t].from) = r}
    OBVIOUS
  <2>4. /\ TransitionCoverage(covT, r) = Cardinality(hit)
        /\ TotalOfTransitions(r) = Cardinality(mine)
    BY <2>3 DEF TransitionCoverage, TotalOfTransitions
  <2>5. Sm2Cov(covT)[r] = Ratio(TransitionCoverage(covT, r), TotalOfTransitions(r))
    BY DEF Sm2Cov
  <2> HIDE DEF hit, mine
  <2> QED
    BY <2>1, <2>2, <2>4, <2>5
<1> QED
  BY <1>1, PTL
=============================================================================
