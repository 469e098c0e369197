------------------------- MODULE TimedEventsProofs -------------------------
(***************************************************************************)
(* Proofs about TimedEvents, for tables, descriptors, names and programs   *)
(* of every size.                                                          *)
(***************************************************************************)
EXTENDS TimedEvents, TLAPS, FiniteSetTheorems, NaturalsInduction, WellFoundedInduction

\* The bounds and switches, one by one.
LEMMA Bounds ==
  /\ TimerSlots \in Nat /\ Fds \in Nat /\ MaxQueue \in Nat
  /\ MaxStarts \in Nat /\ MaxStops \in Nat /\ MaxFired \in Nat /\ MaxStatements \in Nat
  /\ RunningAsNode \in BOOLEAN /\ Covering \in BOOLEAN
BY BoundsAssumption, ProgramAssumption

\* Every set of naturals has a least member (the order is well founded).
LEMMA NatHasLeast ==
  ASSUME NEW S \in SUBSET Nat, S # {}
  PROVE  \E m \in S : \A k \in S : m <= k
<1> DEFINE R == OpToRel(<, Nat)
<1>1. IsWellFoundedOn(R, Nat)
  BY NatLessThanWellFounded
<1>2. \A x, y \in Nat : y < x => <<y, x>> \in R
  BY DEF OpToRel
<1> HIDE DEF R
<1>3. PICK m \in S : \A k \in S : ~(<<k, m>> \in R)
  BY <1>1, WFMin
<1>4. \A k \in S : ~(k < m)
  BY <1>2, <1>3
<1> QED
  BY <1>3, <1>4

\* What Min returns.
LEMMA MinIsLeast ==
  ASSUME NEW S \in SUBSET Nat, S # {}
  PROVE  Min(S) \in S /\ \A k \in S : Min(S) <= k
BY NatHasLeast DEF Min

\* The descriptor a thread looks at is one of those it watches.
LEMMA FirstIsWatched ==
  ASSUME NEW watch \in SUBSET Watch, watch # {}
  PROVE  First(watch) \in watch
<1> DEFINE S == {w.slot : w \in watch}
<1>1. S \in SUBSET Nat /\ S # {}
  BY Bounds DEF Watch, Slots
<1>2. PICK m \in S : \A k \in S : m <= k
  BY <1>1, NatHasLeast
<1>3. PICK w \in watch : w.slot = m
  BY <1>2
<1>4. \A v \in watch : w.slot <= v.slot
  BY <1>2, <1>3
<1> QED
  BY <1>3, <1>4 DEF First

LEMMA NoTableIsEmpty == DOMAIN NoTable = {}
BY DEF NoTable

LEMMA NoTableIsNone == NoTable \notin [Slots -> Entry]
<1>1. 1 \in Slots
  BY BoundsAssumption DEF Slots
<1> QED
  BY <1>1, NoTableIsEmpty

LEMMA WatchedSlots ==
  ASSUME NEW th \in ThreadState, NEW w \in th.watch
  PROVE  w.slot \in Slots /\ w.fd \in 1 .. Fds
BY DEF ThreadState, Watch

LEMMA LiveSlotsAreFew ==
  ASSUME TypeOK
  PROVE  /\ LiveSlots \subseteq Slots
         /\ IsFiniteSet(LiveSlots)
         /\ Cardinality(LiveSlots) \in Nat
<1>1. LiveSlots \subseteq Slots
  BY NoTableIsEmpty DEF LiveSlots, TypeOK
<1>2. IsFiniteSet(Slots)
  BY FS_Interval, Bounds DEF Slots
<1> QED
  BY <1>1, <1>2, FS_Subset, FS_CardinalityType

LEMMA InitEstablishes == Init => TimerInv
<1> SUFFICES ASSUME Init PROVE TimerInv
  OBVIOUS
<1>1. TypeOK
  <2>1. fd \in [1 .. Fds -> Descriptor]
    BY Bounds DEF Init, Closed, Descriptor
  <2>2. threads \in Seq(ThreadState) /\ queue \in Seq(Events)
    BY DEF Init
  <2>3. starts \in 0 .. MaxStarts /\ stops \in 0 .. MaxStops
        /\ fired \in 0 .. MaxFired /\ statements \in 0 .. MaxStatements /\ active \in Nat
    BY Bounds DEF Init
  <2>4. table = NoTable /\ pc = "script" /\ request = NoRequest /\ delivered = {} /\ halted = "no"
    BY DEF Init
  <2>5. apiThread \in BOOLEAN /\ pending \in BOOLEAN /\ dangling \in BOOLEAN
    BY DEF Init
  <2> QED
    BY <2>1, <2>2, <2>3, <2>4, <2>5 DEF TypeOK
<1>2. CountCoversLive
  <2>1. LiveSlots = {}
    BY NoTableIsEmpty DEF Init, LiveSlots
  <2> QED
    BY <2>1, FS_EmptySet DEF Init, CountCoversLive
<1>3. ThreadsFollowTable
  BY DEF Init, ThreadsFollowTable
<1>4. EntriesOwnDescriptors /\ WatchesStayValid
  BY NoTableIsEmpty DEF Init, EntriesOwnDescriptors, WatchesStayValid
<1> QED
  BY <1>1, <1>2, <1>3, <1>4 DEF TimerInv

LEMMA SweptEntryFacts ==
  ASSUME NEW e \in Entry
  PROVE  /\ SweptEntry(e) \in Entry
         /\ SweptEntry(e).kill = e.kill
         /\ SweptEntry(e).gen = e.gen
         /\ SweptEntry(e).name = e.name
         /\ SweptEntry(e).inUse <=> LiveEntry(e)
         /\ LiveEntry(e) => SweptEntry(e).fd = e.fd
<1>1. CASE e.kill /\ e.inUse
  <2>1. SweptEntry(e) = [inUse |-> FALSE, kill |-> e.kill, periodic |-> e.periodic,
                         name |-> e.name, fd |-> 0, gen |-> e.gen]
    BY <1>1 DEF SweptEntry, Entry
  <2> QED
    BY <1>1, <2>1, Bounds DEF LiveEntry, Entry
<1>2. CASE ~(e.kill /\ e.inUse)
  BY <1>2 DEF SweptEntry, LiveEntry, Entry
<1> QED
  BY <1>1, <1>2

LEMMA ScanStep ==
  ASSUME TimerInv, NEW t \in Threads, Scan(t)
  PROVE  TimerInv'
<1> USE DEF TimerInv
<1>1. PICK n \in Nat : n = Len(threads) /\ DOMAIN threads = 1 .. n /\ t \in 1 .. n
  BY DEF TypeOK, Scan
<1>2. table \in [Slots -> Entry] /\ DOMAIN table = Slots
  BY <1>1 DEF ThreadsFollowTable, TypeOK
<1>3. \A s \in Slots : table[s] \in Entry
  BY <1>2
<1>4. table' = Sweep
  BY DEF Scan
<1>5. /\ table' \in [Slots -> Entry]
      /\ \A s \in Slots :
           /\ table'[s].kill = table[s].kill
           /\ table'[s].gen = table[s].gen
           /\ table'[s].inUse <=> LiveEntry(table[s])
           /\ LiveEntry(table[s]) => table'[s].fd = table[s].fd
  BY <1>2, <1>3, <1>4, SweptEntryFacts DEF Sweep
<1>6. Watched \in SUBSET Watch
  BY <1>2, <1>3 DEF EntriesOwnDescriptors, Watched, Watch, LiveSlots, LiveEntry, Entry
<1>7. LiveSlots' = LiveSlots
  BY <1>2, <1>5 DEF LiveSlots, LiveEntry
<1>8. [pc |-> "poll", watch |-> Watched, gen |-> 0] \in ThreadState
  BY <1>6, Bounds DEF ThreadState
<1>9. /\ threads' \in Seq(ThreadState) /\ Len(threads') = n
      /\ \A u \in 1 .. n : u # t => threads'[u] = threads[u]
      /\ threads'[t] = threads[t] \/ threads'[t] = [pc |-> "poll", watch |-> Watched, gen |-> 0]
  BY <1>1, <1>8 DEF TypeOK, Scan
<1>10. fd' \in [1 .. Fds -> Descriptor]
  BY Bounds DEF TypeOK, Scan, Closed, Descriptor
<1>11. TypeOK'
  BY <1>5, <1>9, <1>10, LiveSlotsAreFew DEF TypeOK, Scan, mainVars, budget
<1>12. CountCoversLive'
  BY <1>7, LiveSlotsAreFew DEF Scan, CountCoversLive
<1>13. ThreadsFollowTable'
  <2>1. threads # <<>> /\ threads' # <<>>
    BY <1>1, <1>9
  <2>2. table # NoTable /\ table' # NoTable
    BY <1>2, <1>5, NoTableIsNone
  <2> QED
    BY <1>1, <1>9, <2>1, <2>2 DEF ThreadsFollowTable, Scan
<1>14. EntriesOwnDescriptors'
  <2> SUFFICES ASSUME NEW s \in Slots, table'[s].inUse
               PROVE  /\ table'[s].fd # 0
                      /\ fd'[table'[s].fd].st # "closed"
                      /\ fd'[table'[s].fd].gen = table'[s].gen
                      /\ \A r \in Slots :
                           table'[r].inUse /\ table'[r].fd = table'[s].fd => r = s
    BY <1>5 DEF EntriesOwnDescriptors
  <2>1. LiveEntry(table[s]) /\ table'[s].fd = table[s].fd
    BY <1>5
  <2>2. table[s].fd \notin SweptFds /\ table[s].fd \in 1 .. Fds
    BY <1>2, <1>3, <2>1 DEF EntriesOwnDescriptors, SweptFds, LiveEntry, Entry
  <2>3. fd'[table[s].fd] = fd[table[s].fd]
    BY <2>2 DEF Scan, TypeOK
  <2> QED
    BY <1>2, <1>5, <2>1, <2>3 DEF EntriesOwnDescriptors, LiveEntry
<1>15. WatchesStayValid'
  <2>1. ASSUME NEW u \in 1 .. n, u # t
        PROVE  WatchIsValid(u)'
    <3>1. n # 1 /\ threads'[u] = threads[u] /\ WatchIsValid(u)
      BY <1>1, <1>9, <2>1 DEF WatchesStayValid
    <3>2. \A w \in threads[u].watch : w.slot \in Slots
      <4>1. threads[u] \in ThreadState
        BY <1>1 DEF TypeOK
      <4> QED
        BY <4>1, WatchedSlots
    <3> QED
      BY <1>3, <1>5, <1>9, <3>1, <3>2 DEF WatchIsValid, LiveEntry, Entry
  <2>2. ASSUME threads'[t] = threads[t]
        PROVE  WatchIsValid(t)'
    <3>1. threads[t].watch = {} /\ threads[t].pc = "scan"
      BY <1>1 DEF Scan, WatchesStayValid, WatchIsValid
    <3>2. threads'[t].watch = {} /\ threads'[t].pc = "scan"
      BY <2>2, <3>1
    <3> QED
      BY <3>2 DEF WatchIsValid
  <2>3. ASSUME threads'[t] = [pc |-> "poll", watch |-> Watched, gen |-> 0]
        PROVE  WatchIsValid(t)'
    <3>1. \A w \in Watched : w.slot \in LiveSlots /\ w.fd = table[w.slot].fd
      BY DEF Watched
    <3>2. \A w \in Watched : table'[w.slot].inUse /\ table'[w.slot].fd = w.fd
      BY <1>2, <1>5, <3>1 DEF LiveSlots
    <3>3. threads'[t].watch = Watched /\ threads'[t].pc = "poll"
      BY <2>3
    <3> QED
      BY <3>2, <3>3 DEF WatchIsValid
  <2> QED
    BY <1>9, <2>1, <2>2, <2>3 DEF WatchesStayValid
<1> QED
  BY <1>11, <1>12, <1>13, <1>14, <1>15

\* A thread's new state after an action of its own that leaves the table, but
\* for marks, and the number of threads alone: it watches what it watched.
LEMMA ThreadStep ==
  ASSUME TimerInv, TypeOK', NEW t \in DOMAIN threads, NEW th \in ThreadState,
         threads' = [threads EXCEPT ![t] = th],
         th.watch \subseteq threads[t].watch,
         th.pc \in {"read", "fire"} => th.watch # {},
         th.pc = "scan" => th.watch = {},
         th.pc = "fire" /\ Len(threads) = 1 => th.gen = table[First(th.watch).slot].gen,
         DOMAIN table' = DOMAIN table,
         \A s \in DOMAIN table :
           /\ table'[s].inUse = table[s].inUse
           /\ table'[s].fd = table[s].fd
           /\ table'[s].gen = table[s].gen
           /\ table[s].kill => table'[s].kill
  PROVE  WatchesStayValid' /\ Len(threads') = Len(threads) /\ DOMAIN threads' = DOMAIN threads
<1>1. /\ Len(threads') = Len(threads) /\ DOMAIN threads' = DOMAIN threads
      /\ threads'[t] = th
      /\ \A u \in DOMAIN threads : u # t => threads'[u] = threads[u]
  BY DEF TimerInv, TypeOK
<1>2. table \in [Slots -> Entry]
  <2>1. threads # <<>>
    OBVIOUS
  <2> QED
    BY <2>1 DEF TimerInv, ThreadsFollowTable, TypeOK
<1>3. \A u \in DOMAIN threads : \A w \in threads[u].watch : w.slot \in Slots
  <2>1. \A u \in DOMAIN threads : threads[u] \in ThreadState
    BY DEF TimerInv, TypeOK
  <2> QED
    BY <2>1, WatchedSlots
<1>4. ASSUME NEW u \in DOMAIN threads
      PROVE  WatchIsValid(u)'
  <2>1. WatchIsValid(u)
    BY DEF TimerInv, WatchesStayValid
  <2>2. CASE u # t
    <3>1. threads'[u] = threads[u]
      BY <1>1, <2>2
    <3>2. \A w \in threads[u].watch :
            /\ table'[w.slot].inUse \/ table'[w.slot].kill
            /\ Len(threads) = 1 => table'[w.slot].inUse /\ table'[w.slot].fd = w.fd
      BY <1>2, <1>3, <2>1 DEF WatchIsValid
    <3>3. Len(threads) # 1
      BY <2>2 DEF TimerInv, TypeOK
    <3> QED
      BY <1>1, <2>1, <3>1, <3>2, <3>3 DEF WatchIsValid
  <2>3. CASE u = t
    <3>1. threads'[u] = th
      BY <1>1, <2>3
    <3>2. \A w \in th.watch :
            /\ table'[w.slot].inUse \/ table'[w.slot].kill
            /\ Len(threads) = 1 => table'[w.slot].inUse /\ table'[w.slot].fd = w.fd
      BY <1>2, <1>3, <2>1, <2>3 DEF WatchIsValid
    <3>3. th.watch # {} => First(th.watch).slot \in Slots
      BY FirstIsWatched, WatchedSlots DEF ThreadState
    <3> QED
      BY <1>1, <1>2, <3>1, <3>2, <3>3 DEF WatchIsValid
  <2> QED
    BY <2>2, <2>3
<1> QED
  BY <1>1, <1>4 DEF WatchesStayValid

\* What a thread goes on with once it is done with a descriptor.
LEMMA AdvancedFacts ==
  ASSUME NEW th \in ThreadState
  PROVE  /\ Advanced(th) \in ThreadState
         /\ Advanced(th).watch \subseteq th.watch
         /\ Advanced(th).pc \in {"read", "scan"}
         /\ Advanced(th).pc = "read" => Advanced(th).watch # {}
         /\ Advanced(th).pc = "scan" => Advanced(th).watch = {}
<1> DEFINE rest == th.watch \ {First(th.watch)}
<1>1. Advanced(th) = IF rest = {} THEN Scanning ELSE [pc |-> "read", watch |-> rest, gen |-> 0]
  BY DEF Advanced
<1>2. rest \in SUBSET Watch /\ rest \subseteq th.watch
  BY DEF ThreadState
<1> HIDE DEF rest
<1> QED
  BY <1>1, <1>2, Bounds DEF Scanning, ThreadState

LEMMA PollStep ==
  ASSUME TimerInv, NEW t \in Threads, Poll(t)
  PROVE  TimerInv'
<1> USE DEF TimerInv
<1> DEFINE ready == {w \in threads[t].watch : fd[w.fd].st = "expired"}
           th == IF ready = {} THEN Scanning ELSE [pc |-> "read", watch |-> ready, gen |-> 0]
<1>1. t \in DOMAIN threads /\ threads' = [threads EXCEPT ![t] = th]
  BY DEF Poll
<1>2. threads[t] \in ThreadState
  BY <1>1 DEF TypeOK
<1>3. ready \in SUBSET Watch /\ ready \subseteq threads[t].watch
  BY <1>2 DEF ThreadState
<1> HIDE DEF ready
<1>4. /\ th \in ThreadState /\ th.watch \subseteq threads[t].watch
      /\ th.pc \in {"read", "fire"} => th.watch # {}
      /\ th.pc = "scan" => th.watch = {}
      /\ th.pc # "fire"
  BY <1>3, Bounds DEF ThreadState, Scanning
<1> HIDE DEF th
<1>5. threads' \in Seq(ThreadState) /\ threads' # <<>> /\ threads # <<>>
  BY <1>1, <1>4 DEF TypeOK
<1>6. UNCHANGED <<timerVars, queue, mainVars, budget, delivered, halted>>
  BY DEF Poll
<1>7. TypeOK'
  BY <1>5, <1>6 DEF TypeOK, timerVars, mainVars, budget
<1>8. WatchesStayValid' /\ Len(threads') = Len(threads)
  BY <1>1, <1>4, <1>6, <1>7, ThreadStep DEF timerVars
<1>9. CountCoversLive' /\ EntriesOwnDescriptors' /\ ThreadsFollowTable'
  BY <1>5, <1>6, <1>8
     DEF timerVars, CountCoversLive, LiveSlots, EntriesOwnDescriptors, ThreadsFollowTable
<1> QED
  BY <1>7, <1>8, <1>9

LEMMA FewerLive ==
  ASSUME TypeOK, CountCoversLive, LiveSlots' \subseteq LiveSlots, active' = active
  PROVE  CountCoversLive'
<1>1. IsFiniteSet(LiveSlots) /\ IsFiniteSet(LiveSlots')
  BY LiveSlotsAreFew, FS_Subset
<1>2. Cardinality(LiveSlots') <= Cardinality(LiveSlots)
  BY <1>1, FS_Subset
<1>3. Cardinality(LiveSlots') \in Nat /\ Cardinality(LiveSlots) \in Nat
  BY <1>1, FS_CardinalityType
<1> QED
  BY <1>2, <1>3 DEF TypeOK, CountCoversLive

LEMMA ReadStep ==
  ASSUME TimerInv, NEW t \in Threads, Read(t)
  PROVE  TimerInv'
<1> USE DEF TimerInv
<1> DEFINE w == First(threads[t].watch)
           f == w.fd
<1>1. t \in DOMAIN threads /\ threads[t] \in ThreadState /\ threads # <<>>
  BY DEF Read, TypeOK
<1>2. WatchIsValid(t)
  BY <1>1 DEF WatchesStayValid
<1>3. w \in threads[t].watch
  BY <1>1, <1>2, FirstIsWatched DEF WatchIsValid, ThreadState, Read
<1>4. w.slot \in Slots /\ f \in 1 .. Fds
  BY <1>1, <1>3, WatchedSlots
<1>5. table \in [Slots -> Entry]
  BY <1>1 DEF ThreadsFollowTable, TypeOK
<1>6. fd[f] \in Descriptor
  BY <1>4 DEF TypeOK
<1> HIDE DEF w
<1>7. UNCHANGED <<table, active, apiThread, queue, mainVars, budget, delivered>>
  BY DEF Read
<1>8. CountCoversLive'
  BY <1>7, FewerLive DEF LiveSlots
<1>9. ASSUME fd[f].st = "expired",
             fd' = [fd EXCEPT ![f].st = IF fd[f].periodic THEN "armed" ELSE "idle"],
             threads' = [threads EXCEPT ![t].pc = "fire", ![t].gen = fd[f].gen],
             UNCHANGED halted
      PROVE  TimerInv'
  <2> DEFINE th == [threads[t] EXCEPT !.pc = "fire", !.gen = fd[f].gen]
  <2>1. threads' = [threads EXCEPT ![t] = th]
    BY <1>1, <1>9 DEF TypeOK
  <2>2. /\ th \in ThreadState
        /\ th.watch = threads[t].watch /\ th.pc = "fire" /\ th.gen = fd[f].gen
    BY <1>1, <1>6 DEF ThreadState, Descriptor
  <2> HIDE DEF th
  <2>3. /\ fd' \in [1 .. Fds -> Descriptor]
        /\ \A g \in 1 .. Fds : fd'[g].gen = fd[g].gen /\ (fd[g].st # "closed" => fd'[g].st # "closed")
    BY <1>4, <1>6, <1>9 DEF TypeOK, Descriptor
  <2>4. threads' \in Seq(ThreadState) /\ threads' # <<>>
    BY <1>1, <2>1, <2>2 DEF TypeOK
  <2>5. TypeOK'
    BY <1>7, <1>9, <2>3, <2>4 DEF TypeOK, mainVars, budget
  <2>6. Len(threads) = 1 => th.gen = table[First(th.watch).slot].gen
    BY <1>2, <1>3, <1>4, <1>5, <2>2 DEF WatchIsValid, EntriesOwnDescriptors, w
  <2>7. WatchesStayValid' /\ Len(threads') = Len(threads)
    BY <1>1, <1>3, <1>7, <2>1, <2>2, <2>5, <2>6, ThreadStep
  <2>8. EntriesOwnDescriptors'
    <3>1. \A s \in DOMAIN table : table[s].inUse => table[s].fd \in 1 .. Fds
      BY <1>5 DEF EntriesOwnDescriptors, Entry
    <3> QED
      BY <1>7, <2>3, <3>1 DEF EntriesOwnDescriptors
  <2>9. ThreadsFollowTable'
    BY <1>1, <1>7, <2>4, <2>7 DEF ThreadsFollowTable
  <2> QED
    BY <1>8, <2>5, <2>7, <2>8, <2>9
<1>10. ASSUME threads' = [threads EXCEPT ![t] = Advanced(threads[t])], UNCHANGED <<fd, halted>>
       PROVE  TimerInv'
  <2>1. threads' \in Seq(ThreadState) /\ threads' # <<>>
    BY <1>1, <1>10, AdvancedFacts DEF TypeOK
  <2>2. TypeOK'
    BY <1>7, <1>10, <2>1 DEF TypeOK, mainVars, budget
  <2>3. WatchesStayValid' /\ Len(threads') = Len(threads)
    BY <1>1, <1>7, <1>10, <2>2, AdvancedFacts, ThreadStep
  <2>4. EntriesOwnDescriptors' /\ ThreadsFollowTable'
    BY <1>1, <1>7, <1>10, <2>1, <2>3 DEF EntriesOwnDescriptors, ThreadsFollowTable
  <2> QED
    BY <1>8, <2>2, <2>3, <2>4
<1>11. ASSUME halted' = "readFailed", UNCHANGED <<fd, threads>>
       PROVE  TimerInv'
  <2>1. TypeOK'
    BY <1>7, <1>11 DEF TypeOK, mainVars, budget
  <2>2. EntriesOwnDescriptors' /\ ThreadsFollowTable' /\ WatchesStayValid'
    BY <1>7, <1>11 DEF EntriesOwnDescriptors, ThreadsFollowTable, WatchesStayValid, WatchIsValid
  <2> QED
    BY <1>8, <2>1, <2>2
<1> QED
  BY <1>9, <1>10, <1>11 DEF Read, w

LEMMA FireStep ==
  ASSUME TimerInv, NEW t \in Threads, Fire(t)
  PROVE  TimerInv'
<1> USE DEF TimerInv
<1> DEFINE s == First(threads[t].watch).slot
<1>1. t \in DOMAIN threads /\ threads[t] \in ThreadState /\ threads # <<>>
  BY DEF Fire, TypeOK
<1>2. s \in Slots
  BY <1>1, FirstIsWatched, WatchedSlots DEF WatchesStayValid, WatchIsValid, ThreadState, Fire
<1>3. table \in [Slots -> Entry] /\ table[s] \in Entry
  BY <1>1, <1>2 DEF ThreadsFollowTable, TypeOK
<1>4. table' = [table EXCEPT ![s].kill = @ \/ ~table[s].periodic]
  BY DEF Fire
<1>5. /\ queue' = queue \/ queue' = Append(queue, TimerEvent(table[s].gen))
      /\ threads' = [threads EXCEPT ![t] = Advanced(threads[t])]
      /\ UNCHANGED <<active, apiThread, fd, mainVars, budget, delivered, halted>>
  BY <1>1 DEF Fire
<1> HIDE DEF s
<1>6. /\ table' \in [Slots -> Entry]
      /\ \A r \in Slots :
           /\ table'[r].inUse = table[r].inUse
           /\ table'[r].fd = table[r].fd
           /\ table'[r].gen = table[r].gen
           /\ table[r].kill => table'[r].kill
  BY <1>2, <1>3, <1>4 DEF Entry
<1>7. queue' \in Seq(Events)
  <2>1. TimerEvent(table[s].gen) \in Events
    BY <1>3 DEF TimerEvent, Events, Entry
  <2> QED
    BY <1>5, <2>1 DEF TypeOK
<1>8. threads' \in Seq(ThreadState) /\ threads' # <<>>
  BY <1>1, <1>5, AdvancedFacts DEF TypeOK
<1>9. TypeOK'
  BY <1>5, <1>6, <1>7, <1>8 DEF TypeOK, mainVars, budget
<1>10. CountCoversLive'
  <2>1. LiveSlots' \subseteq LiveSlots
    BY <1>3, <1>6 DEF LiveSlots, LiveEntry
  <2> QED
    BY <1>5, <2>1, FewerLive
<1>11. WatchesStayValid' /\ Len(threads') = Len(threads)
  BY <1>1, <1>3, <1>5, <1>6, <1>9, AdvancedFacts, ThreadStep
<1>12. EntriesOwnDescriptors'
  BY <1>3, <1>5, <1>6 DEF EntriesOwnDescriptors
<1>13. ThreadsFollowTable'
  BY <1>1, <1>3, <1>5, <1>6, <1>8, <1>11, NoTableIsNone DEF ThreadsFollowTable
<1> QED
  BY <1>9, <1>10, <1>11, <1>12, <1>13

LEMMA ExpireStep ==
  ASSUME TimerInv, NEW f \in 1 .. Fds, Expire(f)
  PROVE  TimerInv'
<1> USE DEF TimerInv
<1>1. fd' = [fd EXCEPT ![f].st = "expired"] /\ fd[f].st = "armed" /\ fd[f] \in Descriptor
  BY DEF Expire, TypeOK
<1>2. UNCHANGED <<table, active, apiThread, threads, queue, mainVars, budget, delivered, halted>>
  BY DEF Expire
<1>3. /\ fd' \in [1 .. Fds -> Descriptor]
      /\ \A g \in 1 .. Fds : fd'[g].gen = fd[g].gen /\ (fd[g].st # "closed" => fd'[g].st # "closed")
  BY <1>1 DEF TypeOK, Descriptor
<1>4. TypeOK'
  BY <1>2, <1>3 DEF TypeOK, mainVars, budget
<1>5. \A s \in DOMAIN table : table[s].inUse => table[s].fd \in 1 .. Fds
  BY NoTableIsEmpty DEF EntriesOwnDescriptors, Entry, TypeOK
<1>6. EntriesOwnDescriptors'
  BY <1>2, <1>3, <1>5 DEF EntriesOwnDescriptors
<1>7. ThreadsFollowTable' /\ WatchesStayValid' /\ CountCoversLive'
  BY <1>2 DEF ThreadsFollowTable, WatchesStayValid, WatchIsValid, CountCoversLive, LiveSlots
<1> QED
  BY <1>4, <1>6, <1>7

LEMMA KilledEntryFacts ==
  ASSUME NEW e \in Entry, NEW name
  PROVE  /\ KilledEntry(e, name) \in Entry
         /\ KilledEntry(e, name).inUse = e.inUse
         /\ KilledEntry(e, name).fd = e.fd
         /\ KilledEntry(e, name).gen = e.gen
         /\ KilledEntry(e, name).name = e.name
         /\ e.kill => KilledEntry(e, name).kill
         /\ LiveEntry(KilledEntry(e, name)) <=> LiveEntry(e) /\ ~Matches(e, name)
<1>1. CASE Matches(e, name)
  <2>1. KilledEntry(e, name) = [inUse |-> e.inUse, kill |-> TRUE, periodic |-> e.periodic,
                                name |-> e.name, fd |-> e.fd, gen |-> e.gen]
    BY <1>1 DEF KilledEntry, Entry
  <2> QED
    BY <1>1, <2>1 DEF LiveEntry, Entry
<1>2. CASE ~Matches(e, name)
  BY <1>2 DEF KilledEntry, LiveEntry
<1> QED
  BY <1>1, <1>2

LEMMA NothingToKill ==
  ASSUME NEW name
  PROVE  [s \in DOMAIN NoTable |-> KilledEntry(NoTable[s], name)] = NoTable
BY DEF NoTable

\* Marking timers keeps everything the table promises.
LEMMA KillNamedStep ==
  ASSUME TimerInv, NEW name, KillNamed(name), UNCHANGED <<apiThread, fd, threads>>
  PROVE  /\ table' = NoTable \/ table' \in [Slots -> Entry]
         /\ active' \in Nat
         /\ LiveSlots' = {s \in LiveSlots : ~Matches(table[s], name)}
         /\ \A s \in DOMAIN table' : table'[s].name = table[s].name
         /\ CountCoversLive' /\ ThreadsFollowTable' /\ EntriesOwnDescriptors' /\ WatchesStayValid'
<1> USE DEF TimerInv
<1>1. DOMAIN table' = DOMAIN table
  BY DEF KillNamed
<1>2. \A s \in DOMAIN table : table[s] \in Entry /\ table'[s] = KilledEntry(table[s], name)
  BY NoTableIsEmpty DEF KillNamed, TypeOK
<1>3. table' = NoTable \/ table' \in [Slots -> Entry]
  <2>1. CASE table = NoTable
    BY <2>1, NothingToKill DEF KillNamed
  <2>2. CASE table \in [Slots -> Entry]
    BY <2>2, KilledEntryFacts DEF KillNamed
  <2> QED
    BY <2>1, <2>2 DEF TypeOK
<1>4. table' = NoTable <=> table = NoTable
  <2>1. table = NoTable => table' = NoTable
    BY NothingToKill DEF KillNamed
  <2>2. table \in [Slots -> Entry] => table' \in [Slots -> Entry]
    BY KilledEntryFacts DEF KillNamed
  <2> QED
    BY <2>1, <2>2, NoTableIsNone DEF TypeOK
<1>5. LiveSlots' = {s \in LiveSlots : ~Matches(table[s], name)}
  BY <1>1, <1>2, KilledEntryFacts DEF LiveSlots
<1>6. IsFiniteSet(LiveSlots') /\ active' = Cardinality(LiveSlots')
  BY <1>5, LiveSlotsAreFew, FS_Subset DEF KillNamed
<1>7. CountCoversLive' /\ active' \in Nat
  BY <1>6, FS_CardinalityType DEF CountCoversLive
<1>8. ThreadsFollowTable'
  BY <1>4 DEF ThreadsFollowTable
<1>9. EntriesOwnDescriptors'
  BY <1>1, <1>2, KilledEntryFacts DEF EntriesOwnDescriptors
<1>10. WatchesStayValid'
  <2> SUFFICES ASSUME NEW t \in DOMAIN threads PROVE WatchIsValid(t)'
    BY DEF WatchesStayValid
  <2>1. threads[t] \in ThreadState /\ WatchIsValid(t) /\ table \in [Slots -> Entry]
    BY DEF TypeOK, WatchesStayValid, ThreadsFollowTable
  <2>2. \A w \in threads[t].watch : w.slot \in DOMAIN table
    BY <2>1, WatchedSlots
  <2>3. threads[t].watch # {} => First(threads[t].watch).slot \in DOMAIN table
    BY <2>1, <2>2, FirstIsWatched DEF ThreadState
  <2> QED
    BY <1>2, <2>1, <2>2, <2>3, KilledEntryFacts DEF WatchIsValid
<1>11. \A s \in DOMAIN table' : table'[s].name = table[s].name
  BY <1>1, <1>2, KilledEntryFacts
<1> QED
  BY <1>3, <1>5, <1>7, <1>8, <1>9, <1>10, <1>11

LEMMA StopStep ==
  ASSUME TimerInv, NEW name, StopTimer(name)
  PROVE  TimerInv'
<1> USE DEF TimerInv
<1>1. KillNamed(name) /\ UNCHANGED <<apiThread, fd, threads>>
  BY DEF StopTimer
<1>2. stops' \in 0 .. MaxStops
  BY Bounds DEF StopTimer, TypeOK
<1>3. UNCHANGED <<apiThread, fd, threads, queue, mainVars, starts, fired, statements,
                  delivered, halted>>
  BY DEF StopTimer
<1>4. TypeOK'
  BY <1>1, <1>2, <1>3, KillNamedStep DEF TypeOK, mainVars
<1> QED
  BY <1>1, <1>4, KillNamedStep

LEMMA RequestedStep ==
  ASSUME TimerInv,
         NEW path \in Paths, NEW name \in Names, NEW periodic \in Periodics, NEW delay \in Delays,
         Requested(path, name, periodic, delay),
         KillNamed(name) \/ UNCHANGED <<table, active>>
  PROVE  TimerInv'
<1> USE DEF TimerInv
<1>1. UNCHANGED <<apiThread, fd, threads, queue, pending, dangling, stops, fired,
                  statements, delivered, halted>>
  BY DEF Requested
<1>2. starts' \in 0 .. MaxStarts /\ starts + 1 \in Gens
  BY Bounds DEF Requested, TypeOK, Gens
<1>3. /\ pc' \in {"insert", pc}
      /\ request' \in Request \cup {NoRequest}
      /\ pc' = "insert" => request' \in Request
  <2>1. pc # "insert"
    BY DEF Requested
  <2>2. CASE delay = "negative"
    BY <2>1, <2>2 DEF Requested, TypeOK
  <2>3. CASE delay # "negative"
    <3>1. delay \in {"zero", "positive"}
      BY <2>3, ProgramAssumption
    <3>2. request' \in Request /\ pc' = "insert"
      BY <1>2, <2>3, <3>1 DEF Requested, Request
    <3> QED
      BY <3>2
  <2> QED
    BY <2>2, <2>3
<1>4. /\ table' = NoTable \/ table' \in [Slots -> Entry]
      /\ active' \in Nat
      /\ CountCoversLive' /\ ThreadsFollowTable' /\ EntriesOwnDescriptors' /\ WatchesStayValid'
  <2>1. CASE KillNamed(name)
    BY <1>1, <2>1, KillNamedStep
  <2>2. CASE UNCHANGED <<table, active>>
    BY <1>1, <2>2 DEF TypeOK, ThreadsFollowTable, EntriesOwnDescriptors, WatchesStayValid,
                      WatchIsValid, CountCoversLive, LiveSlots
  <2> QED
    BY <2>1, <2>2
<1>5. TypeOK'
  BY <1>1, <1>2, <1>3, <1>4 DEF TypeOK
<1> QED
  BY <1>4, <1>5

LEMMA StartStep ==
  ASSUME TimerInv, NEW name \in Names, NEW periodic \in Periodics, NEW delay \in Delays,
         StartNative(name, periodic, delay) \/ StartInterpreted(name, periodic, delay)
  PROVE  TimerInv'
<1>1. CASE StartNative(name, periodic, delay)
  BY <1>1, RequestedStep DEF StartNative
<1>2. CASE StartInterpreted(name, periodic, delay)
  BY <1>2, RequestedStep DEF StartInterpreted
<1> QED
  BY <1>1, <1>2

\* Actions of the main thread and of a receiver that touch no timer.
LEMMA OtherStep ==
  ASSUME TimerInv, FetchEvent \/ EndAct \/ QueueEvent \/ \E silent \in BOOLEAN : Receive(silent)
  PROVE  TimerInv'
<1> USE DEF TimerInv
<1>1. UNCHANGED <<timerVars, threads, request, starts, stops, halted>>
  BY DEF FetchEvent, EndAct, QueueEvent, Receive, ReadPending, ExamineQueue, NextStatement,
         EndOfScript, WaitForData, WaitForHandlers, LoopCondition, mainVars, budget
<1>2. /\ ThreadsFollowTable' /\ EntriesOwnDescriptors' /\ WatchesStayValid' /\ CountCoversLive'
  BY <1>1 DEF timerVars, ThreadsFollowTable, EntriesOwnDescriptors, WatchesStayValid,
              WatchIsValid, CountCoversLive, LiveSlots
<1>3. ASSUME queue' \in Seq(Events), pc' \in {"script", "act", pc, "pending", "queue", "dangling",
                                              "wait", "condition", "done"},
             pending' \in BOOLEAN, dangling' \in BOOLEAN,
             fired' \in 0 .. MaxFired, statements' \in 0 .. MaxStatements, delivered' \subseteq Gens
      PROVE  TypeOK'
  BY <1>1, <1>3 DEF TypeOK, timerVars
<1>4. CASE QueueEvent \/ \E silent \in BOOLEAN : Receive(silent)
  <2>1. PICK silent \in BOOLEAN : queue' = Append(queue, [gen |-> 0, silent |-> silent])
    BY <1>4 DEF QueueEvent, Receive
  <2>2. [gen |-> 0, silent |-> silent] \in Events
    BY Bounds DEF Events
  <2>3. queue' \in Seq(Events)
    BY <2>1, <2>2 DEF TypeOK
  <2>4. fired' \in 0 .. MaxFired
    <3>1. fired < MaxFired /\ fired' = fired + 1
      BY <1>4 DEF QueueEvent, Receive
    <3> QED
      BY <3>1, Bounds DEF TypeOK
  <2>5. UNCHANGED <<mainVars, statements, delivered>>
    BY <1>4 DEF QueueEvent, Receive
  <2> QED
    BY <1>2, <1>3, <2>3, <2>4, <2>5 DEF TypeOK, mainVars
<1>5. CASE EndAct
  <2>1. dangling' \in BOOLEAN
    BY <1>5 DEF EndAct
  <2>2. pc' = "pending" /\ UNCHANGED <<queue, pending, budget, delivered>>
    BY <1>5 DEF EndAct
  <2> QED
    BY <1>2, <1>3, <2>1, <2>2 DEF TypeOK, budget
<1>6. CASE ReadPending
  BY <1>2, <1>3, <1>6 DEF ReadPending, TypeOK, budget
<1>7. CASE ExamineQueue
  <2>1. queue' \in Seq(Events) /\ delivered' \subseteq Gens
    <3>1. CASE queue = <<>> /\ UNCHANGED <<queue, delivered>>
      BY <3>1 DEF TypeOK
    <3>2. CASE queue # <<>> /\ queue' = Tail(queue)
               /\ delivered' = delivered \cup ({Head(queue).gen} \ {0})
      <4>1. Head(queue) \in Events /\ Tail(queue) \in Seq(Events)
        BY <3>2 DEF TypeOK
      <4>2. Head(queue).gen \in 0 .. MaxStarts
        BY <4>1 DEF Events
      <4>3. {Head(queue).gen} \ {0} \subseteq Gens
        BY <4>2, Bounds DEF Gens
      <4>4. delivered \subseteq Gens
        BY DEF TypeOK
      <4> QED
        BY <3>2, <4>1, <4>3, <4>4
    <3> QED
      BY <1>7, <3>1, <3>2 DEF ExamineQueue
  <2>2. pc' \in {"script", "act", "condition"} /\ UNCHANGED <<pending, dangling, budget>>
    BY <1>7 DEF ExamineQueue
  <2> QED
    BY <1>2, <1>3, <2>1, <2>2 DEF TypeOK, budget
<1>8. CASE NextStatement
  <2>1. statements' \in 0 .. MaxStatements
    BY <1>8, Bounds DEF NextStatement, TypeOK
  <2>2. pc' = "act" /\ UNCHANGED <<queue, pending, dangling, fired, delivered>>
    BY <1>8 DEF NextStatement
  <2> QED
    BY <1>2, <1>3, <2>1, <2>2 DEF TypeOK
<1>9. CASE EndOfScript \/ WaitForData \/ LoopCondition
  <2>1. /\ pc' \in {"dangling", "wait", "condition", "pending", "done"}
        /\ UNCHANGED <<queue, pending, dangling, budget, delivered>>
    BY <1>9 DEF EndOfScript, WaitForData, LoopCondition
  <2> QED
    BY <1>2, <1>3, <2>1 DEF TypeOK, budget
<1>10. CASE WaitForHandlers
  <2>1. /\ pc' \in {"dangling", "condition"} /\ dangling' \in BOOLEAN
        /\ UNCHANGED <<queue, pending, budget, delivered>>
    BY <1>10 DEF WaitForHandlers
  <2> QED
    BY <1>2, <1>3, <2>1 DEF TypeOK, budget
<1> QED
  BY <1>4, <1>5, <1>6, <1>7, <1>8, <1>9, <1>10 DEF FetchEvent

\* The vector a start finds or makes.
LEMMA SizedTableFacts ==
  ASSUME TypeOK
  PROVE  /\ SizedTable \in [Slots -> Entry]
         /\ table \in [Slots -> Entry] => SizedTable = table
         /\ table = NoTable => \A s \in Slots : ~SizedTable[s].inUse
<1>1. FreeEntry \in Entry /\ ~FreeEntry.inUse
  BY Bounds DEF FreeEntry, Entry
<1> QED
  BY <1>1, NoTableIsNone DEF TypeOK, SizedTable

LEMMA InsertStep ==
  ASSUME TimerInv, InsertTimer
  PROVE  TimerInv'
<1> USE DEF TimerInv
<1>1. UNCHANGED <<queue, pending, dangling, budget, delivered>> /\ pc' = "act"
      /\ request' = NoRequest /\ request \in Request
  BY DEF InsertTimer, TypeOK
<1>2. CASE UNCHANGED <<timerVars, threads>> /\ halted' = "noSlotLeft"
  <2>1. TypeOK'
    BY <1>1, <1>2 DEF TypeOK, timerVars, budget
  <2>2. ThreadsFollowTable' /\ EntriesOwnDescriptors' /\ WatchesStayValid' /\ CountCoversLive'
    BY <1>2 DEF timerVars, ThreadsFollowTable, EntriesOwnDescriptors, WatchesStayValid,
                WatchIsValid, CountCoversLive, LiveSlots
  <2> QED
    BY <2>1, <2>2
<1>3. ASSUME UnusedSlots # {}, ClosedFds # {},
             Inserted(request, Min(UnusedSlots), Min(ClosedFds)),
             active' = active + 1,
             threads' = IF NeedsThread(request) THEN Append(threads, Scanning) ELSE threads,
             apiThread' = (apiThread \/ ~NativeInsert(request)),
             UNCHANGED halted
      PROVE  TimerInv'
  <2> DEFINE s == Min(UnusedSlots)
             f == Min(ClosedFds)
             e == [inUse |-> TRUE, kill |-> FALSE, periodic |-> request.periodic,
                   name |-> request.name, fd |-> f, gen |-> request.gen]
             d == [st |-> IF request.delay = "zero" THEN "idle" ELSE "armed",
                   gen |-> request.gen, periodic |-> request.periodic]
  <2>1. SizedTable \in [Slots -> Entry]
    BY SizedTableFacts
  <2>2. s \in Slots /\ ~SizedTable[s].inUse
    <3>1. UnusedSlots \in SUBSET Nat
      BY <2>1 DEF UnusedSlots, Slots
    <3>2. Min(UnusedSlots) \in UnusedSlots
      BY <1>3, <3>1, MinIsLeast
    <3> QED
      BY <2>1, <3>2 DEF UnusedSlots
  <2>3. f \in 1 .. Fds /\ fd[f].st = "closed"
    <3>1. ClosedFds \in SUBSET Nat
      BY Bounds DEF ClosedFds, TypeOK
    <3>2. Min(ClosedFds) \in ClosedFds
      BY <1>3, <3>1, MinIsLeast
    <3> QED
      BY <3>2 DEF ClosedFds, TypeOK
  <2>4. table' = [SizedTable EXCEPT ![s] = e] /\ fd' = [fd EXCEPT ![f] = d]
    BY <1>3 DEF Inserted
  <2> HIDE DEF s, f
  <2>5. e \in Entry /\ d \in Descriptor /\ d.st # "closed" /\ d.gen = e.gen /\ e.fd = f
        /\ LiveEntry(e) /\ e.inUse
    BY <1>1, <2>3, Bounds, ProgramAssumption DEF Request, Entry, Descriptor, Gens, LiveEntry
  <2> HIDE DEF e, d
  <2>6. /\ table' \in [Slots -> Entry] /\ table'[s] = e
        /\ \A r \in Slots : r # s => table'[r] = SizedTable[r]
        /\ fd' \in [1 .. Fds -> Descriptor] /\ fd'[f] = d
        /\ \A g \in 1 .. Fds : g # f => fd'[g] = fd[g]
    BY <2>1, <2>2, <2>3, <2>4, <2>5 DEF TypeOK
  <2>7. \A r \in Slots : SizedTable[r].inUse =>
          /\ table \in [Slots -> Entry] /\ SizedTable = table /\ table'[r] = table[r]
          /\ r # s /\ table[r].fd # f /\ table[r].fd \in 1 .. Fds
    <3> SUFFICES ASSUME NEW r \in Slots, SizedTable[r].inUse
                 PROVE  /\ table \in [Slots -> Entry] /\ SizedTable = table /\ table'[r] = table[r]
                        /\ r # s /\ table[r].fd # f /\ table[r].fd \in 1 .. Fds
      OBVIOUS
    <3>1. table \in [Slots -> Entry] /\ SizedTable = table
      BY SizedTableFacts DEF TypeOK
    <3>2. r # s /\ table'[r] = table[r]
      BY <2>2, <2>6, <3>1
    <3>3. table[r] \in Entry /\ table[r].inUse
      BY <3>1
    <3>4. table[r].fd # 0 /\ fd[table[r].fd].st # "closed"
      BY <3>1, <3>3 DEF EntriesOwnDescriptors
    <3>5. table[r].fd \in 1 .. Fds
      BY <3>3, <3>4, Bounds DEF Entry
    <3> QED
      BY <2>3, <3>1, <3>2, <3>4, <3>5
  <2>8. /\ threads' \in Seq(ThreadState) /\ threads' # <<>>
        /\ NeedsThread(request) =>
             /\ Len(threads') = Len(threads) + 1
             /\ \A t \in 1 .. Len(threads) : threads'[t] = threads[t]
             /\ threads'[Len(threads) + 1] = Scanning
        /\ ~NeedsThread(request) => threads' = threads
    <3>1. Scanning \in ThreadState
      BY Bounds DEF Scanning, ThreadState
    <3>2. ~NeedsThread(request) => threads # <<>>
      BY DEF NeedsThread, ThreadsFollowTable
    <3>3. threads \in Seq(ThreadState)
      BY DEF TypeOK
    <3>4. CASE NeedsThread(request)
      <4>1. threads' = Append(threads, Scanning)
        BY <1>3, <3>4
      <4> QED
        BY <3>1, <3>3, <3>4, <4>1
    <3>5. CASE ~NeedsThread(request)
      BY <1>3, <3>2, <3>3, <3>5
    <3> QED
      BY <3>4, <3>5
  <2>9. TypeOK'
    <3>1. active' \in Nat /\ apiThread' \in BOOLEAN
      BY <1>3 DEF TypeOK
    <3> QED
      BY <1>1, <1>3, <2>6, <2>8, <3>1 DEF TypeOK, budget
  <2>10. CountCoversLive'
    <3>1. LiveSlots' = LiveSlots \cup {s} /\ s \notin LiveSlots
      BY <2>2, <2>5, <2>6, <2>7, SizedTableFacts, NoTableIsEmpty DEF LiveSlots, LiveEntry, TypeOK
    <3>2. Cardinality(LiveSlots') = Cardinality(LiveSlots) + 1
      BY <3>1, LiveSlotsAreFew, FS_AddElement
    <3> QED
      BY <1>3, <3>2, LiveSlotsAreFew DEF CountCoversLive, TypeOK
  <2>11. EntriesOwnDescriptors'
    BY <2>5, <2>6, <2>7, <2>3 DEF EntriesOwnDescriptors
  <2>12. ThreadsFollowTable'
    <3>1. table' # NoTable
      BY <2>6, NoTableIsNone
    <3>2. Len(threads') <= IF apiThread' THEN 2 ELSE 1
      <4>1. Len(threads) \in Nat /\ (threads = <<>> => Len(threads) = 0)
        BY DEF TypeOK
      <4>2. CASE NativeInsert(request)
        <5>1. apiThread' = apiThread
          BY <1>3, <4>2 DEF TypeOK
        <5> QED
          BY <2>8, <4>1, <4>2, <5>1 DEF ThreadsFollowTable, NeedsThread
      <4>3. CASE ~NativeInsert(request)
        <5>1. apiThread'
          BY <1>3, <4>3
        <5>2. ~apiThread => Len(threads) <= 1
          BY <4>1 DEF ThreadsFollowTable
        <5>3. Len(threads') <= 2
          BY <2>8, <4>1, <4>3, <5>2 DEF ThreadsFollowTable, NeedsThread
        <5> QED
          BY <5>1, <5>3
      <4> QED
        BY <4>2, <4>3
    <3>3. apiThread' => Paths \ {"native"} # {}
      BY <1>1, <1>3, ProgramAssumption DEF ThreadsFollowTable, NativeInsert, Request
    <3> QED
      BY <2>8, <3>1, <3>2, <3>3 DEF ThreadsFollowTable
  <2>13. WatchesStayValid'
    <3>1. ASSUME NEW t \in 1 .. Len(threads), threads'[t] = threads[t]
          PROVE  WatchIsValid(t)'
      <4>1. t \in DOMAIN threads /\ threads[t] \in ThreadState /\ WatchIsValid(t) /\ threads # <<>>
        BY DEF TypeOK, WatchesStayValid
      <4>2. table \in [Slots -> Entry] /\ SizedTable = table
        BY <4>1, SizedTableFacts DEF ThreadsFollowTable, TypeOK
      <4>3. \A w \in threads[t].watch :
              /\ table'[w.slot].inUse \/ table'[w.slot].kill
              /\ Len(threads) = 1 =>
                   table'[w.slot] = table[w.slot] /\ table'[w.slot].inUse /\ table'[w.slot].fd = w.fd
        <5> SUFFICES ASSUME NEW w \in threads[t].watch
                     PROVE  /\ table'[w.slot].inUse \/ table'[w.slot].kill
                            /\ Len(threads) = 1 =>
                                 /\ table'[w.slot] = table[w.slot]
                                 /\ table'[w.slot].inUse /\ table'[w.slot].fd = w.fd
          OBVIOUS
        <5>1. w.slot \in Slots
          BY <4>1, WatchedSlots
        <5>2. CASE w.slot = s
          BY <2>2, <2>5, <2>6, <4>1, <4>2, <5>2 DEF WatchIsValid
        <5>3. CASE w.slot # s
          BY <2>6, <4>1, <4>2, <5>1, <5>3 DEF WatchIsValid
        <5> QED
          BY <5>2, <5>3
      <4>4. Len(threads') = 1 => Len(threads) = 1
        BY <2>8 DEF TypeOK
      <4>5. threads[t].watch # {} => First(threads[t].watch) \in threads[t].watch
        BY <4>1, FirstIsWatched DEF ThreadState
      <4> QED
        BY <3>1, <4>1, <4>3, <4>4, <4>5 DEF WatchIsValid
    <3>2. ASSUME NEW t \in Nat, threads'[t] = Scanning
          PROVE  WatchIsValid(t)'
      BY <3>2 DEF WatchIsValid, Scanning
    <3>3. \A t \in DOMAIN threads' :
            \/ t \in 1 .. Len(threads) /\ threads'[t] = threads[t]
            \/ t \in Nat /\ threads'[t] = Scanning
      BY <2>8 DEF TypeOK
    <3> QED
      BY <3>1, <3>2, <3>3 DEF WatchesStayValid
  <2> QED
    BY <2>9, <2>10, <2>11, <2>12, <2>13
<1> QED
  BY <1>2, <1>3 DEF InsertTimer

LEMMA TimerInvStep == TimerInv /\ [Next]_vars => TimerInv'
<1> SUFFICES ASSUME TimerInv, [Next]_vars PROVE TimerInv'
  OBVIOUS
<1>1. CASE UNCHANGED vars
  BY <1>1 DEF vars, timerVars, mainVars, budget, TimerInv, TypeOK, CountCoversLive, LiveSlots,
              ThreadsFollowTable, EntriesOwnDescriptors, WatchesStayValid, WatchIsValid
<1>2. CASE Main
  BY <1>2, OtherStep, InsertStep, StopStep, StartStep DEF Main
<1>3. CASE \E silent \in BOOLEAN : Receive(silent)
  BY <1>3, OtherStep
<1>4. ASSUME NEW t \in Threads, TimerThread(t)
      PROVE  TimerInv'
  BY <1>4, ScanStep, PollStep, ReadStep, FireStep DEF TimerThread
<1>5. CASE \E f \in 1 .. Fds : Expire(f)
  BY <1>5, ExpireStep
<1> QED
  BY <1>1, <1>2, <1>3, <1>4, <1>5 DEF Next

\* Whatever the program starts and stops, and however the timer threads
\* interleave with it: the count of active timers that decides whether the
\* simulation may end covers every live timer, an entry owns its descriptor,
\* there are at most two timer threads, and what a thread took from the table
\* in its first critical section is still good in the second one.
THEOREM TimerTableIsSound == Spec => []TimerInv
<1> QED
  BY InitEstablishes, TimerInvStep, PTL DEF Spec

-----------------------------------------------------------------------------
(* What a timer thread does between its critical sections                  *)

LEMMA ThreadFacts ==
  ASSUME TimerInv, NEW t \in DOMAIN threads
  PROVE  /\ threads[t] \in ThreadState /\ WatchIsValid(t) /\ Len(threads) >= 1
         /\ table \in [Slots -> Entry]
         /\ threads[t].watch # {} =>
              /\ First(threads[t].watch) \in threads[t].watch
              /\ First(threads[t].watch).slot \in Slots
<1>1. threads \in Seq(ThreadState)
  BY DEF TimerInv, TypeOK
<1>2. threads[t] \in ThreadState /\ threads # <<>> /\ Len(threads) >= 1
  BY <1>1
<1>3. WatchIsValid(t)
  BY DEF TimerInv, WatchesStayValid
<1>4. table \in [Slots -> Entry]
  BY <1>2 DEF TimerInv, ThreadsFollowTable, TypeOK
<1>5. threads[t].watch # {} => First(threads[t].watch) \in threads[t].watch
  BY <1>2, FirstIsWatched DEF ThreadState
<1> QED
  BY <1>2, <1>3, <1>4, <1>5, WatchedSlots

LEMMA ReadOfOneThread ==
  ASSUME TimerInv, NEW t \in DOMAIN threads, Len(threads) = 1, threads[t].pc = "read"
  PROVE  fd[First(threads[t].watch).fd].st # "closed"
<1> DEFINE w == First(threads[t].watch)
<1>1. w \in threads[t].watch /\ w.slot \in DOMAIN table
  BY ThreadFacts DEF WatchIsValid
<1> QED
  BY <1>1, ThreadFacts DEF TimerInv, WatchIsValid, EntriesOwnDescriptors

LEMMA OneThreadReadsStep == TimerInv /\ OneThreadReads /\ [Next]_vars => OneThreadReads'
<1> SUFFICES ASSUME TimerInv, OneThreadReads, [Next]_vars, Len(threads') <= 1
             PROVE  halted' # "readFailed"
  BY DEF OneThreadReads, ReadNeverFails
<1>1. CASE UNCHANGED vars
  BY <1>1 DEF vars, OneThreadReads, ReadNeverFails
<1>2. CASE \E t \in Threads : Read(t)
  <2>1. PICK t \in Threads : Read(t)
    BY <1>2
  <2>2. t \in DOMAIN threads /\ threads[t].pc = "read" /\ Running
    BY <2>1 DEF Read
  <2>3. halted' = "readFailed" => threads' = threads /\ fd[First(threads[t].watch).fd].st = "closed"
    BY <2>1, <2>2 DEF Read, Running
  <2>4. ASSUME threads' = threads PROVE Len(threads) = 1
    <3>1. Len(threads) \in Nat
      BY DEF TimerInv, TypeOK
    <3>2. Len(threads) >= 1
      BY <2>2, ThreadFacts
    <3>3. Len(threads) <= 1
      BY <2>4
    <3>4. \A n \in Nat : n >= 1 /\ n <= 1 => n = 1
      OBVIOUS
    <3> QED
      BY ONLY <3>1, <3>2, <3>3, <3>4
  <2> QED
    BY <2>2, <2>3, <2>4, ReadOfOneThread
<1>3. CASE Main \/ (\E silent \in BOOLEAN : Receive(silent)) \/ (\E f \in 1 .. Fds : Expire(f))
           \/ \E t \in Threads : Scan(t) \/ Poll(t) \/ Fire(t)
  BY <1>3 DEF Main, FetchEvent, ReadPending, ExamineQueue, NextStatement, EndOfScript, WaitForData,
              WaitForHandlers, LoopCondition, EndAct, QueueEvent, InsertTimer, StopTimer,
              StartNative, StartInterpreted, Requested, Receive, Expire, Scan, Poll, Fire, Running
<1> QED
  BY <1>1, <1>2, <1>3 DEF Next, TimerThread

\* As long as there is one timer thread, no read of a descriptor it took from
\* the table fails, so the process is not ended by fatal_.
THEOREM OneThreadNeverFails == Spec => []OneThreadReads
<1>1. Init => OneThreadReads
  BY DEF Init, OneThreadReads, ReadNeverFails
<1> QED
  BY <1>1, OneThreadReadsStep, TimerTableIsSound, PTL DEF Spec

\* A program whose actions are all native has one timer thread, and no read
\* of it fails; it takes the interpreted variant to start the second one.
THEOREM NativeReadsSucceed ==
  ASSUME Paths \subseteq {"native"}
  PROVE  Spec => []ReadNeverFails
<1>1. TimerInv /\ OneThreadReads => ReadNeverFails
  BY DEF TimerInv, ThreadsFollowTable, OneThreadReads
<1> QED
  BY <1>1, OneThreadNeverFails, TimerTableIsSound, PTL

\* The event the only timer thread enqueues is that of the timer whose
\* expiration it has read, and this timer was not stopped in between.
THEOREM ThreadFiresItsTimer == Spec => FiresOwnTimer
<1> DEFINE Own == \A t \in DOMAIN threads :
                    Len(threads) = 1 /\ Fire(t) /\ queue' # queue =>
                      /\ Last(queue').gen = threads[t].gen
                      /\ threads[t].gen \in LiveGens
<1>1. ASSUME TimerInv PROVE Own
  <2> SUFFICES ASSUME NEW t \in DOMAIN threads, Len(threads) = 1, Fire(t), queue' # queue
               PROVE  /\ Last(queue').gen = threads[t].gen
                      /\ threads[t].gen \in LiveGens
    OBVIOUS
  <2> DEFINE s == First(threads[t].watch).slot
  <2>1. WatchIsValid(t) /\ threads[t].pc = "fire"
    BY <1>1, ThreadFacts DEF Fire
  <2>2. First(threads[t].watch) \in threads[t].watch
    BY <1>1, <2>1, ThreadFacts DEF WatchIsValid
  <2>3. s \in DOMAIN table
    BY <1>1, <2>2, ThreadFacts
  <2>4. ~table[s].kill /\ queue' = Append(queue, TimerEvent(table[s].gen))
    BY DEF Fire
  <2>5. table[s].inUse /\ threads[t].gen = table[s].gen
    BY <2>1, <2>2 DEF WatchIsValid
  <2>6. Last(queue') = TimerEvent(table[s].gen)
    BY <1>1, <2>4 DEF Last, TimerInv, TypeOK
  <2> QED
    BY <2>3, <2>4, <2>5, <2>6 DEF LiveGens, LiveSlots, LiveEntry, TimerEvent
<1>2. TimerInv /\ [Next]_vars => [Own]_vars
  BY <1>1
<1> QED
  BY <1>2, TimerTableIsSound, PTL DEF Spec, FiresOwnTimer

-----------------------------------------------------------------------------
(* Names                                                                   *)

NamesInv == NamedTimersAreSingle /\ ReplacedIsStopped

\* Steps that start no timer and call none up: live timers can only vanish.
LEMMA NamesKept ==
  ASSUME TimerInv, NamesInv, LiveSlots' \subseteq LiveSlots,
         \A s \in LiveSlots' : table'[s].name = table[s].name,
         pc' = "insert" => pc = "insert" /\ request' = request
  PROVE  NamesInv'
BY DEF NamesInv, NamedTimersAreSingle, ReplacedIsStopped

\* What a step may do to the live timers.
LEMMA LiveOnlyVanish ==
  ASSUME TimerInv, NEW t \in Threads, Scan(t) \/ Fire(t)
  PROVE  /\ LiveSlots' \subseteq LiveSlots
         /\ \A s \in LiveSlots' : table'[s].name = table[s].name
<1>1. t \in DOMAIN threads
  BY DEF Scan, Fire
<1>2. table \in [Slots -> Entry]
  BY <1>1, ThreadFacts
<1>3. CASE Scan(t)
  <2>1. \A s \in Slots : table'[s] = SweptEntry(table[s]) /\ table[s] \in Entry
    BY <1>2, <1>3 DEF Scan, Sweep
  <2>2. DOMAIN table' = Slots
    BY <1>2, <1>3 DEF Scan, Sweep
  <2> QED
    BY <1>2, <2>1, <2>2, SweptEntryFacts DEF LiveSlots, LiveEntry
<1>4. CASE Fire(t)
  <2> DEFINE s == First(threads[t].watch).slot
  <2>1. table' = [table EXCEPT ![s].kill = @ \/ ~table[s].periodic]
    BY <1>4 DEF Fire
  <2> HIDE DEF s
  <2>2. \A r \in Slots : table[r] \in Entry
    BY <1>2
  <2>3. \A r \in Slots : /\ table'[r].inUse = table[r].inUse
                         /\ table'[r].name = table[r].name
                         /\ table[r].kill => table'[r].kill
    BY <1>2, <2>1, <2>2 DEF Entry
  <2> QED
    BY <1>2, <2>1, <2>3 DEF LiveSlots, LiveEntry
<1> QED
  BY <1>3, <1>4

LEMMA NamesOfRequest ==
  ASSUME TimerInv, NamesInv, NEW path, NEW name, NEW periodic, NEW delay,
         Requested(path, name, periodic, delay),
         IF name # Unnamed /\ delay # "negative" THEN KillNamed(name)
         ELSE KillNamed(name) \/ UNCHANGED <<table, active>>
  PROVE  NamesInv'
<1>1. UNCHANGED <<apiThread, fd, threads>> /\ pc = "act"
  BY DEF Requested
<1>2. CASE UNCHANGED <<table, active>> /\ ~(name # Unnamed /\ delay # "negative")
  <2>1. pc' = "insert" => request'.name = Unnamed
    BY <1>1, <1>2 DEF Requested
  <2> QED
    BY <1>2, <2>1 DEF NamesInv, NamedTimersAreSingle, ReplacedIsStopped, LiveSlots
<1>3. CASE KillNamed(name)
  <2>1. /\ LiveSlots' = {s \in LiveSlots : ~Matches(table[s], name)}
        /\ \A s \in DOMAIN table' : table'[s].name = table[s].name
    BY <1>1, <1>3, KillNamedStep
  <2>2. LiveSlots' \subseteq DOMAIN table'
    BY DEF LiveSlots
  <2>3. pc' = "insert" => request'.name = name
    BY <1>1 DEF Requested
  <2> QED
    BY <2>1, <2>2, <2>3 DEF NamesInv, NamedTimersAreSingle, ReplacedIsStopped, Matches
<1> QED
  BY <1>2, <1>3

LEMMA NamesOfInsert ==
  ASSUME TimerInv, NamesInv, InsertTimer
  PROVE  NamesInv'
<1>1. pc = "insert" /\ pc' = "act"
  BY DEF InsertTimer
<1>2. CASE UNCHANGED <<timerVars, threads>>
  BY <1>1, <1>2, NamesKept DEF timerVars, LiveSlots
<1>3. ASSUME UnusedSlots # {}, Inserted(request, Min(UnusedSlots), Min(ClosedFds))
      PROVE  NamesInv'
  <2> DEFINE s == Min(UnusedSlots)
             e == [inUse |-> TRUE, kill |-> FALSE, periodic |-> request.periodic,
                   name |-> request.name, fd |-> Min(ClosedFds), gen |-> request.gen]
  <2>1. SizedTable \in [Slots -> Entry]
    BY SizedTableFacts DEF TimerInv
  <2>2. table' = [SizedTable EXCEPT ![s] = e] /\ e.name = request.name
    BY <1>3 DEF Inserted
  <2> HIDE DEF s, e
  <2>3. \A r \in LiveSlots' : r # s => r \in LiveSlots /\ table'[r].name = table[r].name
    <3> SUFFICES ASSUME NEW r \in LiveSlots', r # s
                 PROVE  r \in LiveSlots /\ table'[r].name = table[r].name
      OBVIOUS
    <3>1. r \in Slots /\ table'[r] = SizedTable[r] /\ LiveEntry(table'[r])
      BY <2>1, <2>2 DEF LiveSlots
    <3>2. SizedTable[r].inUse
      BY <3>1 DEF LiveEntry
    <3>3. table \in [Slots -> Entry] /\ SizedTable = table
      BY <3>1, <3>2, SizedTableFacts DEF TimerInv, TypeOK
    <3> QED
      BY <3>1, <3>3 DEF LiveSlots
  <2>4. s \in LiveSlots' => table'[s].name = request.name
    BY <2>1, <2>2 DEF LiveSlots
  <2> QED
    BY <1>1, <2>3, <2>4 DEF NamesInv, NamedTimersAreSingle, ReplacedIsStopped
<1> QED
  BY <1>2, <1>3 DEF InsertTimer

LEMMA NamesStep == TimerInv /\ NamesInv /\ [Next]_vars => NamesInv'
<1> SUFFICES ASSUME TimerInv, NamesInv, [Next]_vars PROVE NamesInv'
  OBVIOUS
<1>1. CASE InsertTimer
  BY <1>1, NamesOfInsert
<1>2. ASSUME NEW name \in Names, StopTimer(name)
      PROVE  NamesInv'
  <2>1. KillNamed(name) /\ UNCHANGED <<apiThread, fd, threads>> /\ UNCHANGED mainVars
    BY <1>2 DEF StopTimer
  <2>2. LiveSlots' \subseteq LiveSlots /\ \A s \in LiveSlots' : table'[s].name = table[s].name
    BY <2>1, KillNamedStep DEF LiveSlots
  <2> QED
    BY <2>1, <2>2, NamesKept DEF mainVars
<1>3. ASSUME NEW name \in Names, NEW periodic \in Periodics, NEW delay \in Delays,
             StartNative(name, periodic, delay) \/ StartInterpreted(name, periodic, delay)
      PROVE  NamesInv'
  BY <1>3, NamesOfRequest DEF StartNative, StartInterpreted
<1>4. ASSUME NEW t \in Threads, Scan(t) \/ Fire(t)
      PROVE  NamesInv'
  BY <1>4, LiveOnlyVanish, NamesKept DEF Scan, Fire, mainVars
<1>5. CASE \/ UNCHANGED vars \/ FetchEvent \/ EndAct \/ QueueEvent
           \/ (\E silent \in BOOLEAN : Receive(silent)) \/ (\E f \in 1 .. Fds : Expire(f))
           \/ \E t \in Threads : Poll(t) \/ Read(t)
  <2>1. table' = table /\ (pc' = "insert" => pc = "insert" /\ request' = request)
    BY <1>5 DEF vars, mainVars, timerVars, FetchEvent, ReadPending, ExamineQueue, NextStatement,
                EndOfScript, WaitForData, WaitForHandlers, LoopCondition, EndAct, QueueEvent,
                Receive, Expire, Poll, Read
  <2> QED
    BY <2>1, NamesKept DEF LiveSlots
<1> QED
  BY <1>1, <1>2, <1>3, <1>4, <1>5 DEF Next, Main, TimerThread

\* No two live timers ever have the same name, although stopping the old
\* timer and starting the new one are two critical sections.
THEOREM NamesAreUnique == Spec => []NamedTimersAreSingle
<1>1. Init => NamesInv
  BY NoTableIsEmpty DEF Init, NamesInv, NamedTimersAreSingle, ReplacedIsStopped, LiveSlots
<1>2. NamesInv => NamedTimersAreSingle
  BY DEF NamesInv
<1> QED
  BY <1>1, <1>2, NamesStep, TimerTableIsSound, PTL DEF Spec

-----------------------------------------------------------------------------
(* The end of a simulation                                                 *)

\* A thread enqueues only the events of live timers.
LEMMA FireOfLive ==
  ASSUME TimerInv, NEW t \in Threads, Fire(t)
  PROVE  \/ queue' = queue
         \/ /\ LiveSlots # {}
            /\ \E g : queue' = Append(queue, TimerEvent(g))
<1> DEFINE s == First(threads[t].watch).slot
<1>1. t \in DOMAIN threads /\ threads[t].pc = "fire"
  BY DEF Fire
<1>2. WatchIsValid(t) /\ threads[t].watch # {}
  BY <1>1, ThreadFacts DEF WatchIsValid
<1>3. s \in DOMAIN table /\ (table[s].inUse \/ table[s].kill)
  BY <1>1, <1>2, ThreadFacts DEF WatchIsValid
<1>4. queue' = IF table[s].kill THEN queue ELSE Append(queue, TimerEvent(table[s].gen))
  BY DEF Fire
<1>5. ~table[s].kill => s \in LiveSlots
  BY <1>3 DEF LiveSlots, LiveEntry
<1> QED
  BY <1>4, <1>5

\* Appending an event that is not silent.
LEMMA LoudAppend ==
  ASSUME TypeOK, \A i \in DOMAIN queue : ~queue[i].silent,
         NEW e, ~e.silent, queue' = Append(queue, e)
  PROVE  \A i \in DOMAIN queue' : ~queue'[i].silent
<1>1. queue \in Seq(Events)
  BY DEF TypeOK
<1>2. DOMAIN queue' = 1 .. Len(queue) + 1 /\ Len(queue) \in Nat
  BY <1>1
<1>3. \A i \in DOMAIN queue' : queue'[i] = IF i <= Len(queue) THEN queue[i] ELSE e
  BY <1>1, <1>2
<1> QED
  BY <1>1, <1>2, <1>3

LEMMA FetchFoundStep == TimerInv /\ FetchFound /\ [Next]_vars => FetchFound'
<1> SUFFICES ASSUME TimerInv, FetchFound, [Next]_vars PROVE FetchFound'
  OBVIOUS
<1> USE DEF PastQueue, PastScript
<1>1. CASE UNCHANGED vars
  BY <1>1 DEF vars, timerVars, mainVars, budget, FetchFound, LiveSlots
<1>2. ASSUME NEW t \in Threads, Fire(t)
      PROVE  FetchFound'
  <2>1. UNCHANGED <<pc, pending, statements>> /\ LiveSlots' \subseteq LiveSlots
    BY <1>2, LiveOnlyVanish DEF Fire, mainVars, budget
  <2>2. ~RunningAsNode => \A i \in DOMAIN queue' : ~queue'[i].silent
    <3>1. CASE queue' = queue
      BY <3>1 DEF FetchFound
    <3>2. ASSUME NEW g, queue' = Append(queue, TimerEvent(g)), ~RunningAsNode
          PROVE  \A i \in DOMAIN queue' : ~queue'[i].silent
      BY <3>2, LoudAppend DEF TimerInv, FetchFound, TimerEvent
    <3> QED
      BY <1>2, <3>1, <3>2, FireOfLive
  <2>3. LiveSlots = {} => queue' = queue
    BY <1>2, FireOfLive
  <2> QED
    BY <2>1, <2>2, <2>3 DEF FetchFound
<1>3. ASSUME NEW t \in Threads, Scan(t)
      PROVE  FetchFound'
  BY <1>3, LiveOnlyVanish DEF Scan, FetchFound, mainVars, budget
<1>4. CASE (\E t \in Threads : Poll(t) \/ Read(t)) \/ (\E f \in 1 .. Fds : Expire(f))
  <2>1. UNCHANGED <<table, queue, pc, pending, statements>>
    BY <1>4 DEF Poll, Read, Expire, timerVars, mainVars, budget
  <2> QED
    BY <2>1 DEF FetchFound, LiveSlots
<1>5. ASSUME NEW silent \in BOOLEAN, Receive(silent)
      PROVE  FetchFound'
  <2>1. RunningAsNode /\ UNCHANGED <<table, pc, pending, statements>>
    BY <1>5 DEF Receive, timerVars, mainVars
  <2> QED
    BY <2>1 DEF FetchFound, LiveSlots
<1>6. CASE QueueEvent
  <2>1. pc = "act" /\ pc' = "act" /\ queue' = Append(queue, [gen |-> 0, silent |-> FALSE])
    BY <1>6 DEF QueueEvent, mainVars
  <2>2. ~RunningAsNode => \A i \in DOMAIN queue' : ~queue'[i].silent
    <3>1. ~RunningAsNode => \A i \in DOMAIN queue : ~queue[i].silent
      BY DEF FetchFound
    <3>2. ~[gen |-> 0, silent |-> FALSE].silent
      OBVIOUS
    <3> QED
      BY <2>1, <3>1, <3>2, LoudAppend DEF TimerInv
  <2> QED
    BY <2>1, <2>2 DEF FetchFound
<1>7. CASE \/ EndAct \/ InsertTimer \/ (\E name \in Names : StopTimer(name))
           \/ \E name \in Names, periodic \in Periodics, delay \in Delays :
                StartNative(name, periodic, delay) \/ StartInterpreted(name, periodic, delay)
  <2>1. pc' \in {"act", "insert", "pending"} /\ queue' = queue
    BY <1>7 DEF EndAct, InsertTimer, StopTimer, StartNative, StartInterpreted, Requested, mainVars
  <2> QED
    BY <2>1 DEF FetchFound
<1>8. CASE ReadPending
  <2>1. pc' = "queue" /\ pending' = (active # 0) /\ UNCHANGED <<table, queue>>
    BY <1>8 DEF ReadPending, timerVars
  <2>2. active = 0 => LiveSlots = {}
    BY LiveSlotsAreFew, FS_EmptySet DEF TimerInv, CountCoversLive
  <2> QED
    BY <2>1, <2>2 DEF FetchFound, LiveSlots
<1>9. CASE ExamineQueue
  <2>1. pc = "queue" /\ UNCHANGED <<table, pending, statements>>
    BY <1>9 DEF ExamineQueue, timerVars, budget
  <2>2. CASE queue = <<>> /\ pc' = "script" /\ queue' = queue
    BY <2>1, <2>2 DEF FetchFound, LiveSlots
  <2>3. CASE queue # <<>> /\ queue' = Tail(queue)
             /\ pc' = IF Head(queue).silent THEN "condition" ELSE "act"
    <3>1. queue \in Seq(Events) /\ Head(queue) = queue[1] /\ 1 \in DOMAIN queue
      BY <2>3 DEF TimerInv, TypeOK
    <3>2. \A i \in DOMAIN queue' : i + 1 \in DOMAIN queue /\ queue'[i] = queue[i + 1]
      BY <2>3, <3>1
    <3>3. ~RunningAsNode => pc' = "act"
      BY <2>3, <3>1 DEF FetchFound
    <3>4. pc' \in {"condition", "act"}
      BY <2>3
    <3> QED
      BY <2>1, <3>2, <3>3, <3>4 DEF FetchFound, LiveSlots
  <2> QED
    BY <1>9, <2>2, <2>3 DEF ExamineQueue
<1>10. CASE NextStatement \/ EndOfScript \/ WaitForData \/ WaitForHandlers \/ LoopCondition
  <2>1. UNCHANGED <<table, queue, pending>>
    BY <1>10 DEF NextStatement, EndOfScript, WaitForData, WaitForHandlers, LoopCondition, timerVars
  <2>2. \/ pc' = "act"
        \/ pc = "script" /\ pc' \in PastScript \ {"done"} /\ statements = MaxStatements
           /\ statements' = statements
        \/ pc \in PastScript /\ statements' = statements
           /\ \/ pc' \in PastScript \ {"done"}
              \/ pc' = "pending"
              \/ pc' = "done" /\ ~pending /\ ~RunningAsNode
    BY <1>10, Bounds DEF NextStatement, EndOfScript, WaitForData, WaitForHandlers, LoopCondition,
              TimerInv, TypeOK, budget
  <2> QED
    BY <2>1, <2>2 DEF FetchFound, LiveSlots
<1> QED
  BY <1>1, <1>2, <1>3, <1>4, <1>5, <1>6, <1>7, <1>8, <1>9, <1>10
  DEF Next, Main, FetchEvent, TimerThread

\* The end of a simulation is reported only when nothing is left to do: the
\* script is exhausted, no event waits, no timer can fire and no timer thread
\* is about to enqueue, although fetch_event reads the count of timers and
\* examines the queue in two steps and the timer threads work in between.
THEOREM SimulationEndsDrained == Spec => []DoneMeansDrained
<1>1. Init => FetchFound
  BY NoTableIsEmpty, Bounds DEF Init, FetchFound, LiveSlots, PastQueue, PastScript
<1>2. TimerInv /\ FetchFound => DoneMeansDrained
  <2> SUFFICES ASSUME TimerInv, FetchFound, pc = "done"
               PROVE  statements = MaxStatements /\ queue = <<>> /\ LiveSlots = {} /\ Owed = {}
    BY DEF DoneMeansDrained
  <2>1. statements = MaxStatements /\ queue = <<>> /\ LiveSlots = {}
    BY DEF FetchFound, PastQueue, PastScript
  <2>2. ASSUME NEW t \in Owed PROVE FALSE
    <3>1. t \in DOMAIN threads /\ threads[t].pc = "fire"
          /\ LiveEntry(table[First(threads[t].watch).slot])
      BY DEF Owed
    <3>2. First(threads[t].watch).slot \in DOMAIN table
      BY <3>1, ThreadFacts DEF WatchIsValid
    <3> QED
      BY <2>1, <3>1, <3>2 DEF LiveSlots
  <2> QED
    BY <2>1, <2>2
<1> QED
  BY <1>1, <1>2, FetchFoundStep, TimerTableIsSound, PTL DEF Spec
=============================================================================
