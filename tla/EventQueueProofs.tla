-------------------------- MODULE EventQueueProofs --------------------------
(***************************************************************************)
(* Proofs about EventQueue, for rings of every size: within its capacity   *)
(* the queue keeps its ring and its index of unique events consistent      *)
(* (QueueInv), hence a unique event is never pending twice, and behaves as *)
(* the abstract queue; without unique events it does so beyond its         *)
(* capacity as well.                                                       *)
(***************************************************************************)
EXTENDS EventQueue, TLAPS

(***************************************************************************)
(* The cursors                                                             *)
(***************************************************************************)

\* After stays inside the ring.
LEMMA AfterInRing ==
  ASSUME NEW s \in Slots
  PROVE  After(s) \in Slots
BY CapAssumption DEF After, Slots

\* The cursors of Ringbuffer::append on a ring that has room: exactly the
\* written slot becomes live, and the write cursor moves behind it.
LEMMA AppendCursors ==
  ASSUME TypeOK, RingShape, n < Cap,
         start' = start, n' = n + 1, end' = After(end)
  PROVE  /\ n' \in 0 .. Cap
         /\ end' \in Slots
         /\ end' = (IF start' + n' < Cap THEN start' + n' ELSE start' + n' - Cap)
         /\ ~Live(end)
         /\ \A s \in Slots : Live(s)' <=> (Live(s) \/ s = end)
<1> USE CapAssumption
<1>1. /\ start \in Int /\ end \in Int /\ n \in Int /\ Cap \in Int
      /\ 0 <= start /\ start < Cap /\ 0 <= end /\ end < Cap /\ 0 <= n
      /\ end = (IF start + n < Cap THEN start + n ELSE start + n - Cap)
  BY DEF TypeOK, RingShape, Slots
<1>2. n' \in 0 .. Cap /\ end' \in Slots
  BY <1>1, AfterInRing DEF TypeOK
<1>3. end' = (IF start' + n' < Cap THEN start' + n' ELSE start' + n' - Cap)
  BY <1>1 DEF After
<1>4. ~Live(end)
  BY <1>1 DEF Live
<1>5. \A s \in Slots : Live(s)' <=> (Live(s) \/ s = end)
  BY <1>1 DEF Live, Slots
<1> QED BY <1>2, <1>3, <1>4, <1>5

\* The cursors of Ringbuffer::pop on a ring with two or more events.
LEMMA PopCursors ==
  ASSUME TypeOK, RingShape, n > 1,
         start' = After(start), n' = n - 1, end' = end
  PROVE  /\ start' \in Slots
         /\ n' \in 0 .. Cap
         /\ end' = (IF start' + n' < Cap THEN start' + n' ELSE start' + n' - Cap)
         /\ \A s \in Slots : Live(s)' <=> (Live(s) /\ s # start)
<1> USE CapAssumption
<1>1. /\ start \in Int /\ end \in Int /\ n \in Int /\ Cap \in Int
      /\ 0 <= start /\ start < Cap /\ n <= Cap
      /\ end = (IF start + n < Cap THEN start + n ELSE start + n - Cap)
  BY DEF TypeOK, RingShape, Slots
<1>2. start' \in Slots /\ n' \in 0 .. Cap
  BY <1>1, AfterInRing DEF TypeOK
<1>3. end' = (IF start' + n' < Cap THEN start' + n' ELSE start' + n' - Cap)
  BY <1>1 DEF After
<1>4. \A s \in Slots : Live(s)' <=> (Live(s) /\ s # start)
  BY <1>1 DEF Live, After, Slots
<1> QED BY <1>2, <1>3, <1>4

\* The last pop rewinds both cursors and leaves no slot live.
LEMMA LastPopCursors ==
  ASSUME TypeOK, RingShape, n = 1, start' = 0, n' = 0, end' = 0
  PROVE  /\ start' \in Slots /\ end' \in Slots /\ n' \in 0 .. Cap
         /\ end' = (IF start' + n' < Cap THEN start' + n' ELSE start' + n' - Cap)
         /\ \A s \in Slots : Live(s)' <=> (Live(s) /\ s # start)
BY CapAssumption DEF TypeOK, RingShape, Slots, Live

\* Both cases of Ringbuffer::pop: the read slot, and only it, stops being
\* live.
LEMMA RingPopFacts ==
  ASSUME TypeOK, RingShape, n > 0, RingPop
  PROVE  /\ slots' \in [Slots -> Event \cup {NoEvent}]
         /\ start' \in Slots /\ end' \in Slots /\ n' \in 0 .. Cap
         /\ RingShape'
         /\ \A s \in Slots : Live(s)' <=> (Live(s) /\ s # start)
         /\ \A s \in Slots : Live(s)' => slots'[s] = slots[s]
         /\ Live(start)
<1> USE CapAssumption, NoEventAssumption
<1>1. slots' = [slots EXCEPT ![start] = NoEvent] /\ n' = n - 1
  BY DEF RingPop
<1>2. /\ start' \in Slots /\ end' \in Slots /\ n' \in 0 .. Cap
      /\ end' = (IF start' + n' < Cap THEN start' + n' ELSE start' + n' - Cap)
      /\ \A s \in Slots : Live(s)' <=> (Live(s) /\ s # start)
  <2>1. CASE n = 1
    BY <2>1, LastPopCursors DEF RingPop
  <2>2. CASE n > 1
    <3>1. start' = After(start) /\ n' = n - 1 /\ end' = end
      BY <2>2 DEF RingPop
    <3>2. end' \in Slots
      BY <3>1 DEF TypeOK
    <3> QED BY <2>2, <3>1, <3>2, PopCursors
  <2> QED BY <2>1, <2>2 DEF TypeOK
<1>3. slots' \in [Slots -> Event \cup {NoEvent}]
  BY <1>1 DEF TypeOK
<1>4. \A s \in Slots : slots'[s] = IF s = start THEN NoEvent ELSE slots[s]
  BY <1>1 DEF TypeOK
<1>5. \A s \in Slots : Live(s)' <=> slots'[s] # NoEvent
  BY <1>2, <1>4 DEF RingShape
<1>6. Live(start)
  BY DEF Live, TypeOK, Slots
<1> QED BY <1>2, <1>3, <1>4, <1>5, <1>6 DEF RingShape

\* Ringbuffer::append on a ring that has room.
LEMMA RingAppendFacts ==
  ASSUME TypeOK, RingShape, n < Cap, NEW e \in Event, RingAppend(e)
  PROVE  /\ slots' \in [Slots -> Event \cup {NoEvent}]
         /\ start' \in Slots /\ end' \in Slots /\ n' \in 0 .. Cap
         /\ RingShape'
         /\ \A s \in Slots : Live(s)' <=> (Live(s) \/ s = end)
         /\ ~Live(end)
         /\ slots'[end] = e
         /\ \A s \in Slots : Live(s) => slots'[s] = slots[s]
<1> USE CapAssumption, NoEventAssumption
<1>1. /\ slots' = [slots EXCEPT ![end] = e]
      /\ start' = start /\ n' = n + 1 /\ end' = After(end)
  BY DEF RingAppend
<1>2. /\ n' \in 0 .. Cap
      /\ end' \in Slots
      /\ end' = (IF start' + n' < Cap THEN start' + n' ELSE start' + n' - Cap)
      /\ ~Live(end)
      /\ \A s \in Slots : Live(s)' <=> (Live(s) \/ s = end)
  BY <1>1, AppendCursors
<1>3. slots' \in [Slots -> Event \cup {NoEvent}] /\ start' \in Slots
  BY <1>1 DEF TypeOK
<1>4. \A s \in Slots : slots'[s] = IF s = end THEN e ELSE slots[s]
  BY <1>1 DEF TypeOK
<1>5. \A s \in Slots : Live(s)' <=> slots'[s] # NoEvent
  BY <1>2, <1>4 DEF RingShape
<1>6. slots'[end] = e
  BY <1>4 DEF TypeOK
<1> QED BY <1>2, <1>3, <1>4, <1>5, <1>6 DEF RingShape

(***************************************************************************)
(* The index                                                               *)
(***************************************************************************)

\* What Ringbuffer::append does to an index that has room.
LEMMA IndexAppendedFacts ==
  ASSUME index \in Seq(EvInfo), Len(index) < UCap, NEW info \in EvInfo
  PROVE  /\ IndexAppended(info) \in Seq(EvInfo)
         /\ Len(IndexAppended(info)) = Len(index) + 1
         /\ IndexAppended(info)[Len(index) + 1] = info
         /\ \A k \in 1 .. Len(index) : IndexAppended(info)[k] = index[k]
BY DEF IndexAppended

\* Where the entries are after swap_to_front_and_pop: the front entry has
\* taken the place of the removed one.
LEMMA SwapFacts ==
  ASSUME index \in Seq(EvInfo), NEW k \in 1 .. Len(index)
  PROVE  /\ SwapToFrontAndPop(k) \in Seq(EvInfo)
         /\ Len(SwapToFrontAndPop(k)) = Len(index) - 1
         /\ \A j \in 1 .. Len(index) - 1 :
              SwapToFrontAndPop(k)[j] = IF j + 1 = k THEN index[1] ELSE index[j + 1]
<1> DEFINE s == [index EXCEPT ![k] = index[1]]
<1>1. s \in Seq(EvInfo) /\ Len(s) = Len(index)
  OBVIOUS
<1>2. \A j \in 1 .. Len(index) : s[j] = IF j = k THEN index[1] ELSE index[j]
  OBVIOUS
<1>3. s # <<>>
  BY <1>1
<1>4. /\ Tail(s) \in Seq(EvInfo) /\ Len(Tail(s)) = Len(s) - 1
      /\ \A j \in 1 .. Len(s) - 1 : Tail(s)[j] = s[j + 1]
  <2> HIDE DEF s
  <2> QED BY <1>1, <1>3
<1>5. \A j \in 1 .. Len(index) - 1 :
        Tail(s)[j] = IF j + 1 = k THEN index[1] ELSE index[j + 1]
  <2> HIDE DEF s
  <2> QED BY <1>1, <1>2, <1>4
<1>6. SwapToFrontAndPop(k) = Tail(s)
  BY DEF SwapToFrontAndPop
<1> HIDE DEF s
<1> QED BY <1>1, <1>4, <1>5, <1>6

\* swap_to_front_and_pop removes the entry k and no other: what is left is
\* what was at the positions other than k, each once.
LEMMA SwapRemovesOne ==
  ASSUME index \in Seq(EvInfo), NEW k \in 1 .. Len(index)
  PROVE  LET new == SwapToFrontAndPop(k) IN
         \E old \in [1 .. Len(new) -> (1 .. Len(index)) \ {k}] :
           /\ \A j \in 1 .. Len(new) : new[j] = index[old[j]]
           /\ \A i, j \in 1 .. Len(new) : old[i] = old[j] => i = j
           /\ \A l \in (1 .. Len(index)) \ {k} : \E j \in 1 .. Len(new) : old[j] = l
<1> DEFINE new == SwapToFrontAndPop(k)
<1> DEFINE old == [j \in 1 .. Len(new) |-> IF j + 1 = k THEN 1 ELSE j + 1]
<1>1. /\ Len(new) = Len(index) - 1 /\ Len(index) \in Nat /\ k \in Nat
      /\ \A j \in 1 .. Len(new) : new[j] = IF j + 1 = k THEN index[1] ELSE index[j + 1]
  BY SwapFacts
<1>2. old \in [1 .. Len(new) -> (1 .. Len(index)) \ {k}]
  BY <1>1
<1>3. \A j \in 1 .. Len(new) : new[j] = index[old[j]]
  BY <1>1
<1>4. \A i, j \in 1 .. Len(new) : old[i] = old[j] => i = j
  BY <1>1
<1>5. \A l \in (1 .. Len(index)) \ {k} : \E j \in 1 .. Len(new) : old[j] = l
  <2> TAKE l \in (1 .. Len(index)) \ {k}
  <2>1. CASE l = 1
    <3>1. k - 1 \in 1 .. Len(new) /\ old[k - 1] = l
      BY <1>1, <2>1
    <3> QED BY <3>1
  <2>2. CASE l # 1
    <3>1. l - 1 \in 1 .. Len(new) /\ old[l - 1] = l
      BY <1>1, <2>2
    <3> QED BY <3>1
  <2> QED BY <2>1, <2>2
<1> HIDE DEF old, new
<1>6. \E f \in [1 .. Len(new) -> (1 .. Len(index)) \ {k}] :
         /\ \A j \in 1 .. Len(new) : new[j] = index[f[j]]
         /\ \A i, j \in 1 .. Len(new) : f[i] = f[j] => i = j
         /\ \A l \in (1 .. Len(index)) \ {k} : \E j \in 1 .. Len(new) : f[j] = l
  BY <1>2, <1>3, <1>4, <1>5
<1> QED BY <1>6 DEF new

(***************************************************************************)
(* The invariant                                                           *)
(***************************************************************************)

\* A live slot holds an event, with a Boolean flag.
LEMMA LiveHoldsEvent ==
  ASSUME TypeOK, RingShape, NEW s \in Slots, Live(s)
  PROVE  slots[s] \in Event /\ slots[s].unique \in BOOLEAN /\ slots[s].id \in Ids
BY FlagsAssumption DEF TypeOK, RingShape, Event

\* The entries of the index are ids with a slot.
LEMMA IndexEntries ==
  ASSUME TypeOK
  PROVE  /\ Len(index) \in Nat
         /\ \A k \in 1 .. Len(index) : index[k].at \in Slots
<1>1. index \in Seq(EvInfo)
  BY DEF TypeOK
<1>2. Len(index) \in Nat /\ \A k \in 1 .. Len(index) : index[k] \in EvInfo
  BY <1>1
<1> QED BY <1>2 DEF EvInfo

\* The initial state: an empty ring and an empty index.
LEMMA QueueInvInit == Init => QueueInv
<1> SUFFICES ASSUME Init PROVE QueueInv
  OBVIOUS
<1> USE CapAssumption
<1>1. TypeOK
  BY DEF Init, TypeOK, Slots
<1>2. RingShape
  BY DEF Init, RingShape, Live, Slots
<1>3. PendingIsIndexed
  BY DEF Init, PendingIsIndexed, Live, Slots
<1>4. IndexPointsAtPending /\ IndexHasNoDuplicates
  BY DEF Init, IndexPointsAtPending, IndexHasNoDuplicates
<1> QED BY <1>1, <1>2, <1>3, <1>4 DEF QueueInv

\* Eventqueue::push of an ordinary event: the index still tells the truth.
LEMMA PushPlainKeepsInv ==
  ASSUME QueueInv, NEW e \in Event, HasRoom(e), PushPlain(e)
  PROVE  QueueInv'
<1> USE DEF QueueInv
<1>1. n < Cap /\ ~e.unique /\ RingAppend(e) /\ index' = index
  BY DEF HasRoom, PushPlain
<1>2. /\ slots' \in [Slots -> Event \cup {NoEvent}]
      /\ start' \in Slots /\ end' \in Slots /\ n' \in 0 .. Cap
      /\ RingShape'
      /\ \A s \in Slots : Live(s)' <=> (Live(s) \/ s = end)
      /\ ~Live(end)
      /\ slots'[end] = e
      /\ \A s \in Slots : Live(s) => slots'[s] = slots[s]
  BY <1>1, RingAppendFacts
<1>3. TypeOK'
  BY <1>1, <1>2 DEF TypeOK
<1>4. \A k \in 1 .. Len(index) : index[k].at \in Slots
  BY IndexEntries
<1>5. IndexPointsAtPending'
  BY <1>1, <1>2, <1>4 DEF IndexPointsAtPending
<1>6. PendingIsIndexed'
  BY <1>1, <1>2 DEF PendingIsIndexed
<1>7. IndexHasNoDuplicates'
  BY <1>1 DEF IndexHasNoDuplicates
<1> QED BY <1>2, <1>3, <1>5, <1>6, <1>7

\* Eventqueue::push of a unique event that is not pending: its entry joins
\* the index and points at the slot just written.
LEMMA PushUniqueKeepsInv ==
  ASSUME QueueInv, NEW e \in Event, HasRoom(e), PushUnique(e)
  PROVE  QueueInv'
<1> USE DEF QueueInv
<1> DEFINE info == [id |-> e.id, at |-> end]
<1>1. /\ n < Cap /\ Len(index) < UCap /\ e.unique /\ ~Indexed(e.id)
      /\ RingAppend(e) /\ index' = IndexAppended(info)
  BY DEF HasRoom, PushUnique
<1>2. /\ slots' \in [Slots -> Event \cup {NoEvent}]
      /\ start' \in Slots /\ end' \in Slots /\ n' \in 0 .. Cap
      /\ RingShape'
      /\ \A s \in Slots : Live(s)' <=> (Live(s) \/ s = end)
      /\ ~Live(end)
      /\ slots'[end] = e
      /\ \A s \in Slots : Live(s) => slots'[s] = slots[s]
  BY <1>1, RingAppendFacts
<1>3. info \in EvInfo /\ end \in Slots
  BY DEF TypeOK, EvInfo, Event
<1>4. /\ index' \in Seq(EvInfo) /\ Len(index') = Len(index) + 1
      /\ index'[Len(index) + 1] = info
      /\ \A k \in 1 .. Len(index) : index'[k] = index[k]
      /\ Len(index) \in Nat
  <2> HIDE DEF info
  <2> QED BY <1>1, <1>3, IndexAppendedFacts, IndexEntries DEF TypeOK
<1>5. TypeOK'
  BY <1>2, <1>4 DEF TypeOK
<1>6. \A k \in 1 .. Len(index) : index[k].at \in Slots
  BY IndexEntries
<1>7. \A k \in 1 .. Len(index') : k \in 1 .. Len(index) \/ k = Len(index) + 1
  BY <1>4
<1>8. IndexPointsAtPending'
  <2> SUFFICES ASSUME NEW k \in 1 .. Len(index')
               PROVE  /\ Live(index[k].at)'
                      /\ slots'[index'[k].at] \in Event
                      /\ slots'[index'[k].at].unique
                      /\ slots'[index'[k].at].id = index'[k].id
    BY DEF IndexPointsAtPending
  <2>1. CASE k \in 1 .. Len(index)
    <3>1. PICK s \in Slots : s = index[k].at /\ s = index'[k].at
      BY <1>4, <1>6, <2>1
    <3>2. Live(s)' /\ slots'[s] = slots[s]
      BY <1>2, <2>1, <3>1 DEF IndexPointsAtPending
    <3>3. Live(index[k].at)'
      BY <3>1, <3>2 DEF Live
    <3> QED BY <1>4, <2>1, <3>1, <3>2, <3>3 DEF IndexPointsAtPending
  <2>2. CASE k = Len(index) + 1
    <3>1. index'[k].at = end /\ index'[k].id = e.id
      BY <1>4, <2>2
    <3>2. PICK s \in Slots : s = end /\ Live(s)'
      BY <1>2, <1>3
    <3>3. Live(index[k].at)'
      BY <3>1, <3>2 DEF Live
    <3> QED BY <1>1, <1>2, <1>3, <3>1, <3>2, <3>3
  <2> QED BY <1>7, <2>1, <2>2
<1>9. PendingIsIndexed'
  <2> SUFFICES ASSUME NEW s \in Slots, Live(s)', slots'[s].unique
               PROVE  \E k \in 1 .. Len(index') : index'[k].at = s
    BY DEF PendingIsIndexed
  <2>1. CASE s = end
    <3>1. Len(index) + 1 \in 1 .. Len(index') /\ index'[Len(index) + 1].at = s
      BY <1>4, <2>1
    <3> QED BY <3>1
  <2>2. CASE s # end
    <3>1. PICK k \in 1 .. Len(index) : index[k].at = s
      BY <1>2, <2>2 DEF PendingIsIndexed
    <3>2. k \in 1 .. Len(index') /\ index'[k].at = s
      BY <1>4, <3>1
    <3> QED BY <3>2
  <2> QED BY <2>1, <2>2
<1>10. IndexHasNoDuplicates'
  <2>1. \A k \in 1 .. Len(index) : index[k].id # e.id
    BY <1>1 DEF Indexed
  <2> QED BY <1>4, <1>7, <2>1 DEF IndexHasNoDuplicates
<1> QED BY <1>2, <1>5, <1>8, <1>9, <1>10

\* Eventqueue::push of a unique event that is pending: the recorded slot
\* holds an event of the same id, so the update in place changes neither
\* the ring's shape nor what the index says.
LEMMA PushReplaceKeepsInv ==
  ASSUME QueueInv, NEW e \in Event, PushReplace(e)
  PROVE  QueueInv'
<1> USE DEF QueueInv
<1>1. PICK k \in 1 .. Len(index) :
        Finds(k, e.id) /\ slots' = [slots EXCEPT ![index[k].at] = e]
  BY DEF PushReplace
<1>2. /\ e.unique
      /\ start' = start /\ end' = end /\ n' = n /\ index' = index
  BY DEF PushReplace
<1> DEFINE at == index[k].at
<1>3. at \in Slots /\ index[k].id = e.id /\ Live(at) /\ slots[at].id = e.id
  BY <1>1, IndexEntries DEF Finds, IndexPointsAtPending
<1>4. \A s \in Slots : slots'[s] = IF s = at THEN e ELSE slots[s]
  BY <1>1, <1>3 DEF TypeOK
<1>5. \A s \in Slots : Live(s)' <=> Live(s)
  BY <1>2 DEF Live
<1>6. TypeOK'
  BY <1>1, <1>2, <1>3 DEF TypeOK
<1>7. RingShape'
  BY <1>2, <1>3, <1>4, <1>5, NoEventAssumption DEF RingShape
<1>8. \A l \in 1 .. Len(index) : index[l].at \in Slots
  BY IndexEntries
<1> HIDE DEF at
<1>9. IndexPointsAtPending'
  <2> SUFFICES ASSUME NEW l \in 1 .. Len(index)
               PROVE  /\ Live(index[l].at)'
                      /\ slots'[index[l].at] \in Event
                      /\ slots'[index[l].at].unique
                      /\ slots'[index[l].at].id = index[l].id
    BY <1>2 DEF IndexPointsAtPending
  <2>1. /\ Live(index[l].at) /\ slots[index[l].at] \in Event
        /\ slots[index[l].at].unique /\ slots[index[l].at].id = index[l].id
    BY DEF IndexPointsAtPending
  <2>2. CASE index[l].at = at
    BY <1>2, <1>3, <1>4, <1>5, <1>8, <2>1, <2>2
  <2>3. CASE index[l].at # at
    BY <1>2, <1>4, <1>5, <1>8, <2>1, <2>3
  <2> QED BY <2>2, <2>3
<1>10. PendingIsIndexed'
  <2> SUFFICES ASSUME NEW s \in Slots, Live(s), slots'[s].unique
               PROVE  \E l \in 1 .. Len(index) : index[l].at = s
    BY <1>2, <1>5 DEF PendingIsIndexed
  <2>1. CASE s = at
    BY <2>1 DEF at
  <2>2. CASE s # at
    BY <1>4, <2>2 DEF PendingIsIndexed
  <2> QED BY <2>1, <2>2
<1>11. IndexHasNoDuplicates'
  BY <1>2 DEF IndexHasNoDuplicates
<1> QED BY <1>6, <1>7, <1>9, <1>10, <1>11

\* Eventqueue::pop: the entry that leaves the index is the one that points
\* at the popped slot.  This is where all parts of the invariant meet: the
\* popped unique event has an entry (PendingIsIndexed), the entry has its id
\* (IndexPointsAtPending), and find() returns that entry and no other
\* (IndexHasNoDuplicates).
LEMMA PopKeepsInv ==
  ASSUME QueueInv, Pop
  PROVE  QueueInv'
<1> USE DEF QueueInv
<1> DEFINE front == slots[start]
<1>1. n > 0 /\ RingPop
  BY DEF Pop
<1>2. /\ slots' \in [Slots -> Event \cup {NoEvent}]
      /\ start' \in Slots /\ end' \in Slots /\ n' \in 0 .. Cap
      /\ RingShape'
      /\ \A s \in Slots : Live(s)' <=> (Live(s) /\ s # start)
      /\ \A s \in Slots : Live(s)' => slots'[s] = slots[s]
      /\ Live(start)
  BY <1>1, RingPopFacts
<1>3. \A l \in 1 .. Len(index) : index[l].at \in Slots
  BY IndexEntries
<1>4. start \in Slots /\ front \in Event /\ front.unique \in BOOLEAN
  BY <1>2, LiveHoldsEvent DEF TypeOK
<1>5. CASE ~front.unique
  <2>1. index' = index
    BY <1>5 DEF Pop
  <2>2. \A l \in 1 .. Len(index) : index[l].at # start
    BY <1>5 DEF IndexPointsAtPending
  <2>3. TypeOK'
    BY <1>2, <2>1 DEF TypeOK
  <2>4. IndexPointsAtPending'
    BY <1>2, <1>3, <2>1, <2>2 DEF IndexPointsAtPending
  <2>5. PendingIsIndexed'
    BY <1>2, <2>1 DEF PendingIsIndexed
  <2>6. IndexHasNoDuplicates'
    BY <2>1 DEF IndexHasNoDuplicates
  <2> QED BY <1>2, <2>3, <2>4, <2>5, <2>6
<1>6. CASE front.unique
  <2>1. PICK m \in 1 .. Len(index) : index[m].at = start
    BY <1>2, <1>4, <1>6 DEF PendingIsIndexed
  <2>2. index[m].id = front.id
    BY <2>1 DEF IndexPointsAtPending
  <2>3. PICK k \in 1 .. Len(index) : Finds(k, front.id) /\ index' = SwapToFrontAndPop(k)
    BY <1>6, <2>2 DEF Pop, Indexed
  <2>4. k = m
    BY <2>2, <2>3 DEF Finds, IndexHasNoDuplicates
  <2>5. \A l \in (1 .. Len(index)) \ {k} : index[l].at # start
    BY <2>2, <2>4 DEF IndexPointsAtPending, IndexHasNoDuplicates
  <2>6. index' \in Seq(EvInfo)
    BY <2>3, SwapFacts DEF TypeOK
  <2>7. PICK old \in [1 .. Len(index') -> (1 .. Len(index)) \ {k}] :
           /\ \A j \in 1 .. Len(index') : index'[j] = index[old[j]]
           /\ \A i, j \in 1 .. Len(index') : old[i] = old[j] => i = j
           /\ \A l \in (1 .. Len(index)) \ {k} : \E j \in 1 .. Len(index') : old[j] = l
    <3>1. index \in Seq(EvInfo) /\ index' = SwapToFrontAndPop(k)
      BY <2>3 DEF TypeOK
    <3> HIDE DEF QueueInv
    <3>2. LET new == SwapToFrontAndPop(k) IN
          \E old \in [1 .. Len(new) -> (1 .. Len(index)) \ {k}] :
            /\ \A j \in 1 .. Len(new) : new[j] = index[old[j]]
            /\ \A i, j \in 1 .. Len(new) : old[i] = old[j] => i = j
            /\ \A l \in (1 .. Len(index)) \ {k} : \E j \in 1 .. Len(new) : old[j] = l
      BY <3>1, SwapRemovesOne, Zenon
    <3> QED BY <3>1, <3>2, ZenonT(60)
  <2>8. TypeOK'
    BY <1>2, <2>6 DEF TypeOK
  <2>9. IndexPointsAtPending'
    <3> SUFFICES ASSUME NEW j \in 1 .. Len(index')
                 PROVE  /\ Live(index[j].at)'
                        /\ slots'[index'[j].at] \in Event
                        /\ slots'[index'[j].at].unique
                        /\ slots'[index'[j].at].id = index'[j].id
      BY DEF IndexPointsAtPending
    <3>1. PICK l \in (1 .. Len(index)) \ {k} : index'[j] = index[l]
      BY <2>7
    <3>2. PICK s \in Slots : s = index[l].at /\ s = index'[j].at
      BY <1>3, <3>1
    <3>3. Live(s)' /\ slots'[s] = slots[s]
      BY <1>2, <2>5, <3>1, <3>2 DEF IndexPointsAtPending
    <3>4. Live(index[j].at)'
      BY <3>2, <3>3 DEF Live
    <3> QED BY <3>1, <3>2, <3>3, <3>4 DEF IndexPointsAtPending
  <2>10. PendingIsIndexed'
    <3> SUFFICES ASSUME NEW s \in Slots, Live(s)', slots'[s].unique
                 PROVE  \E j \in 1 .. Len(index') : index'[j].at = s
      BY DEF PendingIsIndexed
    <3>1. s # start /\ Live(s) /\ slots[s].unique
      BY <1>2
    <3>2. PICK l \in 1 .. Len(index) : index[l].at = s
      BY <3>1 DEF PendingIsIndexed
    <3>3. l \in (1 .. Len(index)) \ {k}
      BY <2>1, <2>4, <3>1, <3>2
    <3>4. PICK j \in 1 .. Len(index') : old[j] = l
      BY <2>7, <3>3
    <3> QED BY <2>7, <3>2, <3>4
  <2>11. IndexHasNoDuplicates'
    <3> SUFFICES ASSUME NEW i \in 1 .. Len(index'), NEW j \in 1 .. Len(index'),
                        index'[i].id = index'[j].id
                 PROVE  i = j
      BY DEF IndexHasNoDuplicates
    <3>1. old[i] \in 1 .. Len(index) /\ old[j] \in 1 .. Len(index)
      BY <2>7
    <3>2. index[old[i]].id = index[old[j]].id
      BY <2>7
    <3>3. old[i] = old[j]
      BY <3>1, <3>2 DEF IndexHasNoDuplicates
    <3> QED BY <2>7, <3>3
  <2> QED BY <1>2, <2>8, <2>9, <2>10, <2>11
<1> QED BY <1>4, <1>5, <1>6

\* Every step of the queue within its capacity keeps the invariant.
LEMMA QueueInvStep == QueueInv /\ [NextWithinCapacity]_vars => QueueInv'
<1> SUFFICES ASSUME QueueInv, [NextWithinCapacity]_vars PROVE QueueInv'
  OBVIOUS
<1>1. CASE \E e \in Event : PushReplace(e)
  BY <1>1, PushReplaceKeepsInv
<1>2. CASE \E e \in Event : HasRoom(e) /\ (PushPlain(e) \/ PushUnique(e))
  BY <1>2, PushPlainKeepsInv, PushUniqueKeepsInv
<1>3. CASE Pop
  BY <1>3, PopKeepsInv
<1>4. CASE UNCHANGED vars
  BY <1>4 DEF vars, QueueInv, TypeOK, RingShape, IndexPointsAtPending,
              PendingIsIndexed, IndexHasNoDuplicates, Live
<1> QED BY <1>1, <1>2, <1>3, <1>4 DEF NextWithinCapacity

\* Two pending unique events of one id would have two index entries.
LEMMA InvImpliesUnique == QueueInv => UniquePendingOnce
<1> SUFFICES ASSUME QueueInv, NEW s \in Slots, NEW t \in Slots,
                    Live(s), Live(t), slots[s].unique, slots[t].unique,
                    slots[s].id = slots[t].id
             PROVE  s = t
  BY DEF UniquePendingOnce
<1> USE DEF QueueInv
<1>1. PICK k \in 1 .. Len(index) : index[k].at = s
  BY DEF PendingIsIndexed
<1>2. PICK l \in 1 .. Len(index) : index[l].at = t
  BY DEF PendingIsIndexed
<1>3. index[k].id = index[l].id
  BY <1>1, <1>2 DEF IndexPointsAtPending
<1> QED BY <1>1, <1>2, <1>3 DEF IndexHasNoDuplicates

\* Within its capacity the event queue (Eventqueue in events.hpp) keeps its
\* ring and its index consistent, whatever the sizes of the rings: front()
\* never reads a destroyed event, and the update in place of a unique event
\* never hits a foreign one.
THEOREM QueueIsConsistent == SpecWithinCapacity => []QueueInv
<1>1. Init => QueueInv
  BY QueueInvInit
<1>2. QueueInv /\ [NextWithinCapacity]_vars => QueueInv'
  BY QueueInvStep
<1> QED BY <1>1, <1>2, PTL DEF SpecWithinCapacity

\* A unique event is never pending twice.
THEOREM UniqueEventsPendOnce == SpecWithinCapacity => []UniquePendingOnce
<1>1. QueueInv => UniquePendingOnce
  BY InvImpliesUnique
<1> QED BY <1>1, QueueIsConsistent, PTL

(***************************************************************************)
(* The refinement                                                          *)
(***************************************************************************)

\* The live slots are the slots of the pending events, each of one of them.
LEMMA SlotOfFacts ==
  ASSUME TypeOK
  PROVE  /\ \A k \in 1 .. n : SlotOf(k) \in Slots /\ Live(SlotOf(k))
         /\ \A k, l \in 1 .. n : SlotOf(k) = SlotOf(l) => k = l
         /\ \A s \in Slots : Live(s) => \E k \in 1 .. n : SlotOf(k) = s
<1> USE CapAssumption
<1>1. /\ start \in Int /\ n \in Int /\ Cap \in Int
      /\ 0 <= start /\ start < Cap /\ 0 <= n /\ n <= Cap
  BY DEF TypeOK, Slots
<1>2. \A k \in 1 .. n : SlotOf(k) \in Slots /\ Live(SlotOf(k))
  BY <1>1 DEF SlotOf, Slots, Live
<1>3. \A k, l \in 1 .. n : SlotOf(k) = SlotOf(l) => k = l
  BY <1>1 DEF SlotOf
<1>4. ASSUME NEW s \in Slots, Live(s)
      PROVE  \E k \in 1 .. n : SlotOf(k) = s
  <2>1. CASE start <= s
    <3>1. s - start + 1 \in 1 .. n /\ SlotOf(s - start + 1) = s
      BY <1>1, <1>4, <2>1 DEF Slots, Live, SlotOf
    <3> QED BY <3>1
  <2>2. CASE s < start
    <3>1. s + Cap - start + 1 \in 1 .. n /\ SlotOf(s + Cap - start + 1) = s
      BY <1>1, <1>4, <2>2 DEF Slots, Live, SlotOf
    <3> QED BY <3>1
  <2> QED BY <1>1, <2>1, <2>2 DEF Slots
<1> QED BY <1>2, <1>3, <1>4

\* Pending is a sequence of n events.
LEMMA PendingIsSeq ==
  ASSUME TypeOK, RingShape
  PROVE  /\ Pending \in Seq(Event)
         /\ Len(Pending) = n
         /\ n \in Nat
         /\ \A k \in 1 .. n : Pending[k] = slots[SlotOf(k)]
<1>1. n \in Nat
  BY CapAssumption DEF TypeOK
<1>2. \A k \in 1 .. n : slots[SlotOf(k)] \in Event
  BY SlotOfFacts DEF TypeOK, RingShape
<1> QED BY <1>1, <1>2 DEF Pending

\* Two sequences with the same length and elements are equal; a function on
\* 1 .. len is one of them.
LEMMA SeqIsFunction ==
  ASSUME NEW S, NEW q \in Seq(S), NEW len \in Nat, Len(q) = len,
         NEW f, f = [k \in 1 .. len |-> f[k]], \A k \in 1 .. len : f[k] = q[k]
  PROVE  f = q
<1>1. q = [k \in 1 .. len |-> q[k]]
  OBVIOUS
<1> QED BY <1>1

\* Ringbuffer::append on a ring that has room enqueues.
LEMMA AppendEnqueues ==
  ASSUME TypeOK, RingShape, n < Cap, NEW e \in Event, RingAppend(e)
  PROVE  Pending' = Append(Pending, e)
<1> USE CapAssumption
<1>1. /\ slots' = [slots EXCEPT ![end] = e]
      /\ start' = start /\ n' = n + 1
  BY DEF RingAppend
<1>2. /\ start \in Int /\ n \in Nat /\ Cap \in Int
      /\ 0 <= start /\ start < Cap /\ end \in Slots
      /\ end = (IF start + n < Cap THEN start + n ELSE start + n - Cap)
  BY DEF TypeOK, RingShape, Slots
<1>3. \A k \in 1 .. n : /\ SlotOf(k)' = SlotOf(k)
                        /\ SlotOf(k) # end /\ SlotOf(k) \in Slots
  BY <1>1, <1>2, SlotOfFacts DEF SlotOf
<1>4. \A k \in 1 .. n + 1 : k = n + 1 => SlotOf(k)' = end
  BY <1>1, <1>2 DEF SlotOf
<1> DEFINE q == Append(Pending, e)
<1>5. /\ q \in Seq(Event) /\ Len(q) = n + 1
      /\ \A k \in 1 .. n : q[k] = slots[SlotOf(k)]
      /\ q[n + 1] = e
  BY PendingIsSeq
<1>6. /\ Pending' = [k \in 1 .. n + 1 |-> Pending'[k]]
      /\ \A k \in 1 .. n + 1 : Pending'[k] = slots'[SlotOf(k)']
  BY <1>1 DEF Pending
<1>7. \A k \in 1 .. n + 1 : Pending'[k] = q[k]
  <2> SUFFICES ASSUME NEW k \in 1 .. n + 1
               PROVE  Pending'[k] = q[k]
    OBVIOUS
  <2> HIDE DEF q
  <2>1. CASE k \in 1 .. n
    BY <1>1, <1>3, <1>5, <1>6, <2>1 DEF TypeOK
  <2>2. CASE k = n + 1
    BY <1>1, <1>2, <1>4, <1>5, <1>6, <2>2 DEF TypeOK
  <2> QED BY <1>2, <2>1, <2>2
<1> HIDE DEF q
<1>8. Pending' = q
  BY <1>2, <1>5, <1>6, <1>7, SeqIsFunction
<1> QED BY <1>8 DEF q

\* Ringbuffer::append on a full ring forgets the oldest event.
LEMMA OverflowForgetsOldest ==
  ASSUME TypeOK, RingShape, ~(n < Cap), NEW e \in Event, RingAppend(e)
  PROVE  Pending' = Append(Tail(Pending), e)
<1> USE CapAssumption
<1>1. /\ slots' = [slots EXCEPT ![end] = e]
      /\ start' = After(start) /\ n' = n
  BY DEF RingAppend
<1>2. /\ start \in Int /\ n \in Nat /\ Cap \in Int /\ n = Cap /\ n >= 1
      /\ 0 <= start /\ start < Cap /\ end \in Slots /\ end = start
  BY DEF TypeOK, RingShape, Slots
<1>3. \A k \in 1 .. n - 1 : SlotOf(k)' = SlotOf(k + 1)
  BY <1>1, <1>2 DEF SlotOf, After
<1>4. \A k \in 1 .. n - 1 : SlotOf(k + 1) # end /\ SlotOf(k + 1) \in Slots
  BY <1>2 DEF SlotOf, Slots
<1>5. \A k \in 1 .. n : k = n => SlotOf(k)' = end
  BY <1>1, <1>2 DEF SlotOf, After
<1>6. Pending \in Seq(Event) /\ Len(Pending) = n /\ Pending # <<>>
      /\ \A k \in 1 .. n : Pending[k] = slots[SlotOf(k)]
  BY <1>2, PendingIsSeq
<1> DEFINE t == Tail(Pending)
<1>7. /\ t \in Seq(Event) /\ Len(t) = n - 1
      /\ \A k \in 1 .. n - 1 : t[k] = slots[SlotOf(k + 1)]
  BY <1>2, <1>6
<1> HIDE DEF t
<1> DEFINE q == Append(t, e)
<1>8. /\ q \in Seq(Event) /\ Len(q) = n
      /\ \A k \in 1 .. n - 1 : q[k] = slots[SlotOf(k + 1)]
      /\ q[n] = e
  BY <1>2, <1>7
<1>9. /\ Pending' = [k \in 1 .. n |-> Pending'[k]]
      /\ \A k \in 1 .. n : Pending'[k] = slots'[SlotOf(k)']
  BY <1>1 DEF Pending
<1>10. \A k \in 1 .. n : Pending'[k] = q[k]
  <2> SUFFICES ASSUME NEW k \in 1 .. n
               PROVE  Pending'[k] = q[k]
    OBVIOUS
  <2> HIDE DEF q
  <2>1. CASE k \in 1 .. n - 1
    BY <1>1, <1>3, <1>4, <1>8, <1>9, <2>1 DEF TypeOK
  <2>2. CASE k = n
    BY <1>1, <1>2, <1>5, <1>8, <1>9, <2>2 DEF TypeOK
  <2> QED BY <1>2, <2>1, <2>2
<1> HIDE DEF q
<1>11. Pending' = q
  BY <1>2, <1>8, <1>9, <1>10, SeqIsFunction
<1> QED BY <1>11 DEF q, t

\* Ringbuffer::pop removes the front.
LEMMA PopDequeues ==
  ASSUME TypeOK, RingShape, n > 0, RingPop
  PROVE  Pending # <<>> /\ Pending' = Tail(Pending)
<1> USE CapAssumption
<1>1. slots' = [slots EXCEPT ![start] = NoEvent] /\ n' = n - 1
      /\ IF n = 1 THEN start' = 0 ELSE start' = After(start)
  BY DEF RingPop
<1>2. /\ start \in Int /\ n \in Nat /\ Cap \in Int /\ n <= Cap
      /\ 0 <= start /\ start < Cap
  BY DEF TypeOK, RingShape, Slots
<1>3. \A k \in 1 .. n - 1 : SlotOf(k)' = SlotOf(k + 1)
  BY <1>1, <1>2 DEF SlotOf, After
<1>4. \A k \in 1 .. n - 1 : SlotOf(k + 1) # start /\ SlotOf(k + 1) \in Slots
  BY <1>2 DEF SlotOf, Slots
<1>5. Pending \in Seq(Event) /\ Len(Pending) = n /\ Pending # <<>>
      /\ \A k \in 1 .. n : Pending[k] = slots[SlotOf(k)]
  BY <1>2, PendingIsSeq
<1> DEFINE t == Tail(Pending)
<1>6. /\ t \in Seq(Event) /\ Len(t) = n - 1
      /\ \A k \in 1 .. n - 1 : t[k] = slots[SlotOf(k + 1)]
  BY <1>2, <1>5
<1> HIDE DEF t
<1>7. /\ Pending' = [k \in 1 .. n - 1 |-> Pending'[k]]
      /\ \A k \in 1 .. n - 1 : Pending'[k] = slots'[SlotOf(k)']
  BY <1>1 DEF Pending
<1>8. \A k \in 1 .. n - 1 : Pending'[k] = t[k]
  BY <1>1, <1>3, <1>4, <1>6, <1>7 DEF TypeOK
<1>9. n - 1 \in Nat
  BY <1>2
<1>10. Pending' = t
  BY <1>6, <1>7, <1>8, <1>9, SeqIsFunction
<1> QED BY <1>5, <1>10 DEF t

\* The update in place changes the pending event the index points at.
LEMMA ReplaceInPlace ==
  ASSUME QueueInv, NEW e \in Event, PushReplace(e)
  PROVE  AbstractQueue!Replace(e)
<1> USE DEF QueueInv
<1>1. PICK k \in 1 .. Len(index) :
        Finds(k, e.id) /\ slots' = [slots EXCEPT ![index[k].at] = e]
  BY DEF PushReplace
<1>2. e.unique /\ start' = start /\ n' = n
  BY DEF PushReplace
<1> DEFINE at == index[k].at
<1>3. /\ at \in Slots /\ Live(at) /\ slots[at].unique /\ slots[at].id = e.id
  BY <1>1, IndexEntries DEF Finds, IndexPointsAtPending
<1> HIDE DEF at
<1>4. PICK m \in 1 .. n : SlotOf(m) = at
  BY <1>3, SlotOfFacts
<1>5. /\ Pending \in Seq(Event) /\ Len(Pending) = n /\ n \in Nat
      /\ \A l \in 1 .. n : Pending[l] = slots[SlotOf(l)]
  BY PendingIsSeq
<1> DEFINE q == [Pending EXCEPT ![m] = e]
<1>6. /\ q \in Seq(Event) /\ Len(q) = n
      /\ \A l \in 1 .. n : q[l] = IF l = m THEN e ELSE slots[SlotOf(l)]
  BY <1>5
<1>7. /\ Pending' = [l \in 1 .. n |-> Pending'[l]]
      /\ \A l \in 1 .. n : Pending'[l] = slots'[SlotOf(l)]
  BY <1>2 DEF Pending, SlotOf
<1>8. \A l \in 1 .. n : SlotOf(l) \in Slots /\ (SlotOf(l) = at => l = m)
  BY <1>4, SlotOfFacts
<1> HIDE DEF q
<1>9. \A l \in 1 .. n : Pending'[l] = q[l]
  BY <1>1, <1>4, <1>6, <1>7, <1>8 DEF TypeOK, at
<1>10. Pending' = q
  BY <1>5, <1>6, <1>7, <1>9, SeqIsFunction
<1>11. m \in DOMAIN Pending /\ Pending[m].unique /\ Pending[m].id = e.id
  BY <1>3, <1>4, <1>5
<1> QED BY <1>2, <1>10, <1>11 DEF AbstractQueue!Replace, AbstractQueue!PendingUniqueAt, q

\* The empty ring is the empty queue.
LEMMA InitRefines == Init => AbstractQueue!Init
BY DEF Init, AbstractQueue!Init, Pending

\* Each step within the capacity is a step of the abstract queue.
LEMMA StepRefines ==
  QueueInv /\ [NextWithinCapacity]_vars => [AbstractQueue!Next]_Pending
<1> SUFFICES ASSUME QueueInv, [NextWithinCapacity]_vars
             PROVE  [AbstractQueue!Next]_Pending
  OBVIOUS
<1> USE DEF QueueInv
<1>1. /\ Pending \in Seq(Event) /\ Len(Pending) = n /\ n \in Nat
      /\ \A l \in 1 .. n : Pending[l] = slots[SlotOf(l)]
  BY PendingIsSeq
<1>2. ASSUME NEW e \in Event, PushReplace(e)
      PROVE  AbstractQueue!Next
  BY <1>2, ReplaceInPlace DEF AbstractQueue!Next, AbstractQueue!Event, Event
<1>3. ASSUME NEW e \in Event, HasRoom(e), PushPlain(e) \/ PushUnique(e)
      PROVE  AbstractQueue!Next
  <2>1. n < Cap /\ RingAppend(e)
    BY <1>3 DEF HasRoom, PushPlain, PushUnique
  <2>2. Pending' = Append(Pending, e)
    BY <2>1, AppendEnqueues
  <2>3. ASSUME e.unique, NEW m \in DOMAIN Pending,
               Pending[m].unique, Pending[m].id = e.id
        PROVE  FALSE
    <3>1. ~Indexed(e.id)
      BY <1>3, <2>3 DEF PushPlain, PushUnique
    <3>2. m \in 1 .. n /\ SlotOf(m) \in Slots /\ Live(SlotOf(m))
      BY <1>1, <2>3, SlotOfFacts
    <3>3. PICK k \in 1 .. Len(index) : index[k].at = SlotOf(m)
      BY <1>1, <2>3, <3>2 DEF PendingIsIndexed
    <3>4. index[k].id = e.id
      BY <1>1, <2>3, <3>2, <3>3 DEF IndexPointsAtPending
    <3> QED BY <3>1, <3>4 DEF Indexed
  <2>4. AbstractQueue!Enqueue(e)
    BY <1>1, <2>1, <2>2, <2>3 DEF AbstractQueue!Enqueue, AbstractQueue!PendingUniqueAt
  <2> QED BY <2>4 DEF AbstractQueue!Next, AbstractQueue!Event, Event
<1>4. ASSUME Pop
      PROVE  AbstractQueue!Next
  BY <1>4, PopDequeues DEF Pop, AbstractQueue!Next, AbstractQueue!Dequeue
<1>5. CASE UNCHANGED vars
  BY <1>5 DEF vars, Pending, SlotOf
<1> QED BY <1>2, <1>3, <1>4, <1>5 DEF NextWithinCapacity

\* Within its capacity the ring with its index of unique events behaves as the
\* abstract queue: first in, first out, and a unique event takes the place of
\* the pending one of its id.
THEOREM QueueRefines == SpecWithinCapacity => ImplementsAbstractQueue
<1>1. Init => AbstractQueue!Init
  BY InitRefines
<1>2. QueueInv /\ [NextWithinCapacity]_vars => [AbstractQueue!Next]_Pending
  BY StepRefines
<1> QED BY <1>1, <1>2, QueueIsConsistent, PTL
        DEF SpecWithinCapacity, ImplementsAbstractQueue, AbstractQueue!Spec

(***************************************************************************)
(* Overflow                                                                *)
(***************************************************************************)

\* Ringbuffer::append on a full ring: every slot stays live.
LEMMA OverflowFacts ==
  ASSUME TypeOK, RingShape, ~(n < Cap), NEW e \in Event, RingAppend(e)
  PROVE  /\ slots' \in [Slots -> Event \cup {NoEvent}]
         /\ start' \in Slots /\ end' \in Slots /\ n' \in 0 .. Cap
         /\ RingShape'
         /\ \A s \in Slots : Live(s)
         /\ \A s \in Slots : slots'[s] = IF s = end THEN e ELSE slots[s]
<1> USE CapAssumption, NoEventAssumption
<1>1. /\ slots' = [slots EXCEPT ![end] = e]
      /\ start' = After(start) /\ n' = n /\ end' = After(end)
  BY DEF RingAppend
<1>2. /\ start \in Int /\ n \in Nat /\ Cap \in Int /\ n = Cap /\ n >= 1
      /\ 0 <= start /\ start < Cap /\ end \in Slots /\ end = start
  BY DEF TypeOK, RingShape, Slots
<1>3. start' \in Slots /\ end' \in Slots /\ n' \in 0 .. Cap /\ end' = start'
  BY <1>1, <1>2, AfterInRing DEF TypeOK
<1>4. slots' \in [Slots -> Event \cup {NoEvent}]
  BY <1>1 DEF TypeOK
<1>5. \A s \in Slots : slots'[s] = IF s = end THEN e ELSE slots[s]
  BY <1>1, <1>2 DEF TypeOK
<1>6. \A s \in Slots : Live(s) /\ Live(s)'
  BY <1>1, <1>2, <1>3 DEF Live, Slots
<1>7. \A s \in Slots : slots'[s] # NoEvent
  BY <1>5, <1>6 DEF RingShape
<1>8. RingShape'
  BY <1>1, <1>2, <1>3, <1>6, <1>7 DEF RingShape, Slots
<1> QED BY <1>3, <1>4, <1>5, <1>6, <1>8

\* Every step of a queue of ordinary events keeps its invariant.
LEMMA OrdinaryInvStep == OrdinaryInv /\ [NextOrdinary]_vars => OrdinaryInv'
<1> SUFFICES ASSUME OrdinaryInv, [NextOrdinary]_vars PROVE OrdinaryInv'
  OBVIOUS
<1> USE DEF OrdinaryInv
<1>1. ASSUME NEW e \in Event, PushPlain(e), n < Cap
      PROVE  OrdinaryInv'
  <2>1. ~e.unique /\ RingAppend(e) /\ index' = index
    BY <1>1 DEF PushPlain
  <2>2. /\ slots' \in [Slots -> Event \cup {NoEvent}]
        /\ start' \in Slots /\ end' \in Slots /\ n' \in 0 .. Cap
        /\ RingShape'
        /\ \A s \in Slots : Live(s)' <=> (Live(s) \/ s = end)
        /\ slots'[end] = e
        /\ \A s \in Slots : Live(s) => slots'[s] = slots[s]
    BY <1>1, <2>1, RingAppendFacts
  <2> QED BY <2>1, <2>2 DEF TypeOK
<1>2. ASSUME NEW e \in Event, PushPlain(e), ~(n < Cap)
      PROVE  OrdinaryInv'
  <2>1. ~e.unique /\ RingAppend(e) /\ index' = index
    BY <1>2 DEF PushPlain
  <2>2. /\ slots' \in [Slots -> Event \cup {NoEvent}]
        /\ start' \in Slots /\ end' \in Slots /\ n' \in 0 .. Cap
        /\ RingShape'
        /\ \A s \in Slots : Live(s)
        /\ \A s \in Slots : slots'[s] = IF s = end THEN e ELSE slots[s]
    BY <1>2, <2>1, OverflowFacts
  <2> QED BY <2>1, <2>2 DEF TypeOK
<1>3. ASSUME Pop
      PROVE  OrdinaryInv'
  <2>1. n > 0 /\ RingPop /\ index' = index
    BY <1>3 DEF Pop
  <2>2. /\ slots' \in [Slots -> Event \cup {NoEvent}]
        /\ start' \in Slots /\ end' \in Slots /\ n' \in 0 .. Cap
        /\ RingShape'
        /\ \A s \in Slots : Live(s)' <=> (Live(s) /\ s # start)
        /\ \A s \in Slots : Live(s)' => slots'[s] = slots[s]
    BY <2>1, RingPopFacts
  <2> QED BY <2>1, <2>2 DEF TypeOK
<1>4. CASE UNCHANGED vars
  BY <1>4 DEF vars, TypeOK, RingShape, Live
<1> QED BY <1>1, <1>2, <1>3, <1>4 DEF NextOrdinary

\* Without unique events the queue behaves as the abstract queue even when its
\* ring overflows: exactly the oldest event is forgotten.
THEOREM OverflowRefines == SpecOrdinary => ImplementsAbstractQueue
<1>1. Init => OrdinaryInv /\ AbstractQueue!Init
  <2> SUFFICES ASSUME Init PROVE OrdinaryInv /\ AbstractQueue!Init
    OBVIOUS
  <2>1. TypeOK /\ RingShape
    BY QueueInvInit DEF QueueInv
  <2> QED BY <2>1, InitRefines DEF Init, OrdinaryInv, RingShape
<1>2. OrdinaryInv /\ [NextOrdinary]_vars => OrdinaryInv'
  BY OrdinaryInvStep
<1>3. OrdinaryInv /\ [NextOrdinary]_vars => [AbstractQueue!Next]_Pending
  <2> SUFFICES ASSUME OrdinaryInv, [NextOrdinary]_vars
               PROVE  [AbstractQueue!Next]_Pending
    OBVIOUS
  <2>1. /\ TypeOK /\ RingShape
        /\ Pending \in Seq(Event) /\ Len(Pending) = n /\ n \in Nat
    BY PendingIsSeq DEF OrdinaryInv
  <2>2. ASSUME NEW e \in Event, PushPlain(e)
        PROVE  AbstractQueue!Next
    <3>1. ~e.unique /\ RingAppend(e)
      BY <2>2 DEF PushPlain
    <3>2. Pending' = Append(IF Len(Pending) < Cap THEN Pending ELSE Tail(Pending), e)
      BY <2>1, <3>1, AppendEnqueues, OverflowForgetsOldest
    <3>3. AbstractQueue!Enqueue(e)
      BY <3>1, <3>2 DEF AbstractQueue!Enqueue
    <3> QED BY <3>3 DEF AbstractQueue!Next, AbstractQueue!Event, Event
  <2>3. ASSUME Pop
        PROVE  AbstractQueue!Next
    BY <2>1, <2>3, PopDequeues DEF Pop, AbstractQueue!Next, AbstractQueue!Dequeue
  <2>4. CASE UNCHANGED vars
    BY <2>4 DEF vars, Pending, SlotOf
  <2> QED BY <2>2, <2>3, <2>4 DEF NextOrdinary
<1> QED BY <1>1, <1>2, <1>3, PTL
        DEF SpecOrdinary, ImplementsAbstractQueue, AbstractQueue!Spec
=============================================================================
