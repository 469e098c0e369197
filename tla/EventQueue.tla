----------------------------- MODULE EventQueue -----------------------------
(***************************************************************************)
(* The main event queue of a simulation core: the class templates          *)
(* Ringbuffer and Eventqueue of core/include/events.hpp.                   *)
(*                                                                         *)
(* Events live in a ring of Cap slots.  An event that carries the unique   *)
(* flag is pending at most once: the queue remembers in a second ring, the *)
(* index stored_unique_events, in which slot the pending event of an id is *)
(* stored, and a later push of that id overwrites the slot in place.       *)
(*                                                                         *)
(* Byte offsets are slot numbers here (an offset is always a multiple of   *)
(* sizeof(R)).  The index is only read in ring order, so it is kept as the *)
(* sequence of its entries, oldest first.  Every operation runs under the  *)
(* mutex of threadsafe_queue and is one step.                              *)
(***************************************************************************)
EXTENDS Integers, Sequences

CONSTANTS Ids,      \* event ids
          Vals,     \* payloads
          Flags,    \* the values of the unique flag that producers use
          Cap,      \* slots of the event ring
          UCap,     \* entries of the index ring
          NoEvent   \* content of a slot whose event was destroyed

ASSUME CapAssumption == Cap \in Nat \ {0} /\ UCap \in Nat \ {0}
ASSUME FlagsAssumption == Flags \subseteq BOOLEAN

Event == [id : Ids, unique : Flags, val : Vals]

ASSUME NoEventAssumption == NoEvent \notin Event

Slots == 0 .. Cap - 1
EvInfo == [id : Ids, at : Slots]

VARIABLES slots,    \* the ring's memory
          start,    \* slot of the front event
          end,      \* slot the next event is written to
          n,        \* number of pending events
          index     \* stored_unique_events

vars == <<slots, start, end, n, index>>

Init ==
  /\ slots = [s \in Slots |-> NoEvent]
  /\ start = 0
  /\ end = 0
  /\ n = 0
  /\ index = <<>>

\* The slot after s: every cursor wraps to 0 at the end of the ring.
After(s) == IF s + 1 >= Cap THEN 0 ELSE s + 1

\* The slots that hold the n pending events, from start on, wrapping once.
Live(s) ==
  IF start + n <= Cap
  THEN start <= s /\ s < start + n
  ELSE start <= s \/ s < start + n - Cap

-----------------------------------------------------------------------------
(* Ringbuffer                                                              *)

\* Mutant of RingAppend: overwrites the oldest event without dropping it.
RingAppendKeepingStart(e) ==
  /\ slots' = [slots EXCEPT ![end] = e]
  /\ end' = After(end)
  /\ n' = IF n < Cap THEN n + 1 ELSE n
  /\ UNCHANGED start

\* Ringbuffer::append.  A full ring first drops its oldest event; the
\* counter is raised before that pop, so the pop never empties the ring.
RingAppend(e) ==
  /\ slots' = [slots EXCEPT ![end] = e]
  /\ end' = After(end)
  /\ IF n < Cap
     THEN /\ n' = n + 1
          /\ UNCHANGED start
     ELSE /\ start' = After(start)
          /\ UNCHANGED n

\* Mutant of RingPop: the last pop rewinds only the read cursor.
RingPopKeepingEnd ==
  /\ slots' = [slots EXCEPT ![start] = NoEvent]
  /\ n' = n - 1
  /\ start' = IF n = 1 THEN 0 ELSE After(start)
  /\ UNCHANGED end

\* Ringbuffer::pop on a non-empty ring.  The last pop rewinds both cursors.
RingPop ==
  /\ slots' = [slots EXCEPT ![start] = NoEvent]
  /\ n' = n - 1
  /\ IF n = 1
     THEN start' = 0 /\ end' = 0
     ELSE start' = After(start) /\ UNCHANGED end

-----------------------------------------------------------------------------
(* The index of unique events                                              *)

\* Ringbuffer::find on the index: the position of the first entry for id.
Finds(k, id) ==
  /\ k \in 1 .. Len(index)
  /\ index[k].id = id
  /\ \A j \in 1 .. k - 1 : index[j].id # id

\* Some entry of the index is for id.
Indexed(id) == \E k \in 1 .. Len(index) : index[k].id = id

\* Ringbuffer::append on the index, which drops its oldest entry when full.
IndexAppended(info) ==
  Append(IF Len(index) < UCap THEN index ELSE Tail(index), info)

\* Ringbuffer::swap_to_front_and_pop on the index: the front entry takes the
\* place of the k-th, which leaves.
SwapToFrontAndPop(k) == Tail([index EXCEPT ![k] = index[1]])

-----------------------------------------------------------------------------
(* Eventqueue                                                              *)

\* Eventqueue::push of an ordinary event.
PushPlain(e) ==
  /\ ~e.unique
  /\ RingAppend(e)
  /\ UNCHANGED index

\* Mutant of PushReplace: overwrites the front instead of the recorded slot.
PushReplaceFront(e) ==
  /\ e.unique
  /\ Indexed(e.id)
  /\ slots' = [slots EXCEPT ![start] = e]
  /\ UNCHANGED <<start, end, n, index>>

\* Eventqueue::push of a unique event whose id is in the index: the event
\* stored at the recorded slot is replaced, nothing is enqueued.
PushReplace(e) ==
  /\ e.unique
  /\ \E k \in 1 .. Len(index) :
       /\ Finds(k, e.id)
       /\ slots' = [slots EXCEPT ![index[k].at] = e]
  /\ UNCHANGED <<start, end, n, index>>

\* Mutant of PushUnique: does not record where the event is stored.
PushUniqueUnrecorded(e) ==
  /\ e.unique
  /\ ~Indexed(e.id)
  /\ RingAppend(e)
  /\ UNCHANGED index

\* Eventqueue::push of a unique event whose id is not in the index.
PushUnique(e) ==
  /\ e.unique
  /\ ~Indexed(e.id)
  /\ RingAppend(e)
  /\ index' = IndexAppended([id |-> e.id, at |-> end])

\* Eventqueue::pop.  The index entry of a unique event leaves with it.
Pop ==
  /\ n > 0
  /\ RingPop
  /\ LET front == slots[start] IN
     \/ /\ index = <<>> \/ ~front.unique \/ ~Indexed(front.id)
        /\ UNCHANGED index
     \/ /\ index # <<>> /\ front.unique
        /\ \E k \in 1 .. Len(index) :
             /\ Finds(k, front.id)
             /\ index' = SwapToFrontAndPop(k)

Push(e) == PushPlain(e) \/ PushReplace(e) \/ PushUnique(e)

Next == (\E e \in Event : Push(e)) \/ Pop

Spec == Init /\ [][Next]_vars

\* An environment that never has more events pending than the rings hold.
\* The rings are large (2048 * sizeof(event_t) events, 8192 index entries).
HasRoom(e) == n < Cap /\ (e.unique => Len(index) < UCap)

NextWithinCapacity ==
  \/ \E e \in Event : PushReplace(e)
  \/ \E e \in Event : HasRoom(e) /\ (PushPlain(e) \/ PushUnique(e))
  \/ Pop

SpecWithinCapacity == Init /\ [][NextWithinCapacity]_vars

\* An environment that declares no event unique; the ring may overflow.
NextOrdinary == (\E e \in Event : PushPlain(e)) \/ Pop

SpecOrdinary == Init /\ [][NextOrdinary]_vars

-----------------------------------------------------------------------------
(* Properties                                                              *)

\* Type invariant.
TypeOK ==
  /\ slots \in [Slots -> Event \cup {NoEvent}]
  /\ start \in Slots
  /\ end \in Slots
  /\ n \in 0 .. Cap
  /\ index \in Seq(EvInfo)

\* The three cursors of Ringbuffer agree: the write cursor is n slots past
\* the read cursor, and exactly the slots between them hold an event, so
\* front() never reads a destroyed one.
RingShape ==
  /\ end = (IF start + n < Cap THEN start + n ELSE start + n - Cap)
  /\ \A s \in Slots : Live(s) <=> slots[s] # NoEvent

\* Every entry of stored_unique_events points at a pending unique event of
\* the entry's id: the in-place update in Eventqueue::push never hits a
\* foreign or a destroyed event.
IndexPointsAtPending ==
  \A k \in 1 .. Len(index) :
    /\ Live(index[k].at)
    /\ slots[index[k].at] \in Event
    /\ slots[index[k].at].unique
    /\ slots[index[k].at].id = index[k].id

\* Every pending unique event has its entry, so a second push of its id
\* finds it.
PendingIsIndexed ==
  \A s \in Slots :
    Live(s) /\ slots[s].unique => \E k \in 1 .. Len(index) : index[k].at = s

\* No id has two entries.
IndexHasNoDuplicates ==
  \A k, l \in 1 .. Len(index) : index[k].id = index[l].id => k = l

\* The inductive invariant of the queue within its capacity.
QueueInv ==
  /\ TypeOK
  /\ RingShape
  /\ IndexPointsAtPending
  /\ PendingIsIndexed
  /\ IndexHasNoDuplicates

\* The inductive invariant of a queue of ordinary events, full or not.
OrdinaryInv ==
  /\ TypeOK
  /\ RingShape
  /\ index = <<>>
  /\ \A s \in Slots : Live(s) => ~slots[s].unique

\* What unique{...} promises: of a unique id at most one event is pending.
UniquePendingOnce ==
  \A s, t \in Slots :
    /\ Live(s) /\ Live(t)
    /\ slots[s].unique /\ slots[t].unique
    /\ slots[s].id = slots[t].id
    => s = t

-----------------------------------------------------------------------------
(* Refinement                                                              *)

\* The slot of the i-th pending event, counted from the front.
SlotOf(i) == IF start + i - 1 < Cap THEN start + i - 1 ELSE start + i - 1 - Cap

Pending == [i \in 1 .. n |-> slots[SlotOf(i)]]

AbstractQueue == INSTANCE AbstractEventQueue WITH queue <- Pending

\* The ring with its index behaves as the abstract queue.
ImplementsAbstractQueue == AbstractQueue!Spec
=============================================================================
