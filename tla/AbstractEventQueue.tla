------------------------- MODULE AbstractEventQueue -------------------------
(***************************************************************************)
(* What the event queue of core/include/events.hpp promises its users: a   *)
(* first-in first-out queue of at most Cap events that forgets its oldest  *)
(* event when it overflows, and in which the push of a unique event takes  *)
(* the place of a pending one of the same id (unique{D;} in                *)
(* test/event_queue.ceps: of D(1) ... D(6) only D(6) is delivered, once).  *)
(***************************************************************************)
EXTENDS Integers, Sequences

CONSTANTS Ids, Vals, Flags, Cap

Event == [id : Ids, unique : Flags, val : Vals]

VARIABLE queue

Init == queue = <<>>

\* The pending unique event of the given id sits at position i.
PendingUniqueAt(i, id) == queue[i].unique /\ queue[i].id = id

Enqueue(e) ==
  /\ ~e.unique \/ ~\E i \in DOMAIN queue : PendingUniqueAt(i, e.id)
  /\ queue' = Append(IF Len(queue) < Cap THEN queue ELSE Tail(queue), e)

Replace(e) ==
  /\ e.unique
  /\ \E i \in DOMAIN queue :
       /\ PendingUniqueAt(i, e.id)
       /\ queue' = [queue EXCEPT ![i] = e]

Dequeue ==
  /\ queue # <<>>
  /\ queue' = Tail(queue)

Next ==
  \/ \E e \in Event : Enqueue(e) \/ Replace(e)
  \/ Dequeue

Spec == Init /\ [][Next]_queue
=============================================================================
