----------------------------- MODULE EventLink -----------------------------
(***************************************************************************)
(* Events between nodes (sm_comm_naive_msg_prot.cpp with the queueing side *)
(* of state_machine_simulation_core_event_handling.cpp): every node has a  *)
(* sender thread per remote node, which connects, writes the events of its *)
(* out queue and reconnects after a failed write, and a consumer thread    *)
(* per incoming connection, which queues what it reads.                    *)
(*                                                                         *)
(* Events of the simulator itself, whose names begin with '@', are popped  *)
(* by the sender and forgotten; they are none of the events of the model.  *)
(*                                                                         *)
(* A connection is a byte stream; a message is two tokens of header and    *)
(* one of body. The network cuts the stream anywhere and may reset it.     *)
(***************************************************************************)
EXTENDS Integers, Sequences, FiniteSets, SequencesExt

CONSTANTS
  Nodes,      \* the nodes, each a remote node of every other
  MaxEvents,  \* node -> bound: events it raises
  Flat,       \* numbers of the events that have a payload
  MaxConns    \* bound: connections from one node to another

ASSUME MaxEventsAssumption == MaxEvents \in [Nodes -> Nat]

VARIABLES
  raised,   \* node -> events raised by its state machines so far
  mainq,    \* node -> its main event queue
  outq,     \* <<node, remote>> -> out_event_queues_
  emitted,  \* <<node, remote>> -> everything ever pushed to outq (history)
  sender,   \* <<node, remote>> -> the sender thread
  conns,    \* <<node, remote>> -> the connections it opened
  reader,   \* <<node, remote>> -> the consumer threads on them at the remote
  handed    \* node -> events a consumer thread queued (history)

vars == <<raised, mainq, outq, emitted, sender, conns, reader, handed>>

Links == {l \in Nodes \X Nodes : l[1] # l[2]}
From(n) == {l \in Links : l[1] = n}

\* An event of node n and its number; in a queue it has the flag
\* already_sent_to_out_queues_.
Events == UNION {[node : {n}, n : 1 .. MaxEvents[n]] : n \in Nodes}
Queued(e, sent) == [event |-> e, sent |-> sent]

Init ==
  /\ raised = [n \in Nodes |-> 0]
  /\ mainq = [n \in Nodes |-> <<>>]
  /\ outq = [l \in Links |-> <<>>]
  /\ emitted = [l \in Links |-> <<>>]
  /\ sender = [l \in Links |-> [ev |-> <<>>, conn |-> 0, at |-> "pop"]]
  /\ conns = [l \in Links |-> <<>>]
  /\ reader = [l \in Links |-> <<>>]
  /\ handed = [n \in Nodes |-> <<>>]

PushOut(n, e) ==
  /\ outq' = [l \in Links |-> IF l \in From(n) THEN Append(outq[l], e) ELSE outq[l]]
  /\ emitted' = [l \in Links |-> IF l \in From(n) THEN Append(emitted[l], e) ELSE emitted[l]]

\* queue_event: the event goes to the main queue and to the out queues at once.
\* queue_internal_event: only to the main queue.
Raise(n, internal) ==
  /\ raised[n] < MaxEvents[n]
  /\ raised' = [raised EXCEPT ![n] = @ + 1]
  /\ LET e == [node |-> n, n |-> raised[n] + 1] IN
     /\ mainq' = [mainq EXCEPT ![n] = Append(@, Queued(e, ~internal))]
     /\ IF internal THEN UNCHANGED <<outq, emitted>> ELSE PushOut(n, e)
  /\ UNCHANGED <<sender, conns, reader, handed>>

\* fetch_event: an event that was not sent yet is pushed to the out queues.
Fetch(n) ==
  /\ mainq[n] # <<>>
  /\ mainq' = [mainq EXCEPT ![n] = Tail(@)]
  /\ LET q == Head(mainq[n]) IN
     IF q.sent THEN UNCHANGED <<outq, emitted>> ELSE PushOut(n, q.event)
  /\ UNCHANGED <<raised, sender, conns, reader, handed>>

(***************************************************************************)
(* comm_sender_thread.                                                     *)
(***************************************************************************)
Pop(l) ==
  /\ sender[l].at = "pop" /\ outq[l] # <<>>
  /\ sender' = [sender EXCEPT ![l].ev = <<Head(outq[l])>>,
                              ![l].at = IF sender[l].conn = 0 THEN "connect" ELSE "write"]
  /\ outq' = [outq EXCEPT ![l] = Tail(@)]
  /\ UNCHANGED <<raised, mainq, emitted, conns, reader, handed>>

\* A failed connect is retried; the dispatcher of the remote node starts a
\* consumer thread for the connection.
Connect(l) ==
  /\ sender[l].at = "connect" /\ Len(conns[l]) < MaxConns
  /\ conns' = [conns EXCEPT ![l] = Append(@, [bytes |-> <<>>, end |-> "open"])]
  /\ reader' = [reader EXCEPT ![l] = Append(@, [at |-> "header", ev |-> <<>>])]
  /\ sender' = [sender EXCEPT ![l].conn = Len(conns[l]) + 1, ![l].at = "write"]
  /\ UNCHANGED <<raised, mainq, outq, emitted, handed>>

\* How much of its message the sender has written.
Done(l) == IF sender[l].at = "body" THEN 2 ELSE 0

\* What one write hands to the kernel: an event with a payload is a single
\* buffer, a simple one a header and then its name.
Block(l) ==
  LET e == sender[l].ev[1]
      size == IF Done(l) = 2 THEN 1 ELSE IF e.n \in Flat THEN 3 ELSE 2
  IN  [i \in 1 .. size |-> [ev |-> e, part |-> Done(l) + i]]

Write(l) ==
  LET c == sender[l].conn IN
  /\ sender[l].at \in {"write", "body"} /\ conns[l][c].end = "open"
  /\ conns' = [conns EXCEPT ![l][c].bytes = @ \o Block(l)]
  /\ sender' = [sender EXCEPT ![l].at = IF Last(Block(l)).part = 3 THEN "pop" ELSE "body"]
  /\ UNCHANGED <<raised, mainq, outq, emitted, reader, handed>>

\* A partial or failed write: the connection is closed, the event is kept and
\* written from its start over a new connection.
WriteFails(l, k) ==
  LET c == sender[l].conn IN
  /\ sender[l].at \in {"write", "body"}
  /\ k < Len(Block(l)) /\ (conns[l][c].end = "reset" => k = 0)
  /\ conns' = [conns EXCEPT ![l][c].bytes = @ \o SubSeq(Block(l), 1, k),
                            ![l][c].end = IF @ = "open" THEN "closed" ELSE @]
  /\ sender' = [sender EXCEPT ![l].conn = 0, ![l].at = "connect"]
  /\ UNCHANGED <<raised, mainq, outq, emitted, reader, handed>>

\* The network resets a connection: what the remote has not read is lost.
Reset(l, c) ==
  /\ c \in DOMAIN conns[l] /\ conns[l][c].end # "reset"
  /\ conns' = [conns EXCEPT ![l][c] = [bytes |-> <<>>, end |-> "reset"]]
  /\ UNCHANGED <<raised, mainq, outq, emitted, sender, reader, handed>>

(***************************************************************************)
(* nmp_consumer_thread_fn.                                                 *)
(***************************************************************************)
Take(l, c, n) == [conns EXCEPT ![l][c].bytes = SubSeq(@, n + 1, Len(@))]

\* A bug: the event is not marked and will be sent on.
HandOverUnmarked(l, e, whole, c) ==
  /\ mainq' = [mainq EXCEPT ![l[2]] = Append(@, Queued(e, FALSE))]
  /\ handed' = [handed EXCEPT ![l[2]] =
                  Append(@, [event |-> e, whole |-> whole, link |-> l, conn |-> c])]

\* process_event_from_remote: the event is marked as already sent.
HandOver(l, e, whole, c) ==
  /\ mainq' = [mainq EXCEPT ![l[2]] = Append(@, Queued(e, TRUE))]
  /\ handed' = [handed EXCEPT ![l[2]] =
                  Append(@, [event |-> e, whole |-> whole, link |-> l, conn |-> c])]

\* recv of the header: only a result <= 0 is an error, a part of a header is
\* taken for one. Such a thread is astray: what it makes of the stream depends
\* on uninitialised bytes.
ReadHeader(l, c, n) ==
  /\ c \in DOMAIN reader[l] /\ reader[l][c].at = "header"
  /\ n \in 1 .. 2 /\ n <= Len(conns[l][c].bytes)
  /\ conns' = Take(l, c, n)
  /\ reader' = [reader EXCEPT ![l][c] =
                  [at |-> IF n = 2 THEN "body" ELSE "astray",
                   ev |-> <<Head(conns[l][c].bytes).ev>>]]
  /\ UNCHANGED <<raised, mainq, outq, emitted, sender, handed>>

\* The loop over the body has read all of it: the event is handed over.
ReadBody(l, c) ==
  /\ c \in DOMAIN reader[l] /\ reader[l][c].at = "body" /\ conns[l][c].bytes # <<>>
  /\ conns' = Take(l, c, 1)
  /\ reader' = [reader EXCEPT ![l][c].at = "header"]
  /\ HandOver(l, reader[l][c].ev[1], TRUE, c)
  /\ UNCHANGED <<raised, outq, emitted, sender>>

\* recv returns 0 or -1. n is a size_t, so -1 counts down the bytes read until
\* they wrap around and the loop ends as if the body were complete.
ReadFails(l, c) ==
  /\ c \in DOMAIN reader[l] /\ reader[l][c].at \in {"header", "body", "astray"}
  /\ conns[l][c].bytes = <<>> /\ conns[l][c].end # "open"
  /\ IF reader[l][c].at = "body" /\ conns[l][c].end = "reset"
     THEN /\ reader' = [reader EXCEPT ![l][c].at = "header"]
          /\ HandOver(l, reader[l][c].ev[1], FALSE, c)
     ELSE /\ reader' = [reader EXCEPT ![l][c].at = "ended"]
          /\ UNCHANGED <<mainq, handed>>
  /\ UNCHANGED <<raised, outq, emitted, sender, conns>>

\* A thread that lost the message boundaries reads on and may queue anything.
ReadAstray(l, c) ==
  /\ c \in DOMAIN reader[l] /\ reader[l][c].at = "astray" /\ conns[l][c].bytes # <<>>
  /\ \E n \in 1 .. Len(conns[l][c].bytes) : conns' = Take(l, c, n)
  /\ \/ HandOver(l, reader[l][c].ev[1], FALSE, c)
     \/ UNCHANGED <<mainq, handed>>
  /\ UNCHANGED <<raised, outq, emitted, sender, reader>>

SenderThread(l) == Pop(l) \/ Connect(l) \/ Write(l) \/ \E k \in 0 .. 2 : WriteFails(l, k)

ConsumerThread(l, c) ==
  \/ ReadFails(l, c) \/ ReadAstray(l, c) \/ ReadBody(l, c)
  \/ \E n \in 1 .. 2 : ReadHeader(l, c, n)

Next ==
  \/ \E n \in Nodes : (\E internal \in BOOLEAN : Raise(n, internal)) \/ Fetch(n)
  \/ \E l \in Links : \/ SenderThread(l)
                      \/ \E c \in 1 .. MaxConns : Reset(l, c) \/ ConsumerThread(l, c)

\* The threads run; nobody has to raise an event, and the loop has to fetch
\* nothing.
Fairness ==
  \A l \in Links : /\ WF_vars(SenderThread(l))
                   /\ \A c \in 1 .. MaxConns : WF_vars(ConsumerThread(l, c))

Spec == Init /\ [][Next]_vars /\ Fairness

(***************************************************************************)
(* Properties.                                                             *)
(***************************************************************************)
Tokens == [ev : Events, part : 1 .. 3]

\* Every variable keeps its type.
TypeOK ==
  /\ raised \in [Nodes -> Nat] /\ \A n \in Nodes : raised[n] <= MaxEvents[n]
  /\ mainq \in [Nodes -> Seq([event : Events, sent : BOOLEAN])]
  /\ outq \in [Links -> Seq(Events)] /\ emitted \in [Links -> Seq(Events)]
  /\ sender \in [Links -> [ev : Seq(Events), conn : Nat,
                           at : {"pop", "connect", "write", "body"}]]
  /\ conns \in [Links -> Seq([bytes : Seq(Tokens), end : {"open", "closed", "reset"}])]
  /\ reader \in [Links -> Seq([at : {"header", "body", "astray", "ended"}, ev : Seq(Events)])]
  /\ \A l \in Links : sender[l].conn <= Len(conns[l]) /\ Len(reader[l]) = Len(conns[l])
  /\ handed \in [Nodes -> Seq([event : Events, whole : BOOLEAN, link : Links, conn : Nat])]

\* Whichever way an event is raised, each out queue gets it once: a queued one
\* when it is raised, an internal one when the loop fetches it, one from
\* another node never, so that an event does not come back to where it began.
ForwardedOnce ==
  \A l \in Links :
    /\ \A i, j \in DOMAIN emitted[l] : emitted[l][i] = emitted[l][j] => i = j
    /\ \A i \in DOMAIN emitted[l] : emitted[l][i].node = l[1]
    /\ \A k \in 1 .. raised[l[1]] :
         \/ \E i \in DOMAIN emitted[l] : emitted[l][i].n = k
         \/ \E i \in DOMAIN mainq[l[1]] : mainq[l[1]][i].event.n = k
                                           /\ mainq[l[1]][i].event.node = l[1]

\* What is still to be sent: an event of the main queue that is not marked is
\* the node's own and in no out queue yet, one that is marked is in all of
\* them or came from another node.
UnsentAreNew ==
  /\ \A l \in Links : \A i \in DOMAIN emitted[l] : emitted[l][i].n <= raised[l[1]]
  /\ \A n \in Nodes : \A i \in DOMAIN mainq[n] :
       LET q == mainq[n][i] IN
       /\ q.event.node = n => q.event.n <= raised[n]
       /\ ~ q.sent => q.event.node = n
       /\ q.event.node = n => \A l \in From(n) : q.sent <=> q.event \in ToSet(emitted[l])
       /\ \A j \in DOMAIN mainq[n] :
            (i < j /\ ~ q.sent /\ ~ mainq[n][j].sent) => q.event # mainq[n][j].event

\* How many of the events queued for a link its sender has taken. The out
\* queue holds the others; until it is written, the sender holds the last.
Popped(l) == Len(emitted[l]) - Len(outq[l])
SendersHoldTheNext ==
  \A l \in Links :
    /\ Popped(l) >= 0
    /\ \A i \in DOMAIN outq[l] : outq[l][i] = emitted[l][Popped(l) + i]
    /\ sender[l].at # "pop" =>
         Popped(l) >= 1 /\ sender[l].ev = <<emitted[l][Popped(l)]>>
    /\ sender[l].at \in {"write", "body"} => sender[l].conn # 0
    /\ sender[l].at = "body" => sender[l].ev[1].n \notin Flat

\* The token at place i of the bytes b of a stream; at place 0 the one the
\* consumer thread r read last.
PartAt(b, r, i) == IF i # 0 THEN b[i].part ELSE IF r.at = "body" THEN 2 ELSE 3
EventAt(b, r, i) == IF i # 0 THEN b[i].ev ELSE r.ev[1]

\* The thread reads whole messages, one behind the other.
Framed(b, r) ==
  \A i \in DOMAIN b :
    IF PartAt(b, r, i - 1) = 3 THEN PartAt(b, r, i) = 1
    ELSE /\ PartAt(b, r, i) = PartAt(b, r, i - 1) + 1
         /\ EventAt(b, r, i) = EventAt(b, r, i - 1)

\* The sender goes on where the stream ends.
EndsWhere(b, r, s) ==
  IF s.at = "body" THEN PartAt(b, r, Len(b)) = 2 /\ EventAt(b, r, Len(b)) = s.ev[1]
                   ELSE PartAt(b, r, Len(b)) = 3

\* The c-th connection k, with consumer thread r and sender s, is framed for a
\* thread that has not lost the boundaries.
InStep(k, r, s, c) ==
  /\ k.end = "reset" => k.bytes = <<>>
  /\ c = s.conn => k.end # "closed"
  /\ r.at \in {"header", "body"} =>
       /\ Framed(k.bytes, r)
       /\ (c = s.conn /\ k.end = "open") => EndsWhere(k.bytes, r, s)
StreamsAreFramed ==
  \A l \in Links : \A c \in DOMAIN conns[l] : InStep(conns[l][c], reader[l][c], sender[l], c)

\* The position of an event in what was queued for a link.
PlaceIn(s, e) == CHOOSE i \in DOMAIN s : s[i] = e
Position(l, e) == PlaceIn(emitted[l], e)

\* The retry after a failed write never makes the remote node see an event
\* twice: an event read completely on one connection is not read completely
\* on another, and each connection carries its events in the order in which
\* they were queued.
ReadOnce ==
  \A n \in Nodes : \A i, j \in DOMAIN handed[n] :
    LET h == handed[n][i]  g == handed[n][j] IN
    (i < j /\ h.whole /\ g.whole) =>
      /\ h.event # g.event
      /\ (h.link = g.link /\ h.conn = g.conn) =>
           Position(h.link, h.event) < Position(g.link, g.event)

\* Only events of the link are on their way.
OnlyEmittedArrive ==
  /\ \A l \in Links : \A c \in DOMAIN conns[l] :
       /\ \A i \in DOMAIN conns[l][c].bytes : conns[l][c].bytes[i].ev \in ToSet(emitted[l])
       /\ reader[l][c].at \in {"body", "astray"} =>
            reader[l][c].ev # <<>> /\ reader[l][c].ev[1] \in ToSet(emitted[l])
  /\ \A n \in Nodes : \A i \in DOMAIN handed[n] :
       LET h == handed[n][i] IN h.link[2] = n /\ h.event \in ToSet(emitted[h.link])

\* How many events of a link are written completely.
Sent(l) == IF sender[l].at = "pop" THEN Popped(l) ELSE Popped(l) - 1

\* The last tokens of messages in the bytes b of a stream.
Ends(b) == {i \in DOMAIN b : b[i].part = 3}

\* An event is written completely once: its last token stands in one stream,
\* behind those of earlier events.
WrittenOnce ==
  \A l \in Links : \A c \in DOMAIN conns[l] : \A i \in Ends(conns[l][c].bytes) :
    LET e == conns[l][c].bytes[i].ev IN
    /\ Position(l, e) <= Sent(l)
    /\ \A d \in DOMAIN conns[l] : \A j \in Ends(conns[l][d].bytes) :
         LET f == conns[l][d].bytes[j].ev IN
         /\ c # d => e # f
         /\ (c = d /\ i < j) => Position(l, e) < Position(l, f)

\* An event that was read completely is in no stream any more, and before
\* all those of the stream it was read from.
Gone(h) ==
  /\ Position(h.link, h.event) <= Sent(h.link)
  /\ \A c \in DOMAIN conns[h.link] : \A i \in Ends(conns[h.link][c].bytes) :
       LET f == conns[h.link][c].bytes[i].ev IN
       h.event # f /\ (c = h.conn => Position(h.link, h.event) < Position(h.link, f))
ReadIsGone ==
  \A n \in Nodes : \A k \in DOMAIN handed[n] : handed[n][k].whole => Gone(handed[n][k])

\* Events between nodes: what the queues, threads and streams keep true.
EventsAreSentOnce ==
  /\ TypeOK /\ UnsentAreNew /\ SendersHoldTheNext /\ StreamsAreFramed /\ OnlyEmittedArrive
  /\ WrittenOnce /\ ReadIsGone /\ ForwardedOnce /\ ReadOnce

Faulty(l) == \E c \in DOMAIN conns[l] : conns[l][c].end # "open" \/ reader[l][c].at = "astray"

\* An event is under way: queued for a remote node and not yet queued there.
Underway(l, e) ==
  /\ e \in ToSet(emitted[l])
  /\ \A i \in DOMAIN handed[l[2]] : handed[l[2]][i].event # e

\* An event queued for a remote node is queued there in the end, unless the
\* link had a fault: a failed write, a reset, a header read in parts.
Due(l, e) == Underway(l, e) /\ ~ Faulty(l)
EventsArrive == \A l \in Links : \A e \in Events : Due(l, e) ~> ~ Due(l, e)
=============================================================================
