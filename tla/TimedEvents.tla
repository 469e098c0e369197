---------------------------- MODULE TimedEvents ----------------------------
(***************************************************************************)
(* Timers and the fetching of events: the timer table, its thread          *)
(* main_timer_thread_fn and the two variants of exec_action_timer          *)
(* (core/src/sm_sim_core_timer.cpp), composed with fetch_event, the loop   *)
(* of the main thread that decides whether to take an event, to block or   *)
(* to end the simulation                                                   *)
(* (core/src/state_machine_simulation_core_event_handling.cpp).            *)
(*                                                                         *)
(* A step is a critical section (timer_table_mtx, the queue's mutex) or an *)
(* access made outside of one.  timed_events_active_ is read by the main   *)
(* thread without a lock.  A timer is known by its generation, the number  *)
(* of timers started before it plus one; a timer's event carries it.       *)
(***************************************************************************)
EXTENDS Integers, Sequences, FiniteSets, SequencesExt, FiniteSetsExt

CONSTANTS
  TimerSlots,      \* timer_table_size
  Fds,             \* number of file descriptors
  Names,           \* timer ids; Unnamed for a timer without one
  Paths,           \* "native": exec_action_timer of compiled actions; of
                   \* interpreted ones, "ast" for an event, "action" for an
                   \* identifier (the event @@queued_action)
  Periodics,       \* values of the periodic flag the program uses
  Delays,          \* "negative", "zero", "positive"
  MaxStarts,       \* bound on timers started
  MaxStops,        \* bound on stop_timer calls
  MaxFired,        \* bound on events queued by actions or by a receiver
  MaxStatements,   \* statements of the Simulation block
  MaxQueue,        \* no timer expires while so many events wait
  RunningAsNode,   \* running_as_node(): some communication channel is open
  Covering         \* a cover-state-changed handler is registered

ASSUME BoundsAssumption ==
  /\ {TimerSlots, Fds, MaxQueue} \subseteq Nat \ {0}
  /\ {MaxStarts, MaxStops, MaxFired, MaxStatements} \subseteq Nat
ASSUME ProgramAssumption ==
  /\ Paths \subseteq {"native", "ast", "action"}
  /\ Delays \subseteq {"negative", "zero", "positive"}
  /\ Periodics \subseteq BOOLEAN
  /\ {RunningAsNode, Covering} \subseteq BOOLEAN

Slots == 1 .. TimerSlots
Threads == 1 .. 2
Gens == 1 .. MaxStarts

\* An event in the queue: the expiry of timer gen, or gen = 0 for any other.
\* A silent one (a received frame, an executable without an event id) is
\* handled inside fetch_event.
TimerEvent(g) == [gen |-> g, silent |-> FALSE]
Events == [gen : 0 .. MaxStarts, silent : BOOLEAN]

Unnamed == ""
NoTable == <<>>
FreeEntry == [inUse |-> FALSE, kill |-> FALSE, periodic |-> FALSE,
              name |-> Unnamed, fd |-> 0, gen |-> 0]
Closed == [st |-> "closed", gen |-> 0, periodic |-> FALSE]
Scanning == [pc |-> "scan", watch |-> {}, gen |-> 0]

VARIABLES
  table,           \* timer_table; NoTable while the vector is empty
  active,          \* timed_events_active_
  apiThread,       \* fdtimer_api_thread_running
  fd,              \* the kernel's view of the timer descriptors
  threads,         \* timer threads: pc, what they poll, what they read
  queue,           \* main_event_queue
  pc,              \* where the main thread is in fetch_event or its caller
  pending,         \* fetch_event's local pending_timed_event
  dangling,        \* dangling_cover_state_changed_handler_call
  request,         \* arguments of the exec_action_timer call in progress
  starts, stops, fired, statements,  \* what the program has done so far
  delivered,       \* generations whose event reached the simulation loop
  halted           \* reason of a call of fatal_, "no" if there was none

timerVars == <<table, active, apiThread, fd>>
budget == <<starts, stops, fired, statements>>
mainVars == <<pc, pending, dangling, request>>
vars == <<timerVars, threads, queue, mainVars, budget, delivered, halted>>

NoRequest == [path |-> "none"]

Init ==
  /\ table = NoTable
  /\ active = 0
  /\ apiThread = FALSE
  /\ fd = [f \in 1 .. Fds |-> Closed]
  /\ threads = <<>>
  /\ queue = <<>>
  /\ pc = "script"
  /\ pending = FALSE
  /\ dangling = FALSE
  /\ request = NoRequest
  /\ starts = 0 /\ stops = 0 /\ fired = 0 /\ statements = 0
  /\ delivered = {}
  /\ halted = "no"

Running == halted = "no"

\* A timer that can still fire.
LiveEntry(e) == e.inUse /\ ~e.kill
LiveSlots == {s \in DOMAIN table : LiveEntry(table[s])}
LiveGens == {table[s].gen : s \in LiveSlots}

-----------------------------------------------------------------------------
(* The timer thread                                                        *)

\* The sweep closes the descriptors of killed timers and frees their entries.
SweptEntry(e) == IF e.kill /\ e.inUse THEN [e EXCEPT !.inUse = FALSE, !.fd = 0] ELSE e

Sweep == [s \in DOMAIN table |-> SweptEntry(table[s])]

SweptFds == {table[s].fd : s \in {r \in DOMAIN table : table[r].kill /\ table[r].inUse}}

\* poll_fds and tidxs: the live timers.
Watched == {[slot |-> s, fd |-> table[s].fd] : s \in LiveSlots}

\* Both vectors are in the order of the table and are gone through from the
\* front.
First(watch) == CHOOSE w \in watch : \A v \in watch : w.slot <= v.slot

\* First critical section of main_timer_thread_fn's loop.  With no live timer
\* the thread sleeps and comes back here.
Scan(t) ==
  /\ Running
  /\ t \in DOMAIN threads /\ threads[t].pc = "scan"
  /\ table' = Sweep
  /\ fd' = [f \in DOMAIN fd |-> IF f \in SweptFds THEN Closed ELSE fd[f]]
  /\ active' = Cardinality(LiveSlots)
  /\ threads' = IF LiveSlots = {}
                THEN threads
                ELSE [threads EXCEPT ![t] = [pc |-> "poll", watch |-> Watched, gen |-> 0]]
  /\ UNCHANGED <<apiThread, queue, mainVars, budget, delivered, halted>>

\* poll(): keeps the descriptors that are readable; none within 10 ms sends
\* the thread back to the table.
Poll(t) ==
  /\ Running
  /\ t \in DOMAIN threads /\ threads[t].pc = "poll"
  /\ LET ready == {w \in threads[t].watch : fd[w.fd].st = "expired"}
     IN  threads' = [threads EXCEPT
           ![t] = IF ready = {}
                  THEN Scanning
                  ELSE [pc |-> "read", watch |-> ready, gen |-> 0]]
  /\ UNCHANGED <<timerVars, queue, mainVars, budget, delivered, halted>>

\* The thread's state once it is done with the first descriptor it watches.
Advanced(th) ==
  LET rest == th.watch \ {First(th.watch)}
  IN  IF rest = {} THEN Scanning ELSE [pc |-> "read", watch |-> rest, gen |-> 0]

\* read() of an expiration, made without a lock.  EAGAIN skips the
\* descriptor, any other failure is fatal.
Read(t) ==
  /\ Running
  /\ t \in DOMAIN threads /\ threads[t].pc = "read"
  /\ LET f == First(threads[t].watch).fd IN
     \/ /\ fd[f].st = "expired"
        /\ fd' = [fd EXCEPT ![f].st = IF fd[f].periodic THEN "armed" ELSE "idle"]
        /\ threads' = [threads EXCEPT ![t].pc = "fire", ![t].gen = fd[f].gen]
        /\ UNCHANGED halted
     \/ /\ fd[f].st \in {"armed", "idle"}
        /\ threads' = [threads EXCEPT ![t] = Advanced(@)]
        /\ UNCHANGED <<fd, halted>>
     \/ /\ fd[f].st = "closed"
        /\ halted' = "readFailed"
        /\ UNCHANGED <<fd, threads>>
  /\ UNCHANGED <<table, active, apiThread, queue, mainVars, budget, delivered>>

\* Mutant of Fire: does not look again whether the timer was stopped.
FireUnchecked(t) ==
  /\ Running
  /\ t \in DOMAIN threads /\ threads[t].pc = "fire"
  /\ LET s == First(threads[t].watch).slot IN
     /\ queue' = Append(queue, TimerEvent(table[s].gen))
     /\ table' = [table EXCEPT ![s].kill = @ \/ ~table[s].periodic]
  /\ threads' = [threads EXCEPT ![t] = Advanced(@)]
  /\ UNCHANGED <<active, apiThread, fd, mainVars, budget, delivered, halted>>

\* Second critical section: enqueues the event unless the timer was stopped
\* meanwhile, and marks a timer that fires once.
Fire(t) ==
  /\ Running
  /\ t \in DOMAIN threads /\ threads[t].pc = "fire"
  /\ LET s == First(threads[t].watch).slot IN
     /\ queue' = IF table[s].kill THEN queue ELSE Append(queue, TimerEvent(table[s].gen))
     /\ table' = [table EXCEPT ![s].kill = @ \/ ~table[s].periodic]
  /\ threads' = [threads EXCEPT ![t] = Advanced(@)]
  /\ UNCHANGED <<active, apiThread, fd, mainVars, budget, delivered, halted>>

TimerThread(t) == Scan(t) \/ Poll(t) \/ Read(t) \/ Fire(t)

\* The kernel: an armed timer expires.
Expire(f) ==
  /\ Running
  /\ Len(queue) < MaxQueue
  /\ fd[f].st = "armed"
  /\ fd' = [fd EXCEPT ![f].st = "expired"]
  /\ UNCHANGED <<table, active, apiThread, threads, queue, mainVars, budget, delivered, halted>>

-----------------------------------------------------------------------------
(* Starting and stopping timers (main thread)                              *)

\* Mutant of Matches: forgets to compare the names.
MatchesNoName(e, name) == name = Unnamed

\* What kill_named_timer_main_timer_table kills: every timer for an empty name.
Matches(e, name) == name = Unnamed \/ e.name = name

KilledEntry(e, name) == IF Matches(e, name) THEN [e EXCEPT !.kill = TRUE] ELSE e

\* Mutant of KillNamed: takes it that no timer is left.
KillNamedForgetting(name) ==
  /\ table' = [s \in DOMAIN table |-> KilledEntry(table[s], name)]
  /\ active' = 0

\* kill_named_timer_main_timer_table: one critical section.
KillNamed(name) ==
  /\ table' = [s \in DOMAIN table |-> KilledEntry(table[s], name)]
  /\ active' = Cardinality({s \in LiveSlots : ~Matches(table[s], name)})

\* Mutant of StopTimer: closes the descriptors itself.
StopTimerClosing(name) ==
  /\ Running
  /\ pc = "act" /\ stops < MaxStops
  /\ KillNamed(name)
  /\ fd' = [f \in DOMAIN fd |->
              IF \E s \in DOMAIN table : table[s].fd = f /\ Matches(table[s], name)
              THEN Closed ELSE fd[f]]
  /\ stops' = stops + 1
  /\ UNCHANGED <<apiThread, threads, queue, mainVars, starts, fired, statements,
                 delivered, halted>>

\* stop_timer / kill_timer, with or without a name.
StopTimer(name) ==
  /\ Running
  /\ pc = "act" /\ stops < MaxStops
  /\ KillNamed(name)
  /\ stops' = stops + 1
  /\ UNCHANGED <<apiThread, fd, threads, queue, mainVars, starts, fired, statements,
                 delivered, halted>>

\* exec_action_timer up to its critical section; a negative delay starts
\* nothing.
Requested(path, name, periodic, delay) ==
  /\ Running
  /\ pc = "act" /\ starts < MaxStarts
  /\ starts' = starts + 1
  /\ IF delay = "negative"
     THEN UNCHANGED <<pc, request>>
     ELSE /\ pc' = "insert"
          /\ request' = [path |-> path, name |-> name, periodic |-> periodic,
                         delay |-> delay, gen |-> starts + 1]
  /\ UNCHANGED <<apiThread, fd, threads, queue, pending, dangling, stops, fired,
                 statements, delivered, halted>>

\* A named timer replaces the one of that name.  The native variant looks at
\* the delay before it stops the old timer ...
StartNative(name, periodic, delay) ==
  /\ "native" \in Paths
  /\ Requested("native", name, periodic, delay)
  /\ IF name # Unnamed /\ delay # "negative"
     THEN KillNamed(name)
     ELSE UNCHANGED <<table, active>>

\* ... the variant for interpreted actions after it has stopped it.
StartInterpreted(name, periodic, delay) ==
  /\ \E path \in Paths \ {"native"} : Requested(path, name, periodic, delay)
  /\ IF name # Unnamed
     THEN KillNamed(name)
     ELSE UNCHANGED <<table, active>>

\* The vector after it was given its size.
SizedTable == IF table = NoTable THEN [s \in Slots |-> FreeEntry] ELSE table

UnusedSlots == {s \in DOMAIN SizedTable : ~SizedTable[s].inUse}
ClosedFds == {f \in DOMAIN fd : fd[f].st = "closed"}

\* A periodic timer of the interpreted variant is handed on to the native one,
\* unless it queues an action.
NativeInsert(r) == r.path = "native" \/ (r.periodic /\ r.path # "action")

\* Mutant of NeedsThread: the native variant leaves the thread to the other one.
NeedsThreadOnlyInterpreted(r) == ~NativeInsert(r) /\ ~apiThread

\* The native variant starts the timer thread together with the table, the
\* other one when no thread is known to run; only the latter remembers it.
NeedsThread(r) == IF NativeInsert(r) THEN table = NoTable ELSE ~apiThread

\* The entry of a new timer.  A descriptor armed with 0 never expires.
Inserted(r, s, f) ==
  /\ table' = [SizedTable EXCEPT ![s] = [inUse |-> TRUE, kill |-> FALSE,
                 periodic |-> r.periodic, name |-> r.name, fd |-> f, gen |-> r.gen]]
  /\ fd' = [fd EXCEPT ![f] = [st |-> IF r.delay = "zero" THEN "idle" ELSE "armed",
                              gen |-> r.gen, periodic |-> r.periodic]]

\* The critical section of both variants of exec_action_timer.
InsertTimer ==
  /\ Running
  /\ pc = "insert"
  /\ \/ /\ UnusedSlots # {} /\ ClosedFds # {}
        /\ Inserted(request, Min(UnusedSlots), Min(ClosedFds))
        /\ active' = active + 1
        /\ threads' = IF NeedsThread(request)
                      THEN Append(threads, Scanning)
                      ELSE threads
        /\ apiThread' = (apiThread \/ ~NativeInsert(request))
        /\ UNCHANGED halted
     \/ /\ UnusedSlots = {} \/ ClosedFds = {}
        /\ halted' = "noSlotLeft"
        /\ UNCHANGED <<timerVars, threads>>
  /\ pc' = "act"
  /\ request' = NoRequest
  /\ UNCHANGED <<queue, pending, dangling, budget, delivered>>

-----------------------------------------------------------------------------
(* The main thread: actions and fetch_event                                *)

\* queue_event / fire_event by an action: enqueue_event.
QueueEvent ==
  /\ Running
  /\ pc = "act" /\ fired < MaxFired
  /\ queue' = Append(queue, [gen |-> 0, silent |-> FALSE])
  /\ fired' = fired + 1
  /\ UNCHANGED <<timerVars, threads, mainVars, starts, stops, statements, delivered, halted>>

\* A receiver thread enqueues an event or a frame.
Receive(silent) ==
  /\ Running
  /\ RunningAsNode /\ fired < MaxFired
  /\ queue' = Append(queue, [gen |-> 0, silent |-> silent])
  /\ fired' = fired + 1
  /\ UNCHANGED <<timerVars, threads, mainVars, starts, stops, statements, delivered, halted>>

\* The actions of the step are done; cover-state-changed handlers ran.
EndAct ==
  /\ Running
  /\ pc = "act"
  /\ pc' = "pending"
  /\ dangling' \in IF Covering THEN BOOLEAN ELSE {FALSE}
  /\ UNCHANGED <<timerVars, threads, queue, pending, request, budget, delivered, halted>>

\* First statement of fetch_event's loop, no lock held.
ReadPending ==
  /\ Running
  /\ pc = "pending"
  /\ pending' = (active # 0)
  /\ pc' = "queue"
  /\ UNCHANGED <<timerVars, threads, queue, dangling, request, budget, delivered, halted>>

\* The queue is examined under its mutex.  A silent event goes on to the
\* loop's condition ("continue"), any other is returned to the caller.
ExamineQueue ==
  /\ Running
  /\ pc = "queue"
  /\ \/ /\ queue = <<>>
        /\ pc' = "script"
        /\ UNCHANGED <<queue, delivered>>
     \/ /\ queue # <<>>
        /\ queue' = Tail(queue)
        /\ delivered' = delivered \cup ({Head(queue).gen} \ {0})
        /\ pc' = IF Head(queue).silent THEN "condition" ELSE "act"
  /\ UNCHANGED <<timerVars, threads, pending, dangling, request, budget, halted>>

\* The next statement of the Simulation block: an event is returned, an
\* action or a Start is executed and the queue is examined afresh.  Assignments
\* and assertions change nothing modelled here and belong to the statement
\* that follows them.
NextStatement ==
  /\ Running
  /\ pc = "script" /\ statements < MaxStatements
  /\ statements' = statements + 1
  /\ pc' = "act"
  /\ UNCHANGED <<timerVars, threads, queue, pending, dangling, request, starts, stops, fired,
                 delivered, halted>>

\* The block is exhausted: wait for handlers, wait for data or fall through.
EndOfScript ==
  /\ Running
  /\ pc = "script" /\ statements = MaxStatements
  /\ pc' = IF dangling THEN "dangling"
           ELSE IF RunningAsNode \/ active # 0 THEN "wait"
           ELSE "condition"
  /\ UNCHANGED <<timerVars, threads, queue, pending, dangling, request, budget, delivered, halted>>

\* wait_for_data: blocks until the queue holds an event.
WaitForData ==
  /\ Running
  /\ pc = "wait" /\ queue # <<>>
  /\ pc' = "condition"
  /\ UNCHANGED <<timerVars, threads, queue, pending, dangling, request, budget, delivered, halted>>

\* One round of the wait for dangling handler calls (100 ms each).
WaitForHandlers ==
  /\ Running
  /\ pc = "dangling"
  /\ dangling' \in BOOLEAN
  /\ pc' = IF queue # <<>> \/ ~dangling' THEN "condition" ELSE "dangling"
  /\ UNCHANGED <<timerVars, threads, queue, pending, request, budget, delivered, halted>>

\* Mutant of LoopCondition: reads the count of timers afresh.
LoopConditionFresh ==
  /\ Running
  /\ pc = "condition"
  /\ pc' = IF active # 0 \/ RunningAsNode THEN "pending" ELSE "done"
  /\ UNCHANGED <<timerVars, threads, queue, pending, dangling, request, budget, delivered, halted>>

\* Mutant of LoopCondition: a node without timers ends, too.
LoopConditionTimersOnly ==
  /\ Running
  /\ pc = "condition"
  /\ pc' = IF pending THEN "pending" ELSE "done"
  /\ UNCHANGED <<timerVars, threads, queue, pending, dangling, request, budget, delivered, halted>>

\* while (pending_timed_event || running_as_node())
LoopCondition ==
  /\ Running
  /\ pc = "condition"
  /\ pc' = IF pending \/ RunningAsNode THEN "pending" ELSE "done"
  /\ UNCHANGED <<timerVars, threads, queue, pending, dangling, request, budget, delivered, halted>>

FetchEvent ==
  \/ ReadPending \/ ExamineQueue \/ NextStatement \/ EndOfScript
  \/ WaitForData \/ WaitForHandlers \/ LoopCondition

Main ==
  \/ FetchEvent
  \/ EndAct \/ QueueEvent \/ InsertTimer
  \/ \E name \in Names : StopTimer(name)
  \/ \E name \in Names, periodic \in Periodics, delay \in Delays :
       StartNative(name, periodic, delay) \/ StartInterpreted(name, periodic, delay)

Next ==
  \/ Main
  \/ \E silent \in BOOLEAN : Receive(silent)
  \/ \E t \in Threads : TimerThread(t)
  \/ \E f \in 1 .. Fds : Expire(f)

Spec == Init /\ [][Next]_vars

\* Both threads are scheduled, and a running timer expires.
Fairness ==
  /\ WF_vars(Main)
  /\ \A t \in Threads : WF_vars(TimerThread(t))
  /\ \A f \in 1 .. Fds : WF_vars(Expire(f))

FairSpec == Spec /\ Fairness

-----------------------------------------------------------------------------
(* Properties                                                              *)

Entry == [inUse : BOOLEAN, kill : BOOLEAN, periodic : BOOLEAN,
          name : Names \cup {Unnamed}, fd : 0 .. Fds, gen : 0 .. MaxStarts]
Descriptor == [st : {"closed", "armed", "expired", "idle"}, gen : 0 .. MaxStarts,
               periodic : BOOLEAN]
Watch == [slot : Slots, fd : 1 .. Fds]
ThreadState == [pc : {"scan", "poll", "read", "fire"}, watch : SUBSET Watch,
                gen : 0 .. MaxStarts]
Request == [path : Paths, name : Names, periodic : Periodics,
            delay : {"zero", "positive"}, gen : Gens]

\* Type invariant.
TypeOK ==
  /\ table = NoTable \/ table \in [Slots -> Entry]
  /\ active \in Nat
  /\ apiThread \in BOOLEAN
  /\ fd \in [1 .. Fds -> Descriptor]
  /\ threads \in Seq(ThreadState)
  /\ queue \in Seq(Events)
  /\ pc \in {"script", "act", "insert", "pending", "queue", "dangling", "wait",
             "condition", "done"}
  /\ pending \in BOOLEAN /\ dangling \in BOOLEAN
  /\ request \in Request \cup {NoRequest}
  /\ pc = "insert" => request \in Request
  /\ starts \in 0 .. MaxStarts /\ stops \in 0 .. MaxStops
  /\ fired \in 0 .. MaxFired /\ statements \in 0 .. MaxStatements
  /\ delivered \subseteq Gens
  /\ halted \in {"no", "readFailed", "noSlotLeft"}

\* timed_events_active_ is kept by three writers (the sweep, a start, a stop)
\* and decides whether the simulation may end: it never counts fewer timers
\* than can still fire, so no timer is forgotten.  (It may count more: a
\* timer that fired once stays counted until the next sweep.)
CountCoversLive == Cardinality(LiveSlots) <= active

\* The table gets its size and its first thread in one critical section, a
\* second thread comes from the interpreted variant alone and there is never a
\* third one.
ThreadsFollowTable ==
  /\ (threads = <<>>) <=> (table = NoTable)
  /\ Len(threads) <= IF apiThread THEN 2 ELSE 1
  /\ apiThread => threads # <<>> /\ Paths \ {"native"} # {}

\* An entry in use owns an open descriptor, shares it with no other entry and
\* the kernel runs it for this entry's timer.
EntriesOwnDescriptors ==
  \A s \in DOMAIN table : table[s].inUse =>
    /\ table[s].fd # 0
    /\ fd[table[s].fd].st # "closed"
    /\ fd[table[s].fd].gen = table[s].gen
    /\ \A r \in DOMAIN table : table[r].inUse /\ table[r].fd = table[s].fd => r = s

\* What a thread took from the table in its first critical section and still
\* holds: an entry that is in use or marked.  The only thread even finds entry
\* and descriptor as it left them, as nobody else closes and frees.
WatchIsValid(t) ==
  /\ threads[t].pc \in {"read", "fire"} => threads[t].watch # {}
  /\ threads[t].pc = "scan" => threads[t].watch = {}
  /\ \A w \in threads[t].watch :
       /\ table[w.slot].inUse \/ table[w.slot].kill
       /\ Len(threads) = 1 => table[w.slot].inUse /\ table[w.slot].fd = w.fd
  /\ threads[t].pc = "fire" /\ Len(threads) = 1 =>
       threads[t].gen = table[First(threads[t].watch).slot].gen

WatchesStayValid == \A t \in DOMAIN threads : WatchIsValid(t)

\* What the timer table owes its users whatever the program does.
TimerInv ==
  /\ TypeOK
  /\ CountCoversLive
  /\ ThreadsFollowTable
  /\ EntriesOwnDescriptors
  /\ WatchesStayValid

\* A timer thread owes the queue the event of a timer it has read.
Owed == {t \in DOMAIN threads :
           threads[t].pc = "fire" /\ LiveEntry(table[First(threads[t].watch).slot])}

\* fetch_event reports the end of a simulation only when nothing is left to
\* do: the script is exhausted, no event waits, no timer can fire and no
\* timer thread is about to enqueue.  The timer count is read before the
\* queue is examined and the timer thread works in between.
DoneMeansDrained ==
  pc = "done" =>
    statements = MaxStatements /\ queue = <<>> /\ LiveSlots = {} /\ Owed = {}

\* The descriptors the timer thread took from the table in one critical
\* section are still open when it reads them in a later one.
ReadNeverFails == halted # "readFailed"

\* As long as there is one timer thread, none of its reads fails.
OneThreadReads == Len(threads) <= 1 => ReadNeverFails

\* The event a timer thread enqueues belongs to the timer whose expiration
\* it has read, although the table was unlocked in between and slots and
\* descriptors are reused; and that timer was not stopped before.  (As long
\* as there is one timer thread: another one may free the entry.)
FiresOwnTimer ==
  [][\A t \in DOMAIN threads :
       Len(threads) = 1 /\ Fire(t) /\ queue' # queue =>
         /\ Last(queue').gen = threads[t].gen
         /\ threads[t].gen \in LiveGens]_vars

\* No two timers that can fire have the same name: starting a named timer
\* replaces the timer of that name.
NamedTimersAreSingle ==
  \A r, s \in LiveSlots : table[r].name # Unnamed /\ table[r].name = table[s].name => r = s

\* Between the two critical sections of a start, the old timer of the name is
\* stopped already.
ReplacedIsStopped ==
  pc = "insert" /\ request.name # Unnamed =>
    \A s \in LiveSlots : table[s].name # request.name

\* Where fetch_event is tells what it has found: a count of zero means that no
\* timer was left, and from then on the queue can only shrink.
PastQueue == {"script", "dangling", "wait", "condition", "done"}
PastScript == PastQueue \ {"script"}
FetchFound ==
  /\ ~RunningAsNode => \A i \in DOMAIN queue : ~queue[i].silent
  /\ pc \in {"queue"} \cup PastQueue /\ ~pending => LiveSlots = {}
  /\ pc \in PastQueue /\ ~pending /\ ~RunningAsNode => queue = <<>>
  /\ pc \in PastScript /\ ~RunningAsNode => statements = MaxStatements
  /\ pc = "done" => ~pending /\ ~RunningAsNode

\* Generation g has an event in the queue.
Queued(g) == \E i \in DOMAIN queue : queue[i].gen = g

\* A timer started with a positive delay is not lost: its event reaches the
\* simulation loop unless the timer is stopped before it fires.
TimersAreDelivered ==
  \A g \in Gens :
    (\E f \in DOMAIN fd : fd[f].gen = g /\ fd[f].st = "armed") ~>
      (g \in delivered \/ (g \notin LiveGens /\ ~Queued(g)) \/ ~Running)

\* The simulation loop never sleeps on an event: whatever fetch_event waits
\* for at the end of its script (handlers, a receiver, a timer), what waits in
\* the queue is taken.
QueueIsDrained == (queue # <<>>) ~> (queue = <<>> \/ ~Running)

\* A program that starts no periodic timer and no communication channel ends.
SimulationEnds == <>(pc = "done" \/ ~Running)
=============================================================================
