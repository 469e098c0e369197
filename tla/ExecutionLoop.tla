--------------------------- MODULE ExecutionLoop ---------------------------
(***************************************************************************)
(* The main loop of a simulation: State_machine_simulation_core::          *)
(* run_simulation in core/src/sm_sim_core_simulation_loop.cpp and the      *)
(* tables of executionloop_context_t (core/include/sm_execution_ctxt.hpp). *)
(*                                                                         *)
(* A program is a forest of state machines.  A machine is itself a state;  *)
(* several states may be active at once.  The loop alternates between      *)
(* epsilon iterations and iterations that consume an event.  An iteration  *)
(* computes the triggered transitions, moves a copy (temp) of the active   *)
(* states, completes it upwards and downwards (compute_entered_states),    *)
(* removes machines that became empty (compute_exit_states), calls on_exit,*)
(* the actions and on_enter, and commits temp.                             *)
(*                                                                         *)
(* Selecting the transitions is one step; the two completion loops take    *)
(* one step per state, in index order, since each iteration reads what the *)
(* earlier ones wrote; the callbacks and the commit are one step.          *)
(***************************************************************************)
EXTENDS Integers, Sequences, FiniteSets, FiniteSetsExt, SequencesExt

CONSTANTS NStates,          \* states are 1 .. NStates, 0 means "none"
          Machines,         \* the states that are machines
          Parent,           \* parent_vec
          InitialState, FinalState, JoinState,  \* per machine, 0 if it has none
          ThreadMachines,   \* machines declared as a thread of their parent
          CoverMachines,    \* top-level machines of the covering part
          ShadowState,      \* shadow_state, 0 if the state has no shadow
          Transitions,      \* sequence of records, in table order
          ShadowTransition, \* shadow_transitions, 0 if there is none
          Starts,           \* machines named by the Start directives, in order
          Events,           \* ids of events the main queue delivers, 0 if no transition has it
          ErrorEv, ExitEv,  \* ids of the events "error" and "EXIT", 0 if unused
          Restarts,         \* argument sets of restart(...)
          SyncEvents,       \* ids native actions pass to sync_queue_event
          MaxActive,        \* slots of triggered_transitions (4096)
          SyncCap           \* events ev_sync_queue holds (1023)

States == 1 .. NStates
TransIdx == 1 .. Len(Transitions)
Guarded == {t \in TransIdx : Transitions[t].guarded}

\* The machines around a state: the least set that holds its parent and the
\* parent of each of its members.
ClosedAbove(s) ==
  {C \in SUBSET Machines : \A x \in C \cup {s} : Parent[x] \in C \cup {0}}
Ancestors == [s \in States |-> {m \in Machines : \A C \in ClosedAbove(s) : m \in C}]

Children(m) == {s \in States : Parent[s] = m}
Descendants(m) == {s \in States : m \in Ancestors[s]}
Threads(m) == Children(m) \cap ThreadMachines

ASSUME ForestAssumption ==
  /\ NStates \in Nat \ {0} /\ Machines \subseteq States
  /\ Parent \in [States -> Machines \cup {0}]
  /\ \A s \in States : s \notin Ancestors[s]
  /\ \A s \in States \ Machines : Parent[s] # 0
ASSUME MachineAssumption ==
  /\ {InitialState, FinalState, JoinState} \subseteq [Machines -> States \cup {0}]
  /\ \A m \in Machines :
       /\ {FinalState[m], JoinState[m]} \subseteq Children(m) \cup {0}
       /\ InitialState[m] \in (Children(m) \ Machines) \cup {0}
  /\ ThreadMachines \subseteq {m \in Machines : Parent[m] # 0}
  /\ CoverMachines \subseteq {m \in Machines : Parent[m] = 0}
  \* A join never completes another join in the same step.
  /\ \A m \in Machines, k \in ThreadMachines : JoinState[m] # 0 => JoinState[m] # FinalState[k]
ASSUME TransitionAssumption ==
  /\ Transitions \in Seq([from : States, to : States, ev : Nat, guarded : BOOLEAN,
                          abstract : BOOLEAN])
  /\ ShadowState \in [States -> States \cup {0}]
  /\ ShadowTransition \in [TransIdx -> TransIdx \cup {0}]
  /\ MaxActive \in Nat /\ MaxActive >= Len(Transitions)
  /\ SyncCap \in Nat \ {0}
ASSUME ProgramAssumption ==
  /\ Starts \in Seq(SUBSET {m \in Machines : Parent[m] = 0})
  /\ Restarts \subseteq SUBSET Machines

\* What some of the properties need of a program.  Without a covering part no
\* transition and no state has a shadow.
NothingShadowed == \A t \in TransIdx : ShadowTransition[t] = 0
NoShadowStates == \A s \in States : ShadowState[s] = 0

\* Every machine has an initial state.
EveryMachineStarts == \A m \in Machines : InitialState[m] # 0

\* The final state of a thread is a plain state, other than the initial one,
\* that is reached from inside the thread; a join state is not a thread.
FinalsAreInside ==
  /\ \A m \in Machines : JoinState[m] \notin ThreadMachines
  /\ \A k \in ThreadMachines : FinalState[k] # 0 =>
       /\ FinalState[k] \notin Machines /\ FinalState[k] # InitialState[k]
       /\ \A t \in TransIdx :
            Transitions[t].to = FinalState[k] => k \in Ancestors[Transitions[t].from]

\* No machine is restarted together with one inside it.
RestartsApart == \A ms \in Restarts : \A m, n \in ms : m \notin Ancestors[n]

VARIABLES pc,        \* "enter", "exit", "call": inside an iteration; "loop": between
          i,         \* state the completion loops look at next
          round,     \* 1, 2: the rounds of a restart; 0: any other iteration
          current,   \* current_states
          temp,      \* the next active states, under construction
          visited,   \* states whose VISITED flag is set
          entering, exiting,   \* entering_sms, exiting_sms
          slots,     \* triggered_transitions
          epsilon,   \* taking_epsilon_transitions
          curEv,     \* current_event()
          sync,      \* ev_sync_queue
          pos,       \* next Start directive
          holds,     \* guarded transitions whose guard is true
          quit,
          running    \* on_enter calls minus on_exit calls, per machine

vars == <<pc, i, round, current, temp, visited, entering, exiting, slots,
          epsilon, curEv, sync, pos, holds, quit, running>>

Event == [id : {"none", "other", "restart"}, error : BOOLEAN, machines : SUBSET Machines]

-----------------------------------------------------------------------------
(* Which transitions are triggered, and where they move                    *)

\* states2transitions_slots: the transitions that leave a state of S.
OutOf(S) == {t \in TransIdx : Transitions[t].from \in S}

\* compute_triggered_transitions.  The break on t.smp never happens: all
\* transitions of a state are recorded under one machine.
TriggeredBy(ev) ==
  {t \in OutOf(current) :
     LET tr == Transitions[t] IN
     /\ tr.ev = ev /\ ~tr.abstract
     /\ ~(ev = 0 /\ tr.from = tr.to /\ ~tr.guarded)
     /\ tr.guarded => t \in holds}

\* A state, its shadow, the shadow of that, ... (s itself left out).
Shadows[s \in States] ==
  IF ShadowState[s] = 0 THEN {} ELSE {ShadowState[s]} \cup Shadows[ShadowState[s]]

\* A transition between a state with and a state without a shadow switches
\* the shadows themselves.
ShadowsEntered(t) ==
  IF ShadowState[Transitions[t].from] = 0 THEN Shadows[Transitions[t].to] ELSE {}
ShadowsLeft(t) ==
  IF ShadowState[Transitions[t].to] = 0 THEN Shadows[Transitions[t].from] ELSE {}
SwitchedOff(t) == {Transitions[t].from} \cup ShadowsLeft(t)
SwitchedOn(t) == ({Transitions[t].to} \ ShadowsLeft(t)) \cup ShadowsEntered(t)

\* The transitions of T are applied in table order, so the last one that
\* touches a state decides.
Moved(S, T) ==
  {s \in States :
     LET touching == {t \in T : s \in SwitchedOff(t) \cup SwitchedOn(t)} IN
     IF touching = {} THEN s \in S ELSE s \in SwitchedOn(Max(touching))}

\* The n-th transition of T; the vector is sorted before it is used.
Nth(T, n) == CHOOSE t \in T : Cardinality({u \in T : u <= t}) = n

\* triggered_transitions after T was written to its front: the slots behind
\* keep what earlier iterations left there.  Only shadow transitions are ever
\* looked up in a left-over slot, so a transition without one is stored as 0.
SlotsWith(T) ==
  [n \in 1 .. MaxActive |->
     IF n > Cardinality(T) THEN slots[n]
     ELSE IF ShadowTransition[Nth(T, n)] = 0 THEN 0 ELSE Nth(T, n)]

ShadowRun[t \in 0 .. Len(Transitions)] ==
  IF t = 0 \/ ShadowTransition[t] = 0 THEN <<>>
  ELSE <<ShadowTransition[t]>> \o ShadowRun[ShadowTransition[t]]

\* triggered_shadow_transitions: the loop runs over ALL slots of the vector.
TriggeredShadows(sl) == FlattenSeq([n \in 1 .. MaxActive |-> ShadowRun[sl[n]]])

\* process_transition for every triggered shadow transition.
ShadowMoved(S, run) ==
  {s \in States :
     LET touching == {k \in DOMAIN run : s \in {Transitions[run[k]].from, Transitions[run[k]].to}}
     IN IF touching = {} THEN s \in S ELSE s = Transitions[run[Max(touching)]].to}

\* Mutant: looks at the threads that arrived in this step only.
JoinedTogether(S, arrived) ==
  {m \in Machines : JoinState[m] # 0 /\ Threads(m) # {} /\
     \A k \in Threads(m) : FinalState[k] \in arrived}

\* Regions whose threads are all in their final state although one of them
\* only arrived there now: their threads end and the join state is taken.
Joined(S, arrived) ==
  {m \in Machines :
     /\ JoinState[m] # 0
     /\ \E k \in Threads(m) : FinalState[k] \in arrived
     /\ \A k \in Threads(m) : FinalState[k] \in S}
AfterJoin(S, J) == (S \ UNION {Threads(m) : m \in J}) \cup {JoinState[m] : m \in J}

Crosses(t) ==
  \/ Parent[Transitions[t].from] # Parent[Transitions[t].to]
  \/ {Transitions[t].from, Transitions[t].to} \cap Machines # {}

-----------------------------------------------------------------------------
(* Completing the set of active states                                     *)

\* Machines around s that are not active yet, up to the first active one.
Unentered(s) ==
  {a \in Ancestors[s] : a \notin current /\
     \A b \in Ancestors[s] : a \in Ancestors[b] => b \notin current}

Outermost(C) == CHOOSE a \in C : C \cap Ancestors[a] = {}

\* Mutant: the machines around s are forgotten.
OpenedInside(s) == IF s \in Machines THEN {s} \cup Threads(s) ELSE {}

\* Machines that become active with s: those around it and, if s is a
\* machine, s itself and its threads.
Opened(s) ==
  Unentered(s) \cup (IF s \in Machines THEN {s} \cup Threads(s) ELSE {})
InitialsOf(C) == {InitialState[m] : m \in C} \ {0}

\* Machines around m that an exit of m takes along: active, and with no other
\* active child in S.
Emptied(m, S) ==
  {a \in Ancestors[m] : \A b \in Ancestors[m] :
     b = a \/ a \in Ancestors[b] => b \in current /\ Children(b) \cap S \subseteq Ancestors[m]}

\* Machines the recursions do_exit_impl and do_enter_impl reach from the
\* roots R without leaving S.
Reached(R, S) ==
  {m \in Machines \cap S :
     \E r \in R \cap S : m = r \/ (r \in Ancestors[m] /\ Ancestors[m] \cap Descendants(r) \subseteq S)}
Flagged(R, S) ==
  R \cup Reached(R, S) \cup {c \in Machines : Parent[c] \in Reached(R, S)}

\* trans_hull_of_containment_rel for a top-level machine.
StartHull(m) ==
  LET open == {m} \cup {k \in ThreadMachines : m \in Ancestors[k] /\
                          Ancestors[k] \cap Descendants(m) \subseteq ThreadMachines}
  IN open \cup InitialsOf(open)

\* What a Start directive that names the machines ms activates.
Started(ms) == UNION {StartHull(m) : m \in ms}

-----------------------------------------------------------------------------
(* One iteration, once the event is known                                  *)

\* No transition: an error ends the loop, otherwise the phase changes.
NothingTriggered(ev) ==
  /\ temp' = current
  /\ IF ev.error THEN pc' = "final" /\ epsilon' = epsilon
                 ELSE pc' = pc /\ epsilon' = ~epsilon
  /\ UNCHANGED <<i, round, visited, slots>>

\* compute_transition_kernel.  If no machine can be entered or left, only the
\* actions are left to do.
Transit(T) ==
  LET sl == SlotsWith(T)
      shadows == TriggeredShadows(sl)
      moved == ShadowMoved(Moved(current, T), shadows)
      arrived == {Transitions[t].to : t \in T \cup Range(shadows)}
                   \cup UNION {ShadowsEntered(t) : t \in T}
      J == Joined(moved, arrived)
      crossing == \/ \E t \in T \cup Range(shadows) : Crosses(t)
                  \/ \E t \in T : ShadowsEntered(t) \cup ShadowsLeft(t) # {}
                  \/ J # {}
  IN /\ temp' = AfterJoin(moved, J)
     /\ slots' = sl
     /\ round' = 0
     /\ i' = 1
     /\ IF crossing THEN pc' = "enter" /\ visited' = {}
                    ELSE pc' = "call" /\ visited' = visited
     /\ epsilon' = TRUE

\* Mutant: the phase is not reset.
TakeOutKeepingPhase(T, ms) ==
  /\ temp' = current \ ms
  /\ slots' = SlotsWith(T)
  /\ round' = 1
  /\ i' = 1 /\ pc' = "enter" /\ visited' = {}
  /\ epsilon' = epsilon

\* A restart skips the kernel; its first round takes the machines out.
TakeOut(T, ms) ==
  /\ temp' = current \ ms
  /\ slots' = SlotsWith(T)
  /\ round' = 1
  /\ i' = 1 /\ pc' = "enter" /\ visited' = {}
  /\ epsilon' = TRUE

\* evRead: an event was taken; ev: current_event() after that.
Process(evId, evRead, ev) ==
  LET T == TriggeredBy(evId)
      restart == evRead /\ ev.id = "restart"
  IN /\ curEv' = ev
     /\ \/ T = {} /\ ~restart /\ NothingTriggered(ev)
        \/ T # {} /\ ~restart /\ Transit(T)
        \/ restart /\ TakeOut(T, ev.machines)
     /\ UNCHANGED <<current, entering, exiting, pos, holds, running>>

\* What actions, on_enter and on_exit can do to the loop: change the
\* variables guards read, and queue synchronous events.
Effects ==
  /\ holds' \in SUBSET Guarded
  /\ \E q \in {<<>>} \cup {<<e>> : e \in SyncEvents} :
       LET s == sync \o q IN sync' = IF Len(s) > SyncCap THEN Tail(s) ELSE s

\* The completion loops: a machine or state i per step, VISITED cleared before.
AtState == i <= NStates /\ i' = i + 1 /\ pc' = pc
Unchanged1 == UNCHANGED <<round, current, slots, epsilon, curEv, sync, pos, holds, quit, running>>

\* compute_entered_states, loop body: state i is newly active.
EnterState ==
  /\ pc = "enter" /\ AtState
  /\ i \in temp \ (current \cup visited)
  /\ LET open == Opened(i) IN
     /\ temp' = temp \cup open \cup InitialsOf(open)
     /\ visited' = visited \cup {i} \cup open \cup InitialsOf(open)
     /\ entering' = entering \cup (IF open = {} THEN {} ELSE {Outermost(open)})
  /\ UNCHANGED exiting /\ Unchanged1

SkipState ==
  /\ pc = "enter" /\ AtState
  /\ i \notin temp \ (current \cup visited)
  /\ UNCHANGED <<temp, visited, entering, exiting>> /\ Unchanged1

EndEnter ==
  /\ pc = "enter" /\ i > NStates
  /\ pc' = "exit" /\ i' = 1 /\ visited' = {}
  /\ UNCHANGED <<temp, entering, exiting>> /\ Unchanged1

\* compute_exit_states, loop body: machine i was left or has become empty.
Leaves == \/ i \in temp /\ Children(i) \cap temp = {}
          \/ i \in current \ temp

ExitMachine ==
  /\ pc = "exit" /\ AtState
  /\ i \in Machines \ visited /\ Leaves
  /\ LET gone == IF i \in temp THEN {i} ELSE Descendants(i)
         up == Emptied(i, temp \ gone)
     IN /\ temp' = temp \ (gone \cup up)
        /\ visited' = visited \cup {i} \cup gone
        /\ exiting' = exiting \cup {Outermost({i} \cup up)}
  /\ UNCHANGED entering /\ Unchanged1

KeepMachine ==
  /\ pc = "exit" /\ AtState
  /\ ~(i \in Machines \ visited /\ Leaves)
  /\ visited' = visited \cup ({i} \cap Machines)
  /\ UNCHANGED <<temp, entering, exiting>> /\ Unchanged1

EndExit ==
  /\ pc = "exit" /\ i > NStates
  /\ pc' = "call" /\ i' = 1
  /\ UNCHANGED <<temp, visited, entering, exiting>> /\ Unchanged1

-----------------------------------------------------------------------------
(* Callbacks and commit                                                    *)

\* Mutant: descends through the next instead of the current states.
OnExitThroughNext == Reached(exiting, temp)

\* do_exit and do_enter: VISITED is cleared only if there is a root.
OnExit == Reached(exiting, current)
OnEnter == Reached(entering, temp) \ current
VisitedAfterCalls ==
  IF entering # {} THEN Flagged(entering, temp)
  ELSE IF exiting # {} THEN Flagged(exiting, current)
  ELSE visited
Called(out, in) ==
  [m \in Machines |-> running[m] - (IF m \in out THEN 1 ELSE 0) + (IF m \in in THEN 1 ELSE 0)]

\* do_exit, run_triggered_actions, do_enter, then current_states := temp.
Commit ==
  /\ pc = "call" /\ round # 1
  /\ running' = Called(OnExit, OnEnter)
  /\ visited' = VisitedAfterCalls
  /\ current' = temp
  /\ pc' = "loop" /\ i' = 1 /\ entering' = {} /\ exiting' = {}
  /\ Effects
  /\ UNCHANGED <<round, temp, slots, epsilon, curEv, pos, quit>>

\* Mutant: the first round is not committed.
PutBackUncommitted ==
  /\ pc = "call" /\ round = 1
  /\ running' = Called(OnExit, OnEnter)
  /\ temp' = temp \cup curEv.machines
  /\ round' = 2 /\ pc' = "enter" /\ i' = 1 /\ visited' = {}
  /\ Effects
  /\ UNCHANGED <<current, entering, exiting, slots, epsilon, curEv, pos, quit>>

\* The first round of a restart ends the same way; the second puts the
\* machines back.  The root lists of the first round are not emptied.
PutBack ==
  /\ pc = "call" /\ round = 1
  /\ running' = Called(OnExit, OnEnter)
  /\ current' = temp
  /\ temp' = temp \cup curEv.machines
  /\ round' = 2 /\ pc' = "enter" /\ i' = 1 /\ visited' = {}
  /\ Effects
  /\ UNCHANGED <<entering, exiting, slots, epsilon, curEv, pos, quit>>

-----------------------------------------------------------------------------
(* The loop                                                                *)

\* Covering machines are entered before the loop starts.
Init ==
  /\ pc = IF CoverMachines = {} THEN "loop" ELSE "enter"
  /\ i = 1 /\ round = 0
  /\ current = {} /\ temp = CoverMachines
  /\ visited = {} /\ entering = {} /\ exiting = {}
  /\ slots = [n \in 1 .. MaxActive |-> 0]
  /\ epsilon = (CoverMachines # {})
  /\ curEv = [id |-> "none", error |-> FALSE, machines |-> {}]
  /\ sync = <<>> /\ pos = 1 /\ holds \in SUBSET Guarded /\ quit = FALSE
  /\ running = [m \in Machines |-> 0]

Looping == pc = "loop" /\ ~quit
Fetching == Looping /\ ~epsilon /\ sync = <<>>

EpsilonStep ==
  /\ Looping /\ epsilon
  /\ Process(0, FALSE, curEv)
  /\ UNCHANGED <<sync, quit>>

\* A synchronous event leaves current_event() as it was.
SyncStep ==
  /\ Looping /\ ~epsilon /\ sync # <<>>
  /\ Process(Head(sync), TRUE, curEv)
  /\ sync' = Tail(sync) /\ UNCHANGED quit

\* check_for_events: what the main queue or the simulation script delivers.
FetchEvent(e) ==
  /\ Fetching
  /\ Process(e, TRUE, [id |-> "other", error |-> FALSE, machines |-> {}])
  /\ UNCHANGED <<sync, quit>>

\* "EXIT" is processed like any event; the loop ends after it.
FetchExit ==
  /\ Fetching
  /\ Process(ExitEv, TRUE, [id |-> "other", error |-> FALSE, machines |-> {}])
  /\ quit' = TRUE /\ UNCHANGED sync

FetchError ==
  /\ Fetching
  /\ Process(ErrorEv, TRUE, [id |-> "other", error |-> TRUE, machines |-> {}])
  /\ UNCHANGED <<sync, quit>>

\* "@@restart_state_machine" has no id, so epsilon transitions trigger too.
FetchRestart(ms) ==
  /\ Fetching
  /\ Process(0, TRUE, [id |-> "restart", error |-> FALSE, machines |-> ms])
  /\ UNCHANGED <<sync, quit>>

\* "@@queued_action": run at once; the phase does not change.
FetchAction ==
  /\ Fetching
  /\ curEv' = [curEv EXCEPT !.id = "none"]
  /\ Effects
  /\ UNCHANGED <<pc, i, round, current, temp, visited, entering, exiting, slots,
                 epsilon, pos, quit, running>>

\* "@@set_state": a variable guards may read is assigned.
FetchSetState ==
  /\ Fetching
  /\ curEv' = [curEv EXCEPT !.id = "none"]
  /\ holds' \in SUBSET Guarded
  /\ epsilon' = TRUE
  /\ UNCHANGED <<pc, i, round, current, temp, visited, entering, exiting, slots,
                 sync, pos, quit, running>>

\* A Start directive: on_enter is called for the machines it names.
FetchStart ==
  /\ Fetching /\ pos <= Len(Starts)
  /\ curEv' = [curEv EXCEPT !.id = "none"]
  /\ current' = current \cup Started(Starts[pos])
  /\ running' = Called({}, Starts[pos])
  /\ pos' = pos + 1
  /\ epsilon' = TRUE
  /\ Effects
  /\ UNCHANGED <<pc, i, round, temp, visited, entering, exiting, slots, quit>>

\* EXIT, shutdown(), or nothing left to fetch.
LeaveLoop ==
  /\ pc = "loop"
  /\ pc' = "final"
  /\ UNCHANGED <<i, round, current, temp, visited, entering, exiting, slots, epsilon,
                 curEv, sync, pos, holds, quit, running>>

\* "call exit procedures": do_exit_impl for every active top-level machine,
\* with the VISITED flags the last iteration left behind.
FinalExits ==
  /\ pc = "final"
  /\ LET top == {m \in Machines \cap current : Parent[m] = 0} \ visited
         S == current \ visited
     IN /\ running' = Called(Reached(top, S), {})
        /\ visited' = visited \cup Flagged(top, S)
  /\ pc' = "done"
  /\ UNCHANGED <<i, round, current, temp, entering, exiting, slots, epsilon, curEv,
                 sync, pos, holds, quit>>

Next ==
  \/ EnterState \/ SkipState \/ EndEnter
  \/ ExitMachine \/ KeepMachine \/ EndExit
  \/ Commit \/ PutBack
  \/ EpsilonStep \/ SyncStep
  \/ \E e \in Events : FetchEvent(e)
  \/ FetchExit \/ FetchError
  \/ \E ms \in Restarts : FetchRestart(ms)
  \/ FetchAction \/ FetchSetState \/ FetchStart
  \/ LeaveLoop \/ FinalExits

Spec == Init /\ [][Next]_vars

-----------------------------------------------------------------------------
(* Properties                                                              *)

\* Type invariant of the loop's variables.
TypeOK ==
  /\ pc \in {"loop", "enter", "exit", "call", "final", "done"}
  /\ i \in 1 .. NStates + 1 /\ round \in 0 .. 2
  /\ {current, temp, visited} \subseteq SUBSET States
  /\ {entering, exiting} \subseteq SUBSET Machines
  /\ slots \in [1 .. MaxActive -> 0 .. Len(Transitions)]
  /\ {epsilon, quit} \subseteq BOOLEAN
  /\ curEv \in Event
  /\ sync \in Seq(SyncEvents) /\ Len(sync) <= SyncCap
  /\ pos \in 1 .. Len(Starts) + 1 /\ holds \subseteq Guarded
  /\ running \in [Machines -> Int]

\* The machine around a state of S is in S; each machine of S has a state in S.
IsNested(S) == \A s \in S : Parent[s] \in S \cup {0}
IsFull(S) == \A m \in Machines \cap S : Children(m) \cap S # {}

\* The active states form a forest: the machine around an active state is
\* active, whatever transitions were triggered together
\* (compute_entered_states adds machines, compute_exit_states removes them).
ActiveStatesAreNested == IsNested(current)

\* No machine stays active without an active state in it
\* (compute_exit_states, executionloop_context_t::empty).
NoEmptyMachine == IsFull(current)

\* A state the completion loop under way has dealt with: its index is behind
\* the loop's, or its VISITED flag is set.
Treated(s) == s < i \/ s \in visited

\* compute_entered_states: the machine around a state it has dealt with is
\* active, or was and is about to be left.
EnteredAreNested ==
  pc = "enter" => \A s \in temp \ current : Treated(s) => Parent[s] \in temp \cup current \cup {0}
\* ... and a machine it has dealt with is in its initial state.
EnteredAreFull ==
  pc = "enter" => \A m \in Machines \cap (temp \ current) : Treated(m) => InitialState[m] \in temp

\* compute_exit_states: the machine around an active state is active, or will
\* still be found to have been left.
ExitedAreNested ==
  pc = "exit" => \A s \in temp :
    Parent[s] \in temp \cup {0} \/ (Parent[s] \in current /\ ~Treated(Parent[s]))
\* ... a machine that was active has an active state, or will still be found
\* to have none; one that becomes active is in its initial state.
ExitedAreFull ==
  pc = "exit" => \A m \in Machines \cap temp :
    IF m \in current THEN Children(m) \cap temp # {} \/ ~Treated(m) ELSE InitialState[m] \in temp

\* What is about to be committed.
CommittedAreNested == pc = "call" => IsNested(temp)
CommittedAreFull == pc = "call" => IsFull(temp)

NestedInv == ActiveStatesAreNested /\ EnteredAreNested /\ ExitedAreNested /\ CommittedAreNested
FullInv == NoEmptyMachine /\ EnteredAreFull /\ ExitedAreFull /\ CommittedAreFull

\* What run_simulation keeps true of the active states, between iterations
\* and inside one.
LoopInv == TypeOK /\ NestedInv /\ FullInv

\* on_enter and on_exit come in pairs, like a constructor and a destructor:
\* an iteration calls on_enter once for each machine it activates, on_exit once
\* for each machine it deactivates, and neither for any other (do_enter and
\* do_exit follow root lists and VISITED flags, not the difference of the sets).
Active(m, S) == IF m \in S THEN 1 ELSE 0
CallbacksMatchActivity ==
  [][pc = "call" => \A m \in Machines :
       running'[m] - running[m] = Active(m, current') - Active(m, current)]_vars

\* A machine with a join state never rests with all of its threads in their
\* final states, no matter in which order or in how many steps they got there
\* (triggered_thread_regions in compute_transition_kernel).
JoinIsTaken ==
  pc = "loop" =>
    \A m \in Machines :
      JoinState[m] # 0 /\ Threads(m) # {} /\ m \in current =>
        \E k \in Threads(m) : FinalState[k] \notin current

\* After a restart the restarted machine is back in its initial state, with
\* all of its threads, and in nothing else, wherever in the forest it is and
\* whether or not it was active (the two rounds in run_simulation).
RestartedAfresh(m) ==
  /\ m \in current'
  /\ Children(m) \cap current' = {InitialState[m]} \cup Threads(m)
RestartReinitialises ==
  [][Commit /\ round = 2 =>
       \A m \in curEv.machines : InitialState[m] # 0 => RestartedAfresh(m)]_vars

\* An event is consumed only when no unguarded epsilon transition is left to
\* take, as the comment above taking_epsilon_transitions demands.  (A queued
\* action can enable a guarded one, after which the phase does not change.)
EpsilonComesFirst ==
  pc = "loop" /\ ~epsilon => TriggeredBy(0) \subseteq Guarded

\* Every machine that was entered has been exited when the simulation is over
\* ("call exit procedures" at the end of run_simulation).
EveryMachineIsExited ==
  pc = "done" => \A m \in Machines : running[m] = 0

\* The concept follows its implementation: while a state is active, so is the
\* state of the covering machine it shadows (compute_transition_kernel).
ConceptFollows ==
  pc = "loop" => \A s \in current : ShadowState[s] # 0 => ShadowState[s] \in current
=============================================================================
