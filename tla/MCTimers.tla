------------------------------ MODULE MCTimers ------------------------------
(***************************************************************************)
(* Three programs with timers, one per behaviour:                          *)
(*   native  periodic and one-shot timers of the native variant, stopped   *)
(*           and replaced while the timer thread is between its two        *)
(*           critical sections;                                            *)
(*   node    a node with a receiver and cover-state handlers;              *)
(*   live    both variants of exec_action_timer and every kind of delay.   *)
(* The constants of this module cover the three programs: what it states   *)
(* of TimedEvents' variables holds for each of them.                       *)
(***************************************************************************)
EXTENDS TimedEvents

VARIABLE which

MCTwoNames == {Unnamed, "t"}

Native == INSTANCE TimedEvents WITH
            Paths <- {"native"}, Delays <- {"positive"}, MaxStops <- 0, MaxFired <- 0
Node == INSTANCE TimedEvents WITH
          Names <- {Unnamed}, Periodics <- {FALSE},
          Delays <- {"positive"}, MaxStarts <- 2, MaxStops <- 0,
          RunningAsNode <- TRUE, Covering <- TRUE
Live == INSTANCE TimedEvents WITH
          Periodics <- {FALSE}, MaxStarts <- 2, MaxFired <- 0

NativeStep == which = "native" /\ Native!Next /\ UNCHANGED which
NodeStep == which = "node" /\ Node!Next /\ UNCHANGED which
LiveStep == which = "live" /\ Live!Next /\ UNCHANGED which

MCInit == Init /\ which \in {"native", "node", "live"}
MCNext == NativeStep \/ NodeStep \/ LiveStep

(* The threads of the programs whose progress is asked for are scheduled,  *)
(* and a running timer expires.                                            *)
mcvars == <<vars, which>>
MCFairness ==
    /\ WF_mcvars(which = "node" /\ Node!Main /\ UNCHANGED which)
    /\ WF_mcvars(which = "live" /\ Live!Main /\ UNCHANGED which)
    /\ \A t \in Threads :
         /\ WF_mcvars(which = "node" /\ Node!TimerThread(t) /\ UNCHANGED which)
         /\ WF_mcvars(which = "live" /\ Live!TimerThread(t) /\ UNCHANGED which)
    /\ \A f \in 1 .. Fds :
         /\ WF_mcvars(which = "node" /\ Node!Expire(f) /\ UNCHANGED which)
         /\ WF_mcvars(which = "live" /\ Live!Expire(f) /\ UNCHANGED which)

MCSpec == MCInit /\ [][MCNext]_mcvars /\ MCFairness

-----------------------------------------------------------------------------
(* A node never sleeps on an event: see TimedEvents!QueueIsDrained.        *)
NodeDrainsQueue == (which = "node" /\ queue # <<>>) ~> (queue = <<>> \/ ~Running)

(* A timer that is not stopped is delivered: see                           *)
(* TimedEvents!TimersAreDelivered.                                         *)
TimersArrive ==
    \A g \in 1 .. 2 :
      (which = "live" /\ \E f \in DOMAIN fd : fd[f].gen = g /\ fd[f].st = "armed") ~>
        (g \in delivered \/ (g \notin LiveGens /\ ~Queued(g)) \/ ~Running)
=============================================================================
