--------------------------- MODULE CoverageChannel ---------------------------
(***************************************************************************)
(* The COVERAGE topic of the websocket API and the coverage report.        *)
(*                                                                         *)
(* The main loop counts visits of states and transitions.  The first       *)
(* subscriber makes it register subscribe_coverage_handler, which pushes   *)
(* copies of the tables into a queue; one publisher thread turns the       *)
(* copies into an init message or a difference, keeps the messages in a    *)
(* ring, and one writer thread per subscriber copies the ring to its       *)
(* socket.  A subscriber that applies what it reads sees `view'.           *)
(*                                                                         *)
(* Abstraction: a time stamp is the number of the loop iteration it was    *)
(* taken in; of the clock the model keeps the orders the code asks for:    *)
(* `due' (delta_ms has passed since the last message), which stamps are    *)
(* not older than the last message, and whether time_stamp is older.  The  *)
(* JSON text is the record of the values it carries.                       *)
(***************************************************************************)
EXTENDS Integers, Sequences, FiniteSets, SequencesExt, FiniteSetsExt, Functions

CONSTANTS
  States,       \* the states from start_of_covering_states on, 0 excluded
  Parent,       \* get_parent: States -> States \cup {0}
  Inf,          \* inf_vec: States -> SUBSET of the flag names
  Transitions,  \* the slots from start_of_covering_transitions on: Seq([from, to]);
                \* a slot with from = to = 0 marks the start of a machine
  Category,     \* State::categories: States -> SUBSET of category names
  Clients,      \* the connections that may subscribe
  ChannelSize,  \* channel_size (32 in the code)
  MaxSteps      \* bound: iterations of the main loop that trigger something

VARIABLES
  covering,   \* start_of_covering_states_valid()
  current,    \* executionloop_context().current_states
  covS, covT, \* coverage_state_table, coverage_transitions_table
  times,      \* enter_times and exit_times: Stamps -> the iteration, 0 for none
  sinceLast,  \* the stamps that are not before ctxt->last
  stampOld,   \* exec.time_stamp is before ctxt->last
  lost,       \* history: the stamps no message has told or will tell
  due,        \* delta_ms has passed since ctxt->last
  handler,    \* "none", "requested" (event queued), "refused", "registered"
  dangling,   \* dangling_cover_state_changed_handler_call
  q,          \* coverage_channel_queue
  pub,        \* the publisher thread's last tables and categories
  ring, ringStart, ringEnd, nextId,  \* channel_out, ch_out_*, next_msg_id
  writer,     \* the writer threads
  view,       \* what a client made of the messages it read (history)
  steps       \* iterations so far, bounded by MaxSteps

execVars == <<covering, current, covS, covT, times, sinceLast, stampOld, lost, due,
              handler, dangling, steps>>
pubVars == <<pub, ring, ringStart, ringEnd, nextId>>
clientVars == <<writer, view>>
vars == <<execVars, q, pubVars, clientVars>>

-----------------------------------------------------------------------------
(* What is counted.                                                        *)

\* get_root_sm: follow the parents up to 0.
RootSm(s) ==
  LET up[i \in 0..Cardinality(States)] ==
        IF i = 0 THEN s
        ELSE IF Parent[up[i - 1]] = 0 THEN up[i - 1] ELSE Parent[up[i - 1]]
  IN up[Cardinality(States)]

TopLevelSms == {s \in States : "SM" \in Inf[s] /\ Parent[s] = 0}

Excluded(s) == Inf[s] \cap {"DONT_COVER", "INIT", "FINAL", "SM"} # {}

\* The states whose entering or exiting is stamped.
Stamps == {x \in States \X {"LOG_ENTER_TIME", "LOG_EXIT_TIME"} : x[2] \in Inf[x[1]]}

\* transition_t::start
Start(t) == Transitions[t].from = 0 /\ Transitions[t].to = 0

\* The transitions the channel counts, with the filter of the totals ...
IsLoopNotCovered(t) ==
  Transitions[t].from = Transitions[t].to
    /\ Parent[Transitions[t].from] # 0
    /\ "DONT_COVER_LOOPS" \in Inf[Parent[Transitions[t].from]]

Counted(t) ==
  /\ ~ Start(t)
  /\ ~ (Excluded(Transitions[t].from) \/ Excluded(Transitions[t].to) \/ IsLoopNotCovered(t))

TotalOfTransitions(r) ==
  Cardinality({t \in DOMAIN Transitions :
                 Counted(t) /\ RootSm(Transitions[t].from) = r})

\* A bug: the covered ones are counted without the filter on self loops.
TransitionCoverageOfLoops(table, r) ==
  Cardinality({t \in DOMAIN Transitions :
    /\ ~ Start(t) /\ ~ (Excluded(Transitions[t].from) \/ Excluded(Transitions[t].to))
    /\ table[t] > 0 /\ RootSm(Transitions[t].from) = r})

\* ... and the covered ones among them.
TransitionCoverage(table, r) ==
  Cardinality({t \in DOMAIN Transitions :
    /\ Counted(t) /\ table[t] > 0 /\ RootSm(Transitions[t].from) = r})

\* sm2cov: a machine without a transition to cover is covered.  A ratio is
\* the pair of its terms.
Ratio(n, of) == IF of = 0 \/ n = of THEN <<1, 1>> ELSE <<n, of>>

Sm2Cov(table) ==
  [r \in TopLevelSms |-> Ratio(TransitionCoverage(table, r), TotalOfTransitions(r))]

CoveredStates(table) == {s \in States : table[s] > 0}

\* root2active_categories: the categories of the active states of a root.
ActiveCategories(active) ==
  [r \in TopLevelSms |->
     UNION {Category[s] : s \in {x \in active : RootSm(x) = r}}]

\* make_report: the filter of the report, which is written a third time.
Reported(t) ==
  LET ends == {Transitions[t].from, Transitions[t].to}
  IN /\ ends # {0}
     /\ \A s \in ends, flag \in {"DONT_COVER", "INIT", "FINAL", "SM"} : flag \notin Inf[s]
     /\ ~ \E s \in ends : /\ ends = {s} /\ Parent[s] # 0
                          /\ "DONT_COVER_LOOPS" \in Inf[Parent[s]]

\* make_report: what the report says of a top-level machine's transitions.
ReportOfTransitions(r) ==
  LET mine == {t \in DOMAIN Transitions :
                 Reported(t) /\ RootSm(Transitions[t].from) = r}
      hit  == {t \in mine : covT[t] > 0}
  IN [covered |-> hit, missing |-> mine \ hit]

\* make_report: the states; state machines count, initial states do not.
ReportOfStates ==
  LET asked == {s \in States : Inf[s] \cap {"INIT", "FINAL", "DONT_COVER"} = {}}
  IN [covered |-> asked \cap CoveredStates(covS),
      missing |-> asked \ CoveredStates(covS)]

\* Transitions join states of one top-level machine: a transition is written
\* in a machine and its states are that machine's or of one inside it.
MachinesAreClosed ==
  /\ 0 \notin States
  /\ Transitions \in Seq([from : States, to : States] \cup {[from |-> 0, to |-> 0]})
  /\ \A s \in States : RootSm(s) \in TopLevelSms
  /\ \A t \in DOMAIN Transitions :
       ~ Start(t) => RootSm(Transitions[t].to) = RootSm(Transitions[t].from)

\* The ring has room for the init message and an update (32 in the code).
RingHasRoom == ChannelSize \in Nat /\ ChannelSize >= 2

-----------------------------------------------------------------------------
(* The main loop and the handler it calls.                                 *)

\* The record is what subscribe_coverage_handler copies into a message.
\* `after' are the stamps from the barrier on; `lost' is history.
TableMsg(what, barrier, active, cs, ct, tm, untold) ==
  [what |-> what, client |-> "none", states |-> active, covS |-> cs, covT |-> ct,
   times |-> tm, after |-> barrier, lost |-> untold]

NoTables == TableMsg("UPDATE", {}, {}, [s \in States |-> 0],
                     [t \in DOMAIN Transitions |-> 0], [x \in Stamps |-> 0], {})

Init ==
  /\ covering \in BOOLEAN
  /\ current = {s \in States : Inf[s] \cap {"SM", "INIT"} # {}}
  /\ covS = [s \in States |-> IF s \in current THEN 1 ELSE 0]
  /\ covT = [t \in DOMAIN Transitions |-> 0]
  /\ times = NoTables.times
  /\ sinceLast = {} /\ stampOld = FALSE /\ lost = {}
  /\ due = FALSE /\ handler = "none" /\ dangling = FALSE
  /\ q = <<>>
  /\ pub = [covS |-> NoTables.covS, covT |-> NoTables.covT, tablesCurrent |-> FALSE,
            states |-> {}, times |-> NoTables.times, lost |-> {},
            cats |-> [r \in TopLevelSms |-> {}]]
  /\ ring = [i \in 0..ChannelSize - 1 |-> <<>>]
  /\ ringStart = 0 /\ ringEnd = 0 /\ nextId = 0
  /\ writer = [c \in Clients |-> [st |-> "none", unseen |-> 0, initRead |-> FALSE,
                                  msgs |-> <<>>]]
  /\ view = [c \in Clients |-> [inits |-> 0, lastId |-> -1, gap |-> FALSE,
               ordered |-> TRUE, covered |-> {}, cov |-> Sm2Cov(covT),
               times |-> NoTables.times, cats |-> [r \in TopLevelSms |-> {}]]]
  /\ steps = 0

\* A throttled call pushes nothing.  The stamps of this iteration are not
\* before ctxt->last, unless a message was pushed after the iteration began:
\* those stay behind the barrier of every later message.
NothingPushed(fresh) ==
  /\ IF stampOld THEN sinceLast' = sinceLast /\ lost' = lost \cup fresh
     ELSE sinceLast' = sinceLast \cup fresh /\ lost' = lost \ fresh
  /\ UNCHANGED <<due, q>>

\* The message reports the stamps from min(ctxt->last, time_stamp) on: if
\* time_stamp is the older one, those of this iteration alone, and no stamp
\* is younger than ctxt->last then.
Pushed(active, cs, ct, tm, fresh) ==
  /\ q' = Append(q, TableMsg("UPDATE", sinceLast \cup fresh, active, cs, ct, tm, lost \ fresh))
  /\ sinceLast' = {} /\ due' = FALSE /\ lost' = lost \ fresh

\* A bug: a call that comes too early forgets that it owes a message.
RunHandlersNotDangling(active, cs, ct, tm, fresh) ==
  /\ dangling' = FALSE
  /\ IF handler = "registered" /\ due THEN Pushed(active, cs, ct, tm, fresh)
     ELSE NothingPushed(fresh)

\* run_execution_context_loop_cover_state_changed_handlers: a message is
\* pushed when it is due, otherwise the call is noted as dangling.
RunHandlers(active, cs, ct, tm, fresh) ==
  /\ dangling' = (handler = "registered" /\ ~ due)
  /\ IF handler = "registered" /\ due THEN Pushed(active, cs, ct, tm, fresh)
     ELSE NothingPushed(fresh)

\* visit_transition: once a transition of the state has triggered, the later
\* ones with the same event are visited whatever their guard says.
Visited(s, triggered) ==
  {t \in DOMAIN Transitions : Transitions[t].from = s /\ t >= Min(triggered)}

\* One iteration of the loop triggers transitions of an active state; what
\* is entered and left is stamped; the handlers run when a covered state
\* changed or a call is dangling; the next iteration renews time_stamp.
Step(s) ==
  /\ steps < MaxSteps
  /\ s \in current
  /\ \E triggered \in SUBSET {t \in DOMAIN Transitions : Transitions[t].from = s} :
       /\ triggered # {}
       /\ LET to     == {Transitions[t].to : t \in triggered}
              active == (current \ {s}) \cup to
              cs     == [x \in States |-> covS[x] + Cardinality(
                           {t \in triggered : Transitions[t].to = x})]
              ct     == [t \in DOMAIN Transitions |->
                           covT[t] + (IF t \in Visited(s, triggered) THEN 1 ELSE 0)]
              fresh  == {x \in Stamps : IF x[2] = "LOG_ENTER_TIME" THEN x[1] \in active \ current
                                        ELSE x[1] \in current \ active}
              tm     == [x \in Stamps |-> IF x \in fresh THEN steps + 1 ELSE times[x]]
          IN /\ current' = active /\ covS' = cs /\ covT' = ct /\ times' = tm
             /\ IF covering /\ (dangling \/ active # current)
                THEN RunHandlers(active, cs, ct, tm, fresh)
                ELSE NothingPushed(fresh) /\ UNCHANGED dangling
  /\ stampOld' = FALSE
  /\ steps' = steps + 1
  /\ UNCHANGED <<covering, handler, pubVars, clientVars>>

\* An iteration that triggers nothing renews time_stamp.
Idle ==
  /\ stampOld /\ stampOld' = FALSE
  /\ UNCHANGED <<covering, current, covS, covT, times, sinceLast, lost, due, handler,
                 dangling, steps, q, pubVars, clientVars>>

\* fetch_event: with nothing to read the loop repeats a dangling call; a
\* message that is pushed now is younger than the iteration's time_stamp.
Dangling ==
  /\ dangling
  /\ RunHandlers(current, covS, covT, times, {})
  /\ stampOld' = (stampOld \/ due)
  /\ UNCHANGED <<covering, current, covS, covT, times, handler, steps, pubVars, clientVars>>

\* delta_ms pass.
Tick ==
  /\ handler = "registered" /\ ~ due
  /\ due' = TRUE
  /\ UNCHANGED <<covering, current, covS, covT, times, sinceLast, stampOld, lost, handler,
                 dangling, steps, q, pubVars, clientVars>>

\* The main loop executes Subscribe_coverage::run: the handler's first call
\* pushes the init tables, or refuses when no state is covered; ctxt->last
\* is the iteration's time_stamp.
Register ==
  /\ handler = "requested"
  /\ IF covering
     THEN /\ q' = Append(q, TableMsg("INIT", {}, current, covS, covT, times, {}))
          /\ handler' = "registered" /\ sinceLast' = {} /\ lost' = {} /\ stampOld' = FALSE
     ELSE handler' = "refused" /\ UNCHANGED <<q, sinceLast, lost, stampOld>>
  /\ UNCHANGED <<covering, current, covS, covT, times, due, dangling, steps, pubVars,
                 clientVars>>

-----------------------------------------------------------------------------
(* The publisher thread.                                                   *)

\* compute_init_msg_main_part
InitMsg(id, p) ==
  [id |-> id, init |-> TRUE, covered |-> CoveredStates(p.covS), cov |-> Sm2Cov(p.covT),
   times |-> p.times, cats |-> ActiveCategories(p.states)]

\* compute_update_msg_main_part: the machines with a visited state, the
\* states that were visited since, the times after the barrier and the
\* machines whose categories changed.
UpdateMsg(id, old, m) ==
  LET changed == {s \in States : m.covS[s] # old.covS[s]}
      cats    == ActiveCategories(m.states)
  IN [id |-> id, init |-> FALSE,
      covered |-> {s \in changed : m.covS[s] > 0},
      cov |-> Restrict(Sm2Cov(m.covT), {RootSm(s) : s \in changed}),
      times |-> Restrict(m.times, m.after),
      cats |-> Restrict(cats, {r \in TopLevelSms : cats[r] # old.cats[r]})]

\* create_init_msg: the ring is emptied and holds the init message alone.
CreateInitMsg(p) ==
  /\ ring' = [ring EXCEPT ![0] = InitMsg(nextId, p)]
  /\ ringStart' = 0 /\ ringEnd' = 1
  /\ nextId' = nextId + 1
  /\ pub' = [p EXCEPT !.cats = ActiveCategories(p.states)]

\* NEW_CHANNEL: with known tables every channel gets a fresh init message;
\* then the writer thread starts.
NewChannel ==
  /\ q # <<>> /\ Head(q).what = "NEW_CHANNEL"
  /\ IF pub.tablesCurrent THEN CreateInitMsg(pub) ELSE UNCHANGED pubVars
  /\ writer' = [writer EXCEPT ![Head(q).client].st = "intro"]
  /\ q' = Tail(q)
  /\ UNCHANGED <<execVars, view>>

Received(m) ==
  [pub EXCEPT !.covS = m.covS, !.covT = m.covT, !.states = m.states,
              !.times = m.times, !.lost = m.lost]

InitTables ==
  /\ q # <<>> /\ Head(q).what = "INIT"
  /\ CreateInitMsg([Received(Head(q)) EXCEPT !.tablesCurrent = TRUE])
  /\ q' = Tail(q)
  /\ UNCHANGED <<execVars, clientVars>>

Following(i) == (i + 1) % ChannelSize

\* A bug: the oldest message is not given up when the ring is full.
UpdateOverrun ==
  /\ q # <<>> /\ Head(q).what = "UPDATE"
  /\ ring' = [ring EXCEPT ![ringEnd] = UpdateMsg(nextId, pub, Head(q))]
  /\ ringEnd' = Following(ringEnd)
  /\ nextId' = nextId + 1
  /\ pub' = [Received(Head(q)) EXCEPT !.cats = ActiveCategories(Head(q).states)]
  /\ q' = Tail(q)
  /\ UNCHANGED <<execVars, clientVars, ringStart>>

\* UPDATE: the difference goes into the ring; a full ring loses its oldest.
Update ==
  /\ q # <<>> /\ Head(q).what = "UPDATE"
  /\ LET full == Following(ringEnd) = ringStart
     IN /\ ring' = [ring EXCEPT ![ringEnd] = UpdateMsg(nextId, pub, Head(q))]
        /\ ringEnd' = Following(ringEnd)
        /\ ringStart' = IF full THEN Following(ringStart) ELSE ringStart
  /\ nextId' = nextId + 1
  /\ pub' = [Received(Head(q)) EXCEPT !.cats = ActiveCategories(Head(q).states)]
  /\ q' = Tail(q)
  /\ UNCHANGED <<execVars, clientVars>>

Publish == NewChannel \/ InitTables \/ Update

-----------------------------------------------------------------------------
(* The subscribers.                                                        *)

\* handle_subscribe_coverage: the first subscriber also asks the main loop
\* to register the handler.
Subscribe(c) ==
  /\ writer[c].st = "none"
  /\ writer' = [writer EXCEPT ![c].st = "asked"]
  /\ q' = Append(q, [NoTables EXCEPT !.what = "NEW_CHANNEL", !.client = c])
  /\ handler' = IF handler = "none" THEN "requested" ELSE handler
  /\ UNCHANGED <<covering, current, covS, covT, times, sinceLast, stampOld, lost, due,
                 dangling, steps, pubVars, view>>

\* The slots from ch_out_start up to ch_out_end, oldest first.
Slots ==
  [i \in 1..((ringEnd - ringStart + ChannelSize) % ChannelSize) |->
     ring[(ringStart + i - 1) % ChannelSize]]

WriteIntro(c) ==
  /\ writer[c].st = "intro"
  /\ writer' = [writer EXCEPT ![c].st = "wait"]
  /\ UNCHANGED <<execVars, q, pubVars, view>>

\* The writer skips what it has seen: the numbers ascend from slot to slot,
\* so it skips the first k slots.
Unseen(c) ==
  LET k == CHOOSE k \in 0..Len(Slots) :
             \A i \in DOMAIN Slots : i <= k <=> Slots[i].id < writer[c].unseen
  IN SubSeq(Slots, k + 1, Len(Slots))

\* A bug: the init message of a later subscriber is sent on as well.
MsgsToSendAll(c) == Unseen(c)

\* Of the unread messages an init message goes out only once; in one pass
\* at most the first message is an init message, as it empties the ring.
MsgsToSend(c) ==
  IF writer[c].initRead /\ Unseen(c) # <<>> /\ Unseen(c)[1].init
  THEN Tail(Unseen(c)) ELSE Unseen(c)

\* The writer waits for unseen_msg_id # next_msg_id and copies, under the
\* channel mutex, what it has not seen.
ReadRing(c) ==
  /\ writer[c].st = "wait"
  /\ writer[c].unseen # nextId
  /\ LET seen == Max({writer[c].unseen} \cup {m.id + 1 : m \in ToSet(Unseen(c))})
         missed == \E id \in writer[c].unseen..nextId - 1 :
                      \A m \in ToSet(Unseen(c)) : m.id # id
         fresh  == ~ writer[c].initRead /\ Unseen(c)[1].init
     IN /\ writer' = [writer EXCEPT
             ![c] = [st |-> "send", unseen |-> seen, msgs |-> MsgsToSend(c),
                     initRead |-> @.initRead \/ \E m \in ToSet(Unseen(c)) : m.init]]
        /\ view' = [view EXCEPT ![c].gap = @ \/ (missed /\ ~ fresh)]
  /\ UNCHANGED <<execVars, q, pubVars>>

\* What f says of its domain, and what g says of the rest.
Merged(f, g) ==
  [x \in (DOMAIN f) \cup (DOMAIN g) |-> IF x \in DOMAIN f THEN f[x] ELSE g[x]]

\* A client applies the messages: an init message replaces what it knows,
\* an update is merged into it.
Applied(v, m) ==
  [inits |-> v.inits + (IF m.init THEN 1 ELSE 0),
   lastId |-> m.id,
   gap |-> v.gap,
   ordered |-> v.ordered /\ m.id > v.lastId /\ (m.init \/ v.inits > 0 \/ v.gap),
   covered |-> IF m.init THEN m.covered ELSE v.covered \cup m.covered,
   cov |-> Merged(m.cov, v.cov),
   times |-> Merged(m.times, v.times),
   cats |-> Merged(m.cats, v.cats)]

\* The messages are sent one by one, a NOOP when there is none; after the
\* last one the writer waits again.
SendMsg(c) ==
  /\ writer[c].st = "send"
  /\ IF writer[c].msgs = <<>>
     THEN writer' = [writer EXCEPT ![c].st = "wait"] /\ UNCHANGED view
     ELSE LET rest == Tail(writer[c].msgs)
          IN /\ view' = [view EXCEPT ![c] = Applied(@, Head(writer[c].msgs))]
             /\ writer' = [writer EXCEPT ![c].st = IF rest = <<>> THEN "wait" ELSE "send",
                                         ![c].msgs = rest]
  /\ UNCHANGED <<execVars, q, pubVars>>

\* A send fails because the client has gone: the thread closes its socket.
WriterEnds(c) ==
  /\ writer[c].st \in {"intro", "send"}
  /\ writer' = [writer EXCEPT ![c].st = "closed", ![c].msgs = <<>>]
  /\ UNCHANGED <<execVars, q, pubVars, view>>

Next ==
  \/ \E s \in States : Step(s)
  \/ Idle \/ Dangling \/ Tick \/ Register \/ Publish
  \/ \E c \in Clients : \/ Subscribe(c) \/ WriteIntro(c) \/ ReadRing(c)
                        \/ SendMsg(c) \/ WriterEnds(c)

\* The loop repeats a dangling call, time passes, and the threads run.
Fairness ==
  /\ WF_vars(Dangling) /\ WF_vars(Tick) /\ WF_vars(Register) /\ WF_vars(Publish)
  /\ \A c \in Clients : /\ WF_vars(WriteIntro(c)) /\ WF_vars(ReadRing(c))
                        /\ WF_vars(SendMsg(c))

Spec == Init /\ [][Next]_vars /\ Fairness

-----------------------------------------------------------------------------
\* The queue, the ring and the writers hold values of their types, and the
\* ring keeps consecutive messages up to the newest one.
TypeOK ==
  /\ covering \in BOOLEAN /\ due \in BOOLEAN /\ dangling \in BOOLEAN
  /\ current \subseteq States
  /\ covS \in [States -> Nat] /\ covT \in [DOMAIN Transitions -> Nat]
  /\ ringStart \in 0..ChannelSize - 1 /\ ringEnd \in 0..ChannelSize - 1
  /\ \A i \in DOMAIN Slots : Slots[i].id = nextId - Len(Slots) + i - 1
  /\ nextId > 0 => Slots # <<>>

\* A subscriber that has read everything and was never overtaken (no message
\* left the ring before it read it) knows exactly what the publisher knows:
\* covered states, transition coverage and categories of the last tables,
\* though it only ever received differences; and the times, except for those
\* that were stamped before the last message and came in a throttled call.
GapFreeViewIsCurrent ==
  \A c \in Clients :
    (writer[c].st = "wait" /\ writer[c].unseen = nextId /\ nextId > 0 /\ ~ view[c].gap) =>
      /\ view[c].covered = CoveredStates(pub.covS)
      /\ view[c].cov = Sm2Cov(pub.covT)
      /\ \A x \in Stamps \ pub.lost : view[c].times[x] = pub.times[x]
      /\ view[c].cats = ActiveCategories(pub.states)

\* Message numbers only grow, however often the ring is emptied or wraps
\* around, no subscriber gets a second init message, and one that was never
\* overtaken gets its init message before any update.
InitComesFirstAndOnce ==
  \A c \in Clients : view[c].inits <= 1 /\ view[c].ordered

\* A difference is exact: an update is only published after the tables, and
\* a subscriber that knows what the publisher knew and merges the update into
\* it knows the new tables, although the main loop skipped calls in between,
\* counted more than the times and the machines an update carries, and other
\* subscribers' requests lie between two tables of the queue.  Of the times
\* it knows all that are not lost, also one that replaces a lost one.
Known(p) == Restrict(p.times, Stamps \ p.lost)
DifferencesAreExact ==
  (q # <<>> /\ Head(q).what = "UPDATE") =>
    LET m == Head(q)
        d == UpdateMsg(nextId, pub, m)
    IN /\ pub.tablesCurrent
       /\ CoveredStates(pub.covS) \cup d.covered = CoveredStates(m.covS)
       /\ Merged(d.cov, Sm2Cov(pub.covT)) = Sm2Cov(m.covT)
       /\ \A x \in Stamps \ m.lost : /\ x \in DOMAIN Merged(d.times, Known(pub))
                                     /\ Merged(d.times, Known(pub))[x] = m.times[x]
       /\ Merged(d.cats, ActiveCategories(pub.states)) = ActiveCategories(m.states)

\* The channel and the report count the same transitions: what the channel
\* says of a machine is what make_report says once the tables are the same.
ReportAgrees ==
  pub.covT = covT =>
    \A r \in TopLevelSms :
      LET rep == ReportOfTransitions(r)
      IN Sm2Cov(pub.covT)[r] = Ratio(Cardinality(rep.covered),
                                     Cardinality(rep.covered \cup rep.missing))

\* A covered state is published in the end although the handler skips calls
\* that come too early: the skipped call is repeated.
Unpublished ==
  /\ handler = "registered"
  /\ CoveredStates(pub.covS) # CoveredStates(covS) \/ pub.states # current
CoverageIsPublished == Unpublished ~> ~ Unpublished
=============================================================================
