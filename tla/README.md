# machines4ceps: a TLA+ development of the simulation core

machines4ceps executes UML-like state machines described in the ceps language.
A *simulation core* (`State_machine_simulation_core`) reads a set of state
machines and a `Simulation` block, builds tables from them, and runs one loop
that takes events from a queue and moves the machines. Timers, receivers, a
websocket server and other simulation cores feed that queue from threads of
their own. This directory models that system, checks it with TLC and proves
parts of it with TLAPS. Paths below are relative to `src/`.

## Inventory

| Component | State | Operations | Interacts with |
|---|---|---|---|
| Event queue (`core/include/events.hpp`, `threadsafequeue.hpp`) | a ring of events, a ring of index entries for pending *unique* events, a mutex and a condition variable | push, replace in place, pop, wait for data | written by every thread, read by `fetch_event` |
| Timers (`core/src/sm_sim_core_timer.cpp`) | the timer table, `timed_events_active_`, timerfd descriptors, a detached timer thread | start (two variants), stop, sweep, poll, read, enqueue | the queue; actions start and stop timers; `fetch_event` reads the count without a lock |
| Event handling (`core/src/state_machine_simulation_core_event_handling.cpp`) | the position in the `Simulation` block, out queues | `fetch_event` with three ways of waiting, `queue_event`, `fire_event`, `sync_queue_event` | queue, timers, loop, senders |
| Execution loop (`core/src/sm_sim_core_simulation_loop.cpp`) | the active states and a working copy, VISITED flags, root lists, the vector of triggered transitions, the epsilon phase, the current event | `check_for_events`, `compute_triggered_transitions`, `compute_transition_kernel`, `compute_entered_states`, `compute_exit_states`, `do_enter`, `do_exit`, restart, final exits | event handling, actions, cover-state handlers |
| Execution context (`core/include/sm_execution_ctxt.hpp`) | parents, children, flags, ring of synchronous events, coverage and timing tables | containment queries, the synchronous ring | the loop |
| Construction (`buildsms.cpp`, `sm_sim_process_sm.cpp`, `state_machines.cpp`, `state_machine_simulation_core.cpp`) | the heap of machines, the registry of qualified ids | definition, import, extension, implementation of concepts, instantiation, back patching, numbering | fills the context |
| Actions and guards (`sm_sim_execute_action_seq.cpp`, `sm_global_functions.cpp`, ...) | system states | statements, `restart`, `start_timer`, `stop_timer` | loop, timers, queue |
| Virtual machine (`core/src/vm`, `core/include/vm`) | text, registers, compute stack, one memory for static data and data stack | instructions, assembler with message directives, data sections, save and restore | guards and actions, event payloads |
| Channels (`cal_sender.cpp`, `cal_receiver.cpp`, `sm_comm_naive_msg_prot.cpp`) | out queues, connections to remote nodes, monitoring connections | send, receive, serialize | queue, virtual CAN |
| TCP communication (`core/src/sockets`) | the table of registered sockets | accept, serve, send over a registered socket, cut a stream into messages | channels, queue |
| Virtual CAN (`core/src/api/virtual_can`) | handler slots, directories of simulation cores and stream endpoints, gateways of out channels | requests, subscription, forwarding | channels, main loop |
| Live logger (`core/src/livelog`, `sm_livelog_storage_utils.cpp`) | three levels of rings of variable-length records, a mirror in the sink | write, park, copy, flush, poll | loop, reader threads, another process |
| Frames (`sm_raw_frame.cpp`, `sm_xml_frame.cpp`) | none | encode, decode | channels |
| Websocket API (`core/src/api/websocket`, `websocket.cpp`, `fast-json.hpp`, `arena.hpp`) | connections, watched states, the ring of coverage messages, payload memory | commands, deferred replies, updates, coverage topic, EVENT with payload | main loop, loop handlers, virtual machine |
| Assertions (`sm_sim_core_asserts.cpp`), generators (`cppgenerator`, `dotgenerator`, `docgen`) | none | compare, print | - |

What is hard here, and what the properties are about:

* *Interleaving.* The timer thread works in two critical sections with a system
  call between them; the main thread reads the count of timers without a lock,
  examines the queue, and decides much later whether to sleep or to end. Three
  threads write to one websocket. The live logger's first ring has a writer and
  a mover and no lock.
* *Descriptors.* A number that one thread closed is given to the next connection
  while another thread still means the old one.
* *Stale state.* Slot numbers, VISITED flags, root lists, the vector of
  triggered transitions and `current_event()` outlive the iteration they were
  made for.
* *Order.* One event can trigger many transitions at different depths of the
  forest; machines are cloned before the machines they import are complete;
  labels are referred to before they are defined.
* *Bounds.* Rings of events, index entries, synchronous events, log records and
  coverage messages and the timer table are all of fixed size.
* *Two descriptions of one format.* Frames, payloads, log entries, messages of
  the virtual machine and machine instructions have writers and readers that
  compute sizes and offsets separately.

`PROJECT.json` lists each hazard with its line and the properties that cover it.

## Modules

| Module | Models |
|---|---|
| `EventQueue` | `Ringbuffer` and `Eventqueue`, operation by operation |
| `AbstractEventQueue` | what the queue promises: FIFO, bounded, one pending event per unique id |
| `TimedEvents` | timer table, timer thread(s), both variants of `exec_action_timer`, composed with `fetch_event` |
| `MachineBuild` | state machines from their definitions: `process_statemachine`, `clone_from`, `merge_state_machines`, imports, back patching, instantiation |
| `ExecutionTables` | `compute_state_and_event_ids` on top of `MachineBuild` |
| `ExecutionLoop` | `run_simulation` on an arbitrary forest of machines |
| `OblectamentaCode` | encoding of values and instructions |
| `OblectamentaMessage` | the C++ serializer and deserializer of messages |
| `OblectamentaState` | data sections; saving and restoring a machine |
| `OblectamentaAssembler` | the two passes of the assembler |
| `Oblectamenta` | `VMEnv::run`, one instruction per step |
| `VirtualCan` | the virtual CAN server with CAN senders and receivers |
| `EventLink` | events between nodes: sender and consumer threads over connections that may be reset |
| `NmpCodec`, `NmpMonitor` | payloads of such events; monitoring connections |
| `SocketChannel`, `StreamReader` | channels over generic TCP; messages in a stream |
| `LiveLog` | the live logger and its sink |
| `RawFrame` | raw frames, bit by bit |
| `WebsocketApi`, `WebsocketFrame` | connections and commands; frames, upgrade request, base64 |
| `CoverageChannel` | the coverage topic and the coverage report |
| `EventPayload`, `JsonToken`, `Arena` | JSON payloads of events, their tokens, their memory |
| `EventQueueProofs`, `TimedEventsProofs`, `ExecutionLoopProofs`, `SocketChannelProofs`, `EventLinkProofs`, `VirtualCanProofs`, `WebsocketApiProofs`, `CoverageChannelProofs` | theorems about the module of that name |
| `MC...` | constants, programs and compositions for TLC |

Definitions whose comment starts with "Mutant" or "A bug", or that stand without
a comment before the definition they vary, are wrong variants of what follows;
they document which slip a property detects and are used by no specification.

### EventQueue

`slots`, `start`, `end`, `n` are the ring (byte offsets divided by the record
size); `index` is `stored_unique_events`, which is only ever read in ring order
and is therefore a sequence. `Push` has three cases (`PushPlain`, `PushReplace`,
`PushUnique`), `Pop` two. A destroyed slot holds `NoEvent`, so a read of a
destroyed event shows. Every operation runs under the mutex of
`threadsafe_queue` (or of `fetch_event`) and is one step.

`Pending` is the refinement mapping: the events from `start` on. Under it the
ring with its index implements `AbstractEventQueue`.

`Spec` allows overflow. With ordinary events an overflow is harmless
(`NextOrdinary`): exactly the oldest event is lost. With unique events it is
not: the dropped event leaves its index entry behind, and a full index forgets
an event that is still pending.
The statements about unique events therefore assume an environment that stays
within the capacity (`SpecWithinCapacity`); the real rings hold
2048 * sizeof(event_t) events and 8192 index entries.

### TimedEvents

`table`, `active`, `apiThread` are `timer_table`, `timed_events_active_`,
`fdtimer_api_thread_running`; `fd` is the kernel's view of the descriptors
(external: modelled from how the code uses timerfd). A timer thread cycles
through `Scan` (first critical section), `Poll`, `Read` and `Fire` (second
critical section). The main thread either executes actions (`pc = "act"`:
`StartNative`, `StartInterpreted`, `InsertTimer`, `StopTimer`, `QueueEvent`) or
is inside `fetch_event`: `ReadPending`, `ExamineQueue`, `NextStatement`,
`EndOfScript`, `WaitForData`, `WaitForHandlers`, `LoopCondition`. A timer is
started by one of three paths: by native code, by an interpreted action, which
hands periodic timers to the native code, and by an interpreted action that
queues an action (`@@queued_action`), which does not. Each timer has
a generation, so that an event can be traced to the timer it belongs to although
slots and descriptors are reused. The queue is a plain sequence here: events of
timers are taken not to be unique, and the queue not to overflow; both are the
subject of `EventQueue`.

### ExecutionLoop

The program is a constant: a forest of machines (`Parent`), initial, final and
join states, threads, covering machines, transitions in table order, shadows.
`ASSUME`s state what construction guarantees (a machine is numbered before its
content, and so on). One iteration is

1. one step that chooses the event and the triggered transitions and moves
   `temp` (`EpsilonStep`, `SyncStep`, `FetchEvent`, `FetchExit`, `FetchError`,
   `FetchRestart`);
2. `EnterState`/`SkipState`, one per state in index order
   (`compute_entered_states`);
3. `ExitMachine`/`KeepMachine`, one per state in index order
   (`compute_exit_states`);
4. `Commit`: `on_exit`, actions, `on_enter`, then `current := temp`. A restart
   goes through 2-4 twice, with `PutBack` in between.

`FetchAction`, `FetchSetState` and `FetchStart` are the events
`check_for_events` handles itself. Recursions over the containment tree
(`do_enter_impl`, `do_exit_impl`, `remove_children`) are given by the set of
machines they reach. Guards are arbitrary: `holds` is the set of guarded
transitions whose guard is true, and every action, `on_enter` and `on_exit` may
change it and may queue a synchronous event. `running` counts callbacks.

Two abstractions deserve a word. A slot of `triggered_transitions` behind the
current ones is only ever used to look up a shadow transition, so a transition
without one is stored as 0. And the assumption that a join state is not itself
the final state of a thread rules out a join completing another join within one
step, which the code handles in the order in which regions were collected.

### MachineBuild and ExecutionTables

`store` is the heap of machines (a pointer is a position), the registry
`State_machine::statemachines` and the verdict `bad` of fatal errors and failing
asserts, which the build keeps. `Define` processes one definition of the input,
with everything below it; `PatchImports` resolves one machine's imports; `Patch`
resolves the ends of transitions; `MoveForeign` moves transitions out of foreign
machines to where they start; `Instantiate` handles `x = base(...)`. An end of a
transition is a state, a machine, or a path still to be resolved. `BuildTables`
numbers machines and states, those of covering machines last, and makes a block
of entries for each machine. A machine is covering when it names a cover method or
is a concept. The registry is visited in the order of the heap,
where the code iterates over a map with an order of its own. A program is
*sound* when the names it uses are defined where they are looked up; the
properties speak of what a sound program is built into, and unsound programs
reach the error paths.

### Oblectamenta

A byte has two bits in the checked instance (`BitsPerByte`), the widths of types
in bytes are the code's, and a double stands for an integer of its width: so
carries, sign extension and wrap-around happen, and a message fits. `Image` is
what `OblectamentaAssembler` makes of a program; `Next` fetches the instruction
at `pc` and executes it. Instructions are grouped into families with the
differences in tables (`Shuffles`, `Arithmetic`, `Relations`, ...). Three things
C++ leaves open are choices: the order of the pops in `pop() op pop()`, the
results of transcendental functions, and what lies outside the memory. An address in
the process, which only `lea_absolute` computes, is an offset from the constant
`MemBase`. The code
has a few instructions whose executed width differs from the emitted one
(`Misencoded`); executing one sets `strayed`, and
`ControlStaysOnInstructions` speaks of runs that did not. The assembler's first
pass turns a message directive into code that builds or searches the message in
a buffer: `WriteRoot` and `ReadRoot` generate it statement by statement as the
code does, and the machine executes it.

`SerializersAgree` compares this with the serializer and deserializer in C++, over
all 651 trees of up to two levels, two children and four leaves. Both writers write
the same bytes. The deserializer finds the tree again exactly if no string has a
sibling behind it: it computes the size of a string from the text it prints,
with its two quotes (`oblectamenta-assembler.cpp`, lines 158-159), and reads
the sibling two bytes late.

### Communication

*VirtualCan.* A client is one connection; `sock` says which connection a
descriptor denotes, `sck` which descriptor a handler was started with. A handler
answers requests until its client subscribes: to an out channel, when the socket
becomes a gateway of the sender thread, or to an in channel, when the handler
becomes a receiver that waits for the start of the simulation. `Cleanup` is the
destructor at the end of a handler; it finds its own entry of
`handler_threads_status_` by the descriptor's number. The main loop answers requests for
the directory, which it brings up to date first if the request has an id token.

A subscription to an out channel gives the descriptor away first and ends the
handler later, so the two are two steps (`HandleSubscribeOut`, `Return`). Between
them the sender may already fail to write to the descriptor and close it, and
the number may go to the next client, whose entry the late clean-up then marks as
ended; the dispatcher may even wait, holding the mutex, for that live thread.
`overtaken` and `stuck` record this. `SocketsAreOwned` holds up to that point,
not behind it; the scenario *reuse* with three clients goes there.

*EventLink.* Every node has a sender thread per remote node and a consumer
thread per incoming connection. A message is two tokens of header and one of
body, a connection a stream of tokens that is cut anywhere and may be reset. A
failed write makes the sender connect again and write the event once more.
`EventsAreSentOnce` says that each event is queued for each remote node once,
that it is not sent on by its receiver, and that no event is read completely
twice, although it may be written twice. Events whose id starts with `@` are not
sent by the code and not among the events of the model.

*SocketChannel.* The registry holds a descriptor and whether it may be used.
`Serve` is the thread of a client (upgrade, messages, clean up in its two parts);
it gives up on a request that is no upgrade, on a message that comes in pieces, and
when the client is gone. An accept that fails takes the registered socket off its
name. `SenderThread` is the thread that writes frames. A frame is up to five calls of
`write` (start marker, header, length, content, end marker; the constant `Pieces`),
one step each, between which the descriptor may be closed and be given to another
connection: `FramesStayTogether` says that this is the only way for two connections
to get parts of one frame. The start marker is written with the length of
the end marker (`generic_tcp_communication.cpp`, line 121), so that every write fails if
there is one of another length; `evenMarks` says whether the two agree.

*StreamReader, NmpCodec, NmpMonitor, RawFrame* compute what a reader makes of
what a writer wrote, in bytes (bits for frames) and whatever way the network
cuts the stream. Where a reader is known to err, the property says so:

* the stream reader loses messages when a piece ends inside of a marker, inside of
  a size of four bytes (a short read of the size ends the loop and closes), or inside
  of a sized message, and when a size is beyond the buffer;
* a signed field of a frame whose width is not 8, 16 or 32 comes back 2^width too
  small when it is not negative: the reader sets the upper bits of every such
  field (`sm_raw_frame.cpp`, lines 571-576). `Received` states the value
  for the whole range; fields that start and end inside of bytes are excluded;
* payloads: unit exponents other than 0 and -1 (`ntohl` on 16 bits), types only one of
  both sides knows;
* the monitoring connection takes a part of a header for a header, and a body it
  has not read for the next header (`astray`). A body that comes in pieces and a
  failed write end the connection. `MonitorAnswers` promises answers in order
  up to such an end.

*LiveLog.* The main thread writes in two steps, header and content (`PushHeader`,
`Fill`), because the connection handler's `Flush` moves the ring between them
without a lock. The copying thread, the server and the sink (another process)
are one action per critical section. When a move meets a write (`raced`) or a
chunk ends exactly at the end of the array and the reader leaves it (`wild`),
the outcome is undefined and the run stops there; `LogIsFaithful` and progress
are about all other behaviours. The check whether there is something to flush is
made before the lock is taken and is a step of its own (`FlushCheck`). A length that
the sink reads in pieces (`ReadShort`) ends its loop over the answer but not the
connection, so that the next length is read out of the middle: `wild` again. What the
mirror holds up to then is as it was logged.

### Websocket API

*WebsocketApi* writes to descriptors; a connection receives what is written to
the descriptor it has at that time. A run in
which a client sends a request or leaves while an answer is outstanding, or
watches values, is `careless`: then writes of several threads may meet on one
descriptor, and the properties promise nothing. A request that comes in pieces, or an
upgrade request without a key, ends the handler and closes the connection of an
open client, too, so that a careful client is answered *or its connection is closed*.
A command with the wrong number of arguments is answered `ok: false` even if it is one
that is otherwise not answered (`Miscounted`), and a few commands without arguments throw
and end the process (`Throws`, `HandleThrowing`). Two history variables say what a
client is owed: how many requests it sent (`asked`), and which of them are answered, in
order (`expects`).

*CoverageChannel.* The main loop's counters, the throttled handler, the queue,
the publisher thread with its ring, and a writer per subscriber, which copies the
ring's new messages under the mutex and sends them one by one afterwards. `view` is
what a client knows that applies the messages it got; an update carries only
differences, and `DifferencesAreExact` says that merging one into what the publisher
knew before gives what the loop pushed.

Enter and exit times are stamped with the time of the top of the loop, before
`fetch_event` blocks. A dangling call of the handler inside of that `fetch_event` may
push tables later than this stamp (`stampOld`); if the call of the step itself is then
throttled, its stamps are older than the barrier of all later messages and no
update ever tells them (`lost`, `ws_api.cpp`, line 1785). The properties promise
subscribers all states and counts, and all times but these.
`ReportAgrees` compares the channel's figures with those of the coverage report, which
collects covered and missing transitions machine by machine.

*EventPayload* runs the parser of `fast-json.hpp` with its call stack as the
variable `frames`, in memory of `Arena`, up to the loop that consumes the event. The
loop copies the message and gives the memory back in two steps, `Consume` and
`FreeMessage`, the copy without the mutex; a program without a global event buffer
(`buffered`) does neither and keeps the memory. That the message fits into
that buffer is not checked in the code and taken for granted here. *JsonToken* reads
strings and numbers character by character, with the escapes of four digits (also
cut short by the end of the text) and all characters the lexer skips.

## Runs

| Run | Bounds | Shows |
|---|---|---|
| `queue` | 3 ids, 2 payloads, ring of 3, index of 2 | `QueueInv`, `UniquePendingOnce`, refinement of `AbstractEventQueue`, within capacity and, for ordinary events, beyond it |
| `timers` | 2 slots, 2 descriptors; *native*: 3 starts, 2 names, periodic or not; *node*: 2 starts, 1 received event, cover-state handlers; *live*: all three paths, 2 starts, 1 stop, any delay | `TimerInv` (count, descriptors, what a thread took from the table), `OneThreadReads`, `FiresOwnTimer`, `NamedTimersAreSingle`, `DoneMeansDrained`, no event is slept on, timers are delivered |
| `timers_end` | 1 one-shot timer | **violated**: a simulation with one-shot timers may never end |
| `timers_two_threads` | 1 periodic and 1 one-shot timer | **violated**: two timer threads, one reads a descriptor the other closed |
| `loop` | *build*: 26 programs of up to 5 definitions; *loop*: 18 states, 6 machines, 14 transitions | copies, shadows and tables; nesting, joins, epsilon phase, callbacks, restart |
| `loop_exits` | 2 nested machines, 1 transition | **violated**: `on_exit` is skipped at the end |
| `loop_concept` | 3 machines, 6 transitions | **violated**: a stale transition moves the concept |
| `vm` | all mnemonics; bytes of 2 bits; messages with up to 3 levels | instructions, branches, message directives, stacks, snapshots, termination |
| `obl_onerror` | one program | **violated**: the error handler runs although every field is present |
| `links` | *out*, *in*: 2 clients, 2 descriptors; *reuse*: 3 clients, 2 descriptors; *dir*: 1 client, 3 requests; *bus*: 3 in channels; *nodes*: 2 events, 2 connections, any reset; 3 log entries in rings of 10 and 14 cells | ownership of descriptors, gateways, directory, events once, the log arrives, encodings |
| `vcan_in` | 2 subscribers of one in channel | **violated**: one of two waiting receivers is woken |
| `api` | 2 clients, 2 descriptors, ring of 3 coverage messages, 2 payload messages out of 15 texts; *channel*: 2 connections, 2 frames of 2 pieces | answers, coverage, payloads, JSON, frames, registered sockets, frames of a channel in order |

`timers`, `loop`, `links` and `api` each check several programs or scenarios in
one run: the initial state chooses one (`which`), and the variables of modules
that are not in use have the value 0, or, for the module the MC module extends
(`TimedEvents`, `ExecutionLoop`, `EventLink`, `SocketChannel`), keep their initial
value. A property names the scenarios it is about.

Why the bounds are enough. A ring of three slots wraps, is full, is emptied, and
has room for two events before or behind a unique one; three ids with an index
of two entries let a removal swap entries. Two timer slots with three starts
force reuse of a slot and of a descriptor while the timer thread holds the old
ones. The program of the loop has a machine inside a machine with two threads
and a join, a transition out of a thread past two levels, one into the final
state of a thread of an inactive region, a guarded epsilon transition and a
covering concept; every machine is entered, left, emptied and restarted, alone
and together with others. The programs that are built import machines that
import machines, define them in every order, implement a concept directly and
through another one, extend two machines, and hit every error. The programs of
the machine execute every mnemonic and cover messages with missing, unordered,
nested and empty fields and negative numbers. Two clients with two descriptors
are enough for a descriptor to come back to another connection while a thread
still uses its number; the third client of *reuse* is the one the dispatcher
accepts, or fails to accept, after that. In the live log's rings two entries wrap and a third does
not fit, so that each level overflows into the next.

The six violations are disagreements between the code and what its comments,
assertions or documents say; `PROJECT.json` quotes both. For `loop_concept` the
property holds again when the slots behind the current ones are cleared.

Deadlock is only checked in `queue`: simulations, programs, clients and streams
end.

### Fairness

Threads that can run are scheduled: weak fairness on the main thread, on each
timer thread, sender thread, consumer thread, handler and publisher. An armed
timer expires and time passes (`Expire`, `Tick`), which the kernel promises. The
copying thread of the live log has strong fairness: it competes for a mutex with
a sink that sleeps between two polls, and a waiting thread gets a mutex that is
released again and again. Nothing is assumed of clients, peers, the network, the
receiver, the choices of actions, or the handlers the main thread waits for.
Elsewhere mutexes need no fairness of their own: a critical section is one step.

## Proofs

Every theorem holds for all values of the constants that satisfy the named
assumptions, which TLC evaluates on the instances it checks. Invariants were
checked by TLC first; most are the invariants the runs check, written so that
they are inductive.

**EventQueueProofs**, for rings of every size and any ids and payloads:

* `QueueIsConsistent`: `SpecWithinCapacity => []QueueInv`;
* `UniqueEventsPendOnce`: `SpecWithinCapacity => []UniquePendingOnce`;
* `QueueRefines`: `SpecWithinCapacity` implements `AbstractEventQueue`;
* `OverflowRefines`: so does `SpecOrdinary`, the queue without unique events,
  when its ring overflows.

Assumptions: both rings have at least one slot, flags are Booleans, and
`NoEvent` is not an event. That a unique event is pending at most once is not
inductive: a push consults the index, not the ring. The invariant adds that the
cursors agree with the count and delimit exactly the slots that hold events
(`RingShape`), that every index entry points at a pending unique event of its id
(`IndexPointsAtPending`), that every pending unique event has an entry
(`PendingIsIndexed`) and that no id has two (`IndexHasNoDuplicates`). Lemmas
about the wrap-around arithmetic and about removal from the index carry the
weight. The refinement goes step by step (`StepRefines`): under `QueueInv` a push
appends to `Pending` or replaces the event the index points at, and a pop takes
its head; for `OverflowRefines` the shape of the ring is enough.

**TimedEventsProofs**, for any number of slots, descriptors, starts and stops, and
any of the paths a timer is started by:

* `TimerTableIsSound`: `Spec => []TimerInv`;
* `OneThreadNeverFails`: `Spec => []OneThreadReads`, and `NativeReadsSucceed`:
  without interpreted actions (`Paths \subseteq {"native"}`) no read ever fails; with them
  it may, which the run `timers_two_threads` shows;
* `ThreadFiresItsTimer`: `Spec => FiresOwnTimer`, an action property;
* `NamesAreUnique`: `Spec => []NamedTimersAreSingle`;
* `SimulationEndsDrained`: `Spec => []DoneMeansDrained`.

`TimerInv` relates the two critical sections of a timer thread: an entry it took
from the table in the first (`watch`) is still in use or marked, and as long as
there is no second thread it has the same descriptor and generation
(`WatchesStayValid`); entries own distinct open descriptors (`EntriesOwnDescriptors`), there is a table as soon as there is a
thread and there are at most two threads (`ThreadsFollowTable`), and the count
covers the live timers (`CountCoversLive`). For the names, the invariant
adds that a timer about to be inserted has had its predecessor stopped
(`ReplacedIsStopped`): stop and insert are separate critical sections. For the
end of a simulation it adds what `fetch_event` has found out so far and is
still true (`FetchFound`): a count read as zero stays zero, because only the main
thread starts timers, and an empty queue stays empty once no timer lives.

**ExecutionLoopProofs**, for every forest of machines, transition table, sequence
of events, guards and restarts:

* `LoopIsTyped`: `Spec => []TypeOK`;
* `EpsilonIsFirst`: `Spec => []EpsilonComesFirst`;
* `ActiveStatesNest`: `Spec => []ActiveStatesAreNested`, if no transition has a
  shadow (`NothingShadowed`);
* `LoopIsSound`: `Spec => []LoopInv`, if moreover every machine has an initial
  state (`EveryMachineStarts`);
* `JoinsAreTaken`: `Spec => []JoinIsTaken`, if no transition and no state has a
  shadow and the final states of threads are reached from inside of them
  (`FinalsAreInside`);
* `CallbacksPair`: `Spec => CallbacksMatchActivity`, an action property, if
  `NothingShadowed` and `EveryMachineStarts`;
* `RestartsAreFresh`: `Spec => RestartReinitialises`, an action property, if moreover
  no machine is restarted together with one inside it (`RestartsApart`).

Assumptions are what construction guarantees: the forest has no cycle, simple
states lie in a machine, initial, final and join states are children of their
machine, `Start` names top-level machines. A program is nested only after a
commit, not inside an iteration, so `NestedInv` says for each phase what is
done: while states are entered, a new state the loop has dealt with (by its index
or its VISITED flag) has its machine, active or about to be left
(`EnteredAreNested`); while machines are left, a state without its machine is in
one the loop has yet to find left (`ExitedAreNested`); and what is committed is
nested (`CommittedAreNested`); `FullInv` does the same for machines without an
active state. `Ancestors` is the least set closed under `Parent`, so no
induction over the depth is needed. The hypotheses exclude what is not so:
a shadow transition may go from and to any state of the concept; and a machine
without an initial state that is entered only because of a machine inside it can
stay behind empty, since an exit takes along only machines that were active
before. A transition from outside into the final state of an only thread takes the
join state and activates the thread again, with both of its states; and of a
machine restarted together with one inside it, the inner one is active in the
outer one, too.

A join is decided before the iteration moves any state, from the final states
that are active and those the triggered transitions reach, so `JoinInv` follows a
machine with a join state through the phases: if all of its threads have ended in
`temp`, they are left in the same iteration. While states are entered these threads
were active and are not in `temp` any more; while machines are left,
`compute_exit_states` has yet to deal with each of them; at the callbacks no such
machine remains. `RootsInv` ties the root lists to what was dealt with so far: the
roots of `compute_entered_states` become active and hold every machine that does,
those of `compute_exit_states` were active, are not any more, and hold every machine
that was left. A restart makes two rounds over the same lists: the first activates
nothing, and what it has left is not active in the second. `RestartInv` adds what
the rounds do: the first takes the restarted machines out of `temp`, the second
only adds states, and a restarted machine either has no child in `temp` and is still
to come, or was visited and has its initial state, its threads and no other child.

Programs without a covering part satisfy the hypotheses unless a transition enters
a thread through its final state; that of `loop_exits` satisfies all of them, that of
`loop` none about shadows, so that there TLC checks the same properties beyond them.

**SocketChannelProofs**: `ChannelIsSound`: `Spec => []ChannelInv`, for any number
of connections, descriptors, frames and pieces of a frame; `None` is not a
connection. The invariant says which phase of a handler owns its descriptor
(`ThreadsOwnDescriptors`), which the registry alone does not tell, where the
frame that is between queue and wire is (`FramesAreNext`), and that the
connections that got pieces of it have the sender's descriptor or were closed.

**EventLinkProofs**: `EventsAreOnce`: `Spec => []EventsAreSentOnce`, for any number
of nodes, events and connections; `MaxEvents` bounds the events of each node. A
failed write is repeated on a new connection, so the statement is about what has
been written so far and what is left: an event of the main queue that is not
marked is in no out queue yet (`UnsentAreNew`), a sender holds the event behind
those it has written (`SendersHoldTheNext`), a stream and its reader are in step
(`StreamsAreFramed`), only emitted events arrive (`OnlyEmittedArrive`), the last
token of an event stands in one stream (`WrittenOnce`), and in none once the
event was read completely (`ReadIsGone`).

**VirtualCanProofs**: `CanIsSound`: `Spec => []CanInv`, for any clients,
descriptors, channels and requests that are `WellFormed` (subscriptions name
existing channels, 0 is no descriptor, `None` no client; TLC evaluates it for each
instance). That an open descriptor has exactly one owner depends on who knows
it: a serving handler has an entry of its own with its own descriptor
(`HandlersAreListed`), an open descriptor is the one the handler of its client was
started with (`SocketsAreKnown`), the senders have exactly the descriptors that
were given away (`SendersHaveTheRest`), each in one place of one queue or list
(`PlacesAreUnique`). All this holds until a sender overtakes a handler.
`DirectoryIsCurrent` holds without that condition.

Two more theorems hold whether or not a handler was overtaken, so they cannot use
the entries of `handler_threads_status_`:

* `StreamsAreWhole`: `Spec => []GatewayStreams`;
* `PatienceIsAnswered`: `Spec => []PatientClientsAreAnswered`.

`OwnSockets` is what is left of ownership without the entries: a serving handler
still has its descriptor, and what the senders have was given away, each descriptor
in one place. So a client is in the list of at most one sender, and its stream ends
with that sender's last frame as long as it is listed (`InStep`): a send that fails
half-way takes it off the list. For the answers the invariant (`Patient`) says where the
one outstanding request of a patient client is: on its way to the handler, or in
the main queue (`MainInv`: its entries are well-formed) with the descriptor its
client still has.

**WebsocketApiProofs**, for any number of connections, descriptors, contexts and
requests, if there are finitely many clients, `None` is not one, and each sends a
bounded number of requests (`BoundedRun`):

* `ApiTypes`: `Spec => []TypeOK`;
* `AnswersArriveWhole`: answers arrive whole and in the order of the requests;
* `DescriptorsStayOwn`: no thread uses a descriptor of another connection.

The last two are about behaviours that are not `careless`. `AnswerInv` says that an
answer that has not arrived completely is that of the last answered request, and that
it is in one place: in the inbox, being written by the handler, queued for the main
loop, or being written by it.

**CoverageChannelProofs**, for any forest, transition table and number of
subscribers; transitions join states of one top-level machine
(`MachinesAreClosed`) and the ring has at least two slots (`RingHasRoom`):

* `UpdatesAreExact`: `Spec => []DifferencesAreExact`;
* `RingIsConsecutive`: `Spec => []TypeOK`, by which the ring holds consecutive numbers
  up to the newest, and is not empty once there was a message;
* `ViewsAreCurrent`: who was not overtaken and has read everything knows what the
  publisher knows, except for lost times;
* `InitIsFirst`: numbers ascend, and one init message comes before all updates.

`UpdatesAreExact` rests on `DiffInv`: the tables of the publisher, of the queued
messages and of the loop follow each other in this order. State counters only grow, a
time that changed is listed or lost, and a lost one is known again once it is stamped
anew, and where a transition count changed a state count of the
same top-level machine did. `TopicInv` follows a message through the ring: there is a
history of tables such that message k was published when the publisher had the k-th;
a slot holds an init message that says everything, or the exact difference from the
tables before; the messages a writer copied continue those it has sent; and a client
that was never overtaken knows the tables before its first pending message, or gets
an init message next. A writer that finds its next number gone is overtaken, and
nothing is promised to its client. TLC evaluates the assumptions of both modules in
`api`.

Only model-checked:

* liveness, and everything about `ENABLED`: out of the prover's reach;
* construction, tables and assembler, JSON, encodings and the virtual machine:
  they use `RECURSIVE` operators or `Bitwise`, and what they compute for every
  input needs induction over data;
* the invariants of `LiveLog`, whose rings are cut into chunks that a reader
  reassembles, and of `EventPayload`, whose parser recurses.

## Not modelled

* Assertions of the `Simulation` block: read-only comparisons.
* Code, graph and document generators, XML frames, the texts of replies: pure
  output.
* The interpreter of action statements and the built-in functions: what they do
  to the loop, the timers and the queue is modelled as a choice (a guard
  changes, an event is queued, a timer is started); what they compute is not.
* Event signatures (a mismatch ends the process), logging (write-only for the
  loop), callbacks for exported events, the values a signal
  generator produces.
* Command line, plugins and start-up; stream transformations; UDP and
  bus-vendor code of the channels: they only hand data on, or run once before
  any thread starts.
* The reading of machine definitions from the syntax tree below the level of
  states, transitions, sub machines and modifiers (actions, guards, units).
* Known undefined outcomes behind which the models stop: a racing flush of the
  live log, execution of a misencoded instruction beyond its first stray step,
  memory faults. `register_sim_core` updates the directory without the mutex the
  other requests take; it is modelled as one step, which is one outcome of that
  data race.

## Plan

1. *Done:* event queue with proofs; timers with `fetch_event`; construction,
   tables and execution loop; virtual machine; channels, TCP, virtual CAN, live
   log, frames; websocket API with coverage and payloads.
2. *Theorems.* Done: the event queue and its refinement, timers, nesting and the
   epsilon phase of the loop, channels, events between nodes, the virtual CAN
   server with its streams and answers, joins, callbacks and restarts of the
   loop, the websocket server, the coverage topic. Left: the levels of the live
   log.
3. *Composition:* `ExecutionLoop` on the tables `ExecutionTables` builds, and on
   top of `EventQueue`, so that the events it consumes are those the queue
   delivers; unique events under overflow.
