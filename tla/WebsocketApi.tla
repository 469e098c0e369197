----------------------------- MODULE WebsocketApi -----------------------------
(***************************************************************************)
(* Websocket_interface: the dispatcher, one handler thread per connection  *)
(* with its update thread, and the commands whose answer the main loop     *)
(* writes later (QUERY, REPORT, EXPORTED_EVENTS, PUSH).                    *)
(*                                                                         *)
(* Three threads may write to one descriptor, each a header and then a     *)
(* payload, and none of them holds a lock while it does so; a descriptor   *)
(* closed by one thread may be given to the next connection while another  *)
(* thread still means the old one.  The model therefore writes to          *)
(* descriptors, and a connection receives what is written to the           *)
(* descriptor it has at that time.                                         *)
(***************************************************************************)
EXTENDS Integers, Sequences, FiniteSets

CONSTANTS
  Clients,      \* the connections of a run
  Fds,          \* descriptors, positive integers; the lowest free one is used
  Signals,      \* names of the global states
  Kind,         \* Signals -> {"float", "int", "string"}
  Commands,     \* the commands each client sends: sets of [name, arg]
  MaxRequests,  \* bound: requests of each connection
  None

VARIABLES
  fdOf,      \* the descriptor table: Fds -> Clients \cup {None}
  client,    \* "new", "waiting" (in the backlog), "open", "gone"
  asked,     \* how many requests a client has sent
  expects,   \* history: those of them that are answered, in order
  inbox,     \* requests on their way to the handler
  handler,   \* per connection: [st, fd, out]
  watched,   \* watched_signals
  updater,   \* per connection: "off", "idle", "sending"
  value,     \* get_global_states()
  mainq,     \* queued execution contexts: [cmd, fd, from]
  main,      \* the reply the main loop is writing, or None
  wire,      \* what a connection received: Seq([part, to, cmd])
  events,    \* ordinary events enqueued by EVENT and EVENTL
  slots,     \* Len(handler_threads_status_)
  crashed,   \* an uncaught exception ended the process
  careless   \* history: some client pipelined, watched or left too early

vars == <<fdOf, client, asked, expects, inbox, handler, watched, updater, value, mainq, main,
          wire, events, slots, crashed, careless>>

Deferred == {"QUERY", "REPORT", "EXPORTED_EVENTS", "PUSH"}
Silent == {"EVENT", "SET_VALUE_NO_REPLY"}

\* A wrong number of arguments, or another topic than COVERAGE: no branch
\* takes the command and the answer is {"ok": false}, also for Silent ones.
Miscounted(cmd) ==
  /\ cmd.name \in Silent \cup {"SET_VALUE", "EVENTL", "SUBSCRIBE"}
  /\ cmd.arg = "miscounted"

\* stoi of an argument that is no number, and substr(5) of a bare PUSH.
Throws(cmd) ==
  \/ cmd.name = "GET_UPDATE" /\ cmd.arg = "text"
  \/ cmd.name = "PUSH" /\ cmd.arg = "missing"

Init ==
  /\ fdOf = [f \in Fds |-> None]
  /\ client = [c \in Clients |-> "new"]
  /\ asked = [c \in Clients |-> 0] /\ expects = [c \in Clients |-> <<>>]
  /\ inbox = [c \in Clients |-> <<>>]
  /\ handler = [c \in Clients |-> [st |-> "none", fd |-> 0, out |-> <<>>]]
  /\ watched = [c \in Clients |-> {}]
  /\ updater = [c \in Clients |-> "off"]
  /\ value = [s \in Signals |-> "initial"]
  /\ mainq = <<>> /\ main = None
  /\ wire = [c \in Clients |-> <<>>]
  /\ events = 0 /\ slots = 0 /\ crashed = FALSE /\ careless = FALSE

\* The connections of a run are finitely many, and each sends finitely many
\* requests.
BoundedRun ==
  /\ IsFiniteSet(Clients) /\ None \notin Clients
  /\ \A c \in Clients : MaxRequests[c] \in Nat

-----------------------------------------------------------------------------
(* Clients (not part of the program).                                      *)

Part(part, c, cmd) == [part |-> part, to |-> c, cmd |-> cmd]

Answered(cmd) == cmd.name \notin Silent \cup {"SUBSCRIBE"} \/ Miscounted(cmd)

\* The server has not closed the connection.
Connected(c) == \E f \in Fds : fdOf[f] = c

\* An answer to c, a header and a payload, has not arrived completely.
Outstanding(c) == Len(wire[c]) < 2 * Len(expects[c])

Connect(c) ==
  /\ client[c] = "new"
  /\ client' = [client EXCEPT ![c] = "waiting"]
  /\ UNCHANGED <<fdOf, asked, expects, inbox, handler, watched, updater, value, mainq,
                 main, wire, events, slots, crashed, careless>>

Ask(c, cmd) ==
  /\ client[c] = "open" /\ asked[c] < MaxRequests[c]
  /\ asked' = [asked EXCEPT ![c] = @ + 1]
  /\ expects' = [expects EXCEPT ![c] = IF Answered(cmd) THEN Append(@, cmd) ELSE @]
  /\ inbox' = [inbox EXCEPT ![c] = Append(@, cmd)]
  /\ careless' = (careless \/ Outstanding(c) \/ cmd.name = "WATCH")
  /\ UNCHANGED <<fdOf, client, handler, watched, updater, value, mainq, main, wire,
                 events, slots, crashed>>

Leave(c) ==
  /\ client[c] = "open"
  /\ client' = [client EXCEPT ![c] = "gone"]
  /\ careless' = (careless \/ (Outstanding(c) /\ Connected(c)))
  /\ UNCHANGED <<fdOf, asked, expects, inbox, handler, watched, updater, value, mainq,
                 main, wire, events, slots, crashed>>

-----------------------------------------------------------------------------
(* Descriptors.                                                            *)

\* A write to a descriptor fails when it is closed or its peer has gone.
Writable(f) == f \in Fds /\ fdOf[f] # None /\ client[fdOf[f]] = "open"

Written(f, part) == wire' = [wire EXCEPT ![fdOf[f]] = Append(@, part)]

Closed(f) == [fdOf EXCEPT ![f] = None]

\* dispatcher: accept gives the lowest free descriptor; a status entry is
\* added for every connection, for no entry ever qualifies for reuse.
Accept(c) ==
  /\ client[c] = "waiting"
  /\ \E f \in Fds :
       /\ fdOf[f] = None /\ \A g \in Fds : g < f => fdOf[g] # None
       /\ fdOf' = [fdOf EXCEPT ![f] = c]
       /\ handler' = [handler EXCEPT ![c] = [st |-> "handshake", fd |-> f, out |-> <<>>]]
  /\ client' = [client EXCEPT ![c] = "open"]
  /\ slots' = slots + 1
  /\ UNCHANGED <<asked, expects, inbox, watched, updater, value, mainq, main, wire,
                 events, crashed, careless>>

\* handler up to the loop: the upgrade request is read and answered, and the
\* update thread starts.
Handshake(c) ==
  /\ handler[c].st = "handshake" /\ client[c] = "open"
  /\ handler' = [handler EXCEPT ![c].st = "reading"]
  /\ updater' = [updater EXCEPT ![c] = "idle"]
  /\ UNCHANGED <<fdOf, client, asked, expects, inbox, watched, value, mainq, main, wire,
                 events, slots, crashed, careless>>

\* The handler returns before its loop (the upgrade request or its answer is
\* cut short, Sec-WebSocket-Key is missing), or a read of a frame fails: at
\* the end of the input, or because recv returns less of a request than was
\* asked for.  cleanup_f closes the descriptor whoever has it by now; the
\* update thread is not told (shutdown_update_thread is never set).
HandlerEnds(c) ==
  /\ \/ handler[c].st = "handshake"
     \/ /\ handler[c].st = "reading" /\ handler[c].out = <<>>
        /\ inbox[c] # <<>> \/ client[c] = "gone" \/ fdOf[handler[c].fd] # c
  /\ handler' = [handler EXCEPT ![c].st = "ended"]
  /\ fdOf' = Closed(handler[c].fd)
  /\ UNCHANGED <<client, asked, expects, inbox, watched, updater, value, mainq, main,
                 wire, events, slots, crashed, careless>>

-----------------------------------------------------------------------------
(* The handler's commands.                                                 *)

Reading(c) == handler[c].st = "reading" /\ handler[c].out = <<>> /\ inbox[c] # <<>>

Request(c) == Head(inbox[c])

Taken(c) == inbox' = [inbox EXCEPT ![c] = Tail(@)]

Reply(c) ==
  handler' = [handler EXCEPT ![c].out =
                <<Part("header", c, Request(c)), Part("payload", c, Request(c))>>]

\* GLOBAL_SYSSTATES, KNOWN_SIMCORES, GET_UPDATE, PING, RESTART_STATEMACHINES,
\* GET_KNOWN_STREAMING_ENDPOINTS, unknown commands and commands with a wrong
\* number of arguments are answered at once.
HandleImmediate(c) ==
  /\ Reading(c)
  /\ \/ Request(c).name \in {"PING", "GET_UPDATE", "GLOBAL_SYSSTATES", "OTHER"}
     \/ Miscounted(Request(c))
  /\ ~ Throws(Request(c))
  /\ Reply(c) /\ Taken(c)
  /\ UNCHANGED <<fdOf, client, asked, expects, watched, updater, value, mainq, main,
                 wire, events, slots, crashed, careless>>

\* Nothing in the thread catches what the standard library throws.
HandleThrowing(c) ==
  /\ Reading(c) /\ Throws(Request(c))
  /\ crashed' = TRUE /\ Taken(c)
  /\ UNCHANGED <<fdOf, client, asked, expects, handler, watched, updater, value, mainq,
                 main, wire, events, slots, careless>>

\* WATCH adds a known signal once.
HandleWatch(c) ==
  /\ Reading(c) /\ Request(c).name = "WATCH"
  /\ watched' = [watched EXCEPT ![c] = @ \cup ({Request(c).arg} \cap Signals)]
  /\ Reply(c) /\ Taken(c)
  /\ UNCHANGED <<fdOf, client, asked, expects, updater, value, mainq, main, wire,
                 events, slots, crashed, careless>>

\* SET_VALUE: a number goes to a float or an int, a string to a string; any
\* other combination is acknowledged and changes nothing.
HandleSet(c) ==
  /\ Reading(c) /\ Request(c).name \in {"SET_VALUE", "SET_VALUE_NO_REPLY"}
  /\ ~ Miscounted(Request(c))
  /\ \E s \in Signals, type \in {"number", "int", "string"}, v \in {"number", "text"} :
       value' = IF \/ type = "number" /\ Kind[s] \in {"float", "int"} /\ v = "number"
                   \/ type = "int" /\ Kind[s] = "int" /\ v = "number"
                   \/ type = "string" /\ Kind[s] = "string"
                THEN [value EXCEPT ![s] = v] ELSE value
  /\ IF Request(c).name = "SET_VALUE" THEN Reply(c) ELSE UNCHANGED handler
  /\ Taken(c)
  /\ UNCHANGED <<fdOf, client, asked, expects, watched, updater, mainq, main, wire,
                 events, slots, crashed, careless>>

\* EVENT (nothing is answered, also when its JSON payload cannot be read)
\* and EVENTL (acknowledged).
HandleEvent(c) ==
  /\ Reading(c) /\ Request(c).name \in {"EVENT", "EVENTL"} /\ ~ Miscounted(Request(c))
  /\ events' = IF Request(c).arg = "malformed" THEN events ELSE events + 1
  /\ IF Request(c).name = "EVENTL" THEN Reply(c) ELSE UNCHANGED handler
  /\ Taken(c)
  /\ UNCHANGED <<fdOf, client, asked, expects, watched, updater, value, mainq, main,
                 wire, slots, crashed, careless>>

\* A bug: the handler answers at once and the main loop answers again.
HandleDeferredTwice(c) ==
  /\ Reading(c) /\ Request(c).name \in Deferred /\ ~ Throws(Request(c))
  /\ mainq' = Append(mainq, [cmd |-> Request(c), fd |-> handler[c].fd, from |-> c])
  /\ Reply(c) /\ Taken(c)
  /\ UNCHANGED <<fdOf, client, asked, expects, watched, updater, value, main, wire,
                 events, slots, crashed, careless>>

\* A bug: the execution context is made and never queued.
HandleDeferredNotQueued(c) ==
  /\ Reading(c) /\ Request(c).name \in Deferred /\ ~ Throws(Request(c))
  /\ Taken(c)
  /\ UNCHANGED <<fdOf, client, asked, expects, handler, watched, updater, value, mainq,
                 main, wire, events, slots, crashed, careless>>

\* QUERY, REPORT, EXPORTED_EVENTS, PUSH: an execution context with the
\* descriptor is queued for the main loop.
HandleDeferred(c) ==
  /\ Reading(c) /\ Request(c).name \in Deferred /\ ~ Throws(Request(c))
  /\ mainq' = Append(mainq, [cmd |-> Request(c), fd |-> handler[c].fd, from |-> c])
  /\ Taken(c)
  /\ UNCHANGED <<fdOf, client, asked, expects, handler, watched, updater, value, main,
                 wire, events, slots, crashed, careless>>

\* A bug: the handler keeps the number of the descriptor and closes it.
HandleSubscribeClosing(c) ==
  /\ Reading(c) /\ Request(c).name = "SUBSCRIBE" /\ ~ Miscounted(Request(c))
  /\ handler' = [handler EXCEPT ![c].st = "handed"]
  /\ fdOf' = Closed(handler[c].fd)
  /\ Taken(c)
  /\ UNCHANGED <<client, asked, expects, watched, updater, value, mainq, main, wire,
                 events, slots, crashed, careless>>

\* SUBSCRIBE COVERAGE: the descriptor is handed over and the handler ends
\* without closing it.
HandleSubscribe(c) ==
  /\ Reading(c) /\ Request(c).name = "SUBSCRIBE" /\ ~ Miscounted(Request(c))
  /\ handler' = [handler EXCEPT ![c].st = "handed"]
  /\ Taken(c)
  /\ UNCHANGED <<fdOf, client, asked, expects, watched, updater, value, mainq, main,
                 wire, events, slots, crashed, careless>>

\* The coverage writer that was given the descriptor closes it when a write
\* fails.
WriterCloses(c) ==
  /\ handler[c].st = "handed" /\ client[c] = "gone"
  /\ handler' = [handler EXCEPT ![c].st = "ended"]
  /\ fdOf' = Closed(handler[c].fd)
  /\ UNCHANGED <<client, asked, expects, inbox, watched, updater, value, mainq, main,
                 wire, events, slots, crashed, careless>>

Handle(c) ==
  \/ HandleImmediate(c) \/ HandleThrowing(c) \/ HandleWatch(c) \/ HandleSet(c)
  \/ HandleEvent(c) \/ HandleDeferred(c) \/ HandleSubscribe(c)

\* send_reply: the header, then the payload; a failed write ends the loop
\* and the cleanup closes the descriptor.
SendReply(c) ==
  /\ handler[c].st = "reading" /\ handler[c].out # <<>>
  /\ IF Writable(handler[c].fd)
     THEN /\ Written(handler[c].fd, Head(handler[c].out))
          /\ handler' = [handler EXCEPT ![c].out = Tail(@)]
          /\ UNCHANGED fdOf
     ELSE /\ handler' = [handler EXCEPT ![c].st = "ended", ![c].out = <<>>]
          /\ fdOf' = Closed(handler[c].fd)
          /\ UNCHANGED wire
  /\ UNCHANGED <<client, asked, expects, inbox, watched, updater, value, mainq, main,
                 events, slots, crashed, careless>>

\* The update thread: every period, when signals are watched, it writes to
\* the descriptor number it was given; a failed write ends it.
SendUpdate(c) ==
  /\ updater[c] \in {"idle", "sending"} /\ watched[c] # {}
  /\ Len(wire[c]) < 2 * MaxRequests[c] + 2
  /\ LET f == handler[c].fd
         part == IF updater[c] = "idle" THEN "header" ELSE "payload"
     IN IF Writable(f)
        THEN /\ Len(wire[fdOf[f]]) < 2 * MaxRequests[fdOf[f]] + 2
             /\ Written(f, Part(part, c, [name |-> "UPDATE", arg |-> "none"]))
             /\ updater' = [updater EXCEPT ![c] = IF part = "header" THEN "sending" ELSE "idle"]
        ELSE updater' = [updater EXCEPT ![c] = "off"] /\ UNCHANGED wire
  /\ UNCHANGED <<fdOf, client, asked, expects, inbox, handler, watched, value, mainq,
                 main, events, slots, crashed, careless>>

-----------------------------------------------------------------------------
(* The main loop runs the execution contexts.                              *)

\* Execute_query, Execute_report, Exported_events_query: a message is made,
\* an error one when an exception was thrown.
RunContext ==
  /\ main = None /\ mainq # <<>>
  /\ main' = [fd |-> Head(mainq).fd,
              out |-> <<Part("header", Head(mainq).from, Head(mainq).cmd),
                        Part("payload", Head(mainq).from, Head(mainq).cmd)>>]
  /\ mainq' = Tail(mainq)
  /\ UNCHANGED <<fdOf, client, asked, expects, inbox, handler, watched, updater, value,
                 wire, events, slots, crashed, careless>>

\* Execute_push returns without an answer when a file cannot be opened.
PushFails ==
  /\ main = None /\ mainq # <<>> /\ Head(mainq).cmd.name = "PUSH"
  /\ mainq' = Tail(mainq)
  /\ UNCHANGED <<fdOf, client, asked, expects, inbox, handler, watched, updater, value,
                 main, wire, events, slots, crashed, careless>>

\* send_ws_text_msg; a failed write closes the descriptor (closesocket).
MainSends ==
  /\ main # None
  /\ IF Writable(main.fd)
     THEN /\ Written(main.fd, Head(main.out))
          /\ main' = IF Len(main.out) = 1 THEN None ELSE [main EXCEPT !.out = Tail(@)]
          /\ UNCHANGED fdOf
     ELSE /\ main' = None /\ fdOf' = Closed(main.fd) /\ UNCHANGED wire
  /\ UNCHANGED <<client, asked, expects, inbox, handler, watched, updater, value, mainq,
                 events, slots, crashed, careless>>

Main == RunContext \/ PushFails \/ MainSends

Serve(c) ==
  \/ Accept(c) \/ Handshake(c) \/ HandlerEnds(c) \/ Handle(c) \/ SendReply(c)
  \/ WriterCloses(c)

Next ==
  /\ ~ crashed
  /\ \/ \E c \in Clients : \/ Connect(c) \/ Leave(c)
                           \/ \E cmd \in Commands[c] : Ask(c, cmd)
                           \/ Serve(c) \/ SendUpdate(c)
     \/ Main

\* The threads of the server and the main loop keep running.
Fairness == WF_vars(Main /\ ~ crashed)
              /\ \A c \in Clients : WF_vars(Serve(c) /\ ~ crashed)

Spec == Init /\ [][Next]_vars /\ Fairness

-----------------------------------------------------------------------------
\* Descriptors, connections, requests and replies have their types, a
\* handler that was started has a descriptor, and handler_threads_status_ has
\* one entry for every connection that was ever accepted.
Reads(c) == handler[c].st \in {"handshake", "reading", "handed"}
AllCommands == UNION {Commands[c] : c \in Clients}
Parts == [part : {"header", "payload"}, to : Clients,
          cmd : AllCommands \cup {[name |-> "UPDATE", arg |-> "none"]}]
Accepted == {c \in Clients : client[c] \in {"open", "gone"}}
States == {"none", "handshake", "reading", "handed", "ended"}
HandlersTyped ==
  /\ handler \in [Clients -> [st : States, fd : Fds \cup {0}, out : Seq(Parts)]]
  /\ \A c \in Clients : /\ handler[c].st = "none" <=> c \notin Accepted
                        /\ handler[c].st # "none" => handler[c].fd \in Fds
TypeOK ==
  /\ fdOf \in [Fds -> Clients \cup {None}]
  /\ client \in [Clients -> {"new", "waiting", "open", "gone"}]
  /\ asked \in [Clients -> Nat] /\ \A c \in Clients : asked[c] <= MaxRequests[c]
  /\ expects \in [Clients -> Seq(AllCommands)] /\ inbox \in [Clients -> Seq(AllCommands)]
  /\ \A c \in Clients : Len(expects[c]) <= asked[c] /\ Len(inbox[c]) <= asked[c]
  /\ HandlersTyped
  /\ watched \in [Clients -> SUBSET Signals]
  /\ updater \in [Clients -> {"off", "idle", "sending"}]
  /\ mainq \in Seq([cmd : AllCommands, fd : Fds, from : Clients])
  /\ main \in {None} \cup [fd : Fds, out : Seq(Parts) \ {<<>>}]
  /\ wire \in [Clients -> Seq(Parts)]
  /\ slots = Cardinality(Accepted)

\* The answers a client has received so far, header and payload, are those
\* of its own requests in the order it sent them, as long as every client
\* waits for its answers, watches nothing and leaves only when answered.
AnswersAreWhole ==
  ~ careless =>
    \A c \in Clients :
      /\ Len(wire[c]) <= 2 * Len(expects[c])
      /\ \A n \in 1 .. Len(expects[c]) :
           /\ 2 * n - 1 <= Len(wire[c]) => wire[c][2 * n - 1] = Part("header", c, expects[c][n])
           /\ 2 * n <= Len(wire[c]) => wire[c][2 * n] = Part("payload", c, expects[c][n])

\* As long as nobody is careless a descriptor is only closed by the thread
\* it belongs to: no two handlers that still read have the same one, and an
\* open connection keeps its descriptor until its own handler gives it up.
DescriptorsAreNotShared ==
  ~ careless =>
    /\ \A c \in Clients :
         Reads(c) => fdOf[handler[c].fd] = c
    /\ \A i \in DOMAIN mainq : client[mainq[i].from] = "open"
                                 => fdOf[mainq[i].fd] = mainq[i].from

\* A request is answered in the end or its connection is closed, unless a
\* client was careless, a PUSH could not be stored or the process is gone.
Unanswered(c) ==
  /\ Outstanding(c) /\ Connected(c) /\ ~ careless /\ ~ crashed
  /\ \A i \in DOMAIN expects[c] : expects[c][i].name # "PUSH"
RequestsAreAnswered == \A c \in Clients : Unanswered(c) ~> ~ Unanswered(c)
=============================================================================
