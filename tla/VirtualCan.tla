----------------------------- MODULE VirtualCan -----------------------------
(***************************************************************************)
(* The virtual CAN interface (api/virtual_can/virtual_can_api.cpp) with    *)
(* the channels it exposes: the CAN sender thread of an out channel        *)
(* (cal_sender.cpp), which also feeds the sockets of the subscribers, and  *)
(* the CAN receiver of an in channel (cal_receiver.cpp), which a handler   *)
(* thread becomes when its client subscribes.                              *)
(*                                                                         *)
(* A client is one TCP connection. Descriptors are the kernel's: accept    *)
(* hands out the lowest one that is closed, so a number comes back as soon *)
(* as it is closed.                                                        *)
(***************************************************************************)
EXTENDS Naturals, Sequences, FiniteSets, SequencesExt

CONSTANTS
  Clients,      \* connections that may come in
  Fds,          \* descriptor numbers, a range 1..n
  OutChannels,  \* out channels, each with one sender thread
  Virtual,      \* those of them that have no bus_id
  InChannels,   \* in channels, each with one dispatcher context
  OnBus,        \* those of them that have a bus_id, so a receiver thread
  InKind,       \* in channel -> "plain", "native" or "on_msg" handlers
  OnMsg,        \* in channel -> the CAN ids each of its handlers matches
  FrameToId,    \* in channel -> channel_frame_to_id: frame -> CAN id
  BusIds,       \* CAN ids seen on a bus
  Hub,          \* the static hub list: a sequence of directory entries
  Requests,     \* requests a client may send
  MaxRequests,  \* bound: requests of all clients together
  MaxFrames,    \* bound: frames sent on one channel
  MaxQueue,     \* bound: main queue entries a bus receiver adds to
  None          \* no client, the nullptr of a thread

VARIABLES
  peer,       \* client -> "idle", "open" or "gone"
  sock,       \* descriptor -> the client it is connected to, None when closed
  inbox,      \* client -> requests on their way to the handler
  left,       \* client -> unconsumed_data of its handler
  wire,       \* client -> what reached it, in order
  sent,       \* client -> requests it sent
  pipelined,  \* clients that sent a request before the last was answered
  handler,    \* client -> where its handler thread is
  sck,        \* client -> the descriptor its handler was started with, or 0
  overtaken,  \* a sender closed a descriptor before its handler returned
  stuck,      \* the dispatcher waits in join, with the mutex, for a live thread
  slots,      \* handler_threads_status_
  known,      \* known_simcores_.entries
  reset,      \* reset_directory_of_known_simcores_
  endpoints,  \* streaming_endpoints_registered_via_vcan_api: host -> port
  registered, \* host -> name of its last register_sim_core (history)
  mainq,      \* what the threads pushed to the main event queue
  outq,       \* out channel -> its frame queue
  sender,     \* out channel -> "opening", "running" or "stopped"
  gateways,   \* out channel -> gateway_sockets of its sender, 0 for -1
  frames,     \* out channel -> frames pushed so far
  forwarded,  \* out channel -> frames offered to its gateways so far
  started,    \* in channel -> start_ of its dispatcher context
  bus,        \* in channel -> its receiver thread: "none", "waiting", "receiving"
  inOf        \* client -> the in channel it subscribed to, None before

clientVars == <<peer, inbox, sent, pipelined>>
handlerVars == <<left, handler, slots, sock, sck, overtaken, stuck>>
dirVars == <<known, reset, endpoints, registered>>
channelVars == <<outq, sender, gateways, frames, forwarded>>
startVars == <<started, bus, inOf>>
vars == <<clientVars, handlerVars, wire, dirVars, mainq, channelVars, startVars>>

Hosts == {r.key : r \in {x \in Requests : x.cmd = "register_sim_core"}}
            \cup {Hub[i].key : i \in DOMAIN Hub}

Init ==
  /\ peer = [c \in Clients |-> "idle"]
  /\ sock = [f \in Fds |-> None]
  /\ inbox = [c \in Clients |-> <<>>]
  /\ left = [c \in Clients |-> <<>>]
  /\ wire = [c \in Clients |-> <<>>]
  /\ sent = [c \in Clients |-> 0]
  /\ pipelined = {}
  /\ handler = [c \in Clients |-> "none"]
  /\ sck = [c \in Clients |-> 0]
  /\ overtaken = FALSE /\ stuck = FALSE
  /\ slots = <<>>
  /\ known = <<>>
  /\ reset = TRUE
  /\ endpoints = <<>>
  /\ registered = [h \in Hosts |-> None]
  /\ mainq = <<>>
  /\ outq = [ch \in OutChannels |-> <<>>]
  /\ sender = [ch \in OutChannels |-> IF ch \in Virtual THEN "running" ELSE "opening"]
  /\ gateways = [ch \in OutChannels |-> <<>>]
  /\ frames = [ch \in OutChannels |-> 0]
  /\ forwarded = [ch \in OutChannels |-> 0]
  /\ started = [ch \in InChannels |-> FALSE]
  /\ bus = [ch \in InChannels |-> IF ch \in OnBus THEN "waiting" ELSE "none"]
  /\ inOf = [c \in Clients |-> None]

(***************************************************************************)
(* Clients.                                                                *)
(***************************************************************************)
Answers(c) ==
  Cardinality({i \in DOMAIN wire[c] : wire[c][i].kind = "response" /\ wire[c][i].to = c})

\* A client sends a request; it pipelines when an answer is outstanding.
SendRequest(c, r) ==
  /\ peer[c] = "open" /\ FoldFunction(LAMBDA a, b : a + b, 0, sent) < MaxRequests
  /\ inbox' = [inbox EXCEPT ![c] = Append(@, r)]
  /\ sent' = [sent EXCEPT ![c] = @ + 1]
  /\ pipelined' = IF Answers(c) < sent[c] THEN pipelined \cup {c} ELSE pipelined
  /\ UNCHANGED <<peer, handlerVars, wire, dirVars, mainq, channelVars, startVars>>

Leave(c) ==
  /\ peer[c] = "open"
  /\ peer' = [peer EXCEPT ![c] = "gone"]
  /\ UNCHANGED <<inbox, sent, pipelined, handlerVars, wire, dirVars, mainq,
                 channelVars, startVars>>

(***************************************************************************)
(* The dispatcher thread: accept, join the handlers that ended, start one. *)
(***************************************************************************)
FreeFds == {f \in Fds : sock[f] = None}

Ended == {i \in DOMAIN slots : ~slots[i].active /\ slots[i].thread # None}
Joined == [i \in DOMAIN slots |->
             IF i \in Ended THEN [slots[i] EXCEPT !.thread = None] ELSE slots[i]]

\* The loop over handler_threads_status_ and the new entry, which takes the
\* place of the first thread that was joined.
Register(c, fd) ==
  LET entry == [thread |-> c, active |-> TRUE, fd |-> fd] IN
  \/ Ended = {} /\ slots' = Append(slots, entry)
  \/ \E i \in Ended : /\ \A j \in Ended : i <= j
                      /\ slots' = [Joined EXCEPT ![i] = entry]

Accept(c) ==
  /\ peer[c] = "idle" /\ ~stuck
  /\ peer' = [peer EXCEPT ![c] = "open"]
  /\ \E f \in FreeFds :
       /\ \A g \in FreeFds : f <= g
       /\ sock' = [sock EXCEPT ![f] = c]
       /\ IF \A i \in Ended : handler[slots[i].thread] = "ended"
          THEN /\ Register(c, f)
               /\ handler' = [handler EXCEPT ![c] = "reading"]
               /\ sck' = [sck EXCEPT ![c] = f]
               /\ UNCHANGED stuck
          ELSE stuck' = TRUE /\ UNCHANGED <<slots, handler, sck>>
  /\ UNCHANGED <<inbox, sent, pipelined, left, overtaken, wire, dirVars, mainq,
                 channelVars, startVars>>

(***************************************************************************)
(* A handler thread.                                                       *)
(***************************************************************************)
\* The entries a handler takes for its own: those with its descriptor.
Mine(c) == {i \in DOMAIN slots : /\ slots[i].active /\ slots[i].thread # None
                                 /\ slots[i].fd = sck[c]}

\* A bug: the socket is closed although a sender has it.
CleanupClosing(c, close_sck) ==
  /\ ~stuck
  /\ handler' = [handler EXCEPT ![c] = "ended"]
  /\ slots' = [i \in DOMAIN slots |->
                 IF i \in Mine(c) THEN [slots[i] EXCEPT !.active = FALSE, !.fd = 0] ELSE slots[i]]
  /\ sock' = IF Mine(c) # {} THEN [sock EXCEPT ![sck[c]] = None] ELSE sock
  /\ UNCHANGED <<sck, overtaken, stuck>>

\* cleanup_f: entries with the descriptor of this thread are marked, and it is
\* closed unless it was handed to a sender.
Cleanup(c, close_sck) ==
  /\ ~stuck
  /\ handler' = [handler EXCEPT ![c] = "ended"]
  /\ slots' = [i \in DOMAIN slots |->
                 IF i \in Mine(c) THEN [slots[i] EXCEPT !.active = FALSE, !.fd = 0] ELSE slots[i]]
  /\ sock' = IF close_sck /\ Mine(c) # {} THEN [sock EXCEPT ![sck[c]] = None] ELSE sock
  /\ UNCHANGED <<sck, overtaken, stuck>>

\* A response to a request of client `to' arrives at client c.
Respond(c, to) == [wire EXCEPT ![c] = Append(@, [kind |-> "response", to |-> to, n |-> 0])]

\* send() of the response: a client that is gone may make it fail, which
\* ends the handler.
Answer(c) ==
  \/ /\ wire' = IF peer[c] = "open" THEN Respond(c, c) ELSE wire
     /\ UNCHANGED <<handler, slots, sock, sck, overtaken, stuck>>
  \/ peer[c] = "gone" /\ Cleanup(c, TRUE) /\ UNCHANGED wire

\* read_virtual_can_request looks for the end of a request only in the bytes
\* it just received: with unconsumed data the request it returns starts there
\* and swallows the rest. One recv returns the first n pending requests.
Request(c) == (left[c] \o inbox[c])[1]

Receive(c, n) ==
  /\ handler[c] = "reading" /\ n \in 1 .. Len(inbox[c])
  /\ inbox' = [inbox EXCEPT ![c] = SubSeq(@, n + 1, Len(@))]
  /\ left' = [left EXCEPT ![c] = SubSeq(inbox[c], 2, n)]
  /\ UNCHANGED <<peer, sent, pipelined>>

\* recv returned 0: the request is incomplete, the handler ends.
HandleEndOfStream(c) ==
  /\ handler[c] = "reading" /\ peer[c] = "gone" /\ inbox[c] = <<>>
  /\ Cleanup(c, TRUE)
  /\ UNCHANGED <<clientVars, left, wire, dirVars, mainq, channelVars, startVars>>

\* get_out_channels, get_in_channels, get_known_stream_endpoints.
HandleQuery(c, n) ==
  /\ Receive(c, n) /\ Request(c).cmd = "query"
  /\ Answer(c)
  /\ UNCHANGED <<dirVars, mainq, channelVars, startVars>>

\* No cmd attribute, an unknown cmd, or an attribute of it is missing.
HandleMalformed(c, n) ==
  /\ Receive(c, n) /\ Request(c).cmd \in {"malformed", "can_frame"}
  /\ Cleanup(c, TRUE)
  /\ UNCHANGED <<wire, dirVars, mainq, channelVars, startVars>>

\* The descriptor goes to the sender of the channel; the handler returns, and
\* cleans up, in a step of its own.
HandleSubscribeOut(c, n) ==
  /\ Receive(c, n) /\ Request(c).cmd = "subscribe_out_channel"
  /\ outq' = [outq EXCEPT ![Request(c).channel] =
                Append(@, [kind |-> "gateway", fd |-> sck[c]])]
  /\ handler' = [handler EXCEPT ![c] = "returning"]
  /\ UNCHANGED <<slots, sock, sck, overtaken, stuck, wire, dirVars, mainq, sender, gateways,
                 frames, forwarded, startVars>>

Return(c) ==
  /\ handler[c] = "returning"
  /\ Cleanup(c, FALSE)
  /\ UNCHANGED <<clientVars, left, wire, dirVars, mainq, channelVars, startVars>>

\* The handler thread runs comm_receiver_socket_can and never comes back.
HandleSubscribeIn(c, n) ==
  /\ Receive(c, n) /\ Request(c).cmd = "subscribe_in_channel"
  /\ handler' = [handler EXCEPT ![c] =
                   IF started[Request(c).channel] THEN "receiving" ELSE "waiting"]
  /\ inOf' = [inOf EXCEPT ![c] = Request(c).channel]
  /\ UNCHANGED <<slots, sock, sck, overtaken, stuck, wire, dirVars, mainq, channelVars, started,
                 bus>>

\* sync_known_simcores_with_static_hublist, under known_simcores_mutex_.
Synced == IF reset THEN known \o Hub ELSE known

\* get_known_sim_cores: the main loop completes and sends the response, so
\* only the descriptor goes into the queue.
HandleDirectory(c, n) ==
  /\ Receive(c, n) /\ Request(c).cmd = "get_known_sim_cores"
  /\ known' = Synced /\ reset' = FALSE
  /\ mainq' = Append(mainq, [kind |-> "directory", fd |-> sck[c], to |-> c])
  /\ UNCHANGED <<handler, slots, sock, sck, overtaken, stuck, wire, endpoints, registered,
                 channelVars, startVars>>

\* register_sim_core: `listed' is assigned after the break, so the entry is
\* appended as well as updated.
RegisterSimCore(entry) ==
  LET found == {i \in DOMAIN known : known[i].key = entry.key} IN
  \/ found = {} /\ known' = Append(known, entry)
  \/ \E i \in found :
       /\ \A j \in found : i <= j
       /\ known' = Append([known EXCEPT ![i].name = entry.name], entry)

HandleRegister(c, n) ==
  /\ Receive(c, n) /\ Request(c).cmd = "register_sim_core"
  /\ RegisterSimCore([key |-> Request(c).key, name |-> Request(c).name])
  /\ registered' = [registered EXCEPT ![Request(c).key] = Request(c).name]
  /\ Answer(c)
  /\ UNCHANGED <<reset, endpoints, mainq, channelVars, startVars>>

HandleRegisterStream(c, n) ==
  /\ Receive(c, n) /\ Request(c).cmd = "register_stream_endpoint"
  /\ LET r == Request(c)
         at == {i \in DOMAIN endpoints : endpoints[i].host = r.host}
     IN  endpoints' = IF at = {} THEN Append(endpoints, [host |-> r.host, port |-> r.port])
                      ELSE [endpoints EXCEPT ![CHOOSE i \in at : TRUE].port = r.port]
  /\ Answer(c)
  /\ UNCHANGED <<known, reset, registered, mainq, channelVars, startVars>>

Handle(c) ==
  \/ HandleEndOfStream(c) \/ Return(c)
  \/ \E n \in 1 .. Len(inbox[c]) :
       \/ HandleQuery(c, n) \/ HandleMalformed(c, n)
       \/ HandleSubscribeOut(c, n) \/ HandleSubscribeIn(c, n)
       \/ HandleDirectory(c, n) \/ HandleRegister(c, n)
       \/ HandleRegisterStream(c, n)

\* The main loop pops what the threads queued. Execute_knownsimcores::run
\* synchronises the directory if the request came with an id-token, and sends
\* to the descriptor, whoever has it now.
MainLoop ==
  /\ mainq # <<>> /\ mainq' = Tail(mainq)
  /\ LET e == Head(mainq) IN
     /\ \/ e.kind = "directory" /\ known' = Synced /\ reset' = FALSE
        \/ UNCHANGED <<known, reset>>
     /\ wire' = IF e.kind = "directory" /\ sock[e.fd] # None
                   /\ peer[sock[e.fd]] = "open"
                THEN Respond(sock[e.fd], e.to) ELSE wire
  /\ UNCHANGED <<clientVars, handlerVars, endpoints, registered, channelVars, startVars>>

(***************************************************************************)
(* Out channels: send() puts a frame into the queue, the sender thread     *)
(* writes it to the bus and to the gateway sockets.                        *)
(***************************************************************************)
Frames == [kind : {"frame"}, header : BOOLEAN, mapped : BOOLEAN]

PushFrame(ch, f) ==
  /\ frames[ch] < MaxFrames
  /\ frames' = [frames EXCEPT ![ch] = @ + 1]
  /\ outq' = [outq EXCEPT ![ch] = Append(@, f)]
  /\ UNCHANGED <<clientVars, handlerVars, wire, dirVars, mainq, sender, gateways, forwarded,
                 startVars>>

\* Every way a sender thread ends: an error event, then return.
Stop(ch) ==
  /\ sender' = [sender EXCEPT ![ch] = "stopped"]
  /\ mainq' = Append(mainq, [kind |-> "error"])

OpenBus(ch) ==
  /\ sender[ch] = "opening"
  /\ \/ sender' = [sender EXCEPT ![ch] = "running"] /\ UNCHANGED mainq
     \/ Stop(ch)
  /\ UNCHANGED <<clientVars, handlerVars, wire, dirVars, outq, gateways, frames, forwarded,
                 startVars>>

\* A descriptor that is listed is not added again; another one takes the
\* first free place.
AddGateway(ch) ==
  LET gs == gateways[ch]  fd == Head(outq[ch]).fd IN
  /\ sender[ch] = "running" /\ outq[ch] # <<>> /\ Head(outq[ch]).kind = "gateway"
  /\ outq' = [outq EXCEPT ![ch] = Tail(@)]
  /\ \/ fd \in ToSet(gs) /\ UNCHANGED gateways
     \/ /\ fd \notin ToSet(gs) /\ 0 \notin ToSet(gs)
        /\ gateways' = [gateways EXCEPT ![ch] = Append(@, fd)]
     \/ /\ fd \notin ToSet(gs)
        /\ \E i \in DOMAIN gs : /\ gs[i] = 0 /\ \A j \in 1 .. i - 1 : gs[j] # 0
                                /\ gateways' = [gateways EXCEPT ![ch][i] = fd]
  /\ UNCHANGED <<clientVars, handlerVars, wire, dirVars, mainq, sender, frames, forwarded,
                 startVars>>

\* Length and frame go to every gateway socket with MSG_DONTWAIT; a send that
\* fails or would block closes the socket (r is -1, never EAGAIN). how[i] is
\* the number of the two sends to gateway i that succeeded.
Closed(gs, how) == [i \in DOMAIN gs |-> IF how[i] = 2 THEN gs[i] ELSE 0]

Forward(ch, how) ==
  LET gs == gateways[ch]
      n == forwarded[ch] + 1
      At(c) == {i \in DOMAIN gs : gs[i] # 0 /\ sock[gs[i]] = c}
      block == <<[kind |-> "length", n |-> n], [kind |-> "frame", n |-> n]>>
      closed == (ToSet(gs) \ ToSet(Closed(gs, how))) \ {0}
  IN  /\ gateways' = [gateways EXCEPT ![ch] = Closed(gs, how)]
      /\ sock' = [f \in Fds |-> IF f \in closed THEN None ELSE sock[f]]
      /\ overtaken' = (\/ overtaken
                       \/ \E c \in Clients : handler[c] = "returning" /\ sck[c] \in closed)
      /\ wire' = [c \in Clients |->
                    IF peer[c] = "open" /\ At(c) # {}
                    THEN wire[c] \o SubSeq(block, 1, how[CHOOSE i \in At(c) : TRUE])
                    ELSE wire[c]]
      /\ forwarded' = [forwarded EXCEPT ![ch] = n]

\* One frame: without header it needs a CAN id, with header it is written to
\* the bus socket even when there is none.
SendFrame(ch) ==
  /\ sender[ch] = "running" /\ outq[ch] # <<>> /\ Head(outq[ch]).kind = "frame"
  /\ outq' = [outq EXCEPT ![ch] = Tail(@)]
  /\ LET f == Head(outq[ch]) IN
     \/ /\ ~f.header /\ f.mapped
        /\ \E how \in [DOMAIN gateways[ch] -> 0 .. 2] :
             /\ \A i \in DOMAIN how : gateways[ch][i] = 0 => how[i] = 0
             /\ Forward(ch, how)
        /\ UNCHANGED <<sender, mainq>>
     \/ /\ f.header /\ ch \notin Virtual
        /\ UNCHANGED <<gateways, sock, overtaken, wire, forwarded, sender, mainq>>
     \/ /\ \/ ~f.header /\ ~f.mapped
           \/ ch \notin Virtual
           \/ f.header
        /\ Stop(ch) /\ UNCHANGED <<gateways, sock, overtaken, wire, forwarded>>
  /\ UNCHANGED <<clientVars, left, handler, slots, sck, stuck, dirVars, frames, startVars>>

(***************************************************************************)
(* In channels: a receiver waits for the start request of the loop.        *)
(***************************************************************************)
\* request_start: notify_one wakes one of the receivers waiting on the
\* context, the others keep waiting.
RequestStart(ch) ==
  /\ ~started[ch]
  /\ started' = [started EXCEPT ![ch] = TRUE]
  /\ LET waiting == {c \in Clients : handler[c] = "waiting" /\ inOf[c] = ch} IN
     \/ /\ waiting = {} /\ bus[ch] # "waiting" /\ UNCHANGED <<handler, bus>>
     \/ /\ bus[ch] = "waiting" /\ bus' = [bus EXCEPT ![ch] = "receiving"]
        /\ UNCHANGED handler
     \/ \E c \in waiting : /\ handler' = [handler EXCEPT ![c] = "receiving"]
                           /\ UNCHANGED bus
  /\ UNCHANGED <<clientVars, left, slots, sock, sck, overtaken, stuck, wire, dirVars, mainq,
                 channelVars, inOf>>

\* The events for one CAN frame. Without handlers every frame mapped to the id
\* is read by the loop, and the frame is reported as well; with handlers only
\* the first one that matches is used (its actions run in this thread).
Dispatched(ch, id) ==
  LET mapped == {f \in DOMAIN FrameToId[ch] : FrameToId[ch][f] = id}
      matching == {i \in DOMAIN OnMsg[ch] : id \in OnMsg[ch][i]}
  IN  CASE InKind[ch] = "plain" ->
             SetToSeq({[kind |-> "read_frame", frame |-> f] : f \in mapped})
               \o <<[kind |-> "can_frame_received", id |-> id]>>
        [] InKind[ch] = "native" /\ matching # {} -> <<[kind |-> "@@framecontext"]>>
        [] OTHER -> <<>>

\* A receiver on a subscriber's socket: whatever the client sends is taken as
\* a frame, and an end of stream is retried for ever.
ReceiveFrame(c) ==
  /\ handler[c] = "receiving" /\ inbox[c] # <<>>
  /\ inbox' = [inbox EXCEPT ![c] = Tail(@)]
  /\ LET r == Head(inbox[c])
         id == IF r.cmd = "can_frame" THEN r.id ELSE 0
     IN  mainq' = mainq \o Dispatched(inOf[c], id)
  /\ UNCHANGED <<peer, sent, pipelined, handlerVars, wire, dirVars, channelVars, startVars>>

ReceiveFromBus(ch, id) ==
  /\ bus[ch] = "receiving" /\ Len(mainq) < MaxQueue
  /\ mainq' = mainq \o Dispatched(ch, id)
  /\ UNCHANGED <<clientVars, handlerVars, wire, dirVars, channelVars, startVars>>

Next ==
  \/ \E c \in Clients : \/ Accept(c) \/ Leave(c)
                        \/ \E r \in Requests : SendRequest(c, r)
                        \/ Handle(c) \/ ReceiveFrame(c)
  \/ \E ch \in OutChannels : \/ \E f \in Frames : PushFrame(ch, f)
                             \/ OpenBus(ch) \/ AddGateway(ch) \/ SendFrame(ch)
  \/ \E ch \in InChannels : \/ RequestStart(ch)
                            \/ \E id \in BusIds : ReceiveFromBus(ch, id)
  \/ MainLoop

\* The threads are scheduled by the operating system; clients, senders of
\* frames and the bus owe nothing.
Fairness ==
  /\ \A c \in Clients : WF_vars(Handle(c)) /\ WF_vars(ReceiveFrame(c))
  /\ \A ch \in OutChannels : WF_vars(AddGateway(ch)) /\ WF_vars(SendFrame(ch))
  /\ \A ch \in InChannels : WF_vars(RequestStart(ch))
  /\ WF_vars(MainLoop)

Spec == Init /\ [][Next]_vars /\ Fairness

(***************************************************************************)
(* Properties.                                                             *)
(***************************************************************************)
Entry == [key : Hosts, name : {r.name : r \in {x \in Requests : x.cmd = "register_sim_core"}}
                                  \cup {Hub[i].name : i \in DOMAIN Hub}]

\* What a run is configured with: requests for channels that do not exist are
\* malformed ones, 0 is no descriptor, and a channel maps finitely many frames.
WellFormed ==
  /\ None \notin Clients /\ Fds \subseteq Nat \ {0} /\ Hub \in Seq(Entry)
  /\ None \notin InChannels /\ \A ch \in InChannels : IsFiniteSet(DOMAIN FrameToId[ch])
  /\ \A r \in Requests : /\ r.cmd = "subscribe_out_channel" => r.channel \in OutChannels
                         /\ r.cmd = "subscribe_in_channel" => r.channel \in InChannels

\* Every variable keeps its type.
TypeOK ==
  /\ peer \in [Clients -> {"idle", "open", "gone"}]
  /\ sock \in [Fds -> Clients \cup {None}]
  /\ inbox \in [Clients -> Seq(Requests)] /\ left \in [Clients -> Seq(Requests)]
  /\ pipelined \subseteq Clients
  /\ handler \in [Clients -> {"none", "reading", "returning", "waiting", "receiving", "ended"}]
  /\ sck \in [Clients -> Fds \cup {0}] /\ overtaken \in BOOLEAN /\ stuck \in BOOLEAN
  /\ \A c \in Clients : handler[c] # "none" => sck[c] \in Fds
  /\ slots \in Seq([thread : Clients \cup {None}, active : BOOLEAN, fd : Fds \cup {0}])
  /\ known \in Seq(Entry) /\ reset \in BOOLEAN
  /\ registered \in [Hosts -> {e.name : e \in Entry} \cup {None}]
  /\ gateways \in [OutChannels -> Seq(Fds \cup {0})]
  /\ outq \in [OutChannels -> Seq(Frames \cup [kind : {"gateway"}, fd : Fds])]
  /\ sender \in [OutChannels -> {"opening", "running", "stopped"}]
  /\ started \in [InChannels -> BOOLEAN]
  /\ bus \in [InChannels -> {"none", "waiting", "receiving"}]
  /\ inOf \in [Clients -> InChannels \cup {None}]

\* A thread that serves its client has the descriptor it was started with and
\* an entry of its own in handler_threads_status_; one that returns has given
\* the descriptor away. Only ended threads are left to join.
Live == {"reading", "waiting", "receiving"}
HandlersAreListed ==
  /\ ~stuck
  /\ \A i, j \in DOMAIN slots :
       (slots[i].active /\ slots[j].active /\ slots[i].thread = slots[j].thread) => i = j
  /\ \A i \in DOMAIN slots :
       /\ slots[i].active => /\ slots[i].thread \in Clients
                             /\ handler[slots[i].thread] \in Live \cup {"returning"}
                             /\ slots[i].fd = sck[slots[i].thread]
       /\ i \in Ended => handler[slots[i].thread] = "ended"
  /\ \A c \in Clients : handler[c] \in Live \cup {"returning"} =>
       /\ sck[c] \in Fds /\ sock[sck[c]] = c
       /\ \E i \in DOMAIN slots : slots[i].active /\ slots[i].thread = c

\* An open descriptor is that of the thread started for its client, and a
\* client without one was never accepted.
SocketsAreKnown ==
  /\ \A f \in Fds : sock[f] # None => handler[sock[f]] # "none" /\ sck[sock[f]] = f
  /\ \A c \in Clients : (peer[c] = "idle" => handler[c] = "none")

\* f is in the queue of a sender, or in its list.
Queued(ch, i, f) ==
  i \in DOMAIN outq[ch] /\ outq[ch][i].kind = "gateway" /\ outq[ch][i].fd = f
Listed(ch, i, f) == i \in DOMAIN gateways[ch] /\ gateways[ch][i] = f
Places(ch) == DOMAIN outq[ch] \cup DOMAIN gateways[ch]
HasSender(f) ==
  \E ch \in OutChannels : \E i \in Places(ch) : Queued(ch, i, f) \/ Listed(ch, i, f)

\* The senders have exactly the open descriptors that were given away.
SendersHaveTheRest ==
  \A f \in Fds : HasSender(f) <=> sock[f] # None /\ handler[sock[f]] \in {"returning", "ended"}

\* No descriptor is in two places of queues and lists.
PlacesAreUnique ==
  \A f \in Fds : \A ch, dh \in OutChannels : \A i \in Places(ch), j \in Places(dh) :
    /\ Queued(ch, i, f) /\ Queued(dh, j, f) => ch = dh /\ i = j
    /\ Listed(ch, i, f) /\ Listed(dh, j, f) => ch = dh /\ i = j
    /\ ~ (Queued(ch, i, f) /\ Listed(dh, j, f))

\* The owners of descriptor f: handlers that have not given it away, pending
\* subscriptions and gateway entries.
HandlersOf(f) ==
  {<<"handler", i>> : i \in {j \in DOMAIN slots : /\ slots[j].active /\ slots[j].fd = f
                                                  /\ handler[slots[j].thread] # "returning"}}
QueuesOf(f) ==
  UNION {{<<ch, "queued", i>> : i \in {j \in DOMAIN outq[ch] : Queued(ch, j, f)}} :
           ch \in OutChannels}
ListsOf(f) ==
  UNION {{<<ch, "gateway", i>> : i \in {j \in DOMAIN gateways[ch] : Listed(ch, j, f)}} :
           ch \in OutChannels}
Owners(f) == HandlersOf(f) \cup QueuesOf(f) \cup ListsOf(f)

\* A descriptor passes from the handler thread to the sender thread without
\* ever being closed by two of them or by none: an open one has exactly one
\* owner, a closed one has none, however the numbers are reused. It takes a
\* sender that closes a descriptor before the handler that gave it away has
\* returned to break this: its clean-up goes by the number alone.
SocketsAreOwned ==
  overtaken \/ \A f \in Fds : Cardinality(Owners(f)) = IF sock[f] = None THEN 0 ELSE 1

\* Where a stream holds parts of blocks, and what follows a part.
Parts(s) == {i \in DOMAIN s : s[i].kind # "response"}
Continues(a, b) ==
  \/ a.kind = "length" /\ b.kind = "frame" /\ b.n = a.n
  \/ a.kind = "frame" /\ b.kind = "length" /\ b.n = a.n + 1
WholeBlocks(s) ==
  \A j \in Parts(s) :
    /\ (\A i \in Parts(s) : j <= i) => s[j].kind = "length"
    /\ \A i \in Parts(s) :
         (i < j /\ \A k \in Parts(s) : k <= i \/ j <= k) => Continues(s[i], s[j])

\* What a subscriber of an out channel reads, responses aside, is a sequence
\* of whole blocks, length then frame, of consecutive frames; only the last
\* block can be cut off, and nothing follows it.
GatewayStreams == \A c \in Clients : WholeBlocks(wire[c])

\* However registrations, the static hub list and its late merge interleave,
\* the first directory entry of a simulation carries the name of its last
\* registration, which is the entry a lookup by address finds.
DirectoryIsCurrent ==
  \A h \in Hosts :
    LET at == {i \in DOMAIN known : known[i].key = h} IN
    registered[h] # None =>
      \E i \in at : (\A j \in at : i <= j) /\ known[i].name = registered[h]

\* What the server keeps true of its threads, descriptors and directory.
CanInv ==
  /\ TypeOK /\ DirectoryIsCurrent
  /\ overtaken \/ /\ HandlersAreListed /\ SocketsAreKnown
                  /\ SendersHaveTheRest /\ PlacesAreUnique
  /\ SocketsAreOwned

\* A client that waits for each answer before its next request gets an answer
\* to every request its handler has read, also to the ones the main loop
\* answers over the descriptor it was given.
PatientClientsAreAnswered ==
  \A c \in Clients \ pipelined :
    (/\ handler[c] = "reading" /\ peer[c] = "open" /\ inbox[c] = <<>>
     /\ \A i \in DOMAIN mainq : mainq[i].kind = "directory" => mainq[i].to # c)
      => Answers(c) = sent[c]

\* The handler of a client that is gone ends and gives its descriptor back,
\* unless the client had subscribed.
Orphaned(c) == handler[c] = "reading" /\ peer[c] = "gone" /\ ~stuck
HandlersEnd == \A c \in Clients : Orphaned(c) ~> ~ Orphaned(c)

\* cal_receiver.cpp: "A virtual in channel reads can_frame messages from this
\* socket": a subscriber that waits for the start of the simulation is read
\* from once it has started.
Unread(c) == handler[c] = "waiting"
VirtualInChannelReads == \A c \in Clients : Unread(c) ~> ~ Unread(c)
=============================================================================
