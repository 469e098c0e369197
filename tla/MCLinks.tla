------------------------------ MODULE MCLinks ------------------------------
(***************************************************************************)
(* The connections of a node, one program per run of a component:          *)
(*   out, reuse     the virtual CAN interface: subscribers of an out       *)
(*                  channel, one after another on the same descriptor;     *)
(*   dir, in        the directory of simulations, an in channel;           *)
(*   bus            channels with all kinds of handlers and a real bus;    *)
(*   nodes          two nodes, one raises an event without and one with a  *)
(*                  payload; the connection may be lost and opened again;  *)
(*   codec, monitor the payload of an event and the block of states;       *)
(*   stream         messages cut out of a TCP stream;                      *)
(*   log            the live logger and its sink;                          *)
(*   frame          a raw frame, written and read back.                    *)
(* The variables of the components that are not in use are 0; those of     *)
(* EventLink, whose constants are given by this module, keep their initial *)
(* value.                                                                  *)
(***************************************************************************)
EXTENDS EventLink, TLC

CONSTANTS Scenarios,  \* the programs that are run
          None

VARIABLES which, probe

-----------------------------------------------------------------------------
VARIABLES peer, sock, inbox, left, wire, sent, pipelined, handler, sck, overtaken, stuck, slots,
          known, reset, endpoints, registered, canMainq, canOutq, canSender, gateways, frames, forwarded,
          started, bus, inOf

canVars == <<peer, sock, inbox, left, wire, sent, pipelined, handler, sck, overtaken, stuck,
             slots, known, reset, endpoints, registered, canMainq, canOutq, canSender, gateways, frames, forwarded,
             started, bus, inOf>>

NoCan == /\ peer = 0 /\ sock = 0 /\ inbox = 0 /\ left = 0 /\ wire = 0 /\ sent = 0
         /\ pipelined = 0 /\ handler = 0 /\ sck = 0 /\ overtaken = 0 /\ stuck = 0
         /\ slots = 0 /\ known = 0 /\ reset = 0
         /\ endpoints = 0 /\ registered = 0 /\ canMainq = 0 /\ canOutq = 0 /\ canSender = 0
         /\ gateways = 0 /\ frames = 0 /\ forwarded = 0 /\ started = 0 /\ bus = 0 /\ inOf = 0

Cmd(c) == [cmd |-> c]
Subscribe(d, ch) == [cmd |-> d, channel |-> ch]
Simcore(n) == [cmd |-> "register_sim_core", key |-> "h1", name |-> n]
Stream(p) == [cmd |-> "register_stream_endpoint", host |-> "h1", port |-> p]
CanFrame(id) == [cmd |-> "can_frame", id |-> id]
MCHub == <<[key |-> "h1", name |-> "n0"]>>

Out == INSTANCE VirtualCan WITH
         mainq <- canMainq, outq <- canOutq, sender <- canSender,
         Clients <- {"c1", "c2"}, Fds <- {1, 2}, OutChannels <- {"out"}, Virtual <- {"out"},
         InChannels <- {}, OnBus <- {}, InKind <- <<>>, OnMsg <- <<>>, FrameToId <- <<>>,
         BusIds <- {}, Hub <- MCHub, MaxRequests <- 2, MaxFrames <- 2, MaxQueue <- 1,
         Requests <- {Cmd("malformed"), Subscribe("subscribe_out_channel", "out")}
Reuse == INSTANCE VirtualCan WITH
           mainq <- canMainq, outq <- canOutq, sender <- canSender,
           Clients <- {"c1", "c2", "c3"}, Fds <- {1, 2}, OutChannels <- {"out"},
           Virtual <- {"out"}, InChannels <- {}, OnBus <- {}, InKind <- <<>>, OnMsg <- <<>>,
           FrameToId <- <<>>, BusIds <- {}, Hub <- <<>>, MaxRequests <- 1, MaxFrames <- 1,
           MaxQueue <- 1, Requests <- {Subscribe("subscribe_out_channel", "out")}
Dir == INSTANCE VirtualCan WITH
         mainq <- canMainq, outq <- canOutq, sender <- canSender,
         Clients <- {"c1"}, Fds <- {1}, OutChannels <- {}, Virtual <- {},
         InChannels <- {}, OnBus <- {}, InKind <- <<>>, OnMsg <- <<>>, FrameToId <- <<>>,
         BusIds <- {}, Hub <- MCHub, MaxRequests <- 3, MaxFrames <- 0, MaxQueue <- 1,
         Requests <- {Cmd("query"), Cmd("get_known_sim_cores"), Simcore("n1"), Simcore("n2"),
                      Stream(1), Stream(2)}
In == INSTANCE VirtualCan WITH
        mainq <- canMainq, outq <- canOutq, sender <- canSender,
        Clients <- {"c1", "c2"}, Fds <- {1, 2}, OutChannels <- {}, Virtual <- {},
        InChannels <- {"in"}, OnBus <- {}, InKind <- [ch \in {"in"} |-> "plain"],
        OnMsg <- [ch \in {"in"} |-> <<>>], FrameToId <- [ch \in {"in"} |-> <<1, 2>>],
        BusIds <- {}, Hub <- <<>>, MaxRequests <- 3, MaxFrames <- 0, MaxQueue <- 1,
        Requests <- {Subscribe("subscribe_in_channel", "in"), CanFrame(1)}
Bus == INSTANCE VirtualCan WITH
         mainq <- canMainq, outq <- canOutq, sender <- canSender,
         Clients <- {"c1"}, Fds <- {1}, OutChannels <- {"can"}, Virtual <- {},
         InChannels <- {"plain", "native", "on_msg"}, OnBus <- {"plain", "native", "on_msg"},
         InKind <- [ch \in {"plain", "native", "on_msg"} |-> ch],
         OnMsg <- [ch \in {"plain", "native", "on_msg"} |-> <<{1}, {1, 2}>>],
         FrameToId <- [ch \in {"plain", "native", "on_msg"} |-> <<1, 1>>],
         BusIds <- {1, 3}, Hub <- <<>>, MaxRequests <- 1, MaxFrames <- 1, MaxQueue <- 1,
         Requests <- {Subscribe("subscribe_in_channel", "plain"),
                      Subscribe("subscribe_out_channel", "can")}

\* The instances meet the hypothesis of VirtualCanProofs.
ASSUME InstancesAreWellFormed ==
  Out!WellFormed /\ Reuse!WellFormed /\ Dir!WellFormed /\ In!WellFormed /\ Bus!WellFormed

-----------------------------------------------------------------------------
VARIABLES event, buffer, size, decoded
VARIABLES states, request, asked, answers, open, astray

codecVars == <<event, buffer, size, decoded>>
monitorVars == <<states, request, asked, answers, open, astray>>

NoCodec == event = 0 /\ buffer = 0 /\ size = 0 /\ decoded = 0
NoMonitor == states = 0 /\ request = 0 /\ asked = 0 /\ answers = 0 /\ open = 0 /\ astray = 0

Unit(u) == <<u, <<0, 0>>, <<0, 0>>, <<0, 0>>, <<0, 0>>, <<0, 0>>, <<0, 0>>>>
MCValues ==
    {[kind |-> "int", value |-> <<1, 0, 0, 128>>, unit |-> Unit(u)] :
       u \in {<<0, 0>>, <<1, 0>>, <<255, 255>>}}
    \cup {[kind |-> "double", value |-> <<48, 120>>, unit |-> Unit(u)] :
            u \in {<<0, 0>>, <<254, 255>>}}
    \cup {[kind |-> "string", value |-> s] : s \in {<<>>, <<7>>, <<7, 2>>}}
MCPayloads == [id : {<<65>>, <<65, 66, 67>>}, args : UNION {[1 .. n -> MCValues] : n \in 1 .. 2}]

Codec == INSTANCE NmpCodec WITH Payloads <- MCPayloads, NameBuffer <- 2

MCAsks == {[id |-> "NMP_REQ_SYSTEMSTATES", len |-> 0, ok |-> TRUE],
           [id |-> "NMP_EVAL_CEPS_EXPRESSION", len |-> 3, ok |-> TRUE],
           [id |-> "NMP_EVAL_CEPS_EXPRESSION", len |-> 3, ok |-> FALSE],
           [id |-> "OTHER", len |-> 0, ok |-> TRUE], [id |-> "OTHER", len |-> 5, ok |-> TRUE]}

Monitor == INSTANCE NmpMonitor WITH
             stream <- request, Names <- {"a", "bc"}, NameLength <- ("a" :> 1 @@ "bc" :> 2),
             Values <- {[kind |-> "int", len |-> 4], [kind |-> "double", len |-> 6],
                        [kind |-> "string", len |-> 0], [kind |-> "object", len |-> 9]},
             Asks <- MCAsks, MaxAsks <- 2

-----------------------------------------------------------------------------
VARIABLES mode, posted, bytes, avail, buf, capacity, wanted, msgs, closed, torn

streamVars == <<mode, posted, bytes, avail, buf, capacity, wanted, msgs, closed, torn>>

NoStream == /\ mode = 0 /\ posted = 0 /\ bytes = 0 /\ avail = 0 /\ buf = 0 /\ capacity = 0
            /\ wanted = 0 /\ msgs = 0 /\ closed = 0 /\ torn = 0

Reader == INSTANCE StreamReader WITH
            sent <- posted, stream <- bytes, Marker <- <<"m", "k">>, FrameSize <- 2,
            Bodies <- {<<"x", "m">>, <<"x">>, <<"x", "k">>, <<"k", "x", "x">>},
            MaxBodies <- 3, Buffer <- 4

-----------------------------------------------------------------------------
VARIABLES cis, sto, sto2, trans, writer, moved, copier, publisher, port, sink, net, mirror,
          logged, dropped, raced, wild, breaks

logVars == <<cis, sto, sto2, trans, writer, moved, copier, publisher, port, sink, net, mirror,
             logged, dropped, raced, wild, breaks>>

NoLog == /\ cis = 0 /\ sto = 0 /\ sto2 = 0 /\ trans = 0 /\ writer = 0 /\ moved = 0
         /\ copier = 0 /\ publisher = 0 /\ port = 0 /\ sink = 0 /\ net = 0 /\ mirror = 0
         /\ logged = 0 /\ dropped = 0 /\ raced = 0 /\ wild = 0 /\ breaks = 0

X == <<"char", "x">>
LogEvent == [what |-> "EVENT", name |-> <<X>>, params |-> <<[kind |-> "int", val |-> 7]>>]
LogStates(ids) == [what |-> "CURRENT_STATES", active |-> ids]
LogText == [what |-> "INFO", text |-> <<X, X, X, X, X, X, X>>]
MCEntries == <<{LogEvent, LogText}, {LogStates(<<2, 5>>)}, {LogStates(<<2, 5>>), LogStates(<<3>>)}>>

Log == INSTANCE LiveLog WITH
         server <- publisher, Entries <- MCEntries, CisLen <- 10, TransLen <- 14,
         NStorages <- 2, MaxBreaks <- 1

-----------------------------------------------------------------------------
Raw == INSTANCE RawFrame WITH NoData <- 2

Field(t, leaf) == [k |-> "type", base |-> t[1], n |-> t[2], kids |-> <<leaf>>]
State(s) == [k |-> "state", name |-> s]
Group(n, kids) == [k |-> "group", name |-> n, kids |-> kids]
FirstTypes == {<<"int", 3>>, <<"uint", 3>>, <<"int", 5>>, <<"bit", 0>>, <<"uint", 8>>}
Types == {<<"uint", 3>>, <<"uint", 4>>, <<"uint", 9>>, <<"uint", 12>>, <<"int", 8>>, <<"int", 12>>}
Leaves == {[k |-> "lit", v |-> 5], [k |-> "any"], [k |-> "size"]}
Env(a, b) == [s \in {"a", "b"} |-> IF s = "a" THEN a ELSE b]

Nested == <<Group("header", <<Field(<<"uint", 4>>, State("a")),
                              Group("sub", <<Field(<<"uint", 4>>, [k |-> "lit", v |-> 3])>>)>>),
            Group("in", <<>>), Group("out", <<>>), Field(<<"uint", 8>>, State("b"))>>

FrameInit ==
    \E t \in FirstTypes, u \in Types, v \in Types, l \in Leaves, a \in {-1, 1, 5}, b \in {0, 200} :
      probe = [ps |-> <<Field(t, State("a")), Field(u, l), Field(v, State("b"))>>,
               env |-> Env(a, b)]

-----------------------------------------------------------------------------
MCMaxEvents == [n \in {"a", "b"} |-> IF n = "a" THEN 2 ELSE 0]

-----------------------------------------------------------------------------
CanScenarios == {"out", "reuse", "dir", "in", "bus"}

CanInit == CASE which = "out" -> Out!Init [] which = "reuse" -> Reuse!Init
             [] which = "dir" -> Dir!Init
             [] which = "in" -> In!Init [] which = "bus" -> Bus!Init

MCInit ==
    /\ which \in Scenarios
    /\ IF which \in CanScenarios THEN CanInit ELSE NoCan
    /\ Init
    /\ IF which = "codec" THEN Codec!Init ELSE NoCodec
    /\ IF which = "monitor" THEN Monitor!Init ELSE NoMonitor
    /\ IF which = "stream" THEN Reader!Init ELSE NoStream
    /\ IF which = "log" THEN Log!Init ELSE NoLog
    /\ IF which = "frame" THEN FrameInit ELSE probe = 0

NotCan == <<which, probe, vars, codecVars, monitorVars, streamVars, logVars>>
NotLink == <<which, probe, canVars, codecVars, monitorVars, streamVars, logVars>>
NotCodec == <<which, probe, vars, canVars, monitorVars, streamVars, logVars>>
NotMonitor == <<which, probe, vars, canVars, codecVars, streamVars, logVars>>
NotStream == <<which, probe, vars, canVars, codecVars, monitorVars, logVars>>
NotLog == <<which, probe, vars, canVars, codecVars, monitorVars, streamVars>>

MCNext ==
    \/ which = "out" /\ Out!Next /\ UNCHANGED NotCan
    \/ which = "reuse" /\ Reuse!Next /\ UNCHANGED NotCan
    \/ which = "dir" /\ Dir!Next /\ UNCHANGED NotCan
    \/ which = "in" /\ In!Next /\ UNCHANGED NotCan
    \/ which = "bus" /\ Bus!Next /\ UNCHANGED NotCan
    \/ which = "nodes" /\ Next /\ UNCHANGED NotLink
    \/ which = "codec" /\ Codec!Next /\ UNCHANGED NotCodec
    \/ which = "monitor" /\ Monitor!Next /\ UNCHANGED NotMonitor
    \/ which = "stream" /\ Reader!Next /\ UNCHANGED NotStream
    \/ which = "log" /\ Log!Next /\ UNCHANGED NotLog

mcvars == <<which, probe, vars, canVars, codecVars, monitorVars, streamVars,
            logVars>>

(* The fairness of the components whose progress is asked for.             *)
MCFairness ==
    /\ \A c \in {"c1", "c2"} :
         /\ WF_mcvars(which = "out" /\ Out!Handle(c) /\ UNCHANGED NotCan)
         /\ WF_mcvars(which = "in" /\ In!Handle(c) /\ UNCHANGED NotCan)
    /\ WF_mcvars(which = "in" /\ In!RequestStart("in") /\ UNCHANGED NotCan)
    /\ \A l \in Links :
         /\ WF_mcvars(which = "nodes" /\ SenderThread(l) /\ UNCHANGED NotLink)
         /\ \A c \in 1 .. MaxConns :
              WF_mcvars(which = "nodes" /\ ConsumerThread(l, c) /\ UNCHANGED NotLink)
    /\ WF_mcvars(which = "log" /\ Log!Running /\ Log!Writer /\ UNCHANGED NotLog)
    /\ SF_mcvars(which = "log" /\ Log!Running /\ Log!Copier /\ UNCHANGED NotLog)
    /\ WF_mcvars(which = "log" /\ Log!Running /\ Log!Sink /\ UNCHANGED NotLog)
    /\ WF_mcvars(which = "log" /\ Log!Running /\ (Log!SetPort \/ Log!Bind) /\ UNCHANGED NotLog)

MCSpec == MCInit /\ [][MCNext]_mcvars /\ MCFairness

-----------------------------------------------------------------------------
(* The virtual CAN interface: descriptors have one owner, subscribers read *)
(* whole blocks, the directory is current and patient clients are answered.*)
VirtualCanInv ==
    /\ which = "out" => Out!CanInv /\ Out!GatewayStreams /\ Out!PatientClientsAreAnswered
    /\ which = "reuse" => /\ Reuse!CanInv /\ Reuse!GatewayStreams
                          /\ Reuse!PatientClientsAreAnswered
    /\ which = "dir" => Dir!CanInv /\ Dir!PatientClientsAreAnswered
    /\ which = "in" => In!CanInv
    /\ which = "bus" => Bus!CanInv /\ Bus!GatewayStreams

(* What the sink of a live log reads is what was logged: see               *)
(* LiveLog!LogIsFaithful.                                                  *)
SinkIsFaithful == which = "log" => Log!LogIsFaithful

(* What is written to a connection is read as it was written, except where *)
(* the reader is known to err: the payload of an event and the block of    *)
(* system states always, if the request for it was received whole; the     *)
(* messages of a stream unless a piece ends                                *)
(* inside a marker, a size or a sized message; the header of a frame and   *)
(* its fields, as far as both ends agree on the widths, unless a field     *)
(* starts and ends inside of bytes; a signed field whose width is not 8,   *)
(* 16 or 32 comes back 2^width too small when it is not negative.          *)
MessagesSurvive ==
    /\ which = "codec" => Codec!SizeIsExact /\ Codec!PayloadSurvives
    /\ which = "monitor" => Monitor!MonitorAnswers
    /\ which = "stream" => Reader!MessagesAreExact
    /\ which = "frame" => /\ Raw!FrameSurvives(probe.ps, probe.env, Env(99, 99))
                          /\ Raw!HeaderSurvives(Nested, probe.env, Env(99, 99))

(* The threads finish their work: the handler of a client that is gone     *)
(* ends, an event reaches the remote node over a link without faults, and  *)
(* a log entry arrives or is dropped by a full ring. Clients, events and   *)
(* entries are finitely many, so in the end nothing is pending.            *)
Pending ==
    CASE which = "out" -> \E c \in {"c1", "c2"} : Out!Orphaned(c)
      [] which = "nodes" -> \E l \in Links : \E e \in Events : Due(l, e)
      [] which = "log" -> \E k \in 1 .. Len(MCEntries) : Log!Outstanding(k)
      [] OTHER -> FALSE
LinksMakeProgress == Pending ~> ~ Pending

(* cal_receiver.cpp: "A virtual in channel reads can_frame messages from   *)
(* this socket": a subscriber that waits for the start of the simulation   *)
(* is read from once it has started.                                       *)
VirtualInChannelReads ==
    \A c \in {"c1", "c2"} : (which = "in" /\ In!Unread(c)) ~> ~ (which = "in" /\ In!Unread(c))
=============================================================================
