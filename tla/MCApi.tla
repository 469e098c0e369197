------------------------------- MODULE MCApi -------------------------------
(***************************************************************************)
(* The websocket interface, one program per run of a component:            *)
(*   deferred  two clients whose answers the main loop writes;             *)
(*   commands  a client with every command, and one that reuses its        *)
(*             descriptor;                                                 *)
(*   frame     a websocket frame, read in pieces;                          *)
(*   coverage  the coverage topic with two subscribers;                    *)
(*   payload   the JSON payload of an EVENT command, from its tokens to    *)
(*             the event the loop handles, in arena memory;                *)
(*   token     the tokens of JSON numbers and strings.                     *)
(*   channel   a generic TCP channel that writes to the websocket          *)
(*             connections it serves.                                      *)
(* The variables of the components that are not in use are 0; those of     *)
(* SocketChannel, whose constants are given by this module, keep their     *)
(* initial value.                                                          *)
(***************************************************************************)
EXTENDS SocketChannel

CONSTANT Nil

VARIABLES which, probe

-----------------------------------------------------------------------------
VARIABLES connOf, peer, asked, expects, requests, server, watched, updater, value, mainq, main, wire,
          raised, slots, crashed, careless

wsVars == <<connOf, peer, asked, expects, requests, server, watched, updater, value, mainq, main,
            wire, raised, slots, crashed, careless>>

NoWs == /\ connOf = 0 /\ peer = 0 /\ asked = 0 /\ expects = 0 /\ requests = 0 /\ server = 0 /\ watched = 0
        /\ updater = 0 /\ value = 0 /\ mainq = 0 /\ main = 0 /\ wire = 0 /\ raised = 0
        /\ slots = 0 /\ crashed = 0 /\ careless = 0

Cmd(name) == [name |-> name, arg |-> "none"]

Deferred == INSTANCE WebsocketApi WITH
    fdOf <- connOf, client <- peer, inbox <- requests, handler <- server, events <- raised,
    Clients <- {"c1", "c2"}, Fds <- {1, 2}, Signals <- {}, Kind <- <<>>,
    Commands <- [c \in {"c1", "c2"} |-> IF c = "c1" THEN {Cmd("PING"), Cmd("QUERY")}
                                        ELSE {Cmd("REPORT"), Cmd("SUBSCRIBE")}],
    MaxRequests <- [c \in {"c1", "c2"} |-> IF c = "c1" THEN 2 ELSE 1]
Commands == INSTANCE WebsocketApi WITH
    fdOf <- connOf, client <- peer, inbox <- requests, handler <- server, events <- raised,
    Clients <- {"c1", "c2"}, Fds <- {1, 2}, Signals <- {"s1"}, Kind <- [s \in {"s1"} |-> "int"],
    Commands <- [c \in {"c1", "c2"} |->
       IF c = "c1"
       THEN {Cmd("SET_VALUE_NO_REPLY"), Cmd("EVENTL"), Cmd("OTHER"),
             Cmd("PUSH"), [name |-> "WATCH", arg |-> "s1"], [name |-> "GET_UPDATE", arg |-> "text"],
             [name |-> "EVENT", arg |-> "malformed"], [name |-> "EVENT", arg |-> "miscounted"],
             [name |-> "SUBSCRIBE", arg |-> "miscounted"], [name |-> "PUSH", arg |-> "missing"]}
       ELSE {Cmd("SET_VALUE")}],
    MaxRequests <- [c \in {"c1", "c2"} |-> 1]

-----------------------------------------------------------------------------
VARIABLES frame, stream, arrived, reader

frameVars == <<frame, stream, arrived, reader>>
NoFrame == frame = 0 /\ stream = 0 /\ arrived = 0 /\ reader = 0

Frame == INSTANCE WebsocketFrame WITH
    avail <- arrived, Segments <- {1, 4, 9}, MaskKeys <- {<<>>, <<1, 2, 4, 8>>},
    Payloads <- {<<>>, <<1, 2, 3>>, <<10, 20, 30, 40, 50, 60>>, [i \in 1 .. 130 |-> i]},
    Lengths <- {0, 5, 125, 126, 300, 65535, 65536, 100000},
    Requests <- UNION {[1 .. n -> {"r", "n", "x"}] : n \in 0 .. 6},
    Texts <- UNION {[1 .. n -> {0, 7, 129, 255}] : n \in 0 .. 4}

-----------------------------------------------------------------------------
VARIABLES covering, covered, covS, covT, times, sinceLast, stampOld, lost, due, covHandler, dangling,
          q, pub, ring, ringStart, ringEnd, nextId, writer, view, steps

covVars == <<covering, covered, covS, covT, times, sinceLast, stampOld, lost, due, covHandler,
             dangling, q, pub, ring, ringStart, ringEnd, nextId, writer, view, steps>>

NoCoverage == /\ covering = 0 /\ covered = 0 /\ covS = 0 /\ covT = 0 /\ times = 0
              /\ sinceLast = 0 /\ stampOld = 0 /\ lost = 0 /\ due = 0 /\ covHandler = 0 /\ dangling = 0
              /\ q = 0 /\ pub = 0 /\ ring = 0 /\ ringStart = 0 /\ ringEnd = 0 /\ nextId = 0
              /\ writer = 0 /\ view = 0 /\ steps = 0

Coverage == INSTANCE CoverageChannel WITH
    handler <- covHandler, current <- covered, States <- 1 .. 4, Clients <- {"c1", "c2"}, ChannelSize <- 3,
    MaxSteps <- 2, Parent <- [s \in 1 .. 4 |-> IF s = 1 THEN 0 ELSE 1],
    Inf <- <<{"SM", "DONT_COVER_LOOPS"}, {"INIT"}, {"LOG_ENTER_TIME", "LOG_EXIT_TIME"},
             {"LOG_ENTER_TIME"}>>,
    Category <- <<{}, {}, {"red"}, {"green"}>>,
    Transitions <- <<[from |-> 0, to |-> 0], [from |-> 2, to |-> 3], [from |-> 3, to |-> 4], [from |-> 3, to |-> 3]>>

\* What the theorems about the two modules assume is so in these instances.
ASSUME InstancesMeetAssumptions ==
  Deferred!BoundedRun /\ Commands!BoundedRun /\ Coverage!MachinesAreClosed /\ Coverage!RingHasRoom

-----------------------------------------------------------------------------
VARIABLES next, prev, limit, avail, counter, tails, freeblocks, live, text, rest, tok, phase,
          stack, ctx, queue, buffered, taken, got, sent

payloadVars == <<next, prev, limit, avail, counter, tails, freeblocks, live, text, rest, tok,
                 phase, stack, ctx, queue, buffered, taken, got, sent>>

NoPayload == /\ next = 0 /\ prev = 0 /\ limit = 0 /\ avail = 0 /\ counter = 0 /\ tails = 0
             /\ freeblocks = 0 /\ live = 0 /\ text = 0 /\ rest = 0 /\ tok = 0 /\ phase = 0
             /\ stack = 0 /\ ctx = 0 /\ queue = 0 /\ buffered = 0 /\ taken = 0 /\ got = 0 /\ sent = 0

Tk(t) == [type |-> t, len |-> 0, z |-> 0]
Str(n) == [type |-> "string", len |-> n, z |-> n]
Json ==
  {<<Tk("number")>>, <<Str(600)>>,
   <<Tk("lbrace"), Str(1), Tk("colon"), Str(3), Tk("comma"), Str(2), Tk("colon"), Tk("lsqrbra"),
     Tk("number"), Tk("comma"), Tk("null"), Tk("rsqrbra"), Tk("rbrace")>>,
   <<Tk("lsqrbra"), Tk("lbrace"), Tk("rbrace"), Tk("comma"), Tk("lsqrbra"), Tk("rsqrbra"),
     Tk("comma"), Tk("boolean"), Tk("rsqrbra")>>,
   <<Tk("lbrace"), Str(4), Tk("colon"), Tk("lbrace"), Str(1), Tk("colon"), Tk("boolean"),
     Tk("rbrace"), Tk("rbrace")>>}
OtherTexts ==
  {<<Tk("undef")>>, <<>>, <<Tk("id")>>, <<Tk("lbrace"), Str(1), Tk("number")>>,
   <<Tk("lsqrbra"), Tk("number"), Tk("comma"), Tk("rsqrbra")>>, <<Tk("number"), Tk("number")>>,
   <<Tk("lsqrbra"), Tk("number"), Tk("rbrace")>>, <<Tk("lbrace"), Tk("rsqrbra")>>,
   <<Tk("lsqrbra"), Tk("number"), Tk("undef")>>,
   <<Tk("lsqrbra"), [type |-> "string", len |-> 2, z |-> 1], Tk("comma"), Tk("number"),
     Tk("rsqrbra")>>}
AllTexts == Json \cup OtherTexts

Payload == INSTANCE EventPayload WITH
    frames <- stack, Arenas <- {0}, MaxPages <- 16, Texts <- AllTexts, MaxMessages <- 2, OriginName <- Str(21)

-----------------------------------------------------------------------------
Token == INSTANCE JsonToken

Numbers == {v \in [neg : BOOLEAN, int : {0, 7, 10}, frac : {<<>>, <<"0">>, <<"2", "5">>},
                   exp : {0, 3, 12}, eneg : BOOLEAN] : v.eneg => v.exp # 0}
Strings == UNION {[1 .. n -> {"a", "\"", "\\", "\n", "/", "u", "U0041", "UBEEF"}] : n \in 0 .. 3}
Ends == {<<>>, <<"}">>, <<",", " ", "t", "r", "u", "e", "]">>, <<" ", "n", "u", "l", "l">>,
         <<":", "\"", "\"">>, <<"CR", "\n", "VT", "FF", "n", "u", "l", "l">>, <<"]", "t", "r", "u", "e", "s">>}

TokenInit == probe \in {[what |-> "number", of |-> v] : v \in Numbers}
                         \cup {[what |-> "string", of |-> s] : s \in Strings}

-----------------------------------------------------------------------------
MCInit ==
    /\ which \in {"deferred", "commands", "frame", "coverage", "payload", "token", "channel"}
    /\ CASE which = "deferred" -> Deferred!Init [] which = "commands" -> Commands!Init
         [] OTHER -> NoWs
    /\ IF which = "frame" THEN Frame!Init ELSE NoFrame
    /\ IF which = "coverage" THEN Coverage!Init ELSE NoCoverage
    /\ IF which = "payload" THEN Payload!Init ELSE NoPayload
    /\ Init /\ (owner => evenMarks) /\ (which # "channel" => ~ owner /\ evenMarks)
    /\ IF which = "token" THEN TokenInit ELSE probe = 0

NotWs == <<which, probe, vars, frameVars, covVars, payloadVars>>
NotFrame == <<which, probe, vars, wsVars, covVars, payloadVars>>
NotCoverage == <<which, probe, vars, wsVars, frameVars, payloadVars>>
NotPayload == <<which, probe, vars, wsVars, frameVars, covVars>>
NotChannel == <<which, probe, wsVars, frameVars, covVars, payloadVars>>
mcvars == <<which, probe, vars, wsVars, frameVars, covVars, payloadVars>>

MCNext ==
    \/ which = "deferred" /\ Deferred!Next /\ UNCHANGED NotWs
    \/ which = "commands" /\ Commands!Next /\ UNCHANGED NotWs
    \/ which = "frame" /\ Frame!Next /\ UNCHANGED NotFrame
    \/ which = "coverage" /\ Coverage!Next /\ UNCHANGED NotCoverage
    \/ which = "payload" /\ Payload!Next /\ UNCHANGED NotPayload
    \/ which = "channel" /\ Next /\ UNCHANGED NotChannel

(* The threads of the server and the main loop run, and time passes.       *)
MCFairness ==
    /\ WF_mcvars(which = "deferred" /\ Deferred!Main /\ ~ crashed /\ UNCHANGED NotWs)
    /\ WF_mcvars(which = "coverage" /\ Coverage!Dangling /\ UNCHANGED NotCoverage)
    /\ WF_mcvars(which = "coverage" /\ Coverage!Tick /\ UNCHANGED NotCoverage)
    /\ WF_mcvars(which = "coverage" /\ Coverage!Register /\ UNCHANGED NotCoverage)
    /\ WF_mcvars(which = "coverage" /\ Coverage!Publish /\ UNCHANGED NotCoverage)
    /\ WF_mcvars(which = "channel" /\ SenderThread /\ UNCHANGED NotChannel)
    /\ \A c \in {"c1", "c2"} :
         /\ WF_mcvars(which = "channel" /\ Serve(c) /\ UNCHANGED NotChannel)
         /\ WF_mcvars(which = "deferred" /\ Deferred!Serve(c) /\ ~ crashed /\ UNCHANGED NotWs)

MCSpec == MCInit /\ [][MCNext]_mcvars /\ MCFairness

-----------------------------------------------------------------------------
(* Careful clients get their answers whole and in order, and no descriptor *)
(* is closed under a connection: see WebsocketApi!AnswersAreWhole and      *)
(* DescriptorsAreNotShared.                                                *)
WebsocketInv ==
    /\ which = "deferred" => /\ Deferred!TypeOK /\ Deferred!AnswersAreWhole
                             /\ Deferred!DescriptorsAreNotShared
    /\ which = "commands" => /\ Commands!TypeOK /\ Commands!AnswersAreWhole
                             /\ Commands!DescriptorsAreNotShared

(* What is written is what is read: websocket frames and their headers,    *)
(* base64, the end of the upgrade request, and the tokens of JSON.         *)
TextsAreRead ==
    /\ which = "frame" => Frame!ReadFramesAreExact /\ Frame!CodecsAreExact
    /\ which = "token" => IF probe.what = "number" THEN Token!NumbersAreRead({probe.of}, Ends)
                          ELSE Token!StringsAreRead({probe.of}, Ends)

(* A subscriber of the coverage topic that was never overtaken knows what  *)
(* the publisher knows, gets one init message, every difference is exact,  *)
(* and the report says the same: see CoverageChannel!GapFreeViewIsCurrent, *)
(* InitComesFirstAndOnce, DifferencesAreExact and ReportAgrees.            *)
CoverageInv ==
    which = "coverage" => /\ Coverage!TypeOK /\ Coverage!GapFreeViewIsCurrent
                          /\ Coverage!InitComesFirstAndOnce /\ Coverage!DifferencesAreExact
                          /\ Coverage!ReportAgrees

(* The payload of an EVENT command reaches the loop, and its memory is     *)
(* neither shared nor given back too early: see EventPayload.              *)
PayloadInv == which = "payload" => Payload!PayloadSurvives(Json) /\ Payload!PayloadMemory

(* The servers finish their work: a careful client is answered or its      *)
(* connection is closed, and a frame is written while a usable socket is   *)
(* registered for it: see WebsocketApi!RequestsAreAnswered and             *)
(* SocketChannel!WaitingFramesAreWritten.                                  *)
Unserved ==
    CASE which = "deferred" -> \E c \in {"c1", "c2"} : Deferred!Unanswered(c)
      [] which = "channel" -> \E n \in 1 .. MaxFrames : Waits(n)
      [] OTHER -> FALSE

(* A covered state is published: see CoverageChannel!CoverageIsPublished.  *)
Unpublished == which = "coverage" /\ Coverage!Unpublished
CoverageIsPublished == Unpublished ~> ~ Unpublished
=============================================================================
