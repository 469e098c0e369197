-------------------------- MODULE VirtualCanProofs --------------------------
(***************************************************************************)
(* Proofs about VirtualCan, for any number of clients, descriptors,        *)
(* channels and requests: every open descriptor has exactly one owner, as  *)
(* long as no sender overtakes the handler it got a descriptor from; the   *)
(* directory answers with the last registration; a subscriber reads whole  *)
(* blocks of consecutive frames; and a client that waits for each answer   *)
(* gets it.                                                                *)
(***************************************************************************)
EXTENDS VirtualCan, FiniteSetTheorems, SequenceTheorems, TLAPS

OwnInv == HandlersAreListed /\ SocketsAreKnown /\ SendersHaveTheRest /\ PlacesAreUnique
Slot == [thread : Clients \cup {None}, active : BOOLEAN, fd : Fds \cup {0}]
Waiting == Frames \cup [kind : {"gateway"}, fd : Fds]

-----------------------------------------------------------------------------
(* Types                                                                   *)

\* What a handler reads is a request of its client.
LEMMA RequestIsTyped ==
  ASSUME TypeOK, NEW c \in Clients, inbox[c] # <<>>
  PROVE  Request(c) \in Requests
<1>1. inbox[c] \in Seq(Requests) /\ left[c] \in Seq(Requests)
  BY DEF TypeOK
<1>2. Len(inbox[c]) \in Nat /\ Len(inbox[c]) > 0 /\ Len(left[c]) \in Nat
  BY <1>1
<1>3. ASSUME NEW s \in Seq(Requests), NEW t \in Seq(Requests), Len(t) > 0
      PROVE  (s \o t)[1] \in Requests
  <2>1. CASE Len(s) = 0
    <3>1. (s \o t)[1] = t[1] /\ 1 \in 1 .. Len(t)
      BY <1>3, <2>1
    <3> QED
      BY <3>1
  <2>2. CASE Len(s) # 0
    <3>1. (s \o t)[1] = s[1] /\ 1 \in 1 .. Len(s)
      BY <1>3, <2>2
    <3> QED
      BY <3>1
  <2> QED
    BY <2>1, <2>2
<1> QED
  BY <1>1, <1>2, <1>3 DEF Request

\* A part of a sequence is a sequence.
LEMMA PartIsTyped ==
  ASSUME NEW S, NEW s \in Seq(S), NEW m \in 1 .. Len(s) + 1, NEW n \in 0 .. Len(s)
  PROVE  SubSeq(s, m, n) \in Seq(S)
OBVIOUS

LEMMA FunctionIsSequence ==
  ASSUME NEW S, NEW n \in Nat, NEW f \in [1 .. n -> S]
  PROVE  f \in Seq(S)
<1>1. f = [i \in 1 .. n |-> f[i]] /\ \A i \in 1 .. n : f[i] \in S
  OBVIOUS
<1> QED
  BY <1>1

LEMMA ReceiveIsTyped ==
  ASSUME TypeOK, NEW c \in Clients, NEW n, Receive(c, n)
  PROVE  /\ inbox' \in [Clients -> Seq(Requests)] /\ left' \in [Clients -> Seq(Requests)]
         /\ Request(c) \in Requests
         /\ handler[c] = "reading" /\ UNCHANGED <<peer, sent, pipelined>>
<1>1. inbox[c] \in Seq(Requests) /\ n \in 1 .. Len(inbox[c]) /\ Len(inbox[c]) \in Nat
  BY DEF TypeOK, Receive
<1>2. SubSeq(inbox[c], n + 1, Len(inbox[c])) \in Seq(Requests)
  BY <1>1, PartIsTyped
<1>3. SubSeq(inbox[c], 2, n) \in Seq(Requests)
  BY <1>1, PartIsTyped
<1> QED
  BY <1>1, <1>2, <1>3, RequestIsTyped DEF Receive, TypeOK

\* A step that leaves most of the types alone.
LEMMA CleanupIsTyped ==
  ASSUME WellFormed, TypeOK, NEW c \in Clients, NEW close, Cleanup(c, close),
         handler[c] # "none"
  PROVE  /\ handler' \in [Clients -> {"none", "reading", "returning", "waiting", "receiving",
                                      "ended"}]
         /\ sck' \in [Clients -> Fds \cup {0}] /\ overtaken' \in BOOLEAN /\ stuck' \in BOOLEAN
         /\ \A d \in Clients : handler'[d] # "none" => sck'[d] \in Fds
         /\ slots' \in Seq(Slot) /\ sock' \in [Fds -> Clients \cup {None}]
<1>1. slots' \in Seq(Slot)
  <2>1. slots \in Seq(Slot) /\ DOMAIN slots = 1 .. Len(slots) /\ Len(slots) \in Nat
    BY DEF TypeOK, Slot
  <2>2. \A i \in DOMAIN slots : slots[i] \in Slot
    BY <2>1
  <2>3. \A i \in DOMAIN slots : [slots[i] EXCEPT !.active = FALSE, !.fd = 0] \in Slot
    BY <2>2 DEF Slot
  <2>4. DOMAIN slots' = 1 .. Len(slots) /\ \A i \in 1 .. Len(slots) : slots'[i] \in Slot
    BY <2>1, <2>2, <2>3 DEF Cleanup
  <2>5. slots' = [i \in 1 .. Len(slots) |-> slots'[i]]
    BY <2>1 DEF Cleanup
  <2> QED
    BY <2>1, <2>4, <2>5
<1>2. sock' \in [Fds -> Clients \cup {None}]
  BY DEF Cleanup, TypeOK
<1> QED
  BY <1>1, <1>2 DEF Cleanup, TypeOK

LEMMA AnswerIsTyped ==
  ASSUME WellFormed, TypeOK, NEW c \in Clients, Answer(c), handler[c] # "none"
  PROVE  /\ handler' \in [Clients -> {"none", "reading", "returning", "waiting", "receiving",
                                      "ended"}]
         /\ sck' \in [Clients -> Fds \cup {0}] /\ overtaken' \in BOOLEAN /\ stuck' \in BOOLEAN
         /\ \A d \in Clients : handler'[d] # "none" => sck'[d] \in Fds
         /\ slots' \in Seq(Slot) /\ sock' \in [Fds -> Clients \cup {None}]
<1>1. CASE UNCHANGED <<handler, slots, sock, sck, overtaken, stuck>>
  BY <1>1 DEF TypeOK, Slot
<1>2. CASE Cleanup(c, TRUE)
  BY <1>2, CleanupIsTyped
<1> QED
  BY <1>1, <1>2 DEF Answer

LEMMA InitIsTyped ==
  ASSUME WellFormed, Init
  PROVE  TypeOK
<1>1. /\ inbox \in [Clients -> Seq(Requests)] /\ left \in [Clients -> Seq(Requests)]
      /\ slots \in Seq(Slot) /\ known \in Seq(Entry)
      /\ gateways \in [OutChannels -> Seq(Fds \cup {0})]
      /\ outq \in [OutChannels -> Seq(Waiting)]
  BY DEF Init
<1>2. /\ peer \in [Clients -> {"idle", "open", "gone"}]
      /\ sock \in [Fds -> Clients \cup {None}]
      /\ pipelined \subseteq Clients
      /\ handler \in [Clients -> {"none", "reading", "returning", "waiting", "receiving",
                                  "ended"}]
      /\ sck \in [Clients -> Fds \cup {0}] /\ overtaken \in BOOLEAN /\ stuck \in BOOLEAN
      /\ \A c \in Clients : handler[c] # "none" => sck[c] \in Fds
      /\ reset \in BOOLEAN /\ registered \in [Hosts -> {e.name : e \in Entry} \cup {None}]
      /\ sender \in [OutChannels -> {"opening", "running", "stopped"}]
  BY DEF Init
<1>3. /\ started \in [InChannels -> BOOLEAN]
      /\ bus \in [InChannels -> {"none", "waiting", "receiving"}]
      /\ inOf \in [Clients -> InChannels \cup {None}]
  BY DEF Init
<1> QED
  BY <1>1, <1>2, <1>3 DEF TypeOK, Slot, Waiting

\* The directory keeps its type.
LEMMA SyncedIsTyped ==
  ASSUME WellFormed, TypeOK
  PROVE  Synced \in Seq(Entry)
BY DEF WellFormed, TypeOK, Synced

LEMMA RegisterIsTyped ==
  ASSUME TypeOK, NEW e \in Entry, RegisterSimCore(e)
  PROVE  known' \in Seq(Entry)
<1>1. known \in Seq(Entry)
  BY DEF TypeOK
<1>2. ASSUME NEW i \in DOMAIN known PROVE [known EXCEPT ![i].name = e.name] \in Seq(Entry)
  <2>1. known[i] \in Entry /\ e.name \in {x.name : x \in Entry} /\ i \in 1 .. Len(known)
    BY <1>1, <1>2
  <2>2. [known[i] EXCEPT !.name = e.name] \in Entry
    BY <2>1 DEF Entry
  <2> QED
    BY <1>1, <2>1, <2>2
<1>3. CASE known' = Append(known, e)
  BY <1>1, <1>3
<1>4. ASSUME NEW i \in DOMAIN known, known' = Append([known EXCEPT ![i].name = e.name], e)
      PROVE  known' \in Seq(Entry)
  BY <1>2, <1>4
<1> QED
  BY <1>3, <1>4 DEF RegisterSimCore

\* Accepting a connection keeps the types.
LEMMA AcceptIsTyped ==
  ASSUME WellFormed, TypeOK, NEW c \in Clients, Accept(c)
  PROVE  TypeOK'
<1> USE DEF clientVars, dirVars, channelVars, startVars
<1>1. PICK f \in Fds :
        /\ sock' = [sock EXCEPT ![f] = c]
        /\ \/ /\ Register(c, f)
              /\ handler' = [handler EXCEPT ![c] = "reading"]
              /\ sck' = [sck EXCEPT ![c] = f]
              /\ UNCHANGED stuck
           \/ stuck' = TRUE /\ UNCHANGED <<slots, handler, sck>>
  BY DEF Accept, FreeFds
<1>2. slots' \in Seq(Slot)
  <2> DEFINE entry == [thread |-> c, active |-> TRUE, fd |-> f]
  <2>1. slots \in Seq(Slot) /\ entry \in Slot /\ DOMAIN slots = 1 .. Len(slots)
        /\ Len(slots) \in Nat
    BY DEF TypeOK, Slot
  <2>2. \A i \in DOMAIN slots : slots[i] \in Slot /\ [slots[i] EXCEPT !.thread = None] \in Slot
    <3>1. \A i \in DOMAIN slots : slots[i] \in Slot
      BY <2>1
    <3> QED
      BY <3>1 DEF Slot
  <2>3. Joined \in [1 .. Len(slots) -> Slot]
    BY <2>1, <2>2 DEF Joined
  <2>4. ASSUME NEW i \in DOMAIN slots PROVE [Joined EXCEPT ![i] = entry] \in Seq(Slot)
    <3>1. [Joined EXCEPT ![i] = entry] \in [1 .. Len(slots) -> Slot]
      BY <2>1, <2>3, <2>4
    <3> QED
      BY <2>1, <3>1, FunctionIsSequence
  <2>5. Append(slots, entry) \in Seq(Slot)
    BY <2>1
  <2>6. UNCHANGED slots \/ Register(c, f)
    BY <1>1
  <2> QED
    BY <2>1, <2>4, <2>5, <2>6 DEF Register, Ended
<1>3. /\ sock' \in [Fds -> Clients \cup {None}]
      /\ handler' \in [Clients -> {"none", "reading", "returning", "waiting", "receiving",
                                   "ended"}]
      /\ sck' \in [Clients -> Fds \cup {0}] /\ stuck' \in BOOLEAN
      /\ \A d \in Clients : handler'[d] # "none" => sck'[d] \in Fds
  <2>1. sock' \in [Fds -> Clients \cup {None}]
    BY <1>1 DEF TypeOK
  <2>2. CASE UNCHANGED <<handler, sck>> /\ stuck' = TRUE
    BY <2>1, <2>2 DEF TypeOK
  <2>3. CASE /\ handler' = [handler EXCEPT ![c] = "reading"]
             /\ sck' = [sck EXCEPT ![c] = f] /\ UNCHANGED stuck
    BY <2>1, <2>3 DEF TypeOK
  <2> QED
    BY <1>1, <2>2, <2>3
<1>4. peer' \in [Clients -> {"idle", "open", "gone"}]
  BY DEF Accept, TypeOK
<1> QED
  BY <1>2, <1>3, <1>4 DEF Accept, TypeOK, Slot

\* A handler that reads a request keeps the types.
LEMMA HandleIsTyped ==
  ASSUME WellFormed, TypeOK, NEW c \in Clients, Handle(c)
  PROVE  TypeOK'
<1> USE DEF clientVars, dirVars, channelVars, startVars
<1>1. CASE HandleEndOfStream(c)
  BY <1>1, CleanupIsTyped DEF HandleEndOfStream, TypeOK, Slot
<1>2. CASE Return(c)
  BY <1>2, CleanupIsTyped DEF Return, TypeOK, Slot
<1>3. ASSUME NEW n, HandleQuery(c, n) PROVE TypeOK'
  BY <1>3, ReceiveIsTyped, AnswerIsTyped DEF HandleQuery, TypeOK, Slot
<1>4. ASSUME NEW n, HandleMalformed(c, n) PROVE TypeOK'
  BY <1>4, ReceiveIsTyped, CleanupIsTyped DEF HandleMalformed, TypeOK, Slot
<1>5. ASSUME NEW n, HandleSubscribeOut(c, n) PROVE TypeOK'
  <2> DEFINE ch == Request(c).channel
             sub == [kind |-> "gateway", fd |-> sck[c]]
  <2>1. ch \in OutChannels /\ handler[c] = "reading"
    BY <1>5, ReceiveIsTyped DEF HandleSubscribeOut, WellFormed
  <2>2. sub \in Waiting
    BY <2>1 DEF TypeOK, Waiting
  <2>3. outq[ch] \in Seq(Waiting)
    BY <2>1 DEF TypeOK, Waiting
  <2>4. Append(outq[ch], sub) \in Seq(Waiting)
    BY <2>2, <2>3
  <2>5. outq' \in [OutChannels -> Seq(Waiting)]
    BY <1>5, <2>1, <2>4 DEF HandleSubscribeOut, TypeOK, Waiting
  <2>6. /\ handler' \in [Clients -> {"none", "reading", "returning", "waiting", "receiving",
                                      "ended"}]
        /\ \A d \in Clients : handler'[d] # "none" => handler[d] # "none"
    BY <1>5, <2>1 DEF HandleSubscribeOut, TypeOK
  <2> QED
    BY <1>5, <2>5, <2>6, ReceiveIsTyped DEF HandleSubscribeOut, TypeOK, Slot, Waiting
<1>6. ASSUME NEW n, HandleSubscribeIn(c, n) PROVE TypeOK'
  <2>1. Request(c).channel \in InChannels
    BY <1>6, ReceiveIsTyped DEF HandleSubscribeIn, WellFormed
  <2>2. handler' \in [Clients -> {"none", "reading", "returning", "waiting", "receiving",
                                  "ended"}]
        /\ inOf' \in [Clients -> InChannels \cup {None}]
        /\ \A d \in Clients : handler'[d] # "none" => handler[d] # "none"
    BY <1>6, <2>1, ReceiveIsTyped DEF HandleSubscribeIn, TypeOK
  <2> QED
    BY <1>6, <2>2, ReceiveIsTyped DEF HandleSubscribeIn, TypeOK, Slot
<1>7. ASSUME NEW n, HandleDirectory(c, n) PROVE TypeOK'
  BY <1>7, ReceiveIsTyped, SyncedIsTyped DEF HandleDirectory, TypeOK, Slot
<1>8. ASSUME NEW n, HandleRegister(c, n) PROVE TypeOK'
  <2>1. [key |-> Request(c).key, name |-> Request(c).name] \in Entry
    BY <1>8, ReceiveIsTyped DEF HandleRegister, Entry, Hosts
  <2>2. known' \in Seq(Entry)
    BY <1>8, <2>1, RegisterIsTyped DEF HandleRegister
  <2>3. Request(c).name \in {e.name : e \in Entry}
    BY <2>1
  <2>4. registered' \in [Hosts -> {e.name : e \in Entry} \cup {None}]
    BY <1>8, <2>3 DEF HandleRegister, TypeOK
  <2> QED
    BY <1>8, <2>2, <2>4, ReceiveIsTyped, AnswerIsTyped DEF HandleRegister, TypeOK, Slot
<1>9. ASSUME NEW n, HandleRegisterStream(c, n) PROVE TypeOK'
  BY <1>9, ReceiveIsTyped, AnswerIsTyped DEF HandleRegisterStream, TypeOK, Slot
<1> QED
  BY <1>1, <1>2, <1>3, <1>4, <1>5, <1>6, <1>7, <1>8, <1>9 DEF Handle

\* A sender thread keeps the types.
LEMMA SenderIsTyped ==
  ASSUME WellFormed, TypeOK, NEW ch \in OutChannels,
         (\E f \in Frames : PushFrame(ch, f)) \/ OpenBus(ch) \/ AddGateway(ch) \/ SendFrame(ch)
  PROVE  TypeOK'
<1> USE DEF clientVars, handlerVars, dirVars, channelVars, startVars
<1>1. /\ outq \in [OutChannels -> Seq(Waiting)] /\ outq[ch] \in Seq(Waiting)
      /\ gateways \in [OutChannels -> Seq(Fds \cup {0})] /\ gateways[ch] \in Seq(Fds \cup {0})
  BY DEF TypeOK, Waiting
<1>2. ASSUME outq[ch] # <<>> PROVE Tail(outq[ch]) \in Seq(Waiting) /\ Head(outq[ch]) \in Waiting
  BY <1>1, <1>2
<1>3. ASSUME NEW f \in Frames, PushFrame(ch, f) PROVE TypeOK'
  <2>1. Append(outq[ch], f) \in Seq(Waiting)
    BY <1>1 DEF Waiting
  <2>2. outq' \in [OutChannels -> Seq(Waiting)]
    BY <1>1, <1>3, <2>1 DEF PushFrame
  <2> QED
    BY <1>3, <2>2 DEF PushFrame, TypeOK, Waiting
<1>4. CASE OpenBus(ch)
  BY <1>4 DEF OpenBus, Stop, TypeOK
<1>5. CASE AddGateway(ch)
  <2>1. outq' \in [OutChannels -> Seq(Waiting)]
    BY <1>1, <1>2, <1>5 DEF AddGateway
  <2>2. Head(outq[ch]).fd \in Fds
    BY <1>2, <1>5 DEF AddGateway, Waiting, Frames
  <2>3. Append(gateways[ch], Head(outq[ch]).fd) \in Seq(Fds \cup {0})
    BY <1>1, <2>2
  <2>4. ASSUME NEW i \in DOMAIN gateways[ch]
        PROVE  [gateways[ch] EXCEPT ![i] = Head(outq[ch]).fd] \in Seq(Fds \cup {0})
    BY <1>1, <2>2, <2>4
  <2>5. gateways' \in [OutChannels -> Seq(Fds \cup {0})]
    <3>1. CASE UNCHANGED gateways
      BY <1>1, <3>1
    <3>2. CASE gateways' = [gateways EXCEPT ![ch] = Append(@, Head(outq[ch]).fd)]
      BY <1>1, <2>3, <3>2
    <3>3. ASSUME NEW i \in DOMAIN gateways[ch],
                 gateways' = [gateways EXCEPT ![ch][i] = Head(outq[ch]).fd]
          PROVE  gateways' \in [OutChannels -> Seq(Fds \cup {0})]
      BY <1>1, <2>4, <3>3
    <3> QED
      BY <1>5, <3>1, <3>2, <3>3 DEF AddGateway
  <2> QED
    BY <1>5, <2>1, <2>5 DEF AddGateway, TypeOK, Waiting
<1>6. CASE SendFrame(ch)
  <2>1. outq' \in [OutChannels -> Seq(Waiting)]
    BY <1>1, <1>2, <1>6 DEF SendFrame
  <2>2. ASSUME NEW how, Forward(ch, how)
        PROVE  /\ gateways' \in [OutChannels -> Seq(Fds \cup {0})]
               /\ sock' \in [Fds -> Clients \cup {None}] /\ overtaken' \in BOOLEAN
    <3>1. Len(gateways[ch]) \in Nat /\ DOMAIN gateways[ch] = 1 .. Len(gateways[ch])
          /\ \A i \in DOMAIN gateways[ch] : gateways[ch][i] \in Fds \cup {0}
      BY <1>1
    <3>2. Closed(gateways[ch], how) \in [1 .. Len(gateways[ch]) -> Fds \cup {0}]
      BY <3>1 DEF Closed
    <3>3. Closed(gateways[ch], how) \in Seq(Fds \cup {0})
      BY <3>1, <3>2, FunctionIsSequence
    <3>4. gateways' = [gateways EXCEPT ![ch] = Closed(gateways[ch], how)]
      BY <2>2 DEF Forward
    <3>5. sock' \in [Fds -> Clients \cup {None}]
      BY <2>2 DEF Forward, TypeOK
    <3>6. overtaken' \in BOOLEAN
      BY <2>2, Zenon DEF Forward, TypeOK
    <3> QED
      BY <1>1, <3>3, <3>4, <3>5, <3>6
  <2>3. /\ gateways' \in [OutChannels -> Seq(Fds \cup {0})]
        /\ sock' \in [Fds -> Clients \cup {None}] /\ overtaken' \in BOOLEAN
    BY <1>1, <1>6, <2>2 DEF SendFrame, TypeOK
  <2>4. sender' \in [OutChannels -> {"opening", "running", "stopped"}]
    BY <1>6 DEF SendFrame, Stop, TypeOK
  <2> QED
    BY <1>6, <2>1, <2>3, <2>4 DEF SendFrame, TypeOK, Waiting
<1> QED
  BY <1>3, <1>4, <1>5, <1>6

\* Every step keeps the types.
LEMMA TypeStep ==
  ASSUME WellFormed, TypeOK, [Next]_vars
  PROVE  TypeOK'
<1> USE DEF clientVars, handlerVars, dirVars, channelVars, startVars
<1>1. CASE UNCHANGED vars
  BY <1>1 DEF vars, TypeOK
<1>2. ASSUME NEW c \in Clients, Leave(c) PROVE TypeOK'
  BY <1>2 DEF Leave, TypeOK
<1>3. ASSUME NEW c \in Clients, NEW r \in Requests, SendRequest(c, r) PROVE TypeOK'
  <2>1. inbox[c] \in Seq(Requests)
    BY DEF TypeOK
  <2>2. Append(inbox[c], r) \in Seq(Requests)
    BY <2>1
  <2>3. inbox' \in [Clients -> Seq(Requests)]
    BY <1>3, <2>2 DEF SendRequest, TypeOK
  <2>4. pipelined' \subseteq Clients
    BY <1>3 DEF SendRequest, TypeOK
  <2>5. UNCHANGED <<peer, handlerVars, wire, dirVars, mainq, channelVars, startVars>>
    BY <1>3 DEF SendRequest
  <2> QED
    BY <2>3, <2>4, <2>5 DEF TypeOK
<1>4. ASSUME NEW c \in Clients, ReceiveFrame(c) PROVE TypeOK'
  <2>1. inbox[c] \in Seq(Requests) /\ inbox[c] # <<>>
    BY <1>4 DEF TypeOK, ReceiveFrame
  <2>2. Tail(inbox[c]) \in Seq(Requests)
    BY <2>1
  <2>3. inbox' \in [Clients -> Seq(Requests)]
    BY <1>4, <2>2 DEF ReceiveFrame, TypeOK
  <2> QED
    BY <1>4, <2>3 DEF ReceiveFrame, TypeOK
<1>5. ASSUME NEW ch \in InChannels, RequestStart(ch) PROVE TypeOK'
  BY <1>5 DEF RequestStart, TypeOK
<1>6. ASSUME NEW ch \in InChannels, NEW id \in BusIds, ReceiveFromBus(ch, id) PROVE TypeOK'
  BY <1>6 DEF ReceiveFromBus, TypeOK
<1>7. CASE MainLoop
  <2>1. known' \in Seq(Entry) /\ reset' \in BOOLEAN
    BY <1>7, SyncedIsTyped DEF MainLoop, TypeOK
  <2>2. UNCHANGED <<clientVars, handlerVars, endpoints, registered, channelVars, startVars>>
    BY <1>7 DEF MainLoop
  <2> QED
    BY <2>1, <2>2 DEF TypeOK
<1> QED
  BY <1>1, <1>2, <1>3, <1>4, <1>5, <1>6, <1>7, AcceptIsTyped, HandleIsTyped, SenderIsTyped DEF Next

-----------------------------------------------------------------------------
(* The directory                                                           *)

\* An entry at the end does not get in front of another one.
LEMMA SyncKeepsDirectory ==
  ASSUME WellFormed, TypeOK, DirectoryIsCurrent, known' = Synced, UNCHANGED registered
  PROVE  DirectoryIsCurrent'
<1>1. /\ known \in Seq(Entry) /\ Hub \in Seq(Entry) /\ Len(known) \in Nat
      /\ DOMAIN known = 1 .. Len(known)
  BY DEF TypeOK, WellFormed
<1>2. /\ \A i \in 1 .. Len(known) : known'[i] = known[i]
      /\ DOMAIN known' = 1 .. Len(known') /\ Len(known') \in Nat /\ Len(known) <= Len(known')
  BY <1>1 DEF Synced
<1> SUFFICES ASSUME NEW h \in Hosts, registered[h] # None
             PROVE  \E i \in DOMAIN known' :
                      /\ known'[i].key = h
                      /\ \A j \in DOMAIN known' : known'[j].key = h => i <= j
                      /\ known'[i].name = registered[h]
  BY DEF DirectoryIsCurrent
<1>3. PICK i \in DOMAIN known : /\ known[i].key = h
                                /\ \A j \in DOMAIN known : known[j].key = h => i <= j
                                /\ known[i].name = registered[h]
  BY DEF DirectoryIsCurrent
<1>4. i \in DOMAIN known' /\ known'[i] = known[i] /\ i \in 1 .. Len(known)
  BY <1>1, <1>2
<1>5. ASSUME NEW j \in DOMAIN known', known'[j].key = h PROVE i <= j
  <2>1. CASE j <= Len(known)
    BY <1>1, <1>2, <1>3, <1>5, <2>1
  <2>2. CASE j > Len(known)
    BY <1>1, <1>2, <1>4, <2>2
  <2> QED
    BY <1>1, <1>2, <2>1, <2>2
<1> QED
  BY <1>3, <1>4, <1>5

\* A registration renames the first entry of its simulation, or is the first.
LEMMA RegisterKeepsDirectory ==
  ASSUME TypeOK, DirectoryIsCurrent, NEW e \in Entry, RegisterSimCore(e),
         registered' = [registered EXCEPT ![e.key] = e.name]
  PROVE  DirectoryIsCurrent'
<1>1. known \in Seq(Entry) /\ Len(known) \in Nat /\ DOMAIN known = 1 .. Len(known)
  BY DEF TypeOK
<1> DEFINE n == Len(known) + 1
<1>2. e.key \in Hosts /\ e = [key |-> e.key, name |-> e.name] /\ DOMAIN registered = Hosts
  BY DEF Entry, TypeOK
<1>3. /\ DOMAIN known' = 1 .. n /\ known'[n] = e
      /\ \A j \in 1 .. Len(known) : known'[j].key = known[j].key
      /\ \A j \in 1 .. Len(known) : known[j].key # e.key => known'[j].name = known[j].name
  <2>1. CASE known' = Append(known, e)
    BY <1>1, <2>1
  <2>2. ASSUME NEW i \in DOMAIN known, known[i].key = e.key,
               known' = Append([known EXCEPT ![i].name = e.name], e)
        PROVE  <1>3!:
    <3>1. known[i] \in Entry
      BY <1>1
    <3> DEFINE k == [known EXCEPT ![i].name = e.name]
    <3>2. k \in Seq(Entry) /\ Len(k) = Len(known)
      <4>1. [known[i] EXCEPT !.name = e.name] \in Entry
        BY <3>1 DEF Entry
      <4> QED
        BY <1>1, <4>1
    <3>3. \A j \in 1 .. Len(known) : k[j].key = known[j].key /\ (j # i => k[j] = known[j])
      BY <1>1, <3>1 DEF Entry
    <3>4. known' = Append(k, e)
      BY <2>2
    <3> HIDE DEF k
    <3> QED
      BY <1>1, <2>2, <3>2, <3>3, <3>4
  <2> QED
    BY <2>1, <2>2 DEF RegisterSimCore
<1> SUFFICES ASSUME NEW h \in Hosts, registered'[h] # None
             PROVE  \E i \in DOMAIN known' :
                      /\ known'[i].key = h
                      /\ \A j \in DOMAIN known' : known'[j].key = h => i <= j
                      /\ known'[i].name = registered'[h]
  BY DEF DirectoryIsCurrent
<1>4. CASE h # e.key
  <2>1. registered'[h] = registered[h]
    BY <1>4
  <2>2. PICK i \in DOMAIN known : /\ known[i].key = h
                                  /\ \A j \in DOMAIN known : known[j].key = h => i <= j
                                  /\ known[i].name = registered[h]
    BY <2>1 DEF DirectoryIsCurrent
  <2>3. \A j \in DOMAIN known' : known'[j].key = h => j \in 1 .. Len(known)
    BY <1>1, <1>3, <1>4
  <2> QED
    BY <1>1, <1>3, <1>4, <2>1, <2>2, <2>3
<1>5. CASE h = e.key
  <2>1. registered'[h] = e.name
    BY <1>2, <1>5
  <2>2. CASE {i \in DOMAIN known : known[i].key = e.key} = {}
    <3>1. \A j \in DOMAIN known' : known'[j].key = h => n <= j
      BY <1>1, <1>3, <1>5, <2>2
    <3>2. n \in DOMAIN known'
      BY <1>1, <1>3
    <3> QED
      BY <1>3, <1>5, <2>1, <3>1, <3>2
  <2>3. CASE {i \in DOMAIN known : known[i].key = e.key} # {}
    <3>1. PICK i \in DOMAIN known :
            /\ known[i].key = e.key
            /\ \A j \in DOMAIN known : known[j].key = e.key => i <= j
            /\ known' = Append([known EXCEPT ![i].name = e.name], e)
      BY <2>3 DEF RegisterSimCore
    <3>2. i \in 1 .. Len(known) /\ i \in DOMAIN known' /\ known'[i].key = h
      BY <1>1, <1>3, <1>5, <3>1
    <3>3. known'[i].name = e.name
      <4>1. known[i] \in Entry
        BY <1>1
      <4>2. [known[i] EXCEPT !.name = e.name] \in Entry
        BY <4>1 DEF Entry
      <4>3. [known EXCEPT ![i].name = e.name] \in Seq(Entry)
        BY <1>1, <4>2
      <4>4. known'[i] = [known[i] EXCEPT !.name = e.name]
        BY <1>1, <3>1, <3>2, <4>3
      <4> QED
        BY <4>1, <4>4 DEF Entry
    <3>4. \A j \in DOMAIN known' : known'[j].key = h => i <= j
      BY <1>1, <1>3, <1>5, <3>1, <3>2
    <3> QED
      BY <2>1, <3>2, <3>3, <3>4
  <2> QED
    BY <2>2, <2>3
<1> QED
  BY <1>4, <1>5

\* Whatever step the server takes, the directory stays current.
LEMMA DirectoryStep ==
  ASSUME WellFormed, TypeOK, DirectoryIsCurrent, [Next]_vars
  PROVE  DirectoryIsCurrent'
<1> USE DEF clientVars, handlerVars, dirVars, channelVars, startVars
<1>1. CASE UNCHANGED <<known, registered>>
  BY <1>1 DEF DirectoryIsCurrent
<1>2. CASE known' = Synced /\ UNCHANGED registered
  BY <1>2, SyncKeepsDirectory
<1>3. ASSUME NEW c \in Clients, NEW n, HandleRegister(c, n) PROVE DirectoryIsCurrent'
  <2> DEFINE e == [key |-> Request(c).key, name |-> Request(c).name]
  <2>1. e \in Entry
    BY <1>3, ReceiveIsTyped DEF HandleRegister, Entry, Hosts
  <2>2. RegisterSimCore(e) /\ registered' = [registered EXCEPT ![e.key] = e.name]
    BY <1>3 DEF HandleRegister
  <2> HIDE DEF e
  <2> QED
    BY <2>1, <2>2, RegisterKeepsDirectory
<1>4. ASSUME NEW c \in Clients, Handle(c) PROVE DirectoryIsCurrent'
  <2>1. \/ UNCHANGED <<known, registered>> \/ (known' = Synced /\ UNCHANGED registered)
        \/ \E n : HandleRegister(c, n)
    BY <1>4 DEF Handle, HandleEndOfStream, Return, HandleQuery, HandleMalformed,
                HandleSubscribeOut, HandleSubscribeIn, HandleDirectory, HandleRegisterStream
  <2> QED
    BY <1>1, <1>2, <1>3, <2>1
<1>5. CASE MainLoop
  BY <1>1, <1>2, <1>5 DEF MainLoop
<1>6. CASE UNCHANGED vars
  BY <1>1, <1>6 DEF vars
<1>7. CASE \E c \in Clients : Accept(c) \/ Leave(c) \/ ReceiveFrame(c)
                               \/ \E r \in Requests : SendRequest(c, r)
  <2>1. UNCHANGED <<known, registered>>
    BY <1>7 DEF Accept, Leave, ReceiveFrame, SendRequest
  <2> QED
    BY <1>1, <2>1
<1>8. CASE \/ \E ch \in OutChannels : \/ \E f \in Frames : PushFrame(ch, f)
                                      \/ OpenBus(ch) \/ AddGateway(ch) \/ SendFrame(ch)
           \/ \E ch \in InChannels : \/ RequestStart(ch)
                                     \/ \E id \in BusIds : ReceiveFromBus(ch, id)
  <2>1. UNCHANGED <<known, registered>>
    BY <1>8 DEF PushFrame, OpenBus, AddGateway, SendFrame, RequestStart, ReceiveFromBus
  <2> QED
    BY <1>1, <2>1
<1> QED
  BY <1>4, <1>5, <1>6, <1>7, <1>8 DEF Next

-----------------------------------------------------------------------------
(* Descriptors                                                             *)

\* Where a sender has a descriptor does not depend on anything else.
LEMMA PlacesKept ==
  ASSUME UNCHANGED <<outq, gateways>>
  PROVE  /\ \A ch, i, f : Queued(ch, i, f)' <=> Queued(ch, i, f)
         /\ \A ch, i, f : Listed(ch, i, f)' <=> Listed(ch, i, f)
         /\ \A ch : Places(ch)' = Places(ch)
         /\ \A f : HasSender(f)' <=> HasSender(f)
         /\ PlacesAreUnique' <=> PlacesAreUnique
BY DEF Queued, Listed, Places, HasSender, PlacesAreUnique

LEMMA SlotsAreTyped ==
  ASSUME TypeOK
  PROVE  \A i \in DOMAIN slots : slots[i] \in Slot
<1>1. slots \in Seq(Slot)
  BY DEF TypeOK, Slot
<1> QED
  BY <1>1

\* The entries a handler takes for its own are its own, as long as nobody
\* closed its descriptor.
LEMMA MineIsOwn ==
  ASSUME TypeOK, HandlersAreListed, NEW c \in Clients, handler[c] \in Live \cup {"returning"},
         None \notin Clients
  PROVE  /\ \A i \in DOMAIN slots : i \in Mine(c) <=> slots[i].active /\ slots[i].thread = c
         /\ Mine(c) # {}
<1>1. ASSUME NEW i \in DOMAIN slots, slots[i].active PROVE i \in Mine(c) <=> slots[i].thread = c
  <2> DEFINE d == slots[i].thread
  <2>1. d \in Clients /\ handler[d] \in Live \cup {"returning"} /\ slots[i].fd = sck[d]
    BY <1>1 DEF HandlersAreListed
  <2>2. sock[sck[d]] = d /\ sock[sck[c]] = c
    BY <2>1 DEF HandlersAreListed
  <2> QED
    BY <1>1, <2>1, <2>2 DEF Mine
<1>2. \A i \in DOMAIN slots : i \in Mine(c) => slots[i].active
  BY DEF Mine
<1>3. \E i \in DOMAIN slots : slots[i].active /\ slots[i].thread = c
  BY DEF HandlersAreListed
<1> QED
  BY <1>1, <1>2, <1>3

\* A thread that changes its place among the serving ones.
LEMMA ServingKeepsOwners ==
  ASSUME TypeOK, OwnInv, NEW c \in Clients, handler[c] \in Live, NEW l \in Live,
         handler' = [handler EXCEPT ![c] = l],
         UNCHANGED <<peer, sock, sck, stuck, slots, outq, gateways>>
  PROVE  OwnInv'
<1>1. HandlersAreListed'
  BY DEF OwnInv, HandlersAreListed, TypeOK, Ended, Live
<1>2. SocketsAreKnown'
  BY DEF OwnInv, SocketsAreKnown, TypeOK, Live
<1>3. SendersHaveTheRest'
  BY PlacesKept DEF OwnInv, SendersHaveTheRest, TypeOK, Live
<1> QED
  BY <1>1, <1>2, <1>3, PlacesKept DEF OwnInv

\* A step that concerns no descriptor.
LEMMA OthersKeepOwners ==
  ASSUME OwnInv, UNCHANGED <<sock, handler, sck, stuck, slots, outq, gateways>>,
         \A c \in Clients : peer'[c] = "idle" => peer[c] = "idle"
  PROVE  OwnInv'
<1>1. HandlersAreListed'
  BY DEF OwnInv, HandlersAreListed, Ended
<1>2. SocketsAreKnown'
  BY DEF OwnInv, SocketsAreKnown
<1>3. SendersHaveTheRest'
  BY PlacesKept DEF OwnInv, SendersHaveTheRest
<1> QED
  BY <1>1, <1>2, <1>3, PlacesKept DEF OwnInv

\* A handler that ends and closes its descriptor.
LEMMA ClosingKeepsOwners ==
  ASSUME WellFormed, TypeOK, OwnInv, NEW c \in Clients, handler[c] = "reading",
         Cleanup(c, TRUE), UNCHANGED <<peer, outq, gateways>>
  PROVE  OwnInv'
<1> DEFINE f == sck[c]
<1>1. /\ handler[c] \in Live \cup {"returning"} /\ None \notin Clients
      /\ f \in Fds /\ sock[f] = c
  BY DEF OwnInv, HandlersAreListed, Live, WellFormed
<1>2. /\ \A i \in DOMAIN slots : i \in Mine(c) <=> slots[i].active /\ slots[i].thread = c
      /\ Mine(c) # {}
  BY <1>1, MineIsOwn DEF OwnInv
<1>3. /\ handler' = [handler EXCEPT ![c] = "ended"] /\ sock' = [sock EXCEPT ![f] = None]
      /\ DOMAIN slots' = DOMAIN slots /\ UNCHANGED <<sck, stuck>>
      /\ \A i \in DOMAIN slots : /\ slots'[i].thread = slots[i].thread
                                 /\ slots'[i].active <=> slots[i].active /\ slots[i].thread # c
                                 /\ slots'[i].active => slots'[i].fd = slots[i].fd
  <2>1. \A i \in DOMAIN slots : slots[i] \in Slot
    BY SlotsAreTyped
  <2>2. \A i \in DOMAIN slots : i \notin Mine(c) => slots'[i] = slots[i]
    BY DEF Cleanup
  <2>3. \A i \in Mine(c) : slots'[i].thread = slots[i].thread /\ slots'[i].active = FALSE
    BY <2>1 DEF Cleanup, Mine, Slot
  <2> QED
    BY <1>2, <2>1, <2>2, <2>3 DEF Cleanup, Slot
<1>4. HandlersAreListed'
  <2>1. \A d \in Clients : d # c => handler'[d] = handler[d]
    BY <1>3 DEF TypeOK
  <2>2. handler'[c] = "ended"
    BY <1>3 DEF TypeOK
  <2>3. \A i \in DOMAIN slots' :
          /\ slots'[i].active => /\ slots'[i].thread \in Clients
                                 /\ handler'[slots'[i].thread] \in Live \cup {"returning"}
                                 /\ slots'[i].fd = sck'[slots'[i].thread]
          /\ i \in Ended' => handler'[slots'[i].thread] = "ended"
    BY <1>2, <1>3, <2>1, <2>2 DEF OwnInv, HandlersAreListed, Ended
  <2>4. \A d \in Clients : handler'[d] \in Live \cup {"returning"} =>
          /\ sck'[d] \in Fds /\ sock'[sck'[d]] = d
          /\ \E i \in DOMAIN slots' : slots'[i].active /\ slots'[i].thread = d
    <3> SUFFICES ASSUME NEW d \in Clients, handler'[d] \in Live \cup {"returning"}
                 PROVE  /\ sck'[d] \in Fds /\ sock'[sck'[d]] = d
                        /\ \E i \in DOMAIN slots' : slots'[i].active /\ slots'[i].thread = d
      OBVIOUS
    <3>1. d # c /\ handler[d] \in Live \cup {"returning"}
      BY <2>1, <2>2 DEF Live
    <3>2. sck[d] \in Fds /\ sock[sck[d]] = d /\ sck[d] # f
      BY <1>1, <3>1 DEF OwnInv, HandlersAreListed
    <3>3. PICK i \in DOMAIN slots : slots[i].active /\ slots[i].thread = d
      BY <3>1 DEF OwnInv, HandlersAreListed
    <3> QED
      BY <1>3, <3>1, <3>2, <3>3 DEF TypeOK
  <2>5. \A i, j \in DOMAIN slots' :
          (slots'[i].active /\ slots'[j].active /\ slots'[i].thread = slots'[j].thread) => i = j
    BY <1>3 DEF OwnInv, HandlersAreListed
  <2> QED
    BY <1>3, <2>3, <2>4, <2>5 DEF OwnInv, HandlersAreListed
<1>5. SocketsAreKnown'
  BY <1>1, <1>3 DEF OwnInv, SocketsAreKnown, TypeOK, WellFormed
<1>6. SendersHaveTheRest'
  <2> SUFFICES ASSUME NEW g \in Fds
               PROVE  HasSender(g) <=>
                        sock'[g] # None /\ handler'[sock'[g]] \in {"returning", "ended"}
    BY PlacesKept DEF SendersHaveTheRest
  <2>1. CASE g = f
    BY <1>1, <1>3, <2>1 DEF OwnInv, SendersHaveTheRest, TypeOK
  <2>2. CASE g # f
    <3>1. sock'[g] = sock[g] /\ (sock[g] # None => sock[g] # c)
      BY <1>1, <1>3, <2>2 DEF OwnInv, SocketsAreKnown, TypeOK
    <3> QED
      BY <1>3, <3>1 DEF OwnInv, SendersHaveTheRest, TypeOK
  <2> QED
    BY <2>1, <2>2
<1> QED
  BY <1>4, <1>5, <1>6, PlacesKept DEF OwnInv

\* A handler that ends after it gave its descriptor away.
LEMMA ReturnKeepsOwners ==
  ASSUME WellFormed, TypeOK, OwnInv, NEW c \in Clients, Return(c)
  PROVE  OwnInv'
<1> USE DEF clientVars, channelVars
<1>1. /\ handler[c] \in Live \cup {"returning"} /\ None \notin Clients
      /\ UNCHANGED <<peer, outq, gateways>> /\ handler[c] = "returning"
  BY DEF Return, WellFormed
<1>2. \A i \in DOMAIN slots : i \in Mine(c) <=> slots[i].active /\ slots[i].thread = c
  BY <1>1, MineIsOwn DEF OwnInv
<1>3. /\ handler' = [handler EXCEPT ![c] = "ended"] /\ sock' = sock
      /\ DOMAIN slots' = DOMAIN slots /\ UNCHANGED <<sck, stuck>>
      /\ \A i \in DOMAIN slots : /\ slots'[i].thread = slots[i].thread
                                 /\ slots'[i].active <=> slots[i].active /\ slots[i].thread # c
                                 /\ slots'[i].active => slots'[i].fd = slots[i].fd
  <2>1. \A i \in DOMAIN slots : slots[i] \in Slot
    BY SlotsAreTyped
  <2>2. \A i \in DOMAIN slots : i \notin Mine(c) => slots'[i] = slots[i]
    BY DEF Return, Cleanup
  <2>3. \A i \in Mine(c) : slots'[i].thread = slots[i].thread /\ slots'[i].active = FALSE
    BY <2>1 DEF Return, Cleanup, Mine, Slot
  <2> QED
    BY <1>2, <2>1, <2>2, <2>3 DEF Return, Cleanup, Slot
<1>4. handler'[c] = "ended" /\ \A d \in Clients : d # c => handler'[d] = handler[d]
  BY <1>3 DEF TypeOK
<1>5. HandlersAreListed'
  <2>1. \A i \in DOMAIN slots' :
          /\ slots'[i].active => /\ slots'[i].thread \in Clients
                                 /\ handler'[slots'[i].thread] \in Live \cup {"returning"}
                                 /\ slots'[i].fd = sck'[slots'[i].thread]
          /\ i \in Ended' => handler'[slots'[i].thread] = "ended"
    BY <1>3, <1>4 DEF OwnInv, HandlersAreListed, Ended
  <2>2. \A d \in Clients : handler'[d] \in Live \cup {"returning"} =>
          /\ sck'[d] \in Fds /\ sock'[sck'[d]] = d
          /\ \E i \in DOMAIN slots' : slots'[i].active /\ slots'[i].thread = d
    <3> SUFFICES ASSUME NEW d \in Clients, handler'[d] \in Live \cup {"returning"}
                 PROVE  /\ sck'[d] \in Fds /\ sock'[sck'[d]] = d
                        /\ \E i \in DOMAIN slots' : slots'[i].active /\ slots'[i].thread = d
      OBVIOUS
    <3>1. d # c /\ handler[d] \in Live \cup {"returning"}
      BY <1>4 DEF Live
    <3>2. sck[d] \in Fds /\ sock[sck[d]] = d
      BY <3>1 DEF OwnInv, HandlersAreListed
    <3>3. PICK i \in DOMAIN slots : slots[i].active /\ slots[i].thread = d
      BY <3>1 DEF OwnInv, HandlersAreListed
    <3> QED
      BY <1>3, <3>1, <3>2, <3>3
  <2>3. \A i, j \in DOMAIN slots' :
          (slots'[i].active /\ slots'[j].active /\ slots'[i].thread = slots'[j].thread) => i = j
    BY <1>3 DEF OwnInv, HandlersAreListed
  <2> QED
    BY <1>3, <2>1, <2>2, <2>3 DEF OwnInv, HandlersAreListed
<1>6. SocketsAreKnown'
  BY <1>1, <1>3, <1>4 DEF OwnInv, SocketsAreKnown, TypeOK
<1>7. SendersHaveTheRest'
  BY <1>1, <1>3, <1>4, PlacesKept DEF OwnInv, SendersHaveTheRest, TypeOK
<1> QED
  BY <1>1, <1>5, <1>6, <1>7, PlacesKept DEF OwnInv

\* Entry k is new, and the others are the old ones, joined or not.
Added(k, e) ==
  /\ slots'[k] = e
  /\ \A i \in DOMAIN slots : slots[i].active => i \in DOMAIN slots' /\ slots'[i] = slots[i]
  /\ \A i \in DOMAIN slots' : slots'[i].active => i = k \/ (i \in DOMAIN slots /\ slots[i].active)
  /\ \A i \in DOMAIN slots' : i \in Ended' => i \in Ended
  /\ \A i \in DOMAIN slots' \cap DOMAIN slots :
       i # k => slots'[i] = slots[i] \/ slots'[i].thread = None
  /\ k \in DOMAIN slots => ~slots[k].active

\* The new entry takes the place of no active one.
LEMMA RegisterAdds ==
  ASSUME TypeOK, NEW c \in Clients, NEW f \in Fds, Register(c, f)
  PROVE  \E k \in DOMAIN slots' : Added(k, [thread |-> c, active |-> TRUE, fd |-> f])
<1> DEFINE e == [thread |-> c, active |-> TRUE, fd |-> f]
<1>1. slots \in Seq(Slot) /\ e \in Slot /\ \A i \in DOMAIN slots : slots[i] \in Slot
  BY SlotsAreTyped DEF TypeOK, Slot
<1>2. Len(slots) \in Nat /\ DOMAIN slots = 1 .. Len(slots)
  BY <1>1
<1>3. CASE slots' = Append(slots, e) /\ Ended = {}
  <2> DEFINE n == Len(slots) + 1
  <2>1. DOMAIN slots' = 1 .. n /\ slots'[n] = e /\ \A i \in 1 .. Len(slots) : slots'[i] = slots[i]
    BY <1>1, <1>2, <1>3
  <2>2. \A i \in DOMAIN slots' : i = n \/ i \in DOMAIN slots
    BY <1>2, <2>1
  <2>3. n \in DOMAIN slots' /\ n \notin DOMAIN slots /\ DOMAIN slots \subseteq DOMAIN slots'
    BY <1>2, <2>1
  <2>4. e.active
    OBVIOUS
  <2>5. \A i \in DOMAIN slots' : i \in Ended' => i \in Ended
    BY <1>2, <2>1, <2>2, <2>4 DEF Ended
  <2> HIDE DEF n, e
  <2>6. \A i \in DOMAIN slots : slots'[i] = slots[i]
    BY <1>2, <2>1
  <2>7. Added(n, e)
    BY <2>1, <2>2, <2>3, <2>5, <2>6, Zenon DEF Added
  <2> QED
    BY <2>3, <2>7 DEF e
<1>4. ASSUME NEW k \in Ended, slots' = [Joined EXCEPT ![k] = e]
      PROVE  Added(k, e) /\ k \in DOMAIN slots'
  <2>1. DOMAIN slots' = DOMAIN slots /\ k \in DOMAIN slots /\ slots'[k] = e /\ ~slots[k].active
    BY <1>4 DEF Joined, Ended
  <2>2. \A i \in DOMAIN slots : i # k =>
          slots'[i] = IF i \in Ended THEN [slots[i] EXCEPT !.thread = None] ELSE slots[i]
    BY <1>4 DEF Joined
  <2>3. \A i \in DOMAIN slots : i # k =>
          /\ slots[i].active => slots'[i] = slots[i]
          /\ slots'[i].active => slots[i].active
          /\ i \in Ended' => i \in Ended
          /\ slots'[i] = slots[i] \/ slots'[i].thread = None
    BY <1>1, <2>1, <2>2 DEF Ended, Slot
  <2> HIDE DEF e
  <2> QED
    BY <2>1, <2>3 DEF Added
<1> QED
  BY <1>3, <1>4 DEF Register

\* A new connection gets a descriptor nobody has, and an entry nobody uses.
LEMMA AcceptKeepsOwners ==
  ASSUME WellFormed, TypeOK, OwnInv, NEW c \in Clients, Accept(c)
  PROVE  OwnInv'
<1> USE DEF channelVars
<1>1. \A i \in Ended : handler[slots[i].thread] = "ended"
  BY DEF OwnInv, HandlersAreListed, Ended
<1>2. PICK f \in Fds :
        /\ sock[f] = None /\ sock' = [sock EXCEPT ![f] = c] /\ Register(c, f)
        /\ handler' = [handler EXCEPT ![c] = "reading"] /\ sck' = [sck EXCEPT ![c] = f]
        /\ UNCHANGED <<stuck, outq, gateways>>
  BY <1>1 DEF Accept, FreeFds
<1>3. peer[c] = "idle" /\ handler[c] = "none" /\ peer' = [peer EXCEPT ![c] = "open"]
  BY DEF Accept, OwnInv, SocketsAreKnown
<1>4. /\ handler'[c] = "reading" /\ sck'[c] = f /\ sock'[f] = c
      /\ \A d \in Clients : d # c => handler'[d] = handler[d] /\ sck'[d] = sck[d]
      /\ \A g \in Fds : g # f => sock'[g] = sock[g]
  BY <1>2 DEF TypeOK
<1>5. PICK k \in DOMAIN slots' : Added(k, [thread |-> c, active |-> TRUE, fd |-> f])
  BY <1>2, RegisterAdds
<1>6. HandlersAreListed'
  <2>1. \A i \in DOMAIN slots : slots[i].active => slots[i].thread # c
    BY <1>3 DEF OwnInv, HandlersAreListed, Live
  <2>2. \A i \in DOMAIN slots' :
          slots'[i].active => /\ slots'[i].thread \in Clients
                              /\ handler'[slots'[i].thread] \in Live \cup {"returning"}
                              /\ slots'[i].fd = sck'[slots'[i].thread]
    BY <1>4, <1>5, <2>1 DEF Added, OwnInv, HandlersAreListed, Live
  <2>3. \A i, j \in DOMAIN slots' :
          (slots'[i].active /\ slots'[j].active /\ slots'[i].thread = slots'[j].thread) => i = j
    BY <1>5, <2>1 DEF Added, OwnInv, HandlersAreListed
  <2>4. \A i \in DOMAIN slots' : i \in Ended' => handler'[slots'[i].thread] = "ended"
    <3> SUFFICES ASSUME NEW i \in DOMAIN slots', i \in Ended'
                 PROVE  handler'[slots'[i].thread] = "ended"
      OBVIOUS
    <3>1. i \in Ended /\ i \in DOMAIN slots /\ slots'[i].thread # None /\ i # k
      BY <1>5 DEF Added, Ended
    <3>2. slots'[i] = slots[i] /\ handler[slots[i].thread] = "ended" /\ slots[i] \in Slot
      BY <1>1, <1>5, <3>1, SlotsAreTyped DEF Added
    <3> QED
      BY <1>3, <1>4, <3>1, <3>2 DEF Slot
  <2>5. \A d \in Clients : handler'[d] \in Live \cup {"returning"} =>
          /\ sck'[d] \in Fds /\ sock'[sck'[d]] = d
          /\ \E i \in DOMAIN slots' : slots'[i].active /\ slots'[i].thread = d
    <3> SUFFICES ASSUME NEW d \in Clients, handler'[d] \in Live \cup {"returning"}
                 PROVE  /\ sck'[d] \in Fds /\ sock'[sck'[d]] = d
                        /\ \E i \in DOMAIN slots' : slots'[i].active /\ slots'[i].thread = d
      OBVIOUS
    <3>1. CASE d = c
      BY <1>4, <1>5, <3>1 DEF Added
    <3>2. CASE d # c
      <4>1. sck[d] \in Fds /\ sock[sck[d]] = d /\ sck[d] # f
        BY <1>2, <1>4, <3>2 DEF OwnInv, HandlersAreListed, WellFormed
      <4>2. PICK i \in DOMAIN slots : slots[i].active /\ slots[i].thread = d
        BY <1>4, <3>2 DEF OwnInv, HandlersAreListed
      <4> QED
        BY <1>4, <1>5, <3>2, <4>1, <4>2 DEF Added
    <3> QED
      BY <3>1, <3>2
  <2> QED
    BY <1>2, <2>2, <2>3, <2>4, <2>5 DEF OwnInv, HandlersAreListed
<1>7. SocketsAreKnown'
  BY <1>3, <1>4 DEF OwnInv, SocketsAreKnown, TypeOK, WellFormed
<1>8. SendersHaveTheRest'
  <2> SUFFICES ASSUME NEW g \in Fds
               PROVE  HasSender(g) <=>
                        sock'[g] # None /\ handler'[sock'[g]] \in {"returning", "ended"}
    BY <1>2, PlacesKept DEF SendersHaveTheRest
  <2>1. CASE g = f
    BY <1>2, <1>4, <2>1 DEF OwnInv, SendersHaveTheRest
  <2>2. CASE g # f
    <3>1. sock'[g] = sock[g] /\ (sock[g] # None => sock[g] # c /\ sock[g] \in Clients)
      BY <1>3, <1>4, <2>2 DEF OwnInv, SocketsAreKnown, TypeOK
    <3> QED
      BY <1>4, <3>1 DEF OwnInv, SendersHaveTheRest
  <2> QED
    BY <2>1, <2>2
<1> QED
  BY <1>2, <1>6, <1>7, <1>8, PlacesKept DEF OwnInv

\* A place is a position of a queue or of a list, so any position will do.
Pos == Nat \ {0}
Somewhere(f) ==
  \E ch \in OutChannels : \E i \in Pos : Queued(ch, i, f) \/ Listed(ch, i, f)
Apart(f) ==
  \A ch, dh \in OutChannels : \A i, j \in Pos :
    /\ Queued(ch, i, f) /\ Queued(dh, j, f) => ch = dh /\ i = j
    /\ Listed(ch, i, f) /\ Listed(dh, j, f) => ch = dh /\ i = j
    /\ ~ (Queued(ch, i, f) /\ Listed(dh, j, f))

LEMMA PlacesArePositions ==
  ASSUME TypeOK
  PROVE  /\ \A ch \in OutChannels : Places(ch) \subseteq Pos
         /\ \A ch \in OutChannels : \A i \in Pos : \A f :
              Queued(ch, i, f) \/ Listed(ch, i, f) => i \in Places(ch)
         /\ \A f : HasSender(f) <=> Somewhere(f)
         /\ PlacesAreUnique <=> \A f \in Fds : Apart(f)
<1>1. ASSUME NEW ch \in OutChannels
      PROVE  /\ DOMAIN outq[ch] = 1 .. Len(outq[ch]) /\ Len(outq[ch]) \in Nat
             /\ DOMAIN gateways[ch] = 1 .. Len(gateways[ch]) /\ Len(gateways[ch]) \in Nat
  BY DEF TypeOK
<1>2. \A ch \in OutChannels : Places(ch) \subseteq Pos
  BY <1>1 DEF Places, Pos
<1>3. \A ch, i, f : Queued(ch, i, f) \/ Listed(ch, i, f) => i \in Places(ch)
  BY DEF Queued, Listed, Places
<1>4. \A f : HasSender(f) <=> Somewhere(f)
  BY <1>2, <1>3, Zenon DEF HasSender, Somewhere
<1>5. PlacesAreUnique <=> \A f \in Fds : Apart(f)
  BY <1>2, <1>3, SMT DEF PlacesAreUnique, Apart
<1> QED
  BY <1>2, <1>3, <1>4, <1>5

\* A message at the end of a queue.
LEMMA AppendPlaces ==
  ASSUME TypeOK, NEW c0 \in OutChannels, NEW m \in Waiting,
         outq' = [outq EXCEPT ![c0] = Append(@, m)], UNCHANGED gateways
  PROVE  /\ \A ch, i, f : Listed(ch, i, f)' <=> Listed(ch, i, f)
         /\ Len(outq[c0]) + 1 \in Pos
         /\ \A ch \in OutChannels : \A i \in Pos : \A f :
              Queued(ch, i, f)' <=>
                \/ Queued(ch, i, f)
                \/ ch = c0 /\ i = Len(outq[c0]) + 1 /\ m.kind = "gateway" /\ m.fd = f
         /\ \A f : ~ Queued(c0, Len(outq[c0]) + 1, f)
<1>1. outq[c0] \in Seq(Waiting) /\ Len(outq[c0]) \in Nat /\ DOMAIN outq[c0] = 1 .. Len(outq[c0])
  BY DEF TypeOK, Waiting
<1>2. outq'[c0] = Append(outq[c0], m) /\ \A ch \in OutChannels : ch # c0 => outq'[ch] = outq[ch]
  BY DEF TypeOK
<1> DEFINE n == Len(outq[c0]) + 1
<1>3. /\ DOMAIN outq'[c0] = 1 .. n /\ outq'[c0][n] = m
      /\ \A i \in 1 .. Len(outq[c0]) : outq'[c0][i] = outq[c0][i]
  BY <1>1, <1>2
<1>4. \A i : i \in DOMAIN outq'[c0] <=> i \in DOMAIN outq[c0] \/ i = n
  BY <1>1, <1>3
<1>5. n \notin DOMAIN outq[c0] /\ n \in Pos
  BY <1>1 DEF Pos
<1>6. \A i \in DOMAIN outq[c0] : outq'[c0][i] = outq[c0][i]
  BY <1>1, <1>3
<1> HIDE DEF n
<1>7. \A i, f : Queued(c0, i, f)' <=>
                  Queued(c0, i, f) \/ (i = n /\ m.kind = "gateway" /\ m.fd = f)
  BY <1>3, <1>4, <1>5, <1>6 DEF Queued
<1>8. \A ch \in OutChannels : \A i, f : ch # c0 => (Queued(ch, i, f)' <=> Queued(ch, i, f))
  BY <1>2 DEF Queued
<1>9. \A ch, i, f : Listed(ch, i, f)' <=> Listed(ch, i, f)
  BY DEF Listed
<1>10. \A f : ~ Queued(c0, n, f)
  BY <1>5 DEF Queued
<1> QED
  BY <1>5, <1>7, <1>8, <1>9, <1>10 DEF n

\* The first message leaves a queue.
LEMMA TailPlaces ==
  ASSUME TypeOK, NEW c0 \in OutChannels, outq[c0] # <<>>,
         outq' = [outq EXCEPT ![c0] = Tail(@)]
  PROVE  /\ \A ch \in OutChannels : \A i \in Pos : \A f :
              Queued(ch, i, f)' <=> Queued(ch, IF ch = c0 THEN i + 1 ELSE i, f)
         /\ \A f : Queued(c0, 1, f) <=> Head(outq[c0]).kind = "gateway" /\ Head(outq[c0]).fd = f
<1>1. outq[c0] \in Seq(Waiting) /\ Len(outq[c0]) \in Nat \ {0}
  BY DEF TypeOK, Waiting
<1>2. outq'[c0] = Tail(outq[c0]) /\ \A ch \in OutChannels : ch # c0 => outq'[ch] = outq[ch]
  BY DEF TypeOK
<1>3. \A i \in Pos : /\ i \in DOMAIN outq'[c0] <=> i + 1 \in DOMAIN outq[c0]
                     /\ i \in DOMAIN outq'[c0] => outq'[c0][i] = outq[c0][i + 1]
  <2> DEFINE s == outq[c0]
             t == outq'[c0]
  <2>1. s \in Seq(Waiting) /\ Len(s) \in Nat \ {0} /\ t = Tail(s)
    BY <1>1, <1>2
  <2> HIDE DEF s, t
  <2>2. Len(t) = Len(s) - 1 /\ DOMAIN t = 1 .. Len(s) - 1 /\ DOMAIN s = 1 .. Len(s)
    BY <2>1
  <2>3. \A i \in 1 .. Len(s) - 1 : t[i] = s[i + 1]
    BY <2>1
  <2>4. \A i \in Pos : i \in DOMAIN t <=> i + 1 \in DOMAIN s
    BY <2>1, <2>2 DEF Pos
  <2> QED
    BY <2>2, <2>3, <2>4 DEF s, t
<1>4. 1 \in DOMAIN outq[c0] /\ Head(outq[c0]) = outq[c0][1]
  BY <1>1
<1>5. \A i \in Pos : \A f : Queued(c0, i, f)' <=> Queued(c0, i + 1, f)
  BY <1>3 DEF Queued
<1>6. \A ch \in OutChannels : \A i, f : ch # c0 => (Queued(ch, i, f)' <=> Queued(ch, i, f))
  BY <1>2 DEF Queued
<1>7. \A f : Queued(c0, 1, f) <=> Head(outq[c0]).kind = "gateway" /\ Head(outq[c0]).fd = f
  BY <1>4 DEF Queued
<1> QED
  BY <1>5, <1>6, <1>7

Positioned ==
  /\ \A f : HasSender(f) <=> Somewhere(f)
  /\ PlacesAreUnique <=> \A f \in Fds : Apart(f)

LEMMA PositionsLater == TypeOK' => Positioned'
<1>1. TypeOK => Positioned
  BY PlacesArePositions DEF Positioned
<1> QED
  BY <1>1, PTL

\* What the senders have, in terms of positions, and the rest of the invariant.
LEMMA OwnFromPlaces ==
  ASSUME TypeOK', HandlersAreListed', SocketsAreKnown', \A f \in Fds : Apart(f)',
         \A f \in Fds : Somewhere(f)' <=>
           sock'[f] # None /\ handler'[sock'[f]] \in {"returning", "ended"}
  PROVE  OwnInv'
<1>1. (\A f : HasSender(f)' <=> Somewhere(f)') /\ (PlacesAreUnique' <=> \A f \in Fds : Apart(f)')
  BY PositionsLater DEF Positioned
<1> QED
  BY <1>1 DEF OwnInv, SendersHaveTheRest

\* A handler gives its descriptor to a sender that does not have it.
LEMMA SubscribeKeepsOwners ==
  ASSUME WellFormed, TypeOK, TypeOK', OwnInv, NEW c \in Clients, NEW n, HandleSubscribeOut(c, n)
  PROVE  OwnInv'
<1> DEFINE f == sck[c]
           m == [kind |-> "gateway", fd |-> f]
<1>1. PICK q \in OutChannels : q = Request(c).channel
  BY ReceiveIsTyped DEF HandleSubscribeOut, WellFormed
<1>2. /\ handler[c] = "reading" /\ handler' = [handler EXCEPT ![c] = "returning"]
      /\ outq' = [outq EXCEPT ![q] = Append(@, m)]
      /\ UNCHANGED <<peer, slots, sock, sck, stuck, gateways>>
  BY <1>1 DEF HandleSubscribeOut, Receive
<1>3. f \in Fds /\ sock[f] = c /\ m \in Waiting /\ m.kind = "gateway" /\ m.fd = f
  BY <1>2 DEF OwnInv, HandlersAreListed, Live, Waiting
<1>4. handler'[c] = "returning" /\ \A d \in Clients : d # c => handler'[d] = handler[d]
  BY <1>2 DEF TypeOK
<1>5. HandlersAreListed'
  BY <1>2, <1>4 DEF OwnInv, HandlersAreListed, Ended, Live
<1>6. SocketsAreKnown'
  BY <1>2, <1>4 DEF OwnInv, SocketsAreKnown, TypeOK
<1> HIDE DEF f, m
<1>7. PICK k \in Pos :
      /\ \A ch, i, g : Listed(ch, i, g)' <=> Listed(ch, i, g)
      /\ \A ch \in OutChannels : \A i \in Pos : \A g :
           Queued(ch, i, g)' <=> Queued(ch, i, g) \/ (ch = q /\ i = k /\ g = f)
  <2> DEFINE n1 == Len(outq[q]) + 1
  <2>1. /\ \A ch, i, g : Listed(ch, i, g)' <=> Listed(ch, i, g)
        /\ n1 \in Pos
        /\ \A ch \in OutChannels : \A i \in Pos : \A g :
             Queued(ch, i, g)' <=>
               Queued(ch, i, g) \/ (ch = q /\ i = n1 /\ m.kind = "gateway" /\ m.fd = g)
    BY <1>2, <1>3, AppendPlaces
  <2> HIDE DEF n1
  <2>2. \A ch \in OutChannels : \A i \in Pos : \A g :
          Queued(ch, i, g)' <=> Queued(ch, i, g) \/ (ch = q /\ i = n1 /\ g = f)
    BY <1>3, <2>1
  <2> QED
    BY <2>1, <2>2
<1>8. /\ \A g \in Fds : Apart(g)
      /\ \A g \in Fds : Somewhere(g) <=>
           sock[g] # None /\ handler[sock[g]] \in {"returning", "ended"}
  BY PlacesArePositions DEF OwnInv, SendersHaveTheRest
<1>9. ~ Somewhere(f)
  BY <1>2, <1>3, <1>8
<1>10. ASSUME NEW g \in Fds PROVE Apart(g)'
  <2>1. CASE g = f
    BY <1>7, <1>9, <2>1 DEF Apart, Somewhere
  <2>2. CASE g # f
    BY <1>7, <1>8, <2>2 DEF Apart
  <2> QED
    BY <2>1, <2>2
<1>11. ASSUME NEW g \in Fds
       PROVE  Somewhere(g)' <=> sock'[g] # None /\ handler'[sock'[g]] \in {"returning", "ended"}
  <2>1. CASE g = f
    <3>1. Queued(q, k, g)'
      BY <1>1, <1>7, <2>1
    <3>2. Somewhere(g)'
      BY <1>1, <1>7, <3>1 DEF Somewhere
    <3> QED
      BY <1>2, <1>3, <1>4, <2>1, <3>2 DEF WellFormed
  <2>2. CASE g # f
    <3>1. Somewhere(g)' <=> Somewhere(g)
      BY <1>7, <2>2 DEF Somewhere
    <3>2. sock'[g] = sock[g] /\ (sock[g] # None => sock[g] \in Clients \ {c})
      BY <1>2, <2>2 DEF OwnInv, SocketsAreKnown, TypeOK, f
    <3> QED
      BY <1>4, <1>8, <3>1, <3>2
  <2> QED
    BY <2>1, <2>2
<1> QED
  BY <1>5, <1>6, <1>10, <1>11, OwnFromPlaces

\* A frame that is queued concerns no descriptor.
LEMMA PushKeepsOwners ==
  ASSUME WellFormed, TypeOK, TypeOK', OwnInv, NEW q \in OutChannels, NEW x \in Frames,
         PushFrame(q, x)
  PROVE  OwnInv'
<1> USE DEF clientVars, handlerVars
<1>1. /\ UNCHANGED <<peer, handler, slots, sock, sck, stuck, gateways>>
      /\ outq' = [outq EXCEPT ![q] = Append(@, x)] /\ x \in Waiting /\ x.kind = "frame"
  BY DEF PushFrame, Waiting, Frames
<1>2. HandlersAreListed' /\ SocketsAreKnown'
  BY <1>1 DEF OwnInv, HandlersAreListed, SocketsAreKnown, Ended
<1>3. /\ \A ch, i, g : Listed(ch, i, g)' <=> Listed(ch, i, g)
      /\ \A ch \in OutChannels : \A i \in Pos : \A g : Queued(ch, i, g)' <=> Queued(ch, i, g)
  BY <1>1, AppendPlaces
<1>4. \A g : (Somewhere(g)' <=> Somewhere(g)) /\ (Apart(g)' <=> Apart(g))
  BY <1>3 DEF Somewhere, Apart
<1>5. /\ \A g \in Fds : Apart(g)
      /\ \A g \in Fds : Somewhere(g) <=>
           sock[g] # None /\ handler[sock[g]] \in {"returning", "ended"}
  BY PlacesArePositions DEF OwnInv, SendersHaveTheRest
<1> QED
  BY <1>1, <1>2, <1>4, <1>5, OwnFromPlaces

\* The sender takes a descriptor from its queue to its list.
LEMMA AddPlaces ==
  ASSUME WellFormed, TypeOK, NEW q \in OutChannels, AddGateway(q), \A g \in Fds : Apart(g)
  PROVE  /\ \A g \in Fds : Apart(g)' /\ (Somewhere(g)' <=> Somewhere(g))
         /\ \A ch \in OutChannels : \A i \in Pos, g \in Fds :
              /\ Queued(ch, i, g)' => \E j \in Pos : Queued(ch, j, g)
              /\ Listed(ch, i, g)' => Listed(ch, i, g) \/ \E j \in Pos : Queued(ch, j, g)
<1> USE DEF clientVars, handlerVars
<1>1. /\ outq[q] # <<>> /\ outq' = [outq EXCEPT ![q] = Tail(@)]
      /\ Head(outq[q]).kind = "gateway"
  BY DEF AddGateway
<1>3. PICK f \in Fds : f = Head(outq[q]).fd
  <2>1. outq[q] \in Seq(Waiting)
    BY DEF TypeOK, Waiting
  <2>2. Head(outq[q]) \in Waiting
    BY <1>1, <2>1
  <2> QED
    BY <1>1, <2>2 DEF Waiting, Frames
<1>4. /\ \A ch \in OutChannels : \A i \in Pos : \A g :
           Queued(ch, i, g)' <=> Queued(ch, IF ch = q THEN i + 1 ELSE i, g)
      /\ \A g : Queued(q, 1, g) <=> g = f
  BY <1>1, <1>3, TailPlaces
<1>5. \A g \in Fds : Apart(g)
  OBVIOUS
<1>6. 1 \in Pos /\ \A i \in Pos : i + 1 \in Pos
  BY DEF Pos
<1>7. \A i \in DOMAIN gateways[q] : gateways[q][i] # f
  <2> SUFFICES ASSUME NEW i \in DOMAIN gateways[q], gateways[q][i] = f PROVE FALSE
    OBVIOUS
  <2>1. Listed(q, i, f) /\ i \in Pos
    BY DEF Listed, TypeOK, Pos
  <2> QED
    BY <1>4, <1>5, <1>6, <2>1 DEF Apart
<1>8. PICK k \in Pos : \A ch \in OutChannels : \A i \in Pos, g \in Fds :
        Listed(ch, i, g)' <=> Listed(ch, i, g) \/ (ch = q /\ i = k /\ g = f)
  <2> DEFINE gs == gateways[q]
  <2>1. gs \in Seq(Fds \cup {0}) /\ Len(gs) \in Nat /\ DOMAIN gs = 1 .. Len(gs)
    BY DEF TypeOK
  <2>2. f \notin ToSet(gs)
    BY <1>7 DEF ToSet
  <2>3. 0 \notin Fds
    BY DEF WellFormed
  <2>4. CASE gateways' = [gateways EXCEPT ![q] = Append(@, f)]
    <3> DEFINE n == Len(gs) + 1
    <3>1. /\ gateways'[q] = Append(gs, f)
          /\ \A ch \in OutChannels : ch # q => gateways'[ch] = gateways[ch]
      BY <2>4 DEF TypeOK
    <3>2. /\ \A i : i \in DOMAIN gateways'[q] <=> i \in DOMAIN gs \/ i = n
          /\ n \notin DOMAIN gs /\ n \in Pos /\ gateways'[q][n] = f
          /\ \A i \in DOMAIN gs : gateways'[q][i] = gs[i]
      BY <2>1, <3>1 DEF Pos
    <3> HIDE DEF n
    <3>3. \A ch \in OutChannels : \A i \in Pos, g \in Fds :
            Listed(ch, i, g)' <=> Listed(ch, i, g) \/ (ch = q /\ i = n /\ g = f)
      BY <3>1, <3>2 DEF Listed
    <3> QED
      BY <3>2, <3>3
  <2>5. CASE \E i \in DOMAIN gs : gs[i] = 0 /\ gateways' = [gateways EXCEPT ![q][i] = f]
    <3>1. PICK k \in DOMAIN gs : gs[k] = 0 /\ gateways' = [gateways EXCEPT ![q][k] = f]
      BY <2>5
    <3>2. /\ gateways'[q] = [gs EXCEPT ![k] = f]
          /\ \A ch \in OutChannels : ch # q => gateways'[ch] = gateways[ch]
      BY <3>1 DEF TypeOK
    <3>3. /\ DOMAIN gateways'[q] = DOMAIN gs /\ gateways'[q][k] = f /\ k \in Pos
          /\ \A i \in DOMAIN gs : i # k => gateways'[q][i] = gs[i]
      BY <2>1, <3>2 DEF Pos
    <3>4. \A ch \in OutChannels : \A i \in Pos, g \in Fds :
            Listed(ch, i, g)' <=> Listed(ch, i, g) \/ (ch = q /\ i = k /\ g = f)
      BY <2>3, <3>1, <3>2, <3>3 DEF Listed
    <3> QED
      BY <3>3, <3>4
  <2> QED
    BY <1>3, <2>2, <2>4, <2>5 DEF AddGateway
<1>9. ASSUME NEW g \in Fds PROVE Apart(g)'
  <2>1. \A ch \in OutChannels : \A i, j \in Pos :
          (IF ch = q THEN i + 1 ELSE i) = (IF ch = q THEN j + 1 ELSE j) => i = j
    BY DEF Pos
  <2>2. \A ch \in OutChannels : \A i \in Pos : (IF ch = q THEN i + 1 ELSE i) \in Pos
    BY DEF Pos
  <2>3. \A i \in Pos : i + 1 # 1
    BY DEF Pos
  <2>4. \A ch \in OutChannels : \A i \in Pos : Queued(ch, i, g)' => g # f
    BY <1>4, <1>5, <1>6, <2>2, <2>3 DEF Apart
  <2>5. \A ch \in OutChannels : \A i \in Pos : g = f => ~ Listed(ch, i, g)
    BY <1>4, <1>5, <1>6 DEF Apart
  <2> QED
    BY <1>4, <1>5, <1>8, <2>1, <2>2, <2>4, <2>5 DEF Apart
<1>10. ASSUME NEW g \in Fds PROVE Somewhere(g)' <=> Somewhere(g)
  <2>1. ASSUME Somewhere(g) PROVE Somewhere(g)'
    <3>1. PICK ch \in OutChannels, i \in Pos : Queued(ch, i, g) \/ Listed(ch, i, g)
      BY <2>1 DEF Somewhere
    <3>2. CASE Listed(ch, i, g)
      BY <1>8, <3>2 DEF Somewhere
    <3>3. CASE Queued(ch, i, g) /\ ch # q
      BY <1>4, <3>3 DEF Somewhere
    <3>4. CASE Queued(ch, i, g) /\ ch = q /\ i = 1
      BY <1>4, <1>8, <3>4 DEF Somewhere
    <3>5. CASE Queued(ch, i, g) /\ ch = q /\ i # 1
      <4>1. i - 1 \in Pos /\ (i - 1) + 1 = i
        BY <3>5 DEF Pos
      <4>2. Queued(q, i - 1, g)'
        BY <1>4, <3>5, <4>1
      <4> QED
        BY <4>1, <4>2 DEF Somewhere
    <3> QED
      BY <3>1, <3>2, <3>3, <3>4, <3>5
  <2>2. ASSUME Somewhere(g)' PROVE Somewhere(g)
    <3>1. PICK ch \in OutChannels, i \in Pos : Queued(ch, i, g)' \/ Listed(ch, i, g)'
      BY <2>2 DEF Somewhere
    <3>2. CASE Listed(ch, i, g)'
      BY <1>4, <1>6, <1>8, <3>2 DEF Somewhere
    <3>3. CASE Queued(ch, i, g)'
      BY <1>4, <1>6, <3>3 DEF Somewhere
    <3> QED
      BY <3>1, <3>2, <3>3
  <2> QED
    BY <2>1, <2>2
<1>11. \A ch \in OutChannels : \A i \in Pos, g \in Fds :
         /\ Queued(ch, i, g)' => \E j \in Pos : Queued(ch, j, g)
         /\ Listed(ch, i, g)' => Listed(ch, i, g) \/ \E j \in Pos : Queued(ch, j, g)
  BY <1>4, <1>6, <1>8
<1> QED
  BY <1>9, <1>10, <1>11

LEMMA AddKeepsOwners ==
  ASSUME WellFormed, TypeOK, TypeOK', OwnInv, NEW q \in OutChannels, AddGateway(q)
  PROVE  OwnInv'
<1> USE DEF clientVars, handlerVars
<1>1. UNCHANGED <<peer, handler, slots, sock, sck, stuck>>
  BY DEF AddGateway
<1>2. HandlersAreListed' /\ SocketsAreKnown'
  BY <1>1 DEF OwnInv, HandlersAreListed, SocketsAreKnown, Ended
<1>3. /\ \A g \in Fds : Apart(g)
      /\ \A g \in Fds : Somewhere(g) <=>
           sock[g] # None /\ handler[sock[g]] \in {"returning", "ended"}
  BY PlacesArePositions DEF OwnInv, SendersHaveTheRest
<1>4. \A g \in Fds : Apart(g)' /\ (Somewhere(g)' <=> Somewhere(g))
  BY <1>3, AddPlaces
<1> QED
  BY <1>1, <1>2, <1>3, <1>4, OwnFromPlaces

\* The sender takes a frame from its queue and closes descriptors of its list.
LEMMA ClosedPlaces ==
  ASSUME TypeOK, \A g \in Fds : Apart(g), NEW q \in OutChannels, NEW closed,
         outq[q] # <<>>, outq' = [outq EXCEPT ![q] = Tail(@)], Head(outq[q]).kind = "frame",
         \A g \in closed : \E i \in Pos : Listed(q, i, g),
         \A ch \in OutChannels : \A i \in Pos, g \in Fds :
           Listed(ch, i, g)' <=> Listed(ch, i, g) /\ g \notin closed
  PROVE  /\ \A g \in Fds : Apart(g)'
         /\ \A g \in Fds : g \notin closed => (Somewhere(g)' <=> Somewhere(g))
         /\ \A g \in Fds : g \in closed => ~ Somewhere(g)'
         /\ \A ch \in OutChannels : \A i \in Pos, g \in Fds :
              Queued(ch, i, g)' => \E j \in Pos : Queued(ch, j, g)
<1>1. /\ \A ch \in OutChannels : \A i \in Pos : \A g :
           Queued(ch, i, g)' <=> Queued(ch, IF ch = q THEN i + 1 ELSE i, g)
      /\ \A g : ~ Queued(q, 1, g)
  BY TailPlaces
<1>2. \A g \in Fds : Apart(g)
  OBVIOUS
<1>7. \A ch \in OutChannels : \A i \in Pos : (IF ch = q THEN i + 1 ELSE i) \in Pos
  BY DEF Pos
<1>8. ASSUME NEW g \in Fds PROVE Apart(g)'
  <2>1. \A ch \in OutChannels : \A i, j \in Pos :
          (IF ch = q THEN i + 1 ELSE i) = (IF ch = q THEN j + 1 ELSE j) => i = j
    BY DEF Pos
  <2> QED
    BY <1>1, <1>2, <1>7, <2>1 DEF Apart
<1>9. ASSUME NEW g \in Fds, g \notin closed PROVE Somewhere(g)' <=> Somewhere(g)
  <2>1. ASSUME Somewhere(g) PROVE Somewhere(g)'
    <3>1. PICK ch \in OutChannels, i \in Pos : Queued(ch, i, g) \/ Listed(ch, i, g)
      BY <2>1 DEF Somewhere
    <3>2. CASE Listed(ch, i, g)
      BY <1>9, <3>2 DEF Somewhere
    <3>3. CASE Queued(ch, i, g) /\ ch # q
      BY <1>1, <3>3 DEF Somewhere
    <3>4. CASE Queued(ch, i, g) /\ ch = q
      <4>1. i # 1
        BY <1>1, <3>4
      <4>2. i - 1 \in Pos /\ (i - 1) + 1 = i
        BY <4>1 DEF Pos
      <4>3. Queued(q, i - 1, g)'
        BY <1>1, <3>4, <4>2
      <4> QED
        BY <4>2, <4>3 DEF Somewhere
    <3> QED
      BY <3>1, <3>2, <3>3, <3>4
  <2>2. ASSUME Somewhere(g)' PROVE Somewhere(g)
    BY <1>1, <1>7, <2>2 DEF Somewhere
  <2> QED
    BY <2>1, <2>2
<1>10. ASSUME NEW g \in Fds, g \in closed PROVE ~ Somewhere(g)'
  <2>1. PICK k \in Pos : Listed(q, k, g)
    BY <1>10
  <2>2. \A ch \in OutChannels : \A i \in Pos : ~ Queued(ch, i, g)
    BY <1>2, <2>1 DEF Apart
  <2> QED
    BY <1>1, <1>7, <1>10, <2>2 DEF Somewhere
<1>11. \A ch \in OutChannels : \A i \in Pos, g \in Fds :
         Queued(ch, i, g)' => \E j \in Pos : Queued(ch, j, g)
  BY <1>1, <1>7
<1> QED
  BY <1>8, <1>9, <1>10, <1>11

\* ... and their handlers have all returned.
LEMMA ClosedKeepsOwners ==
  ASSUME WellFormed, TypeOK, TypeOK', OwnInv, NEW q \in OutChannels, NEW closed,
         outq[q] # <<>>, outq' = [outq EXCEPT ![q] = Tail(@)], Head(outq[q]).kind = "frame",
         UNCHANGED <<peer, handler, slots, sck, stuck>>,
         \A g \in Fds : sock'[g] = IF g \in closed THEN None ELSE sock[g],
         \A g \in closed : \E i \in Pos : Listed(q, i, g),
         \A ch \in OutChannels : \A i \in Pos, g \in Fds :
           Listed(ch, i, g)' <=> Listed(ch, i, g) /\ g \notin closed,
         \A c \in Clients : handler[c] = "returning" => sck[c] \notin closed
  PROVE  OwnInv'
<1>2. /\ \A g \in Fds : Apart(g)
      /\ \A g \in Fds : Somewhere(g) <=>
           sock[g] # None /\ handler[sock[g]] \in {"returning", "ended"}
  BY PlacesArePositions DEF OwnInv, SendersHaveTheRest
<1>3. ASSUME NEW g \in Fds, g \in closed
      PROVE  sock[g] \in Clients /\ handler[sock[g]] = "ended"
  <2>1. Somewhere(g)
    BY <1>3 DEF Somewhere
  <2>2. sock[g] # None /\ handler[sock[g]] \in {"returning", "ended"}
    BY <1>2, <2>1
  <2>3. sock[g] \in Clients /\ sck[sock[g]] = g
    BY <2>2 DEF OwnInv, SocketsAreKnown, TypeOK
  <2> QED
    BY <1>3, <2>2, <2>3
<1>4. \A d \in Clients : handler[d] \in Live \cup {"returning"} => sck[d] \notin closed
  BY <1>3 DEF OwnInv, HandlersAreListed, Live
<1>5. HandlersAreListed'
  <2>1. \A d \in Clients : handler'[d] \in Live \cup {"returning"} =>
          /\ sck'[d] \in Fds /\ sock'[sck'[d]] = d
          /\ \E i \in DOMAIN slots' : slots'[i].active /\ slots'[i].thread = d
    BY <1>4 DEF OwnInv, HandlersAreListed
  <2> QED
    BY <2>1 DEF OwnInv, HandlersAreListed, Ended
<1>6. SocketsAreKnown'
  BY DEF OwnInv, SocketsAreKnown
<1>7. /\ \A g \in Fds : Apart(g)'
      /\ \A g \in Fds : g \notin closed => (Somewhere(g)' <=> Somewhere(g))
      /\ \A g \in Fds : g \in closed => ~ Somewhere(g)'
  BY <1>2, ClosedPlaces
<1> QED
  BY <1>2, <1>5, <1>6, <1>7, OwnFromPlaces

\* The descriptors of a list that a frame could not be sent to.
GivenUp(q, how) == (ToSet(gateways[q]) \ ToSet(Closed(gateways[q], how))) \ {0}

LEMMA ForwardPlaces ==
  ASSUME WellFormed, TypeOK, \A g \in Fds : Apart(g), NEW q \in OutChannels,
         NEW how \in [DOMAIN gateways[q] -> 0 .. 2], Forward(q, how)
  PROVE  /\ \A g \in GivenUp(q, how) : \E i \in Pos : Listed(q, i, g)
         /\ \A ch \in OutChannels : \A i \in Pos, g \in Fds :
              Listed(ch, i, g)' <=> Listed(ch, i, g) /\ g \notin GivenUp(q, how)
         /\ \A g \in Fds : sock'[g] = IF g \in GivenUp(q, how) THEN None ELSE sock[g]
         /\ ~ overtaken' =>
              \A c \in Clients : handler[c] = "returning" => sck[c] \notin GivenUp(q, how)
         /\ \A i \in DOMAIN gateways[q] : gateways[q][i] \in Fds =>
              (gateways[q][i] \in GivenUp(q, how) <=> how[i] # 2)
         /\ \A i, j \in DOMAIN gateways[q] :
              gateways[q][i] \in Fds /\ gateways[q][i] = gateways[q][j] => i = j
<1> DEFINE gs == gateways[q]
           closed == (ToSet(gs) \ ToSet(Closed(gs, how))) \ {0}
<1>1. /\ gateways' = [gateways EXCEPT ![q] = Closed(gs, how)]
      /\ sock' = [f \in Fds |-> IF f \in closed THEN None ELSE sock[f]]
      /\ ~ overtaken' => \A c \in Clients : handler[c] = "returning" => sck[c] \notin closed
  BY DEF Forward
<1>2. gs \in Seq(Fds \cup {0}) /\ DOMAIN gs \subseteq Pos
  BY DEF TypeOK, Pos
<1>3. /\ DOMAIN Closed(gs, how) = DOMAIN gs
      /\ \A i \in DOMAIN gs : Closed(gs, how)[i] = IF how[i] = 2 THEN gs[i] ELSE 0
  BY DEF Closed
<1>4. \A g \in closed : \E i \in Pos : Listed(q, i, g)
  BY <1>2 DEF ToSet, Listed
<1>5. \A i, j \in DOMAIN gs : gs[i] \in Fds /\ gs[i] = gs[j] => i = j
  <2>1. \A i \in DOMAIN gs : i \in Pos /\ Listed(q, i, gs[i])
    BY <1>2 DEF Listed
  <2> QED
    BY <2>1 DEF Apart
<1>6. 0 \notin Fds
  BY DEF WellFormed
<1>7. \A i \in DOMAIN gs : gs[i] \in Fds => (gs[i] \in closed <=> how[i] # 2)
  BY <1>2, <1>3, <1>5, <1>6 DEF ToSet
<1>8. ASSUME NEW ch \in OutChannels, NEW i \in Pos, NEW g \in Fds
      PROVE  Listed(ch, i, g)' <=> Listed(ch, i, g) /\ g \notin closed
  <2>1. CASE ch = q
    <3>1. gateways'[q] = Closed(gs, how)
      BY <1>1 DEF TypeOK
    <3>2. Listed(q, i, g)' <=> i \in DOMAIN gs /\ gs[i] = g /\ how[i] = 2
      BY <1>3, <1>6, <3>1 DEF Listed
    <3> HIDE DEF closed
    <3> QED
      BY <1>7, <2>1, <3>2 DEF Listed
  <2>2. CASE ch # q
    <3>1. gateways'[ch] = gateways[ch]
      BY <1>1, <2>2 DEF TypeOK
    <3>2. Listed(ch, i, g)' <=> Listed(ch, i, g)
      BY <3>1 DEF Listed
    <3>3. g \in closed => \E k \in Pos : Listed(q, k, g)
      BY <1>4
    <3>4. Listed(ch, i, g) => g \notin closed
      BY <2>2, <3>3 DEF Apart
    <3> QED
      BY <3>2, <3>4
  <2> QED
    BY <2>1, <2>2
<1> HIDE DEF closed
<1>9. \A g \in Fds : sock'[g] = IF g \in closed THEN None ELSE sock[g]
  BY <1>1
<1>10. closed = GivenUp(q, how)
  BY DEF closed, GivenUp
<1> QED
  BY <1>1, <1>4, <1>5, <1>7, <1>8, <1>9, <1>10

\* A frame that is sent closes the descriptors it could not be sent to, unless
\* their handlers are overtaken.
LEMMA SendKeepsOwners ==
  ASSUME WellFormed, TypeOK, TypeOK', OwnInv, NEW q \in OutChannels, SendFrame(q)
  PROVE  OwnInv' \/ overtaken'
<1> USE DEF clientVars
<1>1. /\ outq[q] # <<>> /\ outq' = [outq EXCEPT ![q] = Tail(@)]
      /\ Head(outq[q]).kind = "frame" /\ UNCHANGED <<peer, handler, slots, sck, stuck>>
  BY DEF SendFrame
<1>2. CASE UNCHANGED <<gateways, sock>>
  <2>1. \A ch, i, g : Listed(ch, i, g)' <=> Listed(ch, i, g)
    BY <1>2 DEF Listed
  <2> DEFINE closed == {}
  <2>2. /\ \A g \in Fds : sock'[g] = IF g \in closed THEN None ELSE sock[g]
        /\ \A g \in closed : \E i \in Pos : Listed(q, i, g)
        /\ \A ch \in OutChannels : \A i \in Pos, g \in Fds :
             Listed(ch, i, g)' <=> Listed(ch, i, g) /\ g \notin closed
        /\ \A c \in Clients : handler[c] = "returning" => sck[c] \notin closed
    BY <1>2, <2>1
  <2> HIDE DEF closed
  <2> QED
    BY <1>1, <2>2, ClosedKeepsOwners
<1>3. ASSUME NEW how \in [DOMAIN gateways[q] -> 0 .. 2], Forward(q, how), ~ overtaken'
      PROVE  OwnInv'
  <2>1. \A g \in Fds : Apart(g)
    BY PlacesArePositions DEF OwnInv
  <2>2. /\ \A g \in GivenUp(q, how) : \E i \in Pos : Listed(q, i, g)
        /\ \A ch \in OutChannels : \A i \in Pos, g \in Fds :
             Listed(ch, i, g)' <=> Listed(ch, i, g) /\ g \notin GivenUp(q, how)
        /\ \A g \in Fds : sock'[g] = IF g \in GivenUp(q, how) THEN None ELSE sock[g]
        /\ \A c \in Clients : handler[c] = "returning" => sck[c] \notin GivenUp(q, how)
    BY <1>3, <2>1, ForwardPlaces
  <2> QED
    BY <1>1, <2>2, ClosedKeepsOwners
<1>4. \/ UNCHANGED <<gateways, sock>>
      \/ \E how \in [DOMAIN gateways[q] -> 0 .. 2] : Forward(q, how)
  BY DEF SendFrame
<1> QED
  BY <1>2, <1>3, <1>4

\* Nothing takes back that a handler was overtaken.
LEMMA OvertakenStays ==
  ASSUME overtaken, [Next]_vars
  PROVE  overtaken'
<1> USE DEF handlerVars
<1>1. ASSUME NEW c \in Clients, Handle(c) PROVE overtaken'
  BY <1>1 DEF Handle, HandleEndOfStream, Return, HandleQuery, HandleMalformed, HandleSubscribeOut,
              HandleSubscribeIn, HandleDirectory, HandleRegister, HandleRegisterStream, Answer,
              Cleanup
<1>2. ASSUME NEW ch \in OutChannels, SendFrame(ch) PROVE overtaken'
  BY <1>2 DEF SendFrame, Forward
<1>3. CASE \E c \in Clients : \/ Accept(c) \/ Leave(c) \/ ReceiveFrame(c)
                              \/ \E r \in Requests : SendRequest(c, r)
  BY <1>3 DEF Accept, Leave, ReceiveFrame, SendRequest
<1>4. CASE \/ \E ch \in OutChannels : \/ \E f \in Frames : PushFrame(ch, f)
                                      \/ OpenBus(ch) \/ AddGateway(ch)
           \/ \E ch \in InChannels : \/ RequestStart(ch)
                                     \/ \E id \in BusIds : ReceiveFromBus(ch, id)
  BY <1>4 DEF PushFrame, OpenBus, AddGateway, RequestStart, ReceiveFromBus
<1>5. CASE MainLoop \/ UNCHANGED vars
  BY <1>5 DEF MainLoop, vars
<1> QED
  BY <1>1, <1>2, <1>3, <1>4, <1>5 DEF Next

\* A handler thread keeps track of its descriptor.
LEMMA HandleKeepsOwners ==
  ASSUME WellFormed, TypeOK, TypeOK', OwnInv, NEW c \in Clients, Handle(c)
  PROVE  OwnInv'
<1> USE DEF clientVars, channelVars
<1>1. ASSUME handler[c] = "reading", Cleanup(c, TRUE), UNCHANGED <<peer, outq, gateways>>
      PROVE  OwnInv'
  BY <1>1, ClosingKeepsOwners
<1>2. ASSUME UNCHANGED <<peer, sock, handler, sck, stuck, slots, outq, gateways>> PROVE OwnInv'
  BY <1>2, OthersKeepOwners
<1>3. ASSUME handler[c] = "reading", Answer(c), UNCHANGED <<peer, outq, gateways>> PROVE OwnInv'
  BY <1>1, <1>2, <1>3 DEF Answer
<1>4. ASSUME NEW n, HandleQuery(c, n) \/ HandleRegister(c, n) \/ HandleRegisterStream(c, n)
      PROVE  OwnInv'
  BY <1>3, <1>4 DEF HandleQuery, HandleRegister, HandleRegisterStream, Receive
<1>5. ASSUME NEW n, HandleMalformed(c, n) PROVE OwnInv'
  BY <1>1, <1>5 DEF HandleMalformed, Receive
<1>6. CASE HandleEndOfStream(c)
  BY <1>1, <1>6 DEF HandleEndOfStream
<1>7. ASSUME NEW n, HandleDirectory(c, n) PROVE OwnInv'
  BY <1>2, <1>7 DEF HandleDirectory, Receive
<1>8. ASSUME NEW n, HandleSubscribeIn(c, n) PROVE OwnInv'
  <2>1. PICK l \in Live : handler' = [handler EXCEPT ![c] = l]
    BY <1>8 DEF HandleSubscribeIn, Live
  <2>2. handler[c] \in Live /\ UNCHANGED <<peer, sock, sck, stuck, slots, outq, gateways>>
    BY <1>8 DEF HandleSubscribeIn, Receive, Live
  <2> QED
    BY <2>1, <2>2, ServingKeepsOwners
<1>9. ASSUME NEW n, HandleSubscribeOut(c, n) PROVE OwnInv'
  BY <1>9, SubscribeKeepsOwners
<1>10. CASE Return(c)
  BY <1>10, ReturnKeepsOwners
<1> QED
  BY <1>4, <1>5, <1>6, <1>7, <1>8, <1>9, <1>10 DEF Handle

LEMMA OwnStep ==
  ASSUME WellFormed, TypeOK, TypeOK', overtaken \/ OwnInv, [Next]_vars
  PROVE  overtaken' \/ OwnInv'
<1> USE DEF clientVars, handlerVars, channelVars
<1> SUFFICES ASSUME OwnInv PROVE overtaken' \/ OwnInv'
  BY OvertakenStays
<1>1. ASSUME UNCHANGED <<sock, handler, sck, stuck, slots, outq, gateways>>,
             \A c \in Clients : peer'[c] = "idle" => peer[c] = "idle"
      PROVE  OwnInv'
  BY <1>1, OthersKeepOwners
<1>2. ASSUME NEW c \in Clients, Handle(c) PROVE OwnInv'
  BY <1>2, HandleKeepsOwners
<1>3. ASSUME NEW c \in Clients, Accept(c) PROVE OwnInv'
  BY <1>3, AcceptKeepsOwners
<1>4. ASSUME NEW c \in Clients, Leave(c) PROVE OwnInv'
  <2>1. \A d \in Clients : peer'[d] = "idle" => peer[d] = "idle"
    BY <1>4 DEF Leave, TypeOK
  <2> QED
    BY <1>1, <1>4, <2>1 DEF Leave
<1>5. CASE \E c \in Clients : ReceiveFrame(c) \/ \E r \in Requests : SendRequest(c, r)
  <2>1. UNCHANGED <<peer, sock, handler, sck, stuck, slots, outq, gateways>>
    BY <1>5 DEF ReceiveFrame, SendRequest
  <2> QED
    BY <1>1, <2>1
<1>6. ASSUME NEW ch \in OutChannels, NEW f \in Frames, PushFrame(ch, f) PROVE OwnInv'
  BY <1>6, PushKeepsOwners
<1>7. ASSUME NEW ch \in OutChannels, AddGateway(ch) PROVE OwnInv'
  BY <1>7, AddKeepsOwners
<1>8. ASSUME NEW ch \in OutChannels, SendFrame(ch) PROVE overtaken' \/ OwnInv'
  BY <1>8, SendKeepsOwners
<1>9. ASSUME NEW ch \in InChannels, RequestStart(ch) PROVE OwnInv'
  <2>1. UNCHANGED <<peer, sock, sck, stuck, slots, outq, gateways>>
    BY <1>9 DEF RequestStart
  <2>2. CASE UNCHANGED handler
    BY <1>1, <2>1, <2>2
  <2>3. CASE \E c \in Clients : /\ handler[c] = "waiting"
                                /\ handler' = [handler EXCEPT ![c] = "receiving"]
    <3>1. PICK c \in Clients : /\ handler[c] = "waiting"
                               /\ handler' = [handler EXCEPT ![c] = "receiving"]
      BY <2>3
    <3>2. handler[c] \in Live /\ "receiving" \in Live
      BY <3>1 DEF Live
    <3> QED
      BY <2>1, <3>1, <3>2, ServingKeepsOwners
  <2> QED
    BY <1>9, <2>2, <2>3 DEF RequestStart
<1>10. CASE \/ MainLoop \/ UNCHANGED vars \/ \E ch \in OutChannels : OpenBus(ch)
            \/ \E ch \in InChannels : \E id \in BusIds : ReceiveFromBus(ch, id)
  <2>1. UNCHANGED <<peer, sock, handler, sck, stuck, slots, outq, gateways>>
    BY <1>10 DEF MainLoop, vars, OpenBus, ReceiveFromBus
  <2> QED
    BY <1>1, <2>1
<1> QED
  BY <1>2, <1>3, <1>4, <1>5, <1>6, <1>7, <1>8, <1>9, <1>10 DEF Next

\* The owners of a descriptor, one kind at a time.
LEMMA OwnersAre ==
  ASSUME NEW f \in Fds
  PROVE  \A x : x \in Owners(f) <=>
           \/ \E i \in DOMAIN slots : /\ slots[i].active /\ slots[i].fd = f
                                      /\ handler[slots[i].thread] # "returning"
                                      /\ x = <<"handler", i>>
           \/ \E ch \in OutChannels : \E i : Queued(ch, i, f) /\ x = <<ch, "queued", i>>
           \/ \E ch \in OutChannels : \E i : Listed(ch, i, f) /\ x = <<ch, "gateway", i>>
<1>1. \A x : x \in HandlersOf(f) <=>
        \E i \in DOMAIN slots : /\ slots[i].active /\ slots[i].fd = f
                                /\ handler[slots[i].thread] # "returning"
                                /\ x = <<"handler", i>>
  BY Zenon DEF HandlersOf
<1>2. \A x : x \in QueuesOf(f) <=>
        \E ch \in OutChannels : \E i : Queued(ch, i, f) /\ x = <<ch, "queued", i>>
  BY DEF QueuesOf, Queued
<1>3. \A x : x \in ListsOf(f) <=>
        \E ch \in OutChannels : \E i : Listed(ch, i, f) /\ x = <<ch, "gateway", i>>
  BY DEF ListsOf, Listed
<1>4. \A x : x \in Owners(f) <=> x \in HandlersOf(f) \/ x \in QueuesOf(f) \/ x \in ListsOf(f)
  BY DEF Owners
<1> QED
  BY <1>1, <1>2, <1>3, <1>4

\* An open descriptor has one owner, a closed one has none.
LEMMA OwnedOnce ==
  ASSUME WellFormed, TypeOK, OwnInv, NEW f \in Fds
  PROVE  Cardinality(Owners(f)) = IF sock[f] = None THEN 0 ELSE 1
<1>1. \A i \in DOMAIN slots : slots[i].active /\ slots[i].fd = f =>
        /\ slots[i].thread \in Clients /\ sock[f] = slots[i].thread
        /\ handler[slots[i].thread] \in Live \cup {"returning"}
  BY DEF OwnInv, HandlersAreListed
<1>2. /\ Somewhere(f) <=> sock[f] # None /\ handler[sock[f]] \in {"returning", "ended"}
      /\ Apart(f)
  BY PlacesArePositions DEF OwnInv, SendersHaveTheRest
<1>3. \A ch \in OutChannels : \A i : Queued(ch, i, f) \/ Listed(ch, i, f) => i \in Pos
  BY DEF Queued, Listed, TypeOK, Pos
<1>4. ~ Somewhere(f) => \A ch \in OutChannels : \A i : ~ Queued(ch, i, f) /\ ~ Listed(ch, i, f)
  BY <1>3 DEF Somewhere
<1>5. CASE sock[f] = None
  <2>1. \A i \in DOMAIN slots : ~ (slots[i].active /\ slots[i].fd = f)
    BY <1>1, <1>5 DEF WellFormed
  <2>2. \A x : x \notin Owners(f)
    BY <1>2, <1>4, <1>5, <2>1, OwnersAre
  <2>3. Owners(f) = {}
    BY <2>2
  <2> QED
    BY <1>5, <2>3, FS_EmptySet
<1>6. CASE sock[f] # None
  <2>1. PICK c \in Clients : sock[f] = c
    BY <1>6 DEF TypeOK
  <2>2. handler[c] # "none" /\ sck[c] = f
    BY <1>6, <2>1 DEF OwnInv, SocketsAreKnown
  <2>3. \E x : Owners(f) = {x}
    <3>1. CASE handler[c] \in Live
      <4>1. PICK i \in DOMAIN slots : slots[i].active /\ slots[i].thread = c
        BY <3>1 DEF OwnInv, HandlersAreListed
      <4>2. slots[i].fd = f /\ handler[slots[i].thread] # "returning"
        BY <2>2, <3>1, <4>1 DEF OwnInv, HandlersAreListed, Live
      <4>3. \A j \in DOMAIN slots : slots[j].active /\ slots[j].fd = f => j = i
        BY <1>1, <2>1, <4>1 DEF OwnInv, HandlersAreListed
      <4>4. ~ Somewhere(f)
        BY <1>2, <2>1, <3>1 DEF Live
      <4>5. \A x : x \in Owners(f) <=> x = <<"handler", i>>
        BY <1>4, <4>1, <4>2, <4>3, <4>4, OwnersAre, Zenon
      <4>6. Owners(f) = {<<"handler", i>>}
        BY <4>5
      <4> QED
        BY <4>6
    <3>2. CASE handler[c] \in {"returning", "ended"}
      <4>1. PICK ch \in OutChannels, i \in Pos : Queued(ch, i, f) \/ Listed(ch, i, f)
        BY <1>2, <1>6, <2>1, <3>2 DEF Somewhere
      <4>2. \A j \in DOMAIN slots : slots[j].active /\ slots[j].fd = f =>
              handler[slots[j].thread] = "returning"
        BY <1>1, <2>1, <3>2 DEF Live
      <4>3. CASE Queued(ch, i, f)
        <5>1. \A dh \in OutChannels : \A j : /\ Queued(dh, j, f) => dh = ch /\ j = i
                                         /\ ~ Listed(dh, j, f)
          BY <1>2, <1>3, <4>3 DEF Apart
        <5>2. \A x : x \in Owners(f) <=> x = <<ch, "queued", i>>
          BY <4>2, <4>3, <5>1, OwnersAre, Zenon
        <5>3. Owners(f) = {<<ch, "queued", i>>}
          BY <5>2
        <5> QED
          BY <5>3
      <4>4. CASE Listed(ch, i, f)
        <5>1. \A dh \in OutChannels : \A j : /\ Listed(dh, j, f) => dh = ch /\ j = i
                                         /\ ~ Queued(dh, j, f)
          BY <1>2, <1>3, <4>4 DEF Apart
        <5>2. \A x : x \in Owners(f) <=> x = <<ch, "gateway", i>>
          BY <4>2, <4>4, <5>1, OwnersAre, Zenon
        <5>3. Owners(f) = {<<ch, "gateway", i>>}
          BY <5>2
        <5> QED
          BY <5>3
      <4> QED
        BY <4>1, <4>3, <4>4
    <3> QED
      BY <2>1, <2>2, <3>1, <3>2 DEF TypeOK, Live
  <2> QED
    BY <1>6, <2>3, FS_Singleton
<1> QED
  BY <1>5, <1>6

LEMMA OwnedLater == (WellFormed /\ TypeOK /\ OwnInv)' => SocketsAreOwned'
<1>1. WellFormed /\ TypeOK /\ OwnInv => SocketsAreOwned
  BY OwnedOnce DEF SocketsAreOwned
<1> QED
  BY <1>1, PTL

LEMMA InitIsOwned ==
  ASSUME WellFormed, Init
  PROVE  OwnInv /\ DirectoryIsCurrent
<1>1. HandlersAreListed /\ SocketsAreKnown
  BY DEF Init, HandlersAreListed, SocketsAreKnown, Ended, Live
<1>2. \A ch \in OutChannels : Places(ch) = {}
  BY DEF Init, Places
<1>3. SendersHaveTheRest /\ PlacesAreUnique
  BY <1>2 DEF Init, SendersHaveTheRest, HasSender, PlacesAreUnique
<1>4. DirectoryIsCurrent
  BY DEF Init, DirectoryIsCurrent
<1> QED
  BY <1>1, <1>3, <1>4 DEF OwnInv

-----------------------------------------------------------------------------
\* However clients connect, subscribe, register and leave, and however the
\* kernel reuses descriptor numbers, a descriptor is owned by its handler, by
\* a pending subscription or by one entry of one sender's list, a closed one
\* by nobody, until a sender closes a descriptor its handler has not returned
\* from; and the directory names every simulation by its last registration.
THEOREM CanIsSound ==
  ASSUME WellFormed
  PROVE  Spec => []CanInv
<1>1. Init => CanInv
  BY InitIsTyped, InitIsOwned, OwnedOnce DEF CanInv, OwnInv, SocketsAreOwned
<1>2. CanInv /\ [Next]_vars => CanInv'
  <2> SUFFICES ASSUME CanInv, [Next]_vars PROVE CanInv'
    OBVIOUS
  <2>1. TypeOK /\ DirectoryIsCurrent /\ (overtaken \/ OwnInv)
    BY DEF CanInv, OwnInv
  <2>2. TypeOK'
    BY <2>1, TypeStep
  <2>3. DirectoryIsCurrent'
    BY <2>1, DirectoryStep
  <2>4. overtaken' \/ OwnInv'
    BY <2>1, <2>2, OwnStep
  <2>5. SocketsAreOwned'
    BY <2>2, <2>4, OwnedLater DEF SocketsAreOwned
  <2> QED
    BY <2>2, <2>3, <2>4, <2>5 DEF CanInv, OwnInv
<1> QED
  BY <1>1, <1>2, PTL DEF Spec

-----------------------------------------------------------------------------
(* Streams.  What follows holds whether or not a handler was overtaken, so *)
(* it uses what is known of descriptors without the entries of             *)
(* handler_threads_status_.                                                *)

OwnSockets ==
  /\ \A c \in Clients : handler[c] \in Live => sock[sck[c]] = c
  /\ \A f \in Fds : sock[f] # None => handler[sock[f]] = "none" \/ sck[sock[f]] = f
  /\ \A c \in Clients : peer[c] = "idle" => handler[c] = "none" /\ \A f \in Fds : sock[f] # c
  /\ \A f \in Fds : Somewhere(f) => sock[f] # None /\ handler[sock[f]] \in {"returning", "ended"}
  /\ \A f \in Fds : Apart(f)

\* The last part of a stream.
EndsIn(s, kind, n) ==
  \E i \in Parts(s) : s[i].kind = kind /\ s[i].n = n /\ \A j \in Parts(s) : j <= i

\* A stream has parts only once its client has subscribed and the sender has
\* taken over the descriptor, and then it ends with the sender's last frame.
InStep(c) ==
  /\ handler[c] \in Live \cup {"none"} => Parts(wire[c]) = {}
  /\ \A ch \in OutChannels : \A i \in Pos, f \in Fds :
       /\ Queued(ch, i, f) /\ sock[f] = c => Parts(wire[c]) = {}
       /\ Listed(ch, i, f) /\ sock[f] = c /\ peer[c] = "open" =>
            Parts(wire[c]) = {} \/ EndsIn(wire[c], "frame", forwarded[ch])

Received == [kind : {"response"}, to : Clients, n : {0}] \cup [kind : {"length", "frame"}, n : Nat]
Streams ==
  /\ wire \in [Clients -> Seq(Received)] /\ forwarded \in [OutChannels -> Nat]
  /\ \A c \in Clients : InStep(c) /\ WholeBlocks(wire[c])

\* What appending does to a sequence.
LEMMA Appended ==
  ASSUME NEW S, NEW s \in Seq(S), NEW x \in S
  PROVE  /\ Append(s, x) \in Seq(S) /\ Len(s) + 1 \in Pos
         /\ DOMAIN Append(s, x) = DOMAIN s \cup {Len(s) + 1}
         /\ Append(s, x)[Len(s) + 1] = x
         /\ \A i \in DOMAIN s : Append(s, x)[i] = s[i] /\ i < Len(s) + 1 /\ i \in Pos
BY DEF Pos

\* A response changes nothing about the parts.
LEMMA ResponseKeepsParts ==
  ASSUME NEW s \in Seq(Received), NEW x \in Received, x.kind = "response"
  PROVE  /\ Parts(Append(s, x)) = Parts(s)
         /\ \A kind, n : EndsIn(s, kind, n) => EndsIn(Append(s, x), kind, n)
         /\ WholeBlocks(s) => WholeBlocks(Append(s, x))
<1> DEFINE t == Append(s, x)
           e == Len(s) + 1
<1>1. /\ DOMAIN t = DOMAIN s \cup {e} /\ t[e] = x /\ e \notin DOMAIN s
      /\ \A i \in DOMAIN s : t[i] = s[i]
  BY Appended
<1> HIDE DEF t, e
<1>2. Parts(t) = Parts(s) /\ \A i \in Parts(s) : t[i] = s[i]
  BY <1>1 DEF Parts
<1>3. \A kind, n : EndsIn(s, kind, n) => EndsIn(t, kind, n)
  BY <1>2 DEF EndsIn
<1>4. WholeBlocks(s) => WholeBlocks(t)
  BY <1>2 DEF WholeBlocks
<1> QED
  BY <1>2, <1>3, <1>4 DEF t

\* A stream begins with a length or goes on with what follows its last part.
LEMMA PartContinues ==
  ASSUME NEW s \in Seq(Received), NEW x \in Received, WholeBlocks(s), x.kind # "response",
         \/ Parts(s) = {} /\ x.kind = "length"
         \/ \E kind, n : EndsIn(s, kind, n) /\ Continues([kind |-> kind, n |-> n], x)
  PROVE  /\ WholeBlocks(Append(s, x)) /\ EndsIn(Append(s, x), x.kind, x.n)
         /\ Append(s, x) \in Seq(Received)
<1> DEFINE t == Append(s, x)
           e == Len(s) + 1
<1>1. /\ DOMAIN t = DOMAIN s \cup {e} /\ t[e] = x /\ e \in Pos /\ t \in Seq(Received)
      /\ \A i \in DOMAIN s : t[i] = s[i] /\ i < e /\ i \in Pos
  BY Appended
<1> HIDE DEF t, e
<1>2. /\ Parts(t) = Parts(s) \cup {e} /\ \A i \in Parts(s) : t[i] = s[i] /\ i < e /\ i \in Pos
  BY <1>1 DEF Parts
<1>3. EndsIn(t, x.kind, x.n)
  BY <1>1, <1>2 DEF EndsIn, Pos
<1>4. ASSUME NEW j \in Parts(t), \A i \in Parts(t) : j <= i PROVE t[j].kind = "length"
  <2>1. CASE j \in Parts(s)
    <3>1. \A i \in Parts(s) : j <= i
      BY <1>2, <1>4
    <3>2. s[j].kind = "length"
      BY <2>1, <3>1 DEF WholeBlocks
    <3> QED
      BY <1>2, <2>1, <3>2
  <2>2. CASE j = e
    <3>1. ASSUME NEW i \in Parts(s) PROVE FALSE
      <4>1. i < e /\ i \in Pos /\ e \in Pos /\ e <= i
        BY <1>1, <1>2, <1>4, <2>2
      <4> QED
        BY <4>1 DEF Pos
    <3>2. ~ \E kind, n : EndsIn(s, kind, n)
      BY <3>1 DEF EndsIn
    <3> QED
      BY <1>1, <2>2, <3>2
  <2> QED
    BY <1>2, <2>1, <2>2
<1>5. ASSUME NEW j \in Parts(t), NEW i \in Parts(t), i < j,
             \A k \in Parts(t) : k <= i \/ j <= k
      PROVE  Continues(t[i], t[j])
  <2>1. i \in Parts(s)
    BY <1>1, <1>2, <1>5 DEF Pos
  <2>2. CASE j \in Parts(s)
    <3>1. \A k \in Parts(s) : k <= i \/ j <= k
      BY <1>2, <1>5
    <3>2. Continues(s[i], s[j])
      BY <1>5, <2>1, <2>2, <3>1 DEF WholeBlocks
    <3> QED
      BY <1>2, <2>1, <2>2, <3>2
  <2>3. CASE j = e
    <3>1. PICK kind, n : EndsIn(s, kind, n) /\ Continues([kind |-> kind, n |-> n], x)
      BY <2>1
    <3>2. PICK l \in Parts(s) : s[l].kind = kind /\ s[l].n = n /\ \A k \in Parts(s) : k <= l
      BY <3>1 DEF EndsIn
    <3>3. l = i
      <4>1. i <= l /\ l \in Pos /\ i \in Pos /\ l < e /\ e \in Pos
        BY <1>1, <1>2, <2>1, <3>2
      <4>2. l <= i \/ e <= l
        BY <1>2, <1>5, <2>3, <3>2
      <4> QED
        BY <4>1, <4>2 DEF Pos
    <3>4. Continues(s[i], x)
      BY <3>1, <3>2, <3>3 DEF Continues
    <3> QED
      BY <1>1, <1>2, <2>1, <2>3, <3>4
  <2> QED
    BY <1>2, <2>2, <2>3
<1>6. WholeBlocks(t)
  BY <1>4, <1>5 DEF WholeBlocks
<1> QED
  BY <1>1, <1>3, <1>6 DEF t

LEMMA FirstOfTwo ==
  ASSUME NEW S, NEW s \in Seq(S), NEW a \in S, NEW b \in S
  PROVE  /\ s \o SubSeq(<<a, b>>, 1, 0) = s
         /\ s \o SubSeq(<<a, b>>, 1, 1) = Append(s, a)
         /\ s \o SubSeq(<<a, b>>, 1, 2) = Append(Append(s, a), b)
<1>1. /\ SubSeq(<<a, b>>, 1, 0) = <<>> /\ SubSeq(<<a, b>>, 1, 1) = <<a>>
      /\ SubSeq(<<a, b>>, 1, 2) = <<a, b>>
  <2>1. <<a, b>> \in Seq(S)
    OBVIOUS
  <2>2. Len(<<a, b>>) = 2 /\ <<a, b>>[1] = a
    OBVIOUS
  <2>3. PICK w \in Seq(S) : w = <<a, b>>
    BY <2>1, Zenon
  <2>4. Len(w) = 2 /\ w[1] = a
    BY <2>2, <2>3, Zenon
  <2>5. SubSeq(w, 1, 0) = <<>>
    BY SubSeqEmpty
  <2>6. SubSeq(w, 1, 2) = w
    BY <2>4, SubSeqFull, Zenon
  <2>7. 1 \in 1 .. Len(w) /\ 1 - 1 = 0
    BY <2>4
  <2>8. SubSeq(w, 1, 1) = SubSeq(w, 1, 1 - 1) \o <<w[1]>>
    BY <2>7, SubSeqRecursiveSecond
  <2>9. <<>> \o <<a>> = <<a>>
    OBVIOUS
  <2> QED
    BY <2>3, <2>4, <2>5, <2>6, <2>7, <2>8, <2>9, Zenon
<1>2. s \o <<>> = s
  BY ConcatEmptySeq
<1>3. s \o <<a>> = Append(s, a)
  OBVIOUS
<1>4. s \o <<a, b>> = Append(Append(s, a), b)
  OBVIOUS
<1> QED
  BY <1>1, <1>2, <1>3, <1>4

\* The first h parts of a block are sent over a stream that has no parts yet
\* or ends with the frame before.
LEMMA BlockIsSent ==
  ASSUME NEW s \in Seq(Received), NEW n \in Nat, NEW h \in 0 .. 2, WholeBlocks(s),
         Parts(s) = {} \/ EndsIn(s, "frame", n), NEW a, NEW b,
         a = [kind |-> "length", n |-> n + 1], b = [kind |-> "frame", n |-> n + 1]
  PROVE  /\ s \o SubSeq(<<a, b>>, 1, h) \in Seq(Received)
         /\ WholeBlocks(s \o SubSeq(<<a, b>>, 1, h))
         /\ h = 2 => EndsIn(s \o SubSeq(<<a, b>>, 1, h), "frame", n + 1)
<1>1. a \in Received /\ b \in Received
  BY DEF Received
<1>2. /\ a.kind = "length" /\ a.n = n + 1 /\ b.kind = "frame" /\ b.n = n + 1
      /\ a.kind # "response" /\ b.kind # "response"
  OBVIOUS
<1>3. \/ Parts(s) = {} /\ a.kind = "length"
      \/ \E kind, m : EndsIn(s, kind, m) /\ Continues([kind |-> kind, n |-> m], a)
  <2>1. Continues([kind |-> "frame", n |-> n], a)
    BY <1>2 DEF Continues
  <2> QED
    BY <1>2, <2>1
<1>4. /\ WholeBlocks(Append(s, a)) /\ EndsIn(Append(s, a), "length", n + 1)
      /\ Append(s, a) \in Seq(Received)
  BY <1>1, <1>2, <1>3, PartContinues
<1>5. Continues([kind |-> "length", n |-> n + 1], b)
  BY <1>2 DEF Continues
<1>6. /\ WholeBlocks(Append(Append(s, a), b)) /\ EndsIn(Append(Append(s, a), b), "frame", n + 1)
      /\ Append(Append(s, a), b) \in Seq(Received)
  BY <1>1, <1>2, <1>4, <1>5, PartContinues
<1>7. h = 0 \/ h = 1 \/ h = 2
  OBVIOUS
<1>8. ASSUME NEW x \in Received, NEW y \in Received
      PROVE  /\ s \o SubSeq(<<x, y>>, 1, 0) = s
             /\ s \o SubSeq(<<x, y>>, 1, 1) = Append(s, x)
             /\ s \o SubSeq(<<x, y>>, 1, 2) = Append(Append(s, x), y)
  BY ONLY s \in Seq(Received), x \in Received, y \in Received, FirstOfTwo
<1> DEFINE t(k) == s \o SubSeq(<<a, b>>, 1, k)
<1>9. t(0) = s /\ t(1) = Append(s, a) /\ t(2) = Append(Append(s, a), b)
  BY <1>1, <1>8, Zenon
<1> HIDE DEF t
<1>10. t(h) \in Seq(Received) /\ WholeBlocks(t(h)) /\ (h = 2 => EndsIn(t(h), "frame", n + 1))
  BY <1>4, <1>6, <1>7, <1>9
<1> QED
  BY <1>10 DEF t

\* Threads go on without touching a descriptor.
LEMMA ServingKeepsSockets ==
  ASSUME TypeOK, OwnSockets, UNCHANGED <<sock, sck, outq, gateways>>,
         \A c \in Clients : peer'[c] = "idle" => peer[c] = "idle",
         \A c \in Clients : \/ handler'[c] = handler[c]
                            \/ handler[c] \in Live /\ handler'[c] \in Live
                            \/ handler[c] = "returning" /\ handler'[c] = "ended"
  PROVE  OwnSockets'
<1>1. \A f : (Somewhere(f)' <=> Somewhere(f)) /\ (Apart(f)' <=> Apart(f))
  BY PlacesKept DEF Somewhere, Apart
<1>2. \A c \in Clients : /\ handler'[c] \in Live => handler[c] \in Live
                         /\ handler[c] = "none" => handler'[c] = "none"
                         /\ handler[c] \in {"returning", "ended"} =>
                              handler'[c] \in {"returning", "ended"}
  BY DEF Live
<1>3. \A f \in Fds : sock[f] # None => sock[f] \in Clients
  BY DEF TypeOK
<1> QED
  BY <1>1, <1>2, <1>3 DEF OwnSockets

\* The sender moves descriptors or closes some of its own.
LEMMA SendingKeepsSockets ==
  ASSUME TypeOK, WellFormed, OwnSockets, UNCHANGED <<handler, sck, peer>>, \A f \in Fds : Apart(f)',
         \A f \in Fds : Somewhere(f)' => Somewhere(f) /\ sock'[f] = sock[f],
         \A f \in Fds : sock'[f] = sock[f] \/ (sock'[f] = None /\ Somewhere(f))
  PROVE  OwnSockets'
<1>1. ASSUME NEW c \in Clients, handler'[c] \in Live PROVE sock'[sck'[c]] = c
  <2>1. sck[c] \in Fds /\ sock[sck[c]] = c /\ handler[c] \in Live
    BY <1>1 DEF TypeOK, OwnSockets, Live
  <2>2. ~ Somewhere(sck[c])
    BY <2>1 DEF OwnSockets, Live
  <2> QED
    BY <2>1, <2>2
<1>2. \A f \in Fds : sock'[f] # None => handler'[sock'[f]] = "none" \/ sck'[sock'[f]] = f
  BY DEF OwnSockets
<1>3. \A c \in Clients : peer'[c] = "idle" => handler'[c] = "none" /\ \A f \in Fds : sock'[f] # c
  BY DEF OwnSockets, WellFormed
<1>4. \A f \in Fds : Somewhere(f)' =>
        sock'[f] # None /\ handler'[sock'[f]] \in {"returning", "ended"}
  BY DEF OwnSockets
<1> QED
  BY <1>1, <1>2, <1>3, <1>4 DEF OwnSockets

\* A connection gets a descriptor that was closed.
LEMMA AcceptKeepsSockets ==
  ASSUME WellFormed, TypeOK, OwnSockets, NEW c \in Clients, Accept(c)
  PROVE  /\ OwnSockets' /\ peer[c] = "idle"
         /\ \E f \in Fds : sock[f] = None /\ sock' = [sock EXCEPT ![f] = c]
         /\ \A d \in Clients : d # c => handler'[d] = handler[d] /\ peer'[d] = peer[d]
         /\ handler'[c] \in {"none", "reading"} /\ handler[c] = "none"
         /\ UNCHANGED <<wire, outq, gateways, forwarded>>
<1> USE DEF channelVars
<1>1. PICK f \in Fds :
        /\ sock[f] = None /\ sock' = [sock EXCEPT ![f] = c]
        /\ \/ handler' = [handler EXCEPT ![c] = "reading"] /\ sck' = [sck EXCEPT ![c] = f]
           \/ UNCHANGED <<handler, sck>>
  BY DEF Accept, FreeFds
<1>2. /\ peer[c] = "idle" /\ peer' = [peer EXCEPT ![c] = "open"]
      /\ UNCHANGED <<wire, outq, gateways, forwarded>>
  BY DEF Accept
<1>3. handler[c] = "none" /\ \A g \in Fds : sock[g] # c
  BY <1>2 DEF OwnSockets
<1>4. /\ \A d \in Clients : d # c =>
           handler'[d] = handler[d] /\ sck'[d] = sck[d] /\ peer'[d] = peer[d]
      /\ peer'[c] = "open" /\ handler'[c] \in {"none", "reading"}
      /\ handler'[c] # "none" => sck'[c] = f
  BY <1>1, <1>2, <1>3 DEF TypeOK
<1>5. sock'[f] = c /\ \A g \in Fds : g # f => sock'[g] = sock[g]
  BY <1>1 DEF TypeOK
<1>6. \A g : (Somewhere(g)' <=> Somewhere(g)) /\ (Apart(g)' <=> Apart(g))
  BY <1>2, PlacesKept DEF Somewhere, Apart
<1>7. ASSUME NEW d \in Clients, handler'[d] \in Live PROVE sock'[sck'[d]] = d
  <2>1. CASE d = c
    BY <1>4, <1>5, <1>7, <2>1 DEF Live
  <2>2. CASE d # c
    <3>1. handler[d] \in Live /\ sck'[d] = sck[d] /\ sck[d] \in Fds /\ sock[sck[d]] = d
      BY <1>4, <1>7, <2>2 DEF OwnSockets, TypeOK, Live
    <3>2. sck[d] # f
      BY <1>1, <3>1 DEF WellFormed
    <3> QED
      BY <1>5, <3>1, <3>2
  <2> QED
    BY <2>1, <2>2
<1>8. ASSUME NEW g \in Fds, sock'[g] # None
      PROVE  handler'[sock'[g]] = "none" \/ sck'[sock'[g]] = g
  <2>1. CASE g = f
    BY <1>4, <1>5, <2>1
  <2>2. CASE g # f
    <3>1. sock'[g] = sock[g] /\ sock[g] \in Clients /\ sock[g] # c
      BY <1>3, <1>5, <1>8, <2>2 DEF TypeOK
    <3> QED
      BY <1>4, <1>8, <3>1 DEF OwnSockets
  <2> QED
    BY <2>1, <2>2
<1>9. ASSUME NEW d \in Clients, peer'[d] = "idle"
      PROVE  handler'[d] = "none" /\ \A g \in Fds : sock'[g] # d
  BY <1>4, <1>5, <1>9 DEF OwnSockets
<1>10. ASSUME NEW g \in Fds, Somewhere(g)'
       PROVE  sock'[g] # None /\ handler'[sock'[g]] \in {"returning", "ended"}
  <2>1. sock[g] # None /\ handler[sock[g]] \in {"returning", "ended"} /\ sock[g] \in Clients
    BY <1>6, <1>10 DEF OwnSockets, TypeOK
  <2>2. g # f /\ sock[g] # c
    BY <1>1, <1>3, <2>1
  <2> QED
    BY <1>4, <1>5, <2>1, <2>2
<1> QED
  BY <1>1, <1>2, <1>3, <1>4, <1>6, <1>7, <1>8, <1>9, <1>10 DEF OwnSockets

\* A handler ends and closes its descriptor, if it finds its entry.
LEMMA ClosingKeepsSockets ==
  ASSUME WellFormed, TypeOK, OwnSockets, NEW c \in Clients, handler[c] = "reading",
         Cleanup(c, TRUE), UNCHANGED <<peer, outq, gateways>>
  PROVE  /\ OwnSockets' /\ handler' = [handler EXCEPT ![c] = "ended"]
         /\ \A f \in Fds : Somewhere(f)' => sock'[f] = sock[f]
<1>1. /\ handler' = [handler EXCEPT ![c] = "ended"] /\ UNCHANGED sck
      /\ \A f \in Fds : sock'[f] = sock[f] \/ (f = sck[c] /\ sock'[f] = None)
  BY DEF Cleanup, TypeOK
<1>2. sck[c] \in Fds /\ sock[sck[c]] = c
  BY DEF TypeOK, OwnSockets, Live
<1>3. handler'[c] = "ended" /\ \A d \in Clients : d # c => handler'[d] = handler[d]
  BY <1>1 DEF TypeOK
<1>4. \A g : (Somewhere(g)' <=> Somewhere(g)) /\ (Apart(g)' <=> Apart(g))
  BY PlacesKept DEF Somewhere, Apart
<1>5. ~ Somewhere(sck[c])
  BY <1>2 DEF OwnSockets
<1>6. ASSUME NEW d \in Clients, handler'[d] \in Live PROVE sock'[sck'[d]] = d
  <2>1. d # c /\ handler[d] \in Live /\ sck[d] \in Fds /\ sock[sck[d]] = d
    BY <1>3, <1>6 DEF OwnSockets, TypeOK, Live
  <2>2. sck[d] # sck[c]
    BY <1>2, <2>1
  <2> QED
    BY <1>1, <2>1, <2>2
<1>7. \A f \in Fds : sock'[f] # None => handler'[sock'[f]] = "none" \/ sck'[sock'[f]] = f
  <2> SUFFICES ASSUME NEW f \in Fds, sock'[f] # None
               PROVE  handler'[sock'[f]] = "none" \/ sck'[sock'[f]] = f
    OBVIOUS
  <2>1. sock'[f] = sock[f] /\ sock[f] \in Clients
    BY <1>1 DEF TypeOK
  <2>2. handler[sock[f]] = "none" \/ sck[sock[f]] = f
    BY <2>1 DEF OwnSockets
  <2> QED
    BY <1>1, <1>3, <2>1, <2>2
<1>8. \A d \in Clients : peer'[d] = "idle" => handler'[d] = "none" /\ \A f \in Fds : sock'[f] # d
  BY <1>1, <1>3 DEF OwnSockets, WellFormed
<1>9. ASSUME NEW f \in Fds, Somewhere(f)'
      PROVE  /\ sock'[f] # None /\ handler'[sock'[f]] \in {"returning", "ended"}
             /\ sock'[f] = sock[f]
  <2>1. /\ sock[f] # None /\ handler[sock[f]] \in {"returning", "ended"} /\ sock[f] \in Clients
        /\ f # sck[c]
    BY <1>4, <1>5, <1>9 DEF OwnSockets, TypeOK
  <2> QED
    BY <1>1, <1>3, <2>1
<1> QED
  BY <1>1, <1>4, <1>6, <1>7, <1>8, <1>9 DEF OwnSockets

\* A handler gives its descriptor to a sender.
LEMMA SubscribeKeepsSockets ==
  ASSUME WellFormed, TypeOK, OwnSockets, NEW c \in Clients, NEW n, HandleSubscribeOut(c, n)
  PROVE  /\ OwnSockets' /\ handler' = [handler EXCEPT ![c] = "returning"]
         /\ handler[c] = "reading" /\ sock[sck[c]] = c
         /\ \A ch \in OutChannels : \A i \in Pos : \A f :
              /\ Queued(ch, i, f)' => Queued(ch, i, f) \/ f = sck[c]
              /\ Listed(ch, i, f)' => Listed(ch, i, f)
<1> DEFINE f == sck[c]
           m == [kind |-> "gateway", fd |-> f]
<1>1. PICK q \in OutChannels : q = Request(c).channel
  BY ReceiveIsTyped DEF HandleSubscribeOut, WellFormed
<1>2. /\ handler[c] = "reading" /\ handler' = [handler EXCEPT ![c] = "returning"]
      /\ outq' = [outq EXCEPT ![q] = Append(@, m)]
      /\ UNCHANGED <<peer, sock, sck, gateways>>
  BY <1>1 DEF HandleSubscribeOut, Receive
<1>3. f \in Fds /\ sock[f] = c /\ m \in Waiting /\ m.kind = "gateway" /\ m.fd = f
  BY <1>2 DEF OwnSockets, TypeOK, Live, Waiting
<1>4. handler'[c] = "returning" /\ \A d \in Clients : d # c => handler'[d] = handler[d]
  BY <1>2 DEF TypeOK
<1> HIDE DEF f, m
<1>5. PICK k \in Pos :
      /\ \A ch, i, g : Listed(ch, i, g)' <=> Listed(ch, i, g)
      /\ \A ch \in OutChannels : \A i \in Pos : \A g :
           Queued(ch, i, g)' <=> Queued(ch, i, g) \/ (ch = q /\ i = k /\ g = f)
  <2> DEFINE n1 == Len(outq[q]) + 1
  <2>1. /\ \A ch, i, g : Listed(ch, i, g)' <=> Listed(ch, i, g)
        /\ n1 \in Pos
        /\ \A ch \in OutChannels : \A i \in Pos : \A g :
             Queued(ch, i, g)' <=>
               Queued(ch, i, g) \/ (ch = q /\ i = n1 /\ m.kind = "gateway" /\ m.fd = g)
    BY <1>2, <1>3, AppendPlaces
  <2> HIDE DEF n1
  <2>2. \A ch \in OutChannels : \A i \in Pos : \A g :
          Queued(ch, i, g)' <=> Queued(ch, i, g) \/ (ch = q /\ i = n1 /\ g = f)
    BY <1>3, <2>1
  <2> QED
    BY <2>1, <2>2
<1>6. ~ Somewhere(f)
  BY <1>2, <1>3 DEF OwnSockets
<1>7. ASSUME NEW g \in Fds PROVE Apart(g)'
  <2>1. CASE g = f
    BY <1>5, <1>6, <2>1 DEF Apart, Somewhere
  <2>2. CASE g # f
    BY <1>5, <2>2 DEF Apart, OwnSockets
  <2> QED
    BY <2>1, <2>2
<1>8. ASSUME NEW g \in Fds, Somewhere(g)'
      PROVE  sock'[g] # None /\ handler'[sock'[g]] \in {"returning", "ended"}
  <2>1. CASE g = f
    BY <1>2, <1>3, <1>4, <2>1 DEF WellFormed
  <2>2. CASE g # f
    <3>1. Somewhere(g)
      BY <1>5, <1>8, <2>2 DEF Somewhere
    <3>2. sock[g] \in Clients /\ sock[g] # None /\ handler[sock[g]] \in {"returning", "ended"}
      BY <3>1 DEF OwnSockets, TypeOK
    <3> QED
      BY <1>2, <1>4, <3>2
  <2> QED
    BY <2>1, <2>2
<1>9. /\ \A d \in Clients : handler'[d] \in Live => sock'[sck'[d]] = d
      /\ \A d \in Clients : peer'[d] = "idle" =>
           handler'[d] = "none" /\ \A g \in Fds : sock'[g] # d
  BY <1>2, <1>4 DEF OwnSockets, Live
<1>10. ASSUME NEW g \in Fds, sock'[g] # None
       PROVE  handler'[sock'[g]] = "none" \/ sck'[sock'[g]] = g
  <2>1. sock'[g] = sock[g] /\ sock[g] \in Clients
    BY <1>2, <1>10 DEF TypeOK
  <2>2. handler[sock[g]] = "none" \/ sck[sock[g]] = g
    BY <1>10, <2>1 DEF OwnSockets
  <2> QED
    BY <1>2, <1>4, <2>1, <2>2
<1>11. OwnSockets'
  BY <1>7, <1>8, <1>9, <1>10 DEF OwnSockets
<1> QED
  BY <1>2, <1>3, <1>5, <1>11 DEF f

\* Nothing but responses arrives.
Quiet ==
  \A c \in Clients :
    \/ wire'[c] = wire[c]
    \/ \E x \in Received : x.kind = "response" /\ wire'[c] = Append(wire[c], x)

LEMMA QuietKeepsStreams ==
  ASSUME TypeOK, Streams, Quiet, wire' = [c \in Clients |-> wire'[c]], UNCHANGED forwarded,
         \A c \in Clients : handler'[c] \in Live \cup {"none"} => handler[c] \in Live \cup {"none"},
         \A c \in Clients : peer'[c] = "open" => peer[c] = "open" \/ \A f \in Fds : sock[f] # c,
         \A f \in Fds : Somewhere(f)' => sock'[f] = sock[f],
         \A ch \in OutChannels : \A i \in Pos, f \in Fds :
           /\ Queued(ch, i, f)' => \/ \E j \in Pos : Queued(ch, j, f)
                                   \/ handler[sock[f]] \in Live
           /\ Listed(ch, i, f)' => Listed(ch, i, f) \/ \E j \in Pos : Queued(ch, j, f)
  PROVE  Streams'
<1>1. ASSUME NEW c \in Clients
      PROVE  /\ wire'[c] \in Seq(Received) /\ Parts(wire'[c]) = Parts(wire[c])
             /\ \A kind, n : EndsIn(wire[c], kind, n) => EndsIn(wire'[c], kind, n)
             /\ WholeBlocks(wire'[c])
  <2>1. wire[c] \in Seq(Received) /\ WholeBlocks(wire[c])
    BY DEF Streams
  <2>2. CASE wire'[c] = wire[c]
    BY <2>1, <2>2
  <2>3. CASE \E x \in Received : x.kind = "response" /\ wire'[c] = Append(wire[c], x)
    <3>1. PICK x \in Received : x.kind = "response" /\ wire'[c] = Append(wire[c], x)
      BY <2>3
    <3> QED
      BY <2>1, <3>1, ResponseKeepsParts, Appended
  <2> QED
    BY <2>2, <2>3 DEF Quiet
<1>2. ASSUME NEW c \in Clients PROVE InStep(c)'
  <2>1. InStep(c)
    BY DEF Streams
  <2>2. handler'[c] \in Live \cup {"none"} => Parts(wire'[c]) = {}
    BY <1>1, <2>1 DEF InStep
  <2>3. ASSUME NEW ch \in OutChannels, NEW i \in Pos, NEW f \in Fds, Queued(ch, i, f)', sock'[f] = c
        PROVE  Parts(wire'[c]) = {}
    <3>1. Somewhere(f)'
      BY <2>3 DEF Somewhere
    <3>2. sock[f] = c
      BY <2>3, <3>1
    <3>3. (\E j \in Pos : Queued(ch, j, f)) \/ handler[c] \in Live
      BY <2>3, <3>2
    <3>4. Parts(wire[c]) = {}
      BY <2>1, <3>2, <3>3 DEF InStep
    <3> QED
      BY <1>1, <3>4
  <2>4. ASSUME NEW ch \in OutChannels, NEW i \in Pos, NEW f \in Fds, Listed(ch, i, f)',
               sock'[f] = c, peer'[c] = "open"
        PROVE  Parts(wire'[c]) = {} \/ EndsIn(wire'[c], "frame", forwarded'[ch])
    <3>1. Somewhere(f)'
      BY <2>4 DEF Somewhere
    <3>2. sock[f] = c /\ peer[c] = "open"
      BY <2>4, <3>1
    <3>3. (\E j \in Pos : Queued(ch, j, f)) \/ Listed(ch, i, f)
      BY <2>4
    <3>4. Parts(wire[c]) = {} \/ EndsIn(wire[c], "frame", forwarded[ch])
      BY <2>1, <3>2, <3>3 DEF InStep
    <3> QED
      BY <1>1, <3>4
  <2> QED
    BY <2>2, <2>3, <2>4 DEF InStep
<1>3. wire' \in [Clients -> Seq(Received)]
  BY <1>1
<1> QED
  BY <1>1, <1>2, <1>3 DEF Streams

\* A client has at most one descriptor in the hands of the senders.
LEMMA OnePlace ==
  ASSUME TypeOK, OwnSockets, NEW f \in Fds, NEW g \in Fds, Somewhere(f), Somewhere(g),
         sock[f] = sock[g]
  PROVE  f = g /\ sock[f] \in Clients /\ handler[sock[f]] \in {"returning", "ended"}
<1>1. sock[f] # None /\ handler[sock[f]] \in {"returning", "ended"} /\ sock[g] # None
  BY DEF OwnSockets
<1>2. sock[f] \in Clients
  BY <1>1 DEF TypeOK
<1>3. sck[sock[f]] = f /\ sck[sock[g]] = g
  BY <1>1 DEF OwnSockets
<1> QED
  BY <1>1, <1>2, <1>3

\* A frame goes to the gateways.
LEMMA ForwardKeepsStreams ==
  ASSUME WellFormed, TypeOK, OwnSockets, Streams, NEW q \in OutChannels,
         NEW how \in [DOMAIN gateways[q] -> 0 .. 2], Forward(q, how),
         UNCHANGED <<handler, sck, peer>>,
         outq[q] # <<>>, outq' = [outq EXCEPT ![q] = Tail(@)], Head(outq[q]).kind = "frame"
  PROVE  OwnSockets' /\ Streams'
<1> DEFINE gs == gateways[q]
           n == forwarded[q]
           At(c) == {i \in DOMAIN gs : gs[i] # 0 /\ sock[gs[i]] = c}
           a == [kind |-> "length", n |-> n + 1]
           b == [kind |-> "frame", n |-> n + 1]
           up == GivenUp(q, how)
<1>1. \A g \in Fds : Apart(g)
  BY DEF OwnSockets
<1>2. /\ \A g \in up : \E i \in Pos : Listed(q, i, g)
      /\ \A ch \in OutChannels : \A i \in Pos, g \in Fds :
           Listed(ch, i, g)' <=> Listed(ch, i, g) /\ g \notin up
      /\ \A g \in Fds : sock'[g] = IF g \in up THEN None ELSE sock[g]
      /\ \A i \in DOMAIN gs : gs[i] \in Fds => (gs[i] \in up <=> how[i] # 2)
      /\ \A i, j \in DOMAIN gs : gs[i] \in Fds /\ gs[i] = gs[j] => i = j
  BY <1>1, ForwardPlaces
<1>3. /\ \A g \in Fds : Apart(g)'
      /\ \A g \in Fds : g \notin up => (Somewhere(g)' <=> Somewhere(g))
      /\ \A g \in Fds : g \in up => ~ Somewhere(g)'
      /\ \A ch \in OutChannels : \A i \in Pos, g \in Fds :
           Queued(ch, i, g)' => \E j \in Pos : Queued(ch, j, g)
  BY <1>1, <1>2, ClosedPlaces
<1>4. /\ wire' = [c \in Clients |->
                    IF peer[c] = "open" /\ At(c) # {}
                    THEN wire[c] \o SubSeq(<<a, b>>, 1, how[CHOOSE i \in At(c) : TRUE])
                    ELSE wire[c]]
      /\ forwarded' = [forwarded EXCEPT ![q] = n + 1]
  BY DEF Forward
<1>5. n \in Nat /\ forwarded' \in [OutChannels -> Nat] /\ forwarded'[q] = n + 1
      /\ \A ch \in OutChannels : ch # q => forwarded'[ch] = forwarded[ch]
  BY <1>4 DEF Streams
<1>6. /\ gs \in Seq(Fds \cup {0}) /\ DOMAIN gs \subseteq Pos
      /\ \A i \in DOMAIN gs : gs[i] \in Fds \cup {0}
  <2>1. gs \in Seq(Fds \cup {0})
    BY DEF TypeOK
  <2> QED
    BY <2>1 DEF Pos
<1> HIDE DEF up, a, b, n, gs, At
<1>7. \A g \in Fds : Somewhere(g)' => Somewhere(g) /\ sock'[g] = sock[g]
  BY <1>2, <1>3
<1>8. \A g \in Fds : sock'[g] = sock[g] \/ (sock'[g] = None /\ Somewhere(g))
  BY <1>2 DEF Somewhere
<1>9. OwnSockets'
  BY <1>3, <1>7, <1>8, SendingKeepsSockets
<1>10. ASSUME NEW c \in Clients, NEW k \in At(c)
       PROVE  /\ gs[k] \in Fds /\ sock[gs[k]] = c /\ Listed(q, k, gs[k]) /\ k \in Pos
              /\ k \in DOMAIN gs /\ Somewhere(gs[k]) /\ how[k] \in 0 .. 2
  BY <1>6, <1>10 DEF At, Listed, Somewhere, gs
<1>11. ASSUME NEW c \in Clients, NEW k \in At(c), NEW f \in Fds, Somewhere(f), sock[f] = c
       PROVE  f = gs[k] /\ handler[c] \in {"returning", "ended"}
  BY <1>10, <1>11, OnePlace
<1>12. ASSUME NEW c \in Clients, NEW ch \in OutChannels, NEW i \in Pos, NEW f \in Fds, sock[f] = c,
              Listed(ch, i, f), ch = q
       PROVE  i \in At(c)
  BY <1>12 DEF At, Listed, WellFormed, gs
<1>13. ASSUME NEW c \in Clients, ~ (peer[c] = "open" /\ At(c) # {})
       PROVE  InStep(c)' /\ WholeBlocks(wire'[c]) /\ wire'[c] \in Seq(Received)
  <2>1. wire'[c] = wire[c] /\ InStep(c) /\ WholeBlocks(wire[c]) /\ wire[c] \in Seq(Received)
    BY <1>4, <1>13 DEF Streams
  <2>2. handler'[c] \in Live \cup {"none"} => Parts(wire'[c]) = {}
    BY <2>1 DEF InStep
  <2>3. ASSUME NEW ch \in OutChannels, NEW i \in Pos, NEW f \in Fds, Queued(ch, i, f)', sock'[f] = c
        PROVE  Parts(wire'[c]) = {}
    <3>1. Somewhere(f)'
      BY <2>3 DEF Somewhere
    <3>2. sock[f] = c /\ \E j \in Pos : Queued(ch, j, f)
      BY <1>3, <1>7, <2>3, <3>1
    <3> QED
      BY <2>1, <3>2 DEF InStep
  <2>4. ASSUME NEW ch \in OutChannels, NEW i \in Pos, NEW f \in Fds, Listed(ch, i, f)',
               sock'[f] = c, peer'[c] = "open"
        PROVE  Parts(wire'[c]) = {} \/ EndsIn(wire'[c], "frame", forwarded'[ch])
    <3>1. Somewhere(f)'
      BY <2>4 DEF Somewhere
    <3>2. sock[f] = c /\ Listed(ch, i, f) /\ peer[c] = "open"
      BY <1>2, <1>7, <2>4, <3>1
    <3>3. ch # q
      BY <1>12, <1>13, <3>2
    <3> QED
      BY <1>5, <2>1, <3>2, <3>3 DEF InStep
  <2> QED
    BY <2>1, <2>2, <2>3, <2>4 DEF InStep
<1>14. ASSUME NEW c \in Clients, peer[c] = "open", At(c) # {}
       PROVE  InStep(c)' /\ WholeBlocks(wire'[c]) /\ wire'[c] \in Seq(Received)
  <2>1. PICK k \in At(c) : k = CHOOSE i \in At(c) : TRUE
    BY <1>14
  <2>2. /\ gs[k] \in Fds /\ sock[gs[k]] = c /\ Listed(q, k, gs[k]) /\ k \in Pos /\ k \in DOMAIN gs
        /\ Somewhere(gs[k]) /\ how[k] \in 0 .. 2
    BY <1>10
  <2>3. wire[c] \in Seq(Received) /\ WholeBlocks(wire[c]) /\ InStep(c)
    BY DEF Streams
  <2>4. Parts(wire[c]) = {} \/ EndsIn(wire[c], "frame", n)
    BY <1>14, <2>2, <2>3 DEF InStep, n
  <2>5. wire'[c] = wire[c] \o SubSeq(<<a, b>>, 1, how[k])
    BY <1>4, <1>14, <2>1
  <2>6. /\ wire'[c] \in Seq(Received) /\ WholeBlocks(wire'[c])
        /\ how[k] = 2 => EndsIn(wire'[c], "frame", n + 1)
    <3>1. a = [kind |-> "length", n |-> n + 1] /\ b = [kind |-> "frame", n |-> n + 1]
      BY DEF a, b
    <3>2. PICK h \in 0 .. 2 : h = how[k]
      BY <2>2
    <3>3. /\ wire[c] \o SubSeq(<<a, b>>, 1, h) \in Seq(Received)
          /\ WholeBlocks(wire[c] \o SubSeq(<<a, b>>, 1, h))
          /\ h = 2 => EndsIn(wire[c] \o SubSeq(<<a, b>>, 1, h), "frame", n + 1)
      BY <1>5, <2>3, <2>4, <3>1, BlockIsSent
    <3> QED
      BY <2>5, <3>2, <3>3
  <2>7. handler'[c] \notin Live \cup {"none"}
    BY <1>11, <2>2 DEF Live
  <2>8. ASSUME NEW ch \in OutChannels, NEW i \in Pos, NEW f \in Fds, Queued(ch, i, f)', sock'[f] = c
        PROVE  FALSE
    <3>1. Somewhere(f)'
      BY <2>8 DEF Somewhere
    <3>2. sock[f] = c /\ Somewhere(f) /\ \E j \in Pos : Queued(ch, j, f)
      BY <1>3, <1>7, <2>8, <3>1
    <3>3. f = gs[k]
      BY <1>11, <3>2
    <3> QED
      BY <1>1, <2>2, <3>2, <3>3 DEF Apart
  <2>9. ASSUME NEW ch \in OutChannels, NEW i \in Pos, NEW f \in Fds, Listed(ch, i, f)',
               sock'[f] = c
        PROVE  EndsIn(wire'[c], "frame", forwarded'[ch])
    <3>1. Somewhere(f)'
      BY <2>9 DEF Somewhere
    <3>2. sock[f] = c /\ Somewhere(f) /\ Listed(ch, i, f) /\ f \notin up
      BY <1>2, <1>7, <2>9, <3>1
    <3>3. f = gs[k]
      BY <1>11, <3>2
    <3>4. ch = q
      BY <1>1, <2>2, <3>2, <3>3 DEF Apart
    <3>5. how[k] = 2
      BY <1>2, <2>2, <3>2, <3>3
    <3> QED
      BY <1>5, <2>6, <3>4, <3>5
  <2> QED
    BY <2>6, <2>7, <2>8, <2>9 DEF InStep
<1>15. \A c \in Clients : InStep(c)' /\ WholeBlocks(wire'[c]) /\ wire'[c] \in Seq(Received)
  BY <1>13, <1>14
<1>16. wire' \in [Clients -> Seq(Received)]
  <2>1. wire' = [c \in Clients |-> wire'[c]]
    BY <1>4
  <2> QED
    BY <1>15, <2>1
<1> QED
  BY <1>5, <1>9, <1>15, <1>16 DEF Streams

\* What the threads push to the main event queue.
Ids == {0} \cup BusIds \cup {r.id : r \in Requests}
Mapped == UNION {DOMAIN FrameToId[ch] : ch \in InChannels}
Pushed ==
  [kind : {"directory"}, fd : Fds, to : Clients] \cup [kind : {"error", "@@framecontext"}]
    \cup [kind : {"read_frame"}, frame : Mapped] \cup [kind : {"can_frame_received"}, id : Ids]
MainInv ==
  /\ mainq \in Seq(Pushed)
  /\ \A c \in Clients : handler[c] \in {"waiting", "receiving"} => inOf[c] \in InChannels

\* The elements of a finite set in some order.
LEMMA SetInOrder ==
  ASSUME NEW S, IsFiniteSet(S)
  PROVE  SetToSeq(S) \in Seq(S)
<1>1. Cardinality(S) \in Nat /\ ExistsBijection(1 .. Cardinality(S), S)
  BY FS_CardinalityType
<1>2. \E f \in [1 .. Cardinality(S) -> S] : IsInjective(f)
  BY <1>1, Zenon DEF ExistsBijection, Bijection, Injection
<1>3. SetToSeq(S) \in [1 .. Cardinality(S) -> S]
  BY <1>2, Zenon DEF SetToSeq
<1> QED
  BY <1>1, <1>3, FunctionIsSequence

\* A receiver pushes no directory entry.
LEMMA DispatchedIsTyped ==
  ASSUME WellFormed, NEW ch \in InChannels, NEW id \in Ids
  PROVE  /\ Dispatched(ch, id) \in Seq(Pushed)
         /\ \A i \in DOMAIN Dispatched(ch, id) : Dispatched(ch, id)[i].kind # "directory"
<1> DEFINE mapped == {f \in DOMAIN FrameToId[ch] : FrameToId[ch][f] = id}
           read == [f \in mapped |-> [kind |-> "read_frame", frame |-> f]]
           reads == {[kind |-> "read_frame", frame |-> f] : f \in mapped}
           quiet == {x \in Pushed : x.kind # "directory"}
           last == <<[kind |-> "can_frame_received", id |-> id]>>
<1>1. IsFiniteSet(mapped)
  <2>1. IsFiniteSet(DOMAIN FrameToId[ch]) /\ mapped \subseteq DOMAIN FrameToId[ch]
    BY DEF WellFormed
  <2> QED
    BY <2>1, FS_Subset
<1>2. read \in Surjection(mapped, reads)
  BY DEF Surjection
<1>3. IsFiniteSet(reads)
  <2> HIDE DEF mapped, read, reads
  <2> QED
    BY <1>1, <1>2, FS_Surjection
<1>4. reads \subseteq quiet
  BY DEF Pushed, Mapped
<1>5. SetToSeq(reads) \in Seq(quiet)
  <2> HIDE DEF reads, quiet
  <2>1. SetToSeq(reads) \in Seq(reads)
    BY <1>3, SetInOrder
  <2> QED
    BY <1>4, <2>1
<1>6. last \in Seq(quiet) /\ <<[kind |-> "@@framecontext"]>> \in Seq(quiet) /\ <<>> \in Seq(quiet)
  <2>1. /\ [kind |-> "can_frame_received", id |-> id] \in quiet
        /\ [kind |-> "@@framecontext"] \in quiet
    BY DEF Pushed
  <2> HIDE DEF quiet
  <2> QED
    BY <2>1
<1>7. \/ Dispatched(ch, id) = SetToSeq(reads) \o last
      \/ Dispatched(ch, id) = <<[kind |-> "@@framecontext"]>>
      \/ Dispatched(ch, id) = <<>>
  BY Zenon DEF Dispatched
<1>8. Dispatched(ch, id) \in Seq(quiet)
  <2> HIDE DEF quiet, reads, last
  <2>1. \A s, t \in Seq(quiet) : s \o t \in Seq(quiet)
    BY ConcatProperties
  <2> QED
    BY <1>5, <1>6, <1>7, <2>1, Zenon
<1>9. quiet \subseteq Pushed /\ \A x \in quiet : x.kind # "directory"
  OBVIOUS
<1> HIDE DEF quiet
<1> QED
  BY <1>8, <1>9

\* Every step leaves a queue of such entries.
LEMMA MainStep ==
  ASSUME WellFormed, TypeOK, MainInv, [Next]_vars
  PROVE  MainInv'
<1> USE DEF clientVars, handlerVars, dirVars, channelVars, startVars
<1>1. mainq \in Seq(Pushed)
  BY DEF MainInv
<1>2. ASSUME UNCHANGED inOf, mainq' \in Seq(Pushed),
             \A c \in Clients : handler'[c] \in {"waiting", "receiving"} =>
                                handler[c] \in {"waiting", "receiving"}
      PROVE  MainInv'
  BY <1>2 DEF MainInv
<1>3. ASSUME UNCHANGED <<mainq, inOf, handler>> PROVE MainInv'
  BY <1>1, <1>2, <1>3
<1>4. ASSUME NEW c \in Clients, NEW close, Cleanup(c, close), UNCHANGED <<mainq, inOf>>
      PROVE  MainInv'
  <2>1. \A d \in Clients : handler'[d] = handler[d] \/ handler'[d] = "ended"
    BY <1>4 DEF Cleanup, TypeOK
  <2> QED
    BY <1>1, <1>2, <1>4, <2>1
<1>5. ASSUME NEW c \in Clients, Answer(c), UNCHANGED <<mainq, inOf>> PROVE MainInv'
  BY <1>3, <1>4, <1>5 DEF Answer
<1>6. ASSUME NEW ch \in OutChannels, Stop(ch), UNCHANGED <<handler, inOf>> PROVE MainInv'
  <2>1. [kind |-> "error"] \in Pushed
    BY DEF Pushed
  <2>2. mainq' \in Seq(Pushed)
    BY <1>1, <1>6, <2>1 DEF Stop
  <2> QED
    BY <1>2, <1>6, <2>2
<1>7. ASSUME NEW ch \in InChannels, NEW id \in Ids, mainq' = mainq \o Dispatched(ch, id),
             UNCHANGED <<handler, inOf>>
      PROVE  MainInv'
  <2>1. Dispatched(ch, id) \in Seq(Pushed)
    BY DispatchedIsTyped
  <2>2. mainq' \in Seq(Pushed)
    BY <1>1, <1>7, <2>1, ConcatProperties
  <2> QED
    BY <1>2, <1>7, <2>2
<1>8. ASSUME NEW c \in Clients, Accept(c) PROVE MainInv'
  <2>1. \A d \in Clients : handler'[d] = handler[d] \/ handler'[d] = "reading"
    BY <1>8 DEF Accept, TypeOK
  <2> QED
    BY <1>1, <1>2, <1>8, <2>1 DEF Accept
<1>9. ASSUME NEW c \in Clients, NEW n, HandleSubscribeOut(c, n) PROVE MainInv'
  <2>1. \A d \in Clients : handler'[d] = handler[d] \/ handler'[d] = "returning"
    BY <1>9 DEF HandleSubscribeOut, TypeOK
  <2> QED
    BY <1>1, <1>2, <1>9, <2>1 DEF HandleSubscribeOut
<1>10. ASSUME NEW c \in Clients, NEW n, HandleSubscribeIn(c, n) PROVE MainInv'
  <2>1. Request(c).channel \in InChannels
    BY <1>10, ReceiveIsTyped DEF HandleSubscribeIn, WellFormed
  <2>2. /\ \A d \in Clients : d # c => handler'[d] = handler[d] /\ inOf'[d] = inOf[d]
        /\ inOf'[c] \in InChannels /\ UNCHANGED mainq
    BY <1>10, <2>1 DEF HandleSubscribeIn, TypeOK
  <2> QED
    BY <2>2 DEF MainInv
<1>11. ASSUME NEW c \in Clients, NEW n, HandleDirectory(c, n) PROVE MainInv'
  <2>1. sck[c] \in Fds
    BY <1>11 DEF HandleDirectory, Receive, TypeOK
  <2>2. [kind |-> "directory", fd |-> sck[c], to |-> c] \in Pushed
    BY <2>1 DEF Pushed
  <2>3. mainq' \in Seq(Pushed) /\ UNCHANGED <<handler, inOf>>
    BY <1>1, <1>11, <2>2 DEF HandleDirectory
  <2> QED
    BY <1>2, <2>3
<1>12. ASSUME NEW c \in Clients, Handle(c) PROVE MainInv'
  <2>1. CASE HandleEndOfStream(c) \/ Return(c)
    BY <1>4, <2>1 DEF HandleEndOfStream, Return
  <2>2. ASSUME NEW n, \/ HandleQuery(c, n) \/ HandleRegister(c, n) \/ HandleRegisterStream(c, n)
        PROVE  MainInv'
    BY <1>5, <2>2 DEF HandleQuery, HandleRegister, HandleRegisterStream
  <2>3. ASSUME NEW n, HandleMalformed(c, n) PROVE MainInv'
    BY <1>4, <2>3 DEF HandleMalformed
  <2> QED
    BY <1>9, <1>10, <1>11, <1>12, <2>1, <2>2, <2>3 DEF Handle
<1>13. ASSUME NEW c \in Clients, ReceiveFrame(c) PROVE MainInv'
  <2>1. /\ handler[c] = "receiving" /\ inbox[c] # <<>> /\ inbox[c] \in Seq(Requests)
        /\ UNCHANGED <<handler, inOf>>
    BY <1>13 DEF ReceiveFrame, TypeOK
  <2>2. inOf[c] \in InChannels /\ Head(inbox[c]) \in Requests
    BY <2>1 DEF MainInv
  <2>3. Head(inbox[c]).id \in Ids /\ 0 \in Ids
    BY <2>2 DEF Ids
  <2>4. \E id \in Ids : mainq' = mainq \o Dispatched(inOf[c], id)
    BY <1>13, <2>3 DEF ReceiveFrame
  <2> QED
    BY <1>7, <2>1, <2>2, <2>4
<1>14. ASSUME NEW ch \in OutChannels,
              \/ \E f \in Frames : PushFrame(ch, f)
              \/ OpenBus(ch) \/ AddGateway(ch) \/ SendFrame(ch)
       PROVE  MainInv'
  BY <1>3, <1>6, <1>14 DEF PushFrame, OpenBus, AddGateway, SendFrame
<1>15. ASSUME NEW ch \in InChannels, RequestStart(ch) PROVE MainInv'
  <2>1. UNCHANGED <<mainq, inOf>>
    BY <1>15 DEF RequestStart
  <2>2. \A c \in Clients : handler'[c] = handler[c] \/ handler[c] = "waiting"
    BY <1>15 DEF RequestStart, TypeOK
  <2> QED
    BY <1>1, <1>2, <2>1, <2>2
<1>16. ASSUME NEW ch \in InChannels, NEW id \in BusIds, ReceiveFromBus(ch, id) PROVE MainInv'
  <2>1. id \in Ids
    BY DEF Ids
  <2> QED
    BY <1>7, <1>16, <2>1 DEF ReceiveFromBus
<1>17. CASE MainLoop
  <2>1. mainq' \in Seq(Pushed) /\ UNCHANGED <<handler, inOf>>
    BY <1>1, <1>17 DEF MainLoop
  <2> QED
    BY <1>2, <2>1
<1>18. ASSUME NEW c \in Clients, Leave(c) \/ \E r \in Requests : SendRequest(c, r) PROVE MainInv'
  BY <1>3, <1>18 DEF Leave, SendRequest
<1>19. CASE UNCHANGED vars
  BY <1>3, <1>19 DEF vars
<1> QED
  BY <1>8, <1>12, <1>13, <1>14, <1>15, <1>16, <1>17, <1>18, <1>19 DEF Next

\* A step that moves no descriptor and brings nothing but responses.
Serving ==
  /\ UNCHANGED <<sock, sck, outq, gateways, forwarded>>
  /\ wire' = [c \in Clients |-> wire'[c]] /\ Quiet
  /\ \A c \in Clients :
       /\ peer'[c] = "idle" => peer[c] = "idle"
       /\ peer'[c] = "open" => peer[c] = "open"
       /\ \/ handler'[c] = handler[c]
          \/ handler[c] \in Live /\ handler'[c] \in Live
          \/ handler[c] = "returning" /\ handler'[c] = "ended"

LEMMA ServingKeepsStreams ==
  ASSUME WellFormed, TypeOK, OwnSockets, Streams, Serving
  PROVE  OwnSockets' /\ Streams'
<1>1. OwnSockets'
  BY ServingKeepsSockets DEF Serving
<1>2. \A c \in Clients : handler'[c] \in Live \cup {"none"} => handler[c] \in Live \cup {"none"}
  BY DEF Serving, Live
<1>3. \A ch, i, f : /\ Queued(ch, i, f)' => Queued(ch, i, f)
                    /\ Listed(ch, i, f)' => Listed(ch, i, f)
  BY PlacesKept DEF Serving
<1> QED
  BY <1>1, <1>2, <1>3, QuietKeepsStreams DEF Serving

\* Nothing arrives.
LEMMA Silence ==
  ASSUME Streams, UNCHANGED wire
  PROVE  wire' = [c \in Clients |-> wire'[c]] /\ Quiet
BY DEF Streams, Quiet

\* A response arrives at one client.
LEMMA ResponseIsQuiet ==
  ASSUME Streams, NEW c \in Clients, NEW to \in Clients, wire' = Respond(c, to)
  PROVE  wire' = [d \in Clients |-> wire'[d]] /\ Quiet
<1> DEFINE x == [kind |-> "response", to |-> to, n |-> 0]
<1>1. x \in Received /\ x.kind = "response"
  BY DEF Received
<1>2. wire' = [wire EXCEPT ![c] = Append(@, x)] /\ wire \in [Clients -> Seq(Received)]
  BY DEF Respond, Streams
<1> HIDE DEF x
<1> QED
  BY <1>1, <1>2 DEF Quiet

LEMMA CleanupKeepsStreams ==
  ASSUME WellFormed, TypeOK, OwnSockets, Streams, NEW c \in Clients, handler[c] = "reading",
         Cleanup(c, TRUE), UNCHANGED <<peer, outq, gateways, wire, forwarded>>
  PROVE  OwnSockets' /\ Streams'
<1>1. /\ OwnSockets' /\ handler' = [handler EXCEPT ![c] = "ended"]
      /\ \A f \in Fds : Somewhere(f)' => sock'[f] = sock[f]
  BY ClosingKeepsSockets
<1>2. \A d \in Clients : handler'[d] = handler[d] \/ handler'[d] = "ended"
  BY <1>1 DEF TypeOK
<1>3. \A d \in Clients : handler'[d] \in Live \cup {"none"} => handler[d] \in Live \cup {"none"}
  BY <1>2 DEF Live
<1>4. \A ch, i, f : /\ Queued(ch, i, f)' => Queued(ch, i, f)
                    /\ Listed(ch, i, f)' => Listed(ch, i, f)
  BY PlacesKept
<1> QED
  BY <1>1, <1>3, <1>4, Silence, QuietKeepsStreams

LEMMA AnswerKeepsStreams ==
  ASSUME WellFormed, TypeOK, OwnSockets, Streams, NEW c \in Clients, handler[c] = "reading",
         Answer(c), UNCHANGED <<peer, outq, gateways, forwarded>>
  PROVE  OwnSockets' /\ Streams'
<1>1. CASE UNCHANGED <<handler, sock, sck>> /\ (UNCHANGED wire \/ wire' = Respond(c, c))
  BY <1>1, Silence, ResponseIsQuiet, ServingKeepsStreams DEF Serving
<1>2. CASE Cleanup(c, TRUE) /\ UNCHANGED wire
  BY <1>2, CleanupKeepsStreams
<1> QED
  BY <1>1, <1>2 DEF Answer

\* A handler serves its client.
LEMMA HandleKeepsStreams ==
  ASSUME WellFormed, TypeOK, OwnSockets, Streams, NEW c \in Clients, Handle(c)
  PROVE  OwnSockets' /\ Streams'
<1> USE DEF clientVars, channelVars
<1>1. CASE HandleEndOfStream(c)
  BY <1>1, CleanupKeepsStreams DEF HandleEndOfStream
<1>2. CASE Return(c)
  <2>1. UNCHANGED <<sock, sck, outq, gateways, forwarded, wire, peer>>
    BY <1>2 DEF Return, Cleanup
  <2>2. \A d \in Clients : \/ handler'[d] = handler[d]
                           \/ handler[d] = "returning" /\ handler'[d] = "ended"
    BY <1>2 DEF Return, Cleanup, TypeOK
  <2> QED
    BY <2>1, <2>2, Silence, ServingKeepsStreams DEF Serving
<1>3. ASSUME NEW n, HandleQuery(c, n) \/ HandleRegister(c, n) \/ HandleRegisterStream(c, n)
      PROVE  OwnSockets' /\ Streams'
  BY <1>3, AnswerKeepsStreams DEF HandleQuery, HandleRegister, HandleRegisterStream, Receive
<1>4. ASSUME NEW n, HandleMalformed(c, n) PROVE OwnSockets' /\ Streams'
  BY <1>4, CleanupKeepsStreams DEF HandleMalformed, Receive
<1>5. ASSUME NEW n, HandleSubscribeOut(c, n) PROVE OwnSockets' /\ Streams'
  <2>1. /\ OwnSockets' /\ handler' = [handler EXCEPT ![c] = "returning"]
        /\ handler[c] = "reading" /\ sock[sck[c]] = c
        /\ \A ch \in OutChannels : \A i \in Pos : \A f :
             /\ Queued(ch, i, f)' => Queued(ch, i, f) \/ f = sck[c]
             /\ Listed(ch, i, f)' => Listed(ch, i, f)
    BY <1>5, SubscribeKeepsSockets
  <2>2. UNCHANGED <<sock, peer, wire, forwarded>>
    BY <1>5 DEF HandleSubscribeOut, Receive
  <2>3. \A d \in Clients : handler'[d] = handler[d] \/ handler'[d] = "returning"
    BY <2>1 DEF TypeOK
  <2>4. \A d \in Clients : handler'[d] \in Live \cup {"none"} => handler[d] \in Live \cup {"none"}
    BY <2>3 DEF Live
  <2>5. handler[sock[sck[c]]] \in Live
    BY <2>1 DEF Live
  <2> QED
    BY <2>1, <2>2, <2>4, <2>5, Silence, QuietKeepsStreams
<1>6. ASSUME NEW n, HandleSubscribeIn(c, n) PROVE OwnSockets' /\ Streams'
  <2>1. UNCHANGED <<sock, sck, outq, gateways, forwarded, wire, peer>>
    BY <1>6 DEF HandleSubscribeIn, Receive
  <2>2. \A d \in Clients : \/ handler'[d] = handler[d]
                           \/ handler[d] \in Live /\ handler'[d] \in Live
    BY <1>6 DEF HandleSubscribeIn, Receive, TypeOK, Live
  <2> QED
    BY <2>1, <2>2, Silence, ServingKeepsStreams DEF Serving
<1>7. ASSUME NEW n, HandleDirectory(c, n) PROVE OwnSockets' /\ Streams'
  <2>1. UNCHANGED <<sock, sck, outq, gateways, forwarded, wire, peer, handler>>
    BY <1>7 DEF HandleDirectory, Receive
  <2> QED
    BY <2>1, Silence, ServingKeepsStreams DEF Serving
<1> QED
  BY <1>1, <1>2, <1>3, <1>4, <1>5, <1>6, <1>7 DEF Handle

\* A sender thread works.
LEMMA SenderKeepsStreams ==
  ASSUME WellFormed, TypeOK, OwnSockets, Streams, NEW q \in OutChannels,
         (\E f \in Frames : PushFrame(q, f)) \/ OpenBus(q) \/ AddGateway(q) \/ SendFrame(q)
  PROVE  OwnSockets' /\ Streams'
<1> USE DEF clientVars, handlerVars, channelVars
<1>1. ASSUME UNCHANGED <<handler, sck, peer, sock, wire, forwarded>>, \A f \in Fds : Apart(f)',
             \A ch \in OutChannels : \A i \in Pos, f \in Fds :
               /\ Queued(ch, i, f)' => \E j \in Pos : Queued(ch, j, f)
               /\ Listed(ch, i, f)' => Listed(ch, i, f) \/ \E j \in Pos : Queued(ch, j, f)
      PROVE  OwnSockets' /\ Streams'
  <2>1. \A f \in Fds : Somewhere(f)' => Somewhere(f)
    BY <1>1 DEF Somewhere
  <2>2. OwnSockets'
    BY <1>1, <2>1, SendingKeepsSockets
  <2> QED
    BY <1>1, <2>2, Silence, QuietKeepsStreams
<1>2. \A f \in Fds : Apart(f)
  BY DEF OwnSockets
<1>3. ASSUME NEW f \in Frames, PushFrame(q, f) PROVE OwnSockets' /\ Streams'
  <2>1. f \in Waiting /\ f.kind # "gateway"
    BY DEF Waiting, Frames
  <2>2. outq' = [outq EXCEPT ![q] = Append(@, f)]
        /\ UNCHANGED <<gateways, handler, sck, peer, sock, wire, forwarded>>
    BY <1>3 DEF PushFrame
  <2>3. \A ch \in OutChannels : \A i \in Pos : \A g :
          /\ Queued(ch, i, g)' <=> Queued(ch, i, g)
          /\ Listed(ch, i, g)' <=> Listed(ch, i, g)
    BY <2>1, <2>2, AppendPlaces
  <2>4. \A g \in Fds : Apart(g)'
    BY <1>2, <2>3 DEF Apart
  <2> QED
    BY <1>1, <2>2, <2>3, <2>4
<1>4. CASE OpenBus(q)
  <2>1. UNCHANGED <<sock, sck, outq, gateways, forwarded, wire, peer, handler>>
    BY <1>4 DEF OpenBus
  <2> QED
    BY <2>1, Silence, ServingKeepsStreams DEF Serving
<1>5. CASE AddGateway(q)
  <2>1. UNCHANGED <<handler, sck, peer, sock, wire, forwarded>>
    BY <1>5 DEF AddGateway
  <2> QED
    BY <1>1, <1>2, <1>5, <2>1, AddPlaces
<1>6. CASE SendFrame(q)
  <2>1. /\ outq[q] # <<>> /\ outq' = [outq EXCEPT ![q] = Tail(@)]
        /\ Head(outq[q]).kind = "frame" /\ UNCHANGED <<peer, handler, sck>>
    BY <1>6 DEF SendFrame
  <2>2. \/ UNCHANGED <<gateways, sock, wire, forwarded>>
        \/ \E how \in [DOMAIN gateways[q] -> 0 .. 2] : Forward(q, how)
    BY <1>6 DEF SendFrame
  <2>3. CASE UNCHANGED <<gateways, sock, wire, forwarded>>
    <3> DEFINE closed == {}
    <3>1. /\ \A g \in closed : \E i \in Pos : Listed(q, i, g)
          /\ \A ch \in OutChannels : \A i \in Pos, g \in Fds :
               Listed(ch, i, g)' <=> Listed(ch, i, g) /\ g \notin closed
      BY <2>3 DEF Listed
    <3> HIDE DEF closed
    <3>2. /\ \A g \in Fds : Apart(g)'
          /\ \A ch \in OutChannels : \A i \in Pos, g \in Fds :
               Queued(ch, i, g)' => \E j \in Pos : Queued(ch, j, g)
      BY <1>2, <2>1, <3>1, ClosedPlaces
    <3> QED
      BY <1>1, <2>1, <2>3, <3>1, <3>2
  <2> QED
    BY <2>1, <2>2, <2>3, ForwardKeepsStreams
<1> QED
  BY <1>3, <1>4, <1>5, <1>6

\* The main loop answers over the descriptor it was given, whoever has it.
LEMMA MainLoopKeepsStreams ==
  ASSUME WellFormed, TypeOK, MainInv, OwnSockets, Streams, MainLoop
  PROVE  OwnSockets' /\ Streams'
<1> USE DEF clientVars, handlerVars, channelVars
<1> DEFINE e == Head(mainq)
<1>1. UNCHANGED <<sock, sck, outq, gateways, forwarded, peer, handler>>
  BY DEF MainLoop
<1>2. e \in Pushed
  BY DEF MainLoop, MainInv
<1>3. e.kind = "directory" => e.fd \in Fds /\ e.to \in Clients
  BY <1>2 DEF Pushed
<1>4. e.kind = "directory" /\ sock[e.fd] # None => sock[e.fd] \in Clients
  BY <1>3 DEF TypeOK
<1>5. UNCHANGED wire \/ \E c, to \in Clients : wire' = Respond(c, to)
  BY <1>3, <1>4 DEF MainLoop
<1>6. wire' = [c \in Clients |-> wire'[c]] /\ Quiet
  BY <1>5, Silence, ResponseIsQuiet
<1> QED
  BY <1>1, <1>6, ServingKeepsStreams DEF Serving

\* Every step keeps the streams in step with the senders.
LEMMA StreamStep ==
  ASSUME WellFormed, TypeOK, MainInv, OwnSockets, Streams, [Next]_vars
  PROVE  OwnSockets' /\ Streams'
<1> USE DEF clientVars, handlerVars, dirVars, channelVars, startVars
<1>1. ASSUME NEW c \in Clients, Accept(c) PROVE OwnSockets' /\ Streams'
  <2>1. /\ OwnSockets' /\ peer[c] = "idle"
        /\ \E f \in Fds : sock[f] = None /\ sock' = [sock EXCEPT ![f] = c]
        /\ \A d \in Clients : d # c => handler'[d] = handler[d] /\ peer'[d] = peer[d]
        /\ handler'[c] \in {"none", "reading"} /\ handler[c] = "none"
        /\ UNCHANGED <<wire, outq, gateways, forwarded>>
    BY <1>1, AcceptKeepsSockets
  <2>2. \A f \in Fds : Somewhere(f)' => Somewhere(f)
    BY <2>1, PlacesKept DEF Somewhere
  <2>3. \A f \in Fds : Somewhere(f)' => sock'[f] = sock[f]
    BY <2>1, <2>2 DEF OwnSockets, TypeOK
  <2>4. \A d \in Clients : handler'[d] \in Live \cup {"none"} => handler[d] \in Live \cup {"none"}
    BY <2>1
  <2>5. \A d \in Clients : peer'[d] = "open" => peer[d] = "open" \/ \A f \in Fds : sock[f] # d
    BY <2>1 DEF OwnSockets
  <2>6. \A ch, i, f : /\ Queued(ch, i, f)' => Queued(ch, i, f)
                      /\ Listed(ch, i, f)' => Listed(ch, i, f)
    BY <2>1, PlacesKept
  <2> QED
    BY <2>1, <2>3, <2>4, <2>5, <2>6, Silence, QuietKeepsStreams
<1>2. ASSUME NEW c \in Clients, Leave(c) PROVE OwnSockets' /\ Streams'
  <2>1. UNCHANGED <<sock, sck, outq, gateways, forwarded, wire, handler>>
    BY <1>2 DEF Leave
  <2>2. \A d \in Clients : peer'[d] = peer[d] \/ peer'[d] = "gone"
    BY <1>2 DEF Leave, TypeOK
  <2> QED
    BY <2>1, <2>2, Silence, ServingKeepsStreams DEF Serving
<1>3. ASSUME UNCHANGED <<sock, sck, outq, gateways, forwarded, wire, handler, peer>>
      PROVE  OwnSockets' /\ Streams'
  BY <1>3, Silence, ServingKeepsStreams DEF Serving
<1>4. ASSUME NEW c \in Clients, NEW r \in Requests, SendRequest(c, r) PROVE OwnSockets' /\ Streams'
  BY <1>3, <1>4 DEF SendRequest
<1>5. ASSUME NEW c \in Clients, ReceiveFrame(c) PROVE OwnSockets' /\ Streams'
  BY <1>3, <1>5 DEF ReceiveFrame
<1>6. ASSUME NEW ch \in InChannels, NEW id, ReceiveFromBus(ch, id) PROVE OwnSockets' /\ Streams'
  BY <1>3, <1>6 DEF ReceiveFromBus
<1>7. ASSUME NEW ch \in InChannels, RequestStart(ch) PROVE OwnSockets' /\ Streams'
  <2>1. UNCHANGED <<sock, sck, outq, gateways, forwarded, wire, peer>>
    BY <1>7 DEF RequestStart
  <2>2. \A d \in Clients : \/ handler'[d] = handler[d]
                           \/ handler[d] \in Live /\ handler'[d] \in Live
    BY <1>7 DEF RequestStart, TypeOK, Live
  <2> QED
    BY <2>1, <2>2, Silence, ServingKeepsStreams DEF Serving
<1>8. CASE UNCHANGED vars
  BY <1>3, <1>8 DEF vars
<1> QED
  BY <1>1, <1>2, <1>4, <1>5, <1>6, <1>7, <1>8, HandleKeepsStreams, SenderKeepsStreams,
     MainLoopKeepsStreams DEF Next

LEMMA InitIsInStep ==
  ASSUME WellFormed, Init
  PROVE  MainInv /\ OwnSockets /\ Streams
<1>1. \A ch \in OutChannels : \A i, f : ~ Queued(ch, i, f) /\ ~ Listed(ch, i, f)
  BY DEF Init, Queued, Listed
<1>2. \A c \in Clients : handler[c] = "none" /\ wire[c] = <<>>
  BY DEF Init
<1>3. \A f \in Fds : sock[f] = None /\ None \notin Clients
  BY DEF Init, WellFormed
<1>4. OwnSockets
  BY <1>1, <1>2, <1>3 DEF OwnSockets, Somewhere, Apart, Live
<1>5. Parts(<<>>) = {}
  BY DEF Parts
<1>6. \A c \in Clients : InStep(c) /\ WholeBlocks(wire[c])
  BY <1>1, <1>2, <1>5 DEF InStep, WholeBlocks
<1>7. wire \in [Clients -> Seq(Received)] /\ forwarded \in [OutChannels -> Nat]
  BY DEF Init
<1>8. MainInv
  BY <1>2 DEF MainInv, Init
<1> QED
  BY <1>4, <1>6, <1>7, <1>8 DEF Streams

\* Whatever the clients, their requests and the failures of send() are, a
\* subscriber reads whole blocks of consecutive frames, and nothing after a
\* block that was cut off. The descriptor of a stream is in one list at a time
\* even when its handler is overtaken, so no two senders mix their frames.
THEOREM StreamsAreWhole ==
  ASSUME WellFormed
  PROVE  Spec => []GatewayStreams
<1> DEFINE Inv == TypeOK /\ MainInv /\ OwnSockets /\ Streams
<1>1. Init => Inv
  BY InitIsTyped, InitIsInStep
<1>2. Inv /\ [Next]_vars => Inv'
  BY TypeStep, MainStep, StreamStep
<1>3. Inv => GatewayStreams
  BY DEF Streams, GatewayStreams
<1> QED
  BY <1>1, <1>2, <1>3, PTL DEF Spec

-----------------------------------------------------------------------------
(* Answers.  A client that waits for each answer has at most one request   *)
(* on its way, at one place: on the way to its handler, or in the main     *)
(* queue with the descriptor the client still has.                         *)

AnswersIn(s, c) == Cardinality({i \in DOMAIN s : s[i].kind = "response" /\ s[i].to = c})
For(i, c) == mainq[i].kind = "directory" /\ mainq[i].to = c
NoneFor(c) == \A i \in DOMAIN mainq : ~ For(i, c)
OneFor(c) ==
  \E i \in DOMAIN mainq : /\ For(i, c) /\ mainq[i].fd = sck[c]
                          /\ \A j \in DOMAIN mainq : For(j, c) => j = i
Done(c) == inbox[c] = <<>> /\ NoneFor(c) /\ Answers(c) = sent[c]
Asking(c) == Len(inbox[c]) = 1 /\ NoneFor(c) /\ Answers(c) + 1 = sent[c]
Posted(c) == inbox[c] = <<>> /\ OneFor(c) /\ Answers(c) + 1 = sent[c]
Patient(c) ==
  /\ peer[c] = "idle" =>
       sent[c] = 0 /\ inbox[c] = <<>> /\ left[c] = <<>> /\ Answers(c) = 0 /\ NoneFor(c)
  /\ (c \notin pipelined /\ handler[c] = "reading" /\ peer[c] = "open") =>
       left[c] = <<>> /\ (Done(c) \/ Asking(c) \/ Posted(c))
PatientInv == sent \in [Clients -> Nat] /\ \A c \in Clients : Patient(c)

\* What another element adds to the answers.
LEMMA AnswersGrow ==
  ASSUME NEW s \in Seq(Received), NEW x \in Received, NEW c
  PROVE  /\ AnswersIn(s, c) \in Nat
         /\ ~ (x.kind = "response" /\ x.to = c) => AnswersIn(Append(s, x), c) = AnswersIn(s, c)
         /\ x.kind = "response" /\ x.to = c => AnswersIn(Append(s, x), c) = AnswersIn(s, c) + 1
<1> DEFINE A == {i \in DOMAIN s : s[i].kind = "response" /\ s[i].to = c}
           t == Append(s, x)
           B == {i \in DOMAIN t : t[i].kind = "response" /\ t[i].to = c}
           e == Len(s) + 1
<1>1. /\ DOMAIN t = DOMAIN s \cup {e} /\ t[e] = x /\ e \notin DOMAIN s
      /\ \A i \in DOMAIN s : t[i] = s[i]
  BY Appended
<1>2. IsFiniteSet(A)
  <2>1. IsFiniteSet(1 .. Len(s)) /\ A \subseteq 1 .. Len(s)
    BY FS_Interval
  <2> QED
    BY <2>1, FS_Subset
<1> HIDE DEF t, e
<1>3. ~ (x.kind = "response" /\ x.to = c) => B = A
  BY <1>1
<1>4. x.kind = "response" /\ x.to = c => B = A \cup {e}
  BY <1>1
<1>5. e \notin A
  BY <1>1
<1> HIDE DEF A, B
<1>6. Cardinality(A) \in Nat /\ Cardinality(A \cup {e}) = Cardinality(A) + 1
  BY <1>2, <1>5, FS_CardinalityType, FS_AddElement
<1>7. AnswersIn(s, c) = Cardinality(A) /\ AnswersIn(t, c) = Cardinality(B)
  BY DEF AnswersIn, A, B
<1> QED
  BY <1>3, <1>4, <1>6, <1>7 DEF t

\* What happens to the posted requests of a client as the queue moves on.
LEMMA QueueGrows ==
  ASSUME MainInv, NEW c \in Clients, NEW t \in Seq(Pushed), mainq' = mainq \o t,
         sck'[c] = sck[c],
         \A i \in DOMAIN t : ~ (t[i].kind = "directory" /\ t[i].to = c)
  PROVE  (NoneFor(c) => NoneFor(c)') /\ (OneFor(c) => OneFor(c)')
<1> DEFINE q == mainq \o t
<1>1. mainq \in Seq(Pushed) /\ Len(mainq) \in Nat /\ Len(t) \in Nat
  BY DEF MainInv
<1>2. /\ \A i \in DOMAIN mainq : i \in DOMAIN q /\ q[i] = mainq[i]
      /\ \A i \in DOMAIN q : i \in DOMAIN mainq \/ \E j \in DOMAIN t : q[i] = t[j]
  <2>1. Len(q) = Len(mainq) + Len(t) /\ DOMAIN q = 1 .. Len(q)
    BY <1>1
  <2>2. \A i \in 1 .. Len(q) : q[i] = IF i <= Len(mainq) THEN mainq[i] ELSE t[i - Len(mainq)]
    BY <1>1, ConcatProperties
  <2>3. DOMAIN mainq = 1 .. Len(mainq) /\ DOMAIN t = 1 .. Len(t)
    BY <1>1
  <2> HIDE DEF q
  <2>4. ASSUME NEW i \in DOMAIN mainq PROVE i \in DOMAIN q /\ q[i] = mainq[i]
    <3>1. i \in 1 .. Len(q) /\ i <= Len(mainq)
      BY <1>1, <2>1, <2>3, <2>4
    <3> QED
      BY <2>1, <2>2, <3>1
  <2>5. ASSUME NEW i \in DOMAIN q, i \notin DOMAIN mainq PROVE \E j \in DOMAIN t : q[i] = t[j]
    <3>1. ~ (i <= Len(mainq)) /\ i - Len(mainq) \in DOMAIN t /\ i \in 1 .. Len(q)
      BY <1>1, <2>1, <2>3, <2>5
    <3> QED
      BY <2>2, <3>1
  <2> QED
    BY <2>4, <2>5
<1>3. mainq' = q
  OBVIOUS
<1> HIDE DEF q
<1>4. /\ \A i \in DOMAIN mainq :
           i \in DOMAIN mainq' /\ mainq'[i] = mainq[i] /\ (For(i, c)' <=> For(i, c))
      /\ \A i \in DOMAIN mainq' : For(i, c)' => i \in DOMAIN mainq
  BY <1>2, <1>3 DEF For
<1> QED
  BY <1>4 DEF NoneFor, OneFor

\* The main loop takes the first entry.
LEMMA QueueShrinks ==
  ASSUME MainInv, NEW c \in Clients, mainq # <<>>, mainq' = Tail(mainq), sck'[c] = sck[c]
  PROVE  /\ NoneFor(c) => NoneFor(c)' /\ ~ (Head(mainq).kind = "directory" /\ Head(mainq).to = c)
         /\ OneFor(c) =>
              \/ OneFor(c)' /\ ~ (Head(mainq).kind = "directory" /\ Head(mainq).to = c)
              \/ /\ NoneFor(c)' /\ Head(mainq).kind = "directory" /\ Head(mainq).to = c
                 /\ Head(mainq).fd = sck[c]
<1>1. mainq \in Seq(Pushed) /\ Len(mainq) \in Nat /\ Len(mainq) > 0
  BY DEF MainInv
<1>2. /\ DOMAIN mainq = 1 .. Len(mainq) /\ DOMAIN mainq' = 1 .. Len(mainq) - 1
      /\ Head(mainq) = mainq[1] /\ \A i \in DOMAIN mainq' : mainq'[i] = mainq[i + 1]
  BY <1>1
<1>3. \A i \in DOMAIN mainq' : i + 1 \in DOMAIN mainq /\ i + 1 # 1 /\ (For(i, c)' <=> For(i + 1, c))
  BY <1>1, <1>2 DEF For
<1>4. /\ 1 \in DOMAIN mainq
      /\ \A i \in DOMAIN mainq : i # 1 => i - 1 \in DOMAIN mainq' /\ (i - 1) + 1 = i
  BY <1>1, <1>2
<1>5. For(1, c) <=> Head(mainq).kind = "directory" /\ Head(mainq).to = c
  BY <1>2 DEF For
<1>6. NoneFor(c) => NoneFor(c)' /\ ~ For(1, c)
  BY <1>3, <1>4 DEF NoneFor
<1>7. ASSUME OneFor(c)
      PROVE  \/ OneFor(c)' /\ ~ For(1, c)
             \/ NoneFor(c)' /\ For(1, c) /\ mainq[1].fd = sck[c]
  <2>1. PICK i \in DOMAIN mainq : /\ For(i, c) /\ mainq[i].fd = sck[c]
                                  /\ \A j \in DOMAIN mainq : For(j, c) => j = i
    BY <1>7 DEF OneFor
  <2>2. CASE i = 1
    BY <1>3, <2>1, <2>2 DEF NoneFor
  <2>3. CASE i # 1
    <3>1. PICK k \in DOMAIN mainq' : k + 1 = i
      BY <1>4, <2>3
    <3>2. For(k, c)' /\ mainq'[k].fd = sck'[c]
      BY <1>2, <1>3, <2>1, <3>1
    <3>3. ASSUME NEW j \in DOMAIN mainq', For(j, c)' PROVE j = k
      <4>1. j + 1 = k + 1
        BY <1>3, <2>1, <3>1, <3>3
      <4>2. j \in Int /\ k \in Int
        BY <1>1, <1>2
      <4> QED
        BY <4>1, <4>2
    <3>4. ~ For(1, c)
      BY <1>4, <2>1, <2>3
    <3> QED
      BY <3>2, <3>3, <3>4 DEF OneFor
  <2> QED
    BY <2>2, <2>3
<1> QED
  BY <1>2, <1>5, <1>6, <1>7

\* Nothing happens to a client and its requests.
LEMMA PatientKept ==
  ASSUME NEW c \in Clients, Patient(c), sent'[c] = sent[c], inbox'[c] = inbox[c],
         left'[c] = left[c], Answers(c)' = Answers(c), pipelined \subseteq pipelined',
         NoneFor(c) => NoneFor(c)', OneFor(c) => OneFor(c)',
         peer'[c] = "idle" => peer[c] = "idle",
         handler'[c] = "reading" /\ peer'[c] = "open" => handler[c] = "reading" /\ peer[c] = "open"
  PROVE  Patient(c)'
BY DEF Patient, Done, Asking, Posted

\* A client that does not read, or does not listen, is owed nothing.
LEMMA PatientNoMore ==
  ASSUME NEW c \in Clients, peer'[c] # "idle", handler'[c] # "reading" \/ peer'[c] # "open"
  PROVE  Patient(c)'
BY DEF Patient

LEMMA QueueKept ==
  ASSUME NEW c \in Clients, UNCHANGED mainq, sck'[c] = sck[c]
  PROVE  (NoneFor(c) => NoneFor(c)') /\ (OneFor(c) => OneFor(c)')
BY DEF NoneFor, OneFor, For

LEMMA SameAnswers ==
  ASSUME NEW c \in Clients, wire'[c] = wire[c]
  PROVE  Answers(c)' = Answers(c)
BY DEF Answers

LEMMA OneAnswerMore ==
  ASSUME Streams, NEW c \in Clients, NEW d \in Clients, NEW to \in Clients, wire' = Respond(d, to)
  PROVE  /\ Answers(c) \in Nat
         /\ c # d \/ to # c => Answers(c)' = Answers(c)
         /\ c = d /\ to = c => Answers(c)' = Answers(c) + 1
<1> DEFINE x == [kind |-> "response", to |-> to, n |-> 0]
<1>1. x \in Received /\ x.kind = "response" /\ x.to = to
  BY DEF Received
<1>2. wire[c] \in Seq(Received) /\ wire' = [wire EXCEPT ![d] = Append(@, x)]
      /\ wire \in [Clients -> Seq(Received)]
  BY DEF Streams, Respond
<1>3. Answers(c) = AnswersIn(wire[c], c) /\ Answers(c)' = AnswersIn(wire'[c], c)
  BY DEF Answers, AnswersIn
<1> HIDE DEF x
<1>4. wire'[c] = IF c = d THEN Append(wire[c], x) ELSE wire[c]
  BY <1>2
<1> QED
  BY <1>1, <1>2, <1>3, <1>4, AnswersGrow

\* A patient client's handler reads the one request there is.
LEMMA PatientIsRead ==
  ASSUME TypeOK, OwnSockets, NEW c \in Clients, Patient(c), NEW n, Receive(c, n)
  PROVE  /\ peer[c] # "idle" /\ handler[c] = "reading" /\ UNCHANGED <<peer, sent, pipelined>>
         /\ \A d \in Clients : d # c => inbox'[d] = inbox[d] /\ left'[d] = left[d]
         /\ c \notin pipelined /\ peer[c] = "open" =>
              inbox'[c] = <<>> /\ left'[c] = <<>> /\ NoneFor(c) /\ Answers(c) + 1 = sent[c]
<1>1. /\ handler[c] = "reading" /\ n \in 1 .. Len(inbox[c]) /\ UNCHANGED <<peer, sent, pipelined>>
      /\ inbox' = [inbox EXCEPT ![c] = SubSeq(@, n + 1, Len(@))]
      /\ left' = [left EXCEPT ![c] = SubSeq(inbox[c], 2, n)]
  BY DEF Receive
<1>2. peer[c] # "idle" /\ inbox[c] \in Seq(Requests) /\ Len(inbox[c]) \in Nat
  BY <1>1 DEF OwnSockets, TypeOK
<1>3. \A d \in Clients : d # c => inbox'[d] = inbox[d] /\ left'[d] = left[d]
  BY <1>1 DEF TypeOK
<1>4. ASSUME c \notin pipelined, peer[c] = "open"
      PROVE  inbox'[c] = <<>> /\ left'[c] = <<>> /\ NoneFor(c) /\ Answers(c) + 1 = sent[c]
  <2>1. Len(inbox[c]) > 0
    BY <1>1, <1>2
  <2>2. Asking(c)
    BY <1>1, <1>2, <1>4, <2>1 DEF Patient, Done, Posted
  <2>3. n = 1 /\ Len(inbox[c]) = 1
    BY <1>1, <2>2 DEF Asking
  <2>4. inbox'[c] = SubSeq(inbox[c], 2, 1) /\ left'[c] = SubSeq(inbox[c], 2, 1)
    BY <1>1, <2>3 DEF TypeOK
  <2>5. SubSeq(inbox[c], 2, 1) = <<>>
    BY <1>2, SubSeqEmpty
  <2> QED
    BY <2>2, <2>4, <2>5 DEF Asking
<1> QED
  BY <1>1, <1>2, <1>3, <1>4

\* The handler ends, or turns to something else.
LEMMA OthersStayPatient ==
  ASSUME NEW c \in Clients, NEW d \in Clients, c # d, Patient(d),
         sent'[d] = sent[d], inbox'[d] = inbox[d], left'[d] = left[d], wire'[d] = wire[d],
         pipelined \subseteq pipelined', peer'[d] = peer[d], handler'[d] = handler[d],
         NoneFor(d) => NoneFor(d)', OneFor(d) => OneFor(d)'
  PROVE  Patient(d)'
BY SameAnswers, PatientKept

LEMMA AnswerKeepsPatience ==
  ASSUME WellFormed, TypeOK, OwnSockets, Streams, PatientInv, NEW c \in Clients, NEW n,
         Receive(c, n), Answer(c), UNCHANGED mainq
  PROVE  PatientInv'
<1>1. /\ peer[c] # "idle" /\ handler[c] = "reading" /\ UNCHANGED <<peer, sent, pipelined>>
      /\ \A d \in Clients : d # c => inbox'[d] = inbox[d] /\ left'[d] = left[d]
      /\ c \notin pipelined /\ peer[c] = "open" =>
           inbox'[c] = <<>> /\ left'[c] = <<>> /\ NoneFor(c) /\ Answers(c) + 1 = sent[c]
  BY PatientIsRead DEF PatientInv
<1>2. UNCHANGED sck /\ \A d \in Clients : d # c => handler'[d] = handler[d] /\ wire'[d] = wire[d]
  BY DEF Answer, Cleanup, Respond, TypeOK, Streams
<1>3. ASSUME NEW d \in Clients, d # c PROVE Patient(d)'
  BY <1>1, <1>2, <1>3, QueueKept, OthersStayPatient DEF PatientInv
<1>4. Patient(c)'
  <2>1. CASE peer[c] # "open" \/ handler'[c] # "reading"
    BY <1>1, <2>1, PatientNoMore
  <2>2. CASE peer[c] = "open" /\ handler'[c] = "reading"
    <3>1. wire' = Respond(c, c)
      BY <2>2 DEF Answer
    <3>2. Answers(c)' = Answers(c) + 1
      BY <3>1, OneAnswerMore
    <3>3. c \notin pipelined => Done(c)' /\ left'[c] = <<>>
      BY <1>1, <1>2, <2>2, <3>2, QueueKept DEF Done
    <3> QED
      BY <1>1, <2>2, <3>3 DEF Patient
  <2> QED
    BY <2>1, <2>2
<1> QED
  BY <1>1, <1>3, <1>4 DEF PatientInv

\* A handler that stops reading owes its client nothing any more.
LEMMA StopKeepsPatience ==
  ASSUME TypeOK, PatientInv, NEW c \in Clients, peer[c] # "idle", handler'[c] # "reading",
         UNCHANGED <<peer, sent, pipelined, wire, mainq, sck>>,
         \A d \in Clients : d # c => inbox'[d] = inbox[d] /\ left'[d] = left[d]
                                     /\ handler'[d] = handler[d]
  PROVE  PatientInv'
<1>1. ASSUME NEW d \in Clients, d # c PROVE Patient(d)'
  BY <1>1, QueueKept, OthersStayPatient DEF PatientInv
<1>2. Patient(c)'
  BY PatientNoMore
<1> QED
  BY <1>1, <1>2 DEF PatientInv

\* A handler serves its client: it answers, posts the request or stops.
LEMMA HandleKeepsPatience ==
  ASSUME WellFormed, TypeOK, MainInv, OwnSockets, Streams, PatientInv, NEW c \in Clients, Handle(c)
  PROVE  PatientInv'
<1> USE DEF clientVars
<1>1. Patient(c)
  BY DEF PatientInv
<1>2. ASSUME NEW close, Cleanup(c, close)
      PROVE  /\ handler'[c] # "reading" /\ UNCHANGED sck
             /\ \A d \in Clients : d # c => handler'[d] = handler[d]
  BY <1>2 DEF Cleanup, TypeOK
<1>3. CASE HandleEndOfStream(c) \/ Return(c)
  <2>1. UNCHANGED <<peer, sent, pipelined, inbox, left, wire, mainq>> /\ peer[c] # "idle"
    BY <1>3 DEF HandleEndOfStream, Return, OwnSockets
  <2>2. Cleanup(c, TRUE) \/ Cleanup(c, FALSE)
    BY <1>3 DEF HandleEndOfStream, Return
  <2> QED
    BY <1>2, <2>1, <2>2, StopKeepsPatience
<1>4. ASSUME NEW n, HandleQuery(c, n) \/ HandleRegister(c, n) \/ HandleRegisterStream(c, n)
      PROVE  PatientInv'
  BY <1>4, AnswerKeepsPatience DEF HandleQuery, HandleRegister, HandleRegisterStream
<1>5. ASSUME NEW n, HandleMalformed(c, n) PROVE PatientInv'
  <2>1. /\ peer[c] # "idle" /\ UNCHANGED <<peer, sent, pipelined>>
        /\ \A d \in Clients : d # c => inbox'[d] = inbox[d] /\ left'[d] = left[d]
    BY <1>1, <1>5, PatientIsRead DEF HandleMalformed
  <2>2. UNCHANGED <<wire, mainq>> /\ Cleanup(c, TRUE)
    BY <1>5 DEF HandleMalformed
  <2> QED
    BY <1>2, <2>1, <2>2, StopKeepsPatience
<1>6. ASSUME NEW n, HandleSubscribeOut(c, n) \/ HandleSubscribeIn(c, n) PROVE PatientInv'
  <2>1. /\ peer[c] # "idle" /\ UNCHANGED <<peer, sent, pipelined>>
        /\ \A d \in Clients : d # c => inbox'[d] = inbox[d] /\ left'[d] = left[d]
    BY <1>1, <1>6, PatientIsRead DEF HandleSubscribeOut, HandleSubscribeIn
  <2>2. UNCHANGED <<wire, mainq, sck>>
    BY <1>6 DEF HandleSubscribeOut, HandleSubscribeIn
  <2>3. handler'[c] # "reading" /\ \A d \in Clients : d # c => handler'[d] = handler[d]
    BY <1>6 DEF HandleSubscribeOut, HandleSubscribeIn, TypeOK
  <2> QED
    BY <2>1, <2>2, <2>3, StopKeepsPatience
<1>7. ASSUME NEW n, HandleDirectory(c, n) PROVE PatientInv'
  <2> DEFINE x == [kind |-> "directory", fd |-> sck[c], to |-> c]
  <2>1. /\ peer[c] # "idle" /\ handler[c] = "reading" /\ UNCHANGED <<peer, sent, pipelined>>
        /\ \A d \in Clients : d # c => inbox'[d] = inbox[d] /\ left'[d] = left[d]
        /\ c \notin pipelined /\ peer[c] = "open" =>
             inbox'[c] = <<>> /\ left'[c] = <<>> /\ NoneFor(c) /\ Answers(c) + 1 = sent[c]
    BY <1>1, <1>7, PatientIsRead DEF HandleDirectory
  <2>2. mainq' = Append(mainq, x) /\ UNCHANGED <<handler, sck, wire>>
    BY <1>7 DEF HandleDirectory
  <2>3. sck[c] \in Fds /\ mainq \in Seq(Pushed)
    BY <2>1 DEF TypeOK, MainInv
  <2>4. x \in Pushed /\ x.kind = "directory" /\ x.to = c /\ x.fd = sck[c]
    BY <2>3 DEF Pushed
  <2> HIDE DEF x
  <2>5. /\ mainq' = mainq \o <<x>> /\ <<x>> \in Seq(Pushed) /\ DOMAIN <<x>> = {1} /\ <<x>>[1] = x
    BY <2>2, <2>3, <2>4
  <2>6. ASSUME NEW d \in Clients, d # c PROVE Patient(d)'
    <3>1. \A i \in DOMAIN <<x>> : ~ (<<x>>[i].kind = "directory" /\ <<x>>[i].to = d)
      BY <2>4, <2>5, <2>6
    <3>2. (NoneFor(d) => NoneFor(d)') /\ (OneFor(d) => OneFor(d)')
      BY <2>2, <2>5, <3>1, QueueGrows
    <3> QED
      BY <2>1, <2>2, <2>6, <3>2, OthersStayPatient DEF PatientInv
  <2>7. NoneFor(c) => OneFor(c)'
    <3> DEFINE e == Len(mainq) + 1
    <3>1. /\ DOMAIN mainq' = DOMAIN mainq \cup {e} /\ mainq'[e] = x
          /\ \A i \in DOMAIN mainq : mainq'[i] = mainq[i]
      BY <2>2, <2>3, <2>4, Appended
    <3> HIDE DEF e
    <3> QED
      BY <2>2, <2>4, <3>1 DEF NoneFor, OneFor, For
  <2>8. Answers(c)' = Answers(c)
    BY <2>2, SameAnswers
  <2>9. Patient(c)'
    BY <2>1, <2>2, <2>7, <2>8 DEF Patient, Posted
  <2> QED
    BY <2>1, <2>6, <2>9 DEF PatientInv
<1> QED
  BY <1>3, <1>4, <1>5, <1>6, <1>7 DEF Handle

\* The main loop answers the request at the head of its queue: the client
\* that waits for it still has the descriptor.
LEMMA MainLoopKeepsPatience ==
  ASSUME WellFormed, TypeOK, MainInv, OwnSockets, Streams, PatientInv, MainLoop
  PROVE  PatientInv'
<1> USE DEF clientVars, handlerVars
<1> DEFINE e == Head(mainq)
           x == sock[e.fd]
<1>1. /\ mainq # <<>> /\ mainq' = Tail(mainq)
      /\ UNCHANGED <<sock, sck, peer, handler, inbox, left, sent, pipelined>>
      /\ wire' = IF e.kind = "directory" /\ x # None /\ peer[x] = "open"
                 THEN Respond(x, e.to) ELSE wire
  BY DEF MainLoop
<1>2. e \in Pushed
  BY <1>1 DEF MainInv
<1>3. e.kind = "directory" => e.fd \in Fds /\ e.to \in Clients /\ (x # None => x \in Clients)
  BY <1>2 DEF Pushed, TypeOK
<1> SUFFICES ASSUME NEW c \in Clients PROVE Patient(c)'
  BY <1>1 DEF PatientInv
<1>4. Patient(c) /\ sent[c] \in Nat
  BY DEF PatientInv
<1>5. /\ NoneFor(c) => NoneFor(c)' /\ ~ (e.kind = "directory" /\ e.to = c)
      /\ OneFor(c) => \/ OneFor(c)' /\ ~ (e.kind = "directory" /\ e.to = c)
                      \/ /\ NoneFor(c)' /\ e.kind = "directory" /\ e.to = c
                         /\ e.fd = sck[c]
  BY <1>1, QueueShrinks
<1> HIDE DEF e, x
<1>6. ~ (e.kind = "directory" /\ e.to = c) => Answers(c)' = Answers(c)
  BY <1>1, <1>3, SameAnswers, OneAnswerMore
<1>7. CASE peer[c] = "idle"
  <2>1. NoneFor(c) /\ NoneFor(c)' /\ Answers(c)' = Answers(c)
    BY <1>4, <1>5, <1>6, <1>7 DEF Patient
  <2> QED
    BY <1>1, <1>4, <1>7, <2>1 DEF Patient
<1>8. CASE peer[c] # "idle" /\ ~ (c \notin pipelined /\ handler[c] = "reading" /\ peer[c] = "open")
  BY <1>1, <1>8 DEF Patient
<1>9. CASE c \notin pipelined /\ handler[c] = "reading" /\ peer[c] = "open"
  <2>1. left[c] = <<>> /\ (Done(c) \/ Asking(c) \/ Posted(c))
    BY <1>4, <1>9 DEF Patient
  <2>2. CASE NoneFor(c)
    <3>1. NoneFor(c)' /\ Answers(c)' = Answers(c)
      BY <1>5, <1>6, <2>2
    <3>2. ~ OneFor(c)
      BY <2>2 DEF NoneFor, OneFor
    <3> QED
      BY <1>1, <1>9, <2>1, <3>1, <3>2 DEF Patient, Done, Asking, Posted
  <2>3. CASE Posted(c) /\ OneFor(c)' /\ ~ (e.kind = "directory" /\ e.to = c)
    BY <1>1, <1>6, <1>9, <2>1, <2>3 DEF Patient, Posted
  <2>4. CASE /\ Posted(c) /\ NoneFor(c)' /\ e.kind = "directory" /\ e.to = c
             /\ e.fd = sck[c]
    <3>1. x = c
      BY <1>9, <2>4 DEF OwnSockets, Live, x
    <3>2. wire' = Respond(c, c)
      BY <1>1, <1>3, <1>9, <2>4, <3>1 DEF WellFormed
    <3>3. Answers(c)' = Answers(c) + 1
      BY <3>2, OneAnswerMore
    <3>4. Done(c)'
      BY <1>1, <2>4, <3>3 DEF Posted, Done
    <3> QED
      BY <1>1, <1>9, <2>1, <3>4 DEF Patient
  <2> QED
    BY <1>5, <2>1, <2>2, <2>3, <2>4 DEF Done, Asking, Posted
<1> QED
  BY <1>7, <1>8, <1>9

\* A frame goes to clients whose handlers have given their descriptors away.
LEMMA ForwardIsElsewhere ==
  ASSUME WellFormed, TypeOK, OwnSockets, Streams, NEW q \in OutChannels, NEW how, Forward(q, how),
         NEW c \in Clients, peer[c] = "idle" \/ handler[c] = "reading"
  PROVE  wire'[c] = wire[c]
<1> DEFINE gs == gateways[q]
           At(d) == {i \in DOMAIN gs : gs[i] # 0 /\ sock[gs[i]] = d}
<1>1. At(c) = {}
  <2> SUFFICES ASSUME NEW i \in DOMAIN gs, gs[i] # 0, sock[gs[i]] = c PROVE FALSE
    OBVIOUS
  <2>1. gs \in Seq(Fds \cup {0})
    BY DEF TypeOK
  <2>2. gs[i] \in Fds /\ i \in Pos
    BY <2>1 DEF Pos
  <2>3. Somewhere(gs[i])
    BY <2>2 DEF Somewhere, Listed
  <2> HIDE DEF gs
  <2> QED
    BY <2>2, <2>3 DEF OwnSockets
<1>2. wire' = [d \in Clients |->
                 IF peer[d] = "open" /\ At(d) # {}
                 THEN wire[d] \o SubSeq(<<[kind |-> "length", n |-> forwarded[q] + 1],
                                          [kind |-> "frame", n |-> forwarded[q] + 1]>>, 1,
                                        how[CHOOSE i \in At(d) : TRUE])
                 ELSE wire[d]]
  BY DEF Forward
<1> HIDE DEF At
<1> QED
  BY <1>1, <1>2

\* Every step leaves a patient client with at most one request on its way.
LEMMA PatientStep ==
  ASSUME WellFormed, TypeOK, MainInv, OwnSockets, Streams, PatientInv, [Next]_vars
  PROVE  PatientInv'
<1> USE DEF clientVars, handlerVars, dirVars, channelVars, startVars
<1>1. ASSUME UNCHANGED <<sent, inbox, left, pipelined, sck, peer>>,
             \A c \in Clients : handler'[c] = "reading" => handler[c] = "reading",
             \A c \in Clients : peer[c] = "idle" \/ handler[c] = "reading" => wire'[c] = wire[c],
             \A c \in Clients : (NoneFor(c) => NoneFor(c)') /\ (OneFor(c) => OneFor(c)')
      PROVE  PatientInv'
  <2>1. ASSUME NEW c \in Clients PROVE Patient(c)'
    <3>1. CASE peer[c] = "idle" \/ handler[c] = "reading"
      <4>1. Answers(c)' = Answers(c)
        BY <1>1, <3>1, SameAnswers
      <4> QED
        BY <1>1, <4>1, PatientKept DEF PatientInv
    <3>2. CASE peer[c] # "idle" /\ handler[c] # "reading"
      BY <1>1, <3>2, PatientNoMore
    <3> QED
      BY <3>1, <3>2
  <2> QED
    BY <1>1, <2>1 DEF PatientInv
<1>2. ASSUME NEW t \in Seq(Pushed), mainq' = mainq \o t, UNCHANGED sck,
             \A i \in DOMAIN t : t[i].kind # "directory"
      PROVE  \A c \in Clients : (NoneFor(c) => NoneFor(c)') /\ (OneFor(c) => OneFor(c)')
  BY <1>2, QueueGrows
<1>3. ASSUME NEW ch, Stop(ch), UNCHANGED sck
      PROVE  \A c \in Clients : (NoneFor(c) => NoneFor(c)') /\ (OneFor(c) => OneFor(c)')
  <2>1. [kind |-> "error"] \in Pushed /\ mainq \in Seq(Pushed)
    BY DEF Pushed, MainInv
  <2>2. PICK x \in Pushed : x = [kind |-> "error"]
    BY <2>1
  <2>3. x.kind # "directory"
    BY <2>2
  <2>4. mainq' = Append(mainq, x)
    BY <1>3, <2>2 DEF Stop
  <2>5. Append(mainq, x) = mainq \o <<x>>
    BY <2>1
  <2>6. <<x>> \in Seq(Pushed) /\ \A i \in DOMAIN <<x>> : <<x>>[i] = x
    OBVIOUS
  <2> QED
    BY <1>2, <1>3, <2>3, <2>4, <2>5, <2>6
<1>4. ASSUME UNCHANGED <<mainq, sck>>
      PROVE  \A c \in Clients : (NoneFor(c) => NoneFor(c)') /\ (OneFor(c) => OneFor(c)')
  BY <1>4, QueueKept
<1>5. ASSUME NEW c \in Clients, Accept(c) PROVE PatientInv'
  <2>1. /\ UNCHANGED <<sent, inbox, left, pipelined, wire, mainq>>
        /\ peer[c] = "idle" /\ peer' = [peer EXCEPT ![c] = "open"]
        /\ \A d \in Clients : d # c => sck'[d] = sck[d] /\ handler'[d] = handler[d]
    BY <1>5 DEF Accept, TypeOK
  <2>2. /\ peer'[c] = "open" /\ \A d \in Clients : d # c => peer'[d] = peer[d]
    BY <2>1 DEF TypeOK
  <2>3. ASSUME NEW d \in Clients, d # c PROVE Patient(d)'
    BY <2>1, <2>2, <2>3, QueueKept, OthersStayPatient DEF PatientInv
  <2>4. /\ sent[c] = 0 /\ inbox[c] = <<>> /\ left[c] = <<>> /\ Answers(c) = 0 /\ NoneFor(c)
    BY <2>1 DEF PatientInv, Patient
  <2>5. NoneFor(c)' /\ Answers(c)' = Answers(c)
    BY <2>1, <2>4, SameAnswers DEF NoneFor, For
  <2>6. Patient(c)'
    BY <2>1, <2>2, <2>4, <2>5 DEF Patient, Done
  <2> QED
    BY <2>1, <2>3, <2>6 DEF PatientInv
<1>6. ASSUME NEW c \in Clients, Leave(c) PROVE PatientInv'
  <2>1. UNCHANGED <<sent, inbox, left, pipelined, wire, mainq, sck, handler>>
    BY <1>6 DEF Leave
  <2>2. peer'[c] = "gone" /\ \A d \in Clients : d # c => peer'[d] = peer[d]
    BY <1>6 DEF Leave, TypeOK
  <2>3. ASSUME NEW d \in Clients, d # c PROVE Patient(d)'
    BY <2>1, <2>2, <2>3, QueueKept, OthersStayPatient DEF PatientInv
  <2> QED
    BY <2>1, <2>2, <2>3, PatientNoMore DEF PatientInv
<1>7. ASSUME NEW c \in Clients, NEW r \in Requests, SendRequest(c, r) PROVE PatientInv'
  <2>1. /\ UNCHANGED <<left, wire, mainq, sck, handler, peer>> /\ peer[c] = "open"
        /\ inbox' = [inbox EXCEPT ![c] = Append(@, r)] /\ sent' = [sent EXCEPT ![c] = @ + 1]
        /\ pipelined \subseteq pipelined' /\ (Answers(c) < sent[c] => c \in pipelined')
    BY <1>7 DEF SendRequest
  <2>2. /\ sent \in [Clients -> Nat] /\ sent' \in [Clients -> Nat] /\ sent'[c] = sent[c] + 1
        /\ inbox'[c] = Append(inbox[c], r) /\ inbox[c] \in Seq(Requests)
        /\ \A d \in Clients : d # c => inbox'[d] = inbox[d] /\ sent'[d] = sent[d]
    BY <2>1 DEF PatientInv, TypeOK
  <2>3. ASSUME NEW d \in Clients, d # c PROVE Patient(d)'
    BY <2>1, <2>2, <2>3, QueueKept, OthersStayPatient DEF PatientInv
  <2>4. Patient(c)'
    <3> SUFFICES ASSUME c \notin pipelined', handler'[c] = "reading", peer'[c] = "open"
                 PROVE  Patient(c)'
      BY <2>1 DEF Patient
    <3>1. left[c] = <<>> /\ (Done(c) \/ Asking(c) \/ Posted(c)) /\ sent[c] \in Nat
      BY <2>1, <2>2 DEF PatientInv, Patient
    <3>2. Answers(c) \in Nat
      <4>1. wire[c] \in Seq(Received) /\ [kind |-> "length", n |-> 0] \in Received
        BY DEF Streams, Received
      <4>2. AnswersIn(wire[c], c) \in Nat
        BY <4>1, AnswersGrow
      <4> QED
        BY <4>2 DEF Answers, AnswersIn
    <3>3. Done(c)
      BY <2>1, <3>1, <3>2 DEF Asking, Posted
    <3>4. Len(inbox'[c]) = 1
      BY <2>2, <3>3 DEF Done
    <3>5. NoneFor(c)' /\ Answers(c)' = Answers(c)
      BY <2>1, <3>3, SameAnswers, QueueKept DEF Done
    <3>6. Asking(c)'
      BY <2>2, <3>3, <3>4, <3>5 DEF Done, Asking
    <3> QED
      BY <2>1, <3>1, <3>6 DEF Patient
  <2> QED
    BY <2>2, <2>3, <2>4 DEF PatientInv
<1>8. ASSUME NEW c \in Clients, ReceiveFrame(c) PROVE PatientInv'
  <2>1. /\ UNCHANGED <<sent, left, pipelined, wire, sck, handler, peer>>
        /\ handler[c] = "receiving" /\ inbox[c] # <<>> /\ inbox[c] \in Seq(Requests)
        /\ \A d \in Clients : d # c => inbox'[d] = inbox[d]
    BY <1>8 DEF ReceiveFrame, TypeOK
  <2>2. inOf[c] \in InChannels /\ Head(inbox[c]) \in Requests
    BY <2>1 DEF MainInv
  <2>3. Head(inbox[c]).id \in Ids /\ 0 \in Ids
    BY <2>2 DEF Ids
  <2>4. \E id \in Ids : mainq' = mainq \o Dispatched(inOf[c], id)
    BY <1>8, <2>3 DEF ReceiveFrame
  <2>5. \A d \in Clients : (NoneFor(d) => NoneFor(d)') /\ (OneFor(d) => OneFor(d)')
    BY <1>2, <2>1, <2>2, <2>4, DispatchedIsTyped
  <2>6. peer[c] # "idle"
    BY <2>1 DEF OwnSockets
  <2>7. Patient(c)'
    BY <2>1, <2>6, PatientNoMore
  <2>8. ASSUME NEW d \in Clients, d # c PROVE Patient(d)'
    BY <2>1, <2>5, <2>8, OthersStayPatient DEF PatientInv
  <2> QED
    BY <2>1, <2>7, <2>8 DEF PatientInv
<1>9. ASSUME NEW q \in OutChannels,
             (\E f \in Frames : PushFrame(q, f)) \/ OpenBus(q) \/ AddGateway(q) \/ SendFrame(q)
      PROVE  PatientInv'
  <2>1. UNCHANGED <<sent, inbox, left, pipelined, sck, peer, handler>>
    BY <1>9 DEF PushFrame, OpenBus, AddGateway, SendFrame
  <2>2. UNCHANGED wire \/ \E how : Forward(q, how)
    BY <1>9 DEF PushFrame, OpenBus, AddGateway, SendFrame
  <2>3. \A c \in Clients : peer[c] = "idle" \/ handler[c] = "reading" => wire'[c] = wire[c]
    BY <2>2, ForwardIsElsewhere
  <2>4. UNCHANGED mainq \/ Stop(q)
    BY <1>9 DEF PushFrame, OpenBus, AddGateway, SendFrame
  <2>5. \A c \in Clients : (NoneFor(c) => NoneFor(c)') /\ (OneFor(c) => OneFor(c)')
    BY <1>3, <1>4, <2>1, <2>4
  <2> QED
    BY <1>1, <2>1, <2>3, <2>5
<1>10. ASSUME NEW ch \in InChannels, RequestStart(ch) PROVE PatientInv'
  <2>1. UNCHANGED <<sent, inbox, left, pipelined, sck, peer, wire, mainq>>
    BY <1>10 DEF RequestStart
  <2>2. \A c \in Clients : handler'[c] = "reading" => handler[c] = "reading"
    BY <1>10 DEF RequestStart, TypeOK
  <2> QED
    BY <1>1, <1>4, <2>1, <2>2
<1>11. ASSUME NEW ch \in InChannels, NEW id \in BusIds, ReceiveFromBus(ch, id) PROVE PatientInv'
  <2>1. /\ UNCHANGED <<sent, inbox, left, pipelined, sck, peer, wire, handler>>
        /\ mainq' = mainq \o Dispatched(ch, id)
    BY <1>11 DEF ReceiveFromBus
  <2>2. id \in Ids
    BY DEF Ids
  <2>3. \A c \in Clients : (NoneFor(c) => NoneFor(c)') /\ (OneFor(c) => OneFor(c)')
    BY <1>2, <2>1, <2>2, DispatchedIsTyped
  <2> QED
    BY <1>1, <2>1, <2>3
<1>12. CASE UNCHANGED vars
  BY <1>1, <1>4, <1>12 DEF vars
<1> QED
  BY <1>5, <1>6, <1>7, <1>8, <1>9, <1>10, <1>11, <1>12, HandleKeepsPatience,
     MainLoopKeepsPatience DEF Next

\* A client that waits for each answer has one to every request its handler
\* has read, or it is still in the main queue: the main loop answers over a
\* descriptor that can have been closed and handed out again in between, but
\* not while its client waits.
THEOREM PatienceIsAnswered ==
  ASSUME WellFormed
  PROVE  Spec => []PatientClientsAreAnswered
<1> DEFINE Inv == TypeOK /\ MainInv /\ OwnSockets /\ Streams /\ PatientInv
<1>1. Init => Inv
  <2> SUFFICES ASSUME Init PROVE PatientInv
    BY InitIsTyped, InitIsInStep
  <2>1. sent \in [Clients -> Nat]
    BY DEF Init
  <2>2. ASSUME NEW c \in Clients
        PROVE  /\ sent[c] = 0 /\ inbox[c] = <<>> /\ left[c] = <<>> /\ wire[c] = <<>>
               /\ handler[c] = "none" /\ mainq = <<>>
    BY DEF Init
  <2>3. ASSUME NEW c \in Clients PROVE Answers(c) = 0 /\ NoneFor(c)
    <3>1. {i \in DOMAIN wire[c] : wire[c][i].kind = "response" /\ wire[c][i].to = c} = {}
      BY <2>2
    <3>2. Answers(c) = 0
      BY <3>1, FS_EmptySet, Zenon DEF Answers
    <3>3. NoneFor(c)
      BY <2>2 DEF NoneFor
    <3> QED
      BY <3>2, <3>3
  <2> QED
    BY <2>1, <2>2, <2>3 DEF PatientInv, Patient
<1>2. Inv /\ [Next]_vars => Inv'
  BY TypeStep, MainStep, StreamStep, PatientStep
<1>3. Inv => PatientClientsAreAnswered
  <2> SUFFICES ASSUME Inv, NEW c \in Clients \ pipelined, handler[c] = "reading",
                      peer[c] = "open", inbox[c] = <<>>,
                      \A i \in DOMAIN mainq : mainq[i].kind = "directory" => mainq[i].to # c
               PROVE  Answers(c) = sent[c]
    BY DEF PatientClientsAreAnswered
  <2>1. Done(c) \/ Asking(c) \/ Posted(c)
    BY DEF PatientInv, Patient
  <2>2. ~ Posted(c)
    BY DEF Posted, OneFor, For
  <2>3. ~ Asking(c)
    BY DEF Asking
  <2> QED
    BY <2>1, <2>2, <2>3 DEF Done
<1> QED
  BY <1>1, <1>2, <1>3, PTL DEF Spec
=============================================================================
