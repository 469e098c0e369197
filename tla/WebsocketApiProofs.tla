-------------------------- MODULE WebsocketApiProofs --------------------------
(***************************************************************************)
(* Proofs about WebsocketApi, for any number of connections, descriptors   *)
(* and requests: a client that waits for its answers, watches nothing and  *)
(* leaves only when answered gets its answers whole and in order, and its  *)
(* descriptor is closed by nobody else.                                    *)
(***************************************************************************)
EXTENDS WebsocketApi, FiniteSetTheorems, TLAPS

-----------------------------------------------------------------------------
(* The invariant.  An answer that has not arrived completely is that of    *)
(* the last answered request, and it is in one place: still to be read by  *)
(* the handler, being written by it, queued for the main loop or being     *)
(* written by that.                                                        *)

Last(c) == expects[c][Len(expects[c])]
Whole(c) == <<Part("header", c, Last(c)), Part("payload", c, Last(c))>>
Rest(c) == <<Part("payload", c, Last(c))>>

\* None of an answer has arrived, or its header.
Unbegun(c) == Len(wire[c]) + 2 = 2 * Len(expects[c])
Begun(c) == Len(wire[c]) + 1 = 2 * Len(expects[c])
Remaining(c, out) == (Unbegun(c) /\ out = Whole(c)) \/ (Begun(c) /\ out = Rest(c))

OneIsAnswered(c) ==
  /\ Len(wire[c]) <= 2 * Len(expects[c]) /\ 2 * Len(expects[c]) <= Len(wire[c]) + 2
  /\ (Outstanding(c) /\ Reads(c)) => client[c] = "open"

NobodyWatches(c) ==
  watched[c] = {} /\ \A i \in DOMAIN inbox[c] : inbox[c][i].name # "WATCH"

InInbox(c) ==
  \A i \in DOMAIN inbox[c] : Answered(inbox[c][i])
     => i = Len(inbox[c]) /\ Unbegun(c) /\ inbox[c][i] = Last(c)

InHandler(c) ==
  handler[c].out # <<>>
     => handler[c].st = "reading" /\ inbox[c] = <<>> /\ Remaining(c, handler[c].out)

Waits(c) == handler[c].st = "reading" /\ inbox[c] = <<>> /\ handler[c].out = <<>>

Queued(c, x) ==
  Waits(c) /\ Unbegun(c) /\ x.cmd = Last(c) /\ x.fd = handler[c].fd

InQueue ==
  /\ \A i \in DOMAIN mainq : Queued(mainq[i].from, mainq[i])
  /\ \A i, j \in DOMAIN mainq : mainq[i].from = mainq[j].from => i = j

Writing(c) ==
  /\ Waits(c) /\ Remaining(c, main.out) /\ main.fd = handler[c].fd
  /\ \A i \in DOMAIN mainq : mainq[i].from # c

InMain == main # None => \E c \in Clients : Writing(c)

Keeps(c) == Reads(c) => fdOf[handler[c].fd] = c

Arrived(c) ==
  \A n \in 1 .. Len(expects[c]) :
     /\ 2 * n - 1 <= Len(wire[c]) => wire[c][2 * n - 1] = Part("header", c, expects[c][n])
     /\ 2 * n <= Len(wire[c]) => wire[c][2 * n] = Part("payload", c, expects[c][n])

ClientInv(c) ==
  /\ OneIsAnswered(c) /\ NobodyWatches(c) /\ InInbox(c) /\ InHandler(c)
  /\ Keeps(c) /\ Arrived(c)

AnswerInv == ~ careless => (\A c \in Clients : ClientInv(c)) /\ InQueue /\ InMain

-----------------------------------------------------------------------------
(* Types.                                                                  *)

LEMMA HandlerTyped ==
  ASSUME TypeOK, NEW c \in Clients
  PROVE  /\ handler[c] \in [st : States, fd : Fds \cup {0}, out : Seq(Parts)]
         /\ inbox[c] \in Seq(AllCommands) /\ expects[c] \in Seq(AllCommands)
         /\ wire[c] \in Seq(Parts) /\ watched[c] \in SUBSET Signals
         /\ asked[c] \in Nat
         /\ client[c] \in {"new", "waiting", "open", "gone"}
         /\ handler[c].out \in Seq(Parts)
BY DEF TypeOK, HandlersTyped

\* The parts of an answer to a request of the program are parts.
LEMMA PartsTyped ==
  ASSUME NEW c \in Clients, NEW cmd \in AllCommands
  PROVE  /\ Part("header", c, cmd) \in Parts /\ Part("payload", c, cmd) \in Parts
         /\ <<Part("header", c, cmd), Part("payload", c, cmd)>> \in Seq(Parts)
<1>1. Part("header", c, cmd) \in Parts /\ Part("payload", c, cmd) \in Parts
  BY DEF Part, Parts
<1> QED
  BY <1>1

\* A request that is read comes from the inbox, which keeps the others.
LEMMA ReadTyped ==
  ASSUME TypeOK, NEW c \in Clients, inbox[c] # <<>>
  PROVE  /\ Request(c) \in AllCommands /\ Request(c) = inbox[c][1]
         /\ Tail(inbox[c]) \in Seq(AllCommands) /\ Len(Tail(inbox[c])) = Len(inbox[c]) - 1
         /\ Len(inbox[c]) \in Nat \ {0}
         /\ \A i \in 1 .. Len(inbox[c]) - 1 : Tail(inbox[c])[i] = inbox[c][i + 1]
<1>1. inbox[c] \in Seq(AllCommands)
  BY HandlerTyped
<1> QED
  BY <1>1 DEF Request

\* A written part is appended to what the owner of the descriptor received.
LEMMA WrittenTyped ==
  ASSUME TypeOK, NEW f \in Fds, NEW p \in Parts, Writable(f), Written(f, p), BoundedRun
  PROVE  /\ fdOf[f] \in Clients
         /\ wire' = [wire EXCEPT ![fdOf[f]] = Append(wire[fdOf[f]], p)]
         /\ wire' \in [Clients -> Seq(Parts)]
<1>1. fdOf[f] \in Clients
  BY DEF TypeOK, Writable
<1>2. Append(wire[fdOf[f]], p) \in Seq(Parts)
  BY <1>1, HandlerTyped
<1> QED
  BY <1>1, <1>2 DEF TypeOK, Written

\* Closing keeps the descriptor table a table.
LEMMA ClosedTyped ==
  ASSUME TypeOK, NEW f
  PROVE  Closed(f) \in [Fds -> Clients \cup {None}]
BY DEF TypeOK, Closed

LEMMA AcceptedKept ==
  ASSUME Accepted' = Accepted, UNCHANGED slots, TypeOK
  PROVE  slots' = Cardinality(Accepted)'
BY DEF TypeOK

\* A reply is two parts, written by the handler that read the request.
LEMMA ReplyTyped ==
  ASSUME TypeOK, NEW c \in Clients, Reading(c), Reply(c)
  PROVE  /\ handler' = [handler EXCEPT ![c].out =
                          <<Part("header", c, Request(c)), Part("payload", c, Request(c))>>]
         /\ handler' \in [Clients -> [st : States, fd : Fds \cup {0}, out : Seq(Parts)]]
         /\ \A d \in Clients : handler'[d].st = handler[d].st /\ handler'[d].fd = handler[d].fd
         /\ \A d \in Clients : d # c => handler'[d].out = handler[d].out
         /\ handler'[c].out = <<Part("header", c, Request(c)), Part("payload", c, Request(c))>>
<1>1. <<Part("header", c, Request(c)), Part("payload", c, Request(c))>> \in Seq(Parts)
  BY ReadTyped, PartsTyped DEF Reading
<1>2. handler \in [Clients -> [st : States, fd : Fds \cup {0}, out : Seq(Parts)]]
  BY DEF TypeOK, HandlersTyped
<1> QED
  BY <1>1, <1>2 DEF Reply

\* Reading a request leaves the other inboxes as they were.
LEMMA TakenTyped ==
  ASSUME TypeOK, NEW c \in Clients, Reading(c), Taken(c)
  PROVE  /\ inbox' \in [Clients -> Seq(AllCommands)]
         /\ inbox'[c] = Tail(inbox[c])
         /\ \A d \in Clients : d # c => inbox'[d] = inbox[d]
         /\ \A d \in Clients : Len(inbox'[d]) <= Len(inbox[d])
<1>1. inbox \in [Clients -> Seq(AllCommands)]
  BY DEF TypeOK
<1>2. /\ inbox' \in [Clients -> Seq(AllCommands)]
      /\ inbox'[c] = Tail(inbox[c])
      /\ \A d \in Clients : d # c => inbox'[d] = inbox[d]
  BY <1>1, ReadTyped DEF Taken, Reading
<1>3. \A d \in Clients : Len(inbox'[d]) <= Len(inbox[d])
  <2> TAKE d \in Clients
  <2>1. Len(inbox[d]) \in Nat
    BY <1>1
  <2> QED
    BY <1>2, <2>1, ReadTyped DEF Reading
<1> QED
  BY <1>2, <1>3

\* What the commands of a handler have in common.
LEMMA HandleShape ==
  ASSUME NEW c \in Clients, Handle(c)
  PROVE  /\ Reading(c) /\ Taken(c)
         /\ UNCHANGED <<fdOf, client, asked, expects, updater, main, wire, slots, careless>>
         /\ \/ UNCHANGED <<handler, mainq, watched>> /\ ~ Answered(Request(c))
            \/ UNCHANGED <<handler, mainq, watched>> /\ Throws(Request(c))
            \/ Reply(c) /\ UNCHANGED <<mainq, watched>> /\ Answered(Request(c))
            \/ /\ Reply(c) /\ UNCHANGED mainq /\ Request(c).name = "WATCH"
               /\ watched' = [watched EXCEPT ![c] = @ \cup ({Request(c).arg} \cap Signals)]
            \/ /\ handler' = [handler EXCEPT ![c].st = "handed"] /\ UNCHANGED <<mainq, watched>>
               /\ ~ Answered(Request(c))
            \/ /\ mainq' = Append(mainq, [cmd |-> Request(c), fd |-> handler[c].fd, from |-> c])
               /\ UNCHANGED <<handler, watched>> /\ Answered(Request(c))
<1>1. CASE HandleImmediate(c)
  BY <1>1 DEF HandleImmediate, Answered, Silent, Miscounted
<1>2. CASE HandleThrowing(c)
  BY <1>2 DEF HandleThrowing
<1>3. CASE HandleWatch(c)
  BY <1>3 DEF HandleWatch
<1>4. CASE HandleSet(c)
  BY <1>4 DEF HandleSet, Answered, Silent
<1>5. CASE HandleEvent(c)
  BY <1>5 DEF HandleEvent, Answered, Silent
<1>6. CASE HandleDeferred(c)
  BY <1>6 DEF HandleDeferred, Answered, Silent, Deferred
<1>7. CASE HandleSubscribe(c)
  BY <1>7 DEF HandleSubscribe, Answered
<1> QED
  BY <1>1, <1>2, <1>3, <1>4, <1>5, <1>6, <1>7 DEF Handle

\* A handler changes its state to one of a started handler and keeps its
\* descriptor.
LEMMA StateTyped ==
  ASSUME TypeOK, NEW c \in Clients, NEW st \in States,
         handler' = [handler EXCEPT ![c].st = st]
  PROVE  /\ handler' \in [Clients -> [st : States, fd : Fds \cup {0}, out : Seq(Parts)]]
         /\ handler'[c].st = st
         /\ \A d \in Clients : handler'[d].fd = handler[d].fd /\ handler'[d].out = handler[d].out
         /\ \A d \in Clients : d # c => handler'[d] = handler[d]
<1>1. handler \in [Clients -> [st : States, fd : Fds \cup {0}, out : Seq(Parts)]]
  BY DEF TypeOK, HandlersTyped
<1> QED
  BY <1>1

LEMMA OutTyped ==
  ASSUME TypeOK, NEW c \in Clients, NEW st \in States, NEW out \in Seq(Parts),
         handler' = [handler EXCEPT ![c].st = st, ![c].out = out]
  PROVE  /\ handler' \in [Clients -> [st : States, fd : Fds \cup {0}, out : Seq(Parts)]]
         /\ handler'[c].st = st /\ handler'[c].out = out
         /\ \A d \in Clients : handler'[d].fd = handler[d].fd
         /\ \A d \in Clients : d # c => handler'[d] = handler[d]
<1>1. handler \in [Clients -> [st : States, fd : Fds \cup {0}, out : Seq(Parts)]]
  BY DEF TypeOK, HandlersTyped
<1> QED
  BY <1>1

LEMMA RestTyped ==
  ASSUME TypeOK, NEW c \in Clients, NEW out \in Seq(Parts),
         handler' = [handler EXCEPT ![c].out = out]
  PROVE  /\ handler' \in [Clients -> [st : States, fd : Fds \cup {0}, out : Seq(Parts)]]
         /\ handler'[c].out = out
         /\ \A d \in Clients : handler'[d].fd = handler[d].fd /\ handler'[d].st = handler[d].st
         /\ \A d \in Clients : d # c => handler'[d] = handler[d]
<1>1. handler \in [Clients -> [st : States, fd : Fds \cup {0}, out : Seq(Parts)]]
  BY DEF TypeOK, HandlersTyped
<1> QED
  BY <1>1

LEMMA HandlersKept ==
  ASSUME TypeOK, UNCHANGED <<handler, client>>
  PROVE  HandlersTyped' /\ Accepted' = Accepted
BY DEF TypeOK, HandlersTyped, Accepted

LEMMA StartedHaveDescriptor ==
  ASSUME TypeOK, NEW c \in Clients
  PROVE  /\ handler[c].st = "none" <=> c \notin Accepted
         /\ handler[c].st # "none" => handler[c].fd \in Fds
BY DEF TypeOK, HandlersTyped

LEMMA ConnectTyped ==
  ASSUME TypeOK, NEW c \in Clients, Connect(c)
  PROVE  TypeOK'
<1>1. /\ client' \in [Clients -> {"new", "waiting", "open", "gone"}]
      /\ \A d \in Clients : client'[d] = IF d = c THEN "waiting" ELSE client[d]
  BY DEF TypeOK, Connect
<1>2. Accepted' = Accepted
  BY <1>1 DEF Accepted, Connect
<1>3. HandlersTyped'
  BY <1>2 DEF TypeOK, HandlersTyped, Connect
<1> QED
  BY <1>1, <1>2, <1>3 DEF TypeOK, Connect

LEMMA LeaveTyped ==
  ASSUME TypeOK, NEW c \in Clients, Leave(c)
  PROVE  TypeOK'
<1>1. /\ client' \in [Clients -> {"new", "waiting", "open", "gone"}]
      /\ \A d \in Clients : client'[d] = IF d = c THEN "gone" ELSE client[d]
  BY DEF TypeOK, Leave
<1>2. Accepted' = Accepted
  BY <1>1 DEF Accepted, Leave
<1>3. HandlersTyped'
  BY <1>2 DEF TypeOK, HandlersTyped, Leave
<1> QED
  BY <1>1, <1>2, <1>3 DEF TypeOK, Leave

LEMMA AskTyped ==
  ASSUME TypeOK, BoundedRun, NEW c \in Clients, NEW cmd \in Commands[c], Ask(c, cmd)
  PROVE  TypeOK'
<1>1. cmd \in AllCommands
  BY DEF AllCommands
<1>2. /\ asked' \in [Clients -> Nat] /\ asked'[c] = asked[c] + 1
      /\ \A d \in Clients : d # c => asked'[d] = asked[d]
      /\ asked[c] \in Nat /\ asked[c] < MaxRequests[c]
  BY DEF TypeOK, Ask
<1>3. \A d \in Clients : asked'[d] <= MaxRequests[d]
  <2>1. MaxRequests[c] \in Nat
    BY DEF BoundedRun
  <2>2. asked'[c] <= MaxRequests[c]
    BY <1>2, <2>1
  <2>3. \A d \in Clients : asked[d] <= MaxRequests[d]
    BY DEF TypeOK
  <2> QED
    BY <1>2, <2>2, <2>3
<1>4. /\ expects[c] \in Seq(AllCommands) /\ inbox[c] \in Seq(AllCommands)
      /\ Append(expects[c], cmd) \in Seq(AllCommands)
      /\ Append(inbox[c], cmd) \in Seq(AllCommands)
      /\ Len(Append(expects[c], cmd)) = Len(expects[c]) + 1
      /\ Len(Append(inbox[c], cmd)) = Len(inbox[c]) + 1
      /\ Len(expects[c]) \in Nat /\ Len(inbox[c]) \in Nat
  <2>1. expects[c] \in Seq(AllCommands) /\ inbox[c] \in Seq(AllCommands)
    BY HandlerTyped
  <2> QED
    BY <1>1, <2>1
<1>5. /\ inbox' \in [Clients -> Seq(AllCommands)]
      /\ inbox'[c] = Append(inbox[c], cmd)
      /\ \A d \in Clients : d # c => inbox'[d] = inbox[d]
  BY <1>4 DEF TypeOK, Ask
<1>6. /\ expects' \in [Clients -> Seq(AllCommands)]
      /\ expects'[c] = Append(expects[c], cmd) \/ expects'[c] = expects[c]
      /\ \A d \in Clients : d # c => expects'[d] = expects[d]
  BY <1>4 DEF TypeOK, Ask
<1>7. \A d \in Clients : Len(expects'[d]) <= asked'[d] /\ Len(inbox'[d]) <= asked'[d]
  <2>1. \A d \in Clients : Len(expects[d]) <= asked[d] /\ Len(inbox[d]) <= asked[d]
    BY DEF TypeOK
  <2>2. Len(expects'[c]) <= asked'[c] /\ Len(inbox'[c]) <= asked'[c]
    <3>1. Len(expects'[c]) <= Len(expects[c]) + 1 /\ Len(inbox'[c]) = Len(inbox[c]) + 1
      BY <1>4, <1>5, <1>6
    <3>2. Len(expects'[c]) \in Nat
      BY <1>4, <1>6
    <3> QED
      BY <1>2, <1>4, <2>1, <3>1, <3>2
  <2> QED
    BY <1>2, <1>5, <1>6, <2>1, <2>2
<1>8. HandlersTyped' /\ Accepted' = Accepted
  BY HandlersKept DEF Ask
<1> QED
  BY <1>2, <1>3, <1>5, <1>6, <1>7, <1>8 DEF TypeOK, Ask

LEMMA AcceptTyped ==
  ASSUME TypeOK, BoundedRun, NEW c \in Clients, Accept(c)
  PROVE  TypeOK'
<1>1. PICK f \in Fds :
        /\ fdOf[f] = None
        /\ fdOf' = [fdOf EXCEPT ![f] = c]
        /\ handler' = [handler EXCEPT ![c] = [st |-> "handshake", fd |-> f, out |-> <<>>]]
  BY DEF Accept
<1>2. /\ client' \in [Clients -> {"new", "waiting", "open", "gone"}]
      /\ \A d \in Clients : client'[d] = IF d = c THEN "open" ELSE client[d]
      /\ client[c] = "waiting"
  BY DEF TypeOK, Accept
<1>3. Accepted' = Accepted \cup {c} /\ c \notin Accepted
  BY <1>2 DEF Accepted
<1>4. IsFiniteSet(Accepted)
  BY FS_Subset DEF BoundedRun, Accepted
<1>5. slots' = Cardinality(Accepted')
  BY <1>3, <1>4, FS_AddElement DEF TypeOK, Accept
<1>6. /\ handler' \in [Clients -> [st : States, fd : Fds \cup {0}, out : Seq(Parts)]]
      /\ handler'[c].st = "handshake" /\ handler'[c].fd = f
      /\ \A d \in Clients : d # c => handler'[d] = handler[d]
  <2>1. [st |-> "handshake", fd |-> f, out |-> <<>>]
            \in [st : States, fd : Fds \cup {0}, out : Seq(Parts)]
    BY DEF States
  <2> QED
    BY <1>1, <2>1 DEF TypeOK, HandlersTyped
<1>7. HandlersTyped'
  <2>1. ASSUME NEW d \in Clients
        PROVE  /\ handler'[d].st = "none" <=> d \notin Accepted'
               /\ handler'[d].st # "none" => handler'[d].fd \in Fds
    <3>1. CASE d = c
      BY <1>3, <1>6, <3>1
    <3>2. CASE d # c
      BY <1>3, <1>6, <3>2, StartedHaveDescriptor
    <3> QED
      BY <3>1, <3>2
  <2> QED
    BY <1>6, <2>1 DEF HandlersTyped
<1>8. fdOf' \in [Fds -> Clients \cup {None}]
  BY <1>1 DEF TypeOK
<1> QED
  BY <1>2, <1>5, <1>7, <1>8 DEF TypeOK, Accept

\* A step of a started handler keeps the types of all handlers.
LEMMA StartedTyped ==
  ASSUME TypeOK, NEW c \in Clients, UNCHANGED client,
         handler' \in [Clients -> [st : States, fd : Fds \cup {0}, out : Seq(Parts)]],
         handler[c].st # "none", handler'[c].st # "none",
         \A d \in Clients : handler'[d].fd = handler[d].fd,
         \A d \in Clients : d # c => handler'[d].st = handler[d].st
  PROVE  HandlersTyped' /\ Accepted' = Accepted
<1>1. Accepted' = Accepted
  BY DEF Accepted
<1>2. \A d \in Clients : handler'[d].st = "none" <=> handler[d].st = "none"
  OBVIOUS
<1>3. \A d \in Clients : /\ handler'[d].st = "none" <=> d \notin Accepted
                         /\ handler'[d].st # "none" => handler'[d].fd \in Fds
  BY <1>2, StartedHaveDescriptor
<1> QED
  BY <1>1, <1>3 DEF HandlersTyped

LEMMA HandshakeTyped ==
  ASSUME TypeOK, NEW c \in Clients, Handshake(c)
  PROVE  TypeOK'
<1>1. /\ handler' = [handler EXCEPT ![c].st = "reading"] /\ handler[c].st = "handshake"
      /\ "reading" \in States
  BY DEF Handshake, States
<1>2. HandlersTyped' /\ Accepted' = Accepted
  BY <1>1, StateTyped, StartedTyped DEF Handshake
<1>3. updater' \in [Clients -> {"off", "idle", "sending"}]
  BY DEF TypeOK, Handshake
<1> QED
  BY <1>2, <1>3 DEF TypeOK, Handshake

LEMMA EndTyped ==
  ASSUME TypeOK, NEW c \in Clients, HandlerEnds(c) \/ WriterCloses(c)
  PROVE  TypeOK'
<1>1. /\ handler' = [handler EXCEPT ![c].st = "ended"] /\ handler[c].st # "none"
      /\ "ended" \in States
  BY DEF HandlerEnds, WriterCloses, States
<1>2. HandlersTyped' /\ Accepted' = Accepted
  BY <1>1, StateTyped, StartedTyped DEF HandlerEnds, WriterCloses
<1>3. fdOf' \in [Fds -> Clients \cup {None}]
  BY ClosedTyped DEF HandlerEnds, WriterCloses
<1> QED
  BY <1>2, <1>3 DEF TypeOK, HandlerEnds, WriterCloses

\* The execution contexts.
Context == [cmd : AllCommands, fd : Fds, from : Clients]

LEMMA HandleTyped ==
  ASSUME TypeOK, NEW c \in Clients, Handle(c)
  PROVE  TypeOK'
<1>1. Reading(c) /\ Taken(c)
  BY HandleShape
<1>2. UNCHANGED <<fdOf, client, asked, expects, updater, main, wire, slots>>
  BY HandleShape
<1>3. handler[c].st = "reading" /\ "handed" \in States /\ handler[c].fd \in Fds
  BY <1>1, StartedHaveDescriptor DEF Reading, States
<1>4. inbox' \in [Clients -> Seq(AllCommands)] /\ Request(c) \in AllCommands
  BY <1>1, TakenTyped, ReadTyped DEF Reading
<1>5. \A d \in Clients : Len(expects'[d]) <= asked'[d] /\ Len(inbox'[d]) <= asked'[d]
  <2>1. \A d \in Clients : Len(expects[d]) <= asked[d] /\ Len(inbox[d]) <= asked[d]
    BY DEF TypeOK
  <2>2. \A d \in Clients : Len(inbox'[d]) <= Len(inbox[d])
    BY <1>1, TakenTyped
  <2>3. \A d \in Clients : Len(inbox[d]) \in Nat /\ Len(inbox'[d]) \in Nat /\ asked[d] \in Nat
    BY <1>4, HandlerTyped
  <2> QED
    BY <1>2, <2>1, <2>2, <2>3
<1>6. HandlersTyped' /\ Accepted' = Accepted
  <2>1. CASE UNCHANGED handler
    BY <1>2, <2>1, HandlersKept
  <2>2. CASE Reply(c)
    BY <1>1, <1>2, <1>3, <2>2, ReplyTyped, StartedTyped
  <2>3. CASE handler' = [handler EXCEPT ![c].st = "handed"]
    BY <1>2, <1>3, <2>3, StateTyped, StartedTyped
  <2> QED
    BY <2>1, <2>2, <2>3, HandleShape
<1>7. watched' \in [Clients -> SUBSET Signals]
  <2>1. CASE UNCHANGED watched
    BY <2>1 DEF TypeOK
  <2>2. CASE watched' = [watched EXCEPT ![c] = @ \cup ({Request(c).arg} \cap Signals)]
    BY <2>2 DEF TypeOK
  <2> QED
    BY <2>1, <2>2, HandleShape
<1>8. mainq' \in Seq(Context)
  <2>1. [cmd |-> Request(c), fd |-> handler[c].fd, from |-> c] \in Context
    BY <1>3, <1>4 DEF Context
  <2>2. mainq \in Seq(Context)
    BY DEF TypeOK, Context
  <2>3. \/ UNCHANGED mainq
        \/ mainq' = Append(mainq, [cmd |-> Request(c), fd |-> handler[c].fd, from |-> c])
    BY HandleShape
  <2> QED
    BY <2>1, <2>2, <2>3
<1> QED
  BY <1>2, <1>4, <1>5, <1>6, <1>7, <1>8 DEF TypeOK, Context

LEMMA SendReplyTyped ==
  ASSUME TypeOK, BoundedRun, NEW c \in Clients, SendReply(c)
  PROVE  TypeOK'
<1>1. /\ handler[c].st = "reading" /\ handler[c].out # <<>> /\ handler[c].fd \in Fds
      /\ "ended" \in States /\ handler[c].out \in Seq(Parts)
  BY HandlerTyped, StartedHaveDescriptor DEF SendReply, States
<1>2. Head(handler[c].out) \in Parts /\ Tail(handler[c].out) \in Seq(Parts)
  BY <1>1
<1>3. CASE Writable(handler[c].fd)
  <2>1. /\ Written(handler[c].fd, Head(handler[c].out)) /\ UNCHANGED fdOf
        /\ handler' = [handler EXCEPT ![c].out = Tail(handler[c].out)]
    BY <1>3 DEF SendReply
  <2>2. wire' \in [Clients -> Seq(Parts)]
    BY <1>1, <1>2, <1>3, <2>1, WrittenTyped
  <2>3. HandlersTyped' /\ Accepted' = Accepted
    BY <1>1, <1>2, <2>1, RestTyped, StartedTyped DEF SendReply
  <2> QED
    BY <2>1, <2>2, <2>3 DEF TypeOK, SendReply
<1>4. CASE ~ Writable(handler[c].fd)
  <2>1. /\ handler' = [handler EXCEPT ![c].st = "ended", ![c].out = <<>>]
        /\ fdOf' = Closed(handler[c].fd) /\ UNCHANGED wire
    BY <1>4 DEF SendReply
  <2>2. HandlersTyped' /\ Accepted' = Accepted
    <3>1. <<>> \in Seq(Parts)
      OBVIOUS
    <3>2. /\ handler' \in [Clients -> [st : States, fd : Fds \cup {0}, out : Seq(Parts)]]
          /\ handler'[c].st = "ended"
          /\ \A d \in Clients : handler'[d].fd = handler[d].fd
          /\ \A d \in Clients : d # c => handler'[d] = handler[d]
      BY <1>1, <2>1, <3>1, OutTyped
    <3> QED
      BY <1>1, <3>2, StartedTyped DEF SendReply
  <2> QED
    BY <2>1, <2>2, ClosedTyped DEF TypeOK, SendReply
<1> QED
  BY <1>3, <1>4

LEMMA SendUpdateTyped ==
  ASSUME TypeOK, BoundedRun, NEW c \in Clients, SendUpdate(c)
  PROVE  TypeOK'
<1>1. HandlersTyped' /\ Accepted' = Accepted
  BY HandlersKept DEF SendUpdate
<1>2. updater' \in [Clients -> {"off", "idle", "sending"}]
  BY DEF TypeOK, SendUpdate
<1>3. wire' \in [Clients -> Seq(Parts)]
  <2>1. CASE UNCHANGED wire
    BY <2>1 DEF TypeOK
  <2>2. ASSUME NEW p \in {"header", "payload"}, Writable(handler[c].fd),
               Written(handler[c].fd, Part(p, c, [name |-> "UPDATE", arg |-> "none"]))
        PROVE  wire' \in [Clients -> Seq(Parts)]
    <3>1. Part(p, c, [name |-> "UPDATE", arg |-> "none"]) \in Parts
      BY DEF Part, Parts
    <3>2. handler[c].fd \in Fds
      BY <2>2 DEF Writable
    <3> QED
      BY <2>2, <3>1, <3>2, WrittenTyped
  <2> QED
    BY <2>1, <2>2 DEF SendUpdate
<1> QED
  BY <1>1, <1>2, <1>3 DEF TypeOK, SendUpdate

\* The first context of the queue and the others.
LEMMA ContextTyped ==
  ASSUME TypeOK, mainq # <<>>
  PROVE  /\ Head(mainq) = mainq[1] /\ mainq[1] \in Context
         /\ mainq[1].cmd \in AllCommands /\ mainq[1].fd \in Fds /\ mainq[1].from \in Clients
         /\ Tail(mainq) \in Seq(Context) /\ Len(mainq) \in Nat \ {0}
         /\ Len(Tail(mainq)) = Len(mainq) - 1
         /\ \A i \in 1 .. Len(mainq) - 1 : Tail(mainq)[i] = mainq[i + 1]
<1>1. mainq \in Seq(Context)
  BY DEF TypeOK, Context
<1>2. /\ Head(mainq) = mainq[1] /\ mainq[1] \in Context
      /\ Tail(mainq) \in Seq(Context) /\ Len(mainq) \in Nat \ {0}
      /\ Len(Tail(mainq)) = Len(mainq) - 1
      /\ \A i \in 1 .. Len(mainq) - 1 : Tail(mainq)[i] = mainq[i + 1]
  BY <1>1
<1>3. mainq[1].cmd \in AllCommands /\ mainq[1].fd \in Fds /\ mainq[1].from \in Clients
  BY <1>2 DEF Context
<1> QED
  BY <1>2, <1>3

LEMMA MainTyped ==
  ASSUME TypeOK, BoundedRun, Main
  PROVE  TypeOK'
<1>1. HandlersTyped' /\ Accepted' = Accepted
  BY HandlersKept DEF Main, RunContext, PushFails, MainSends
<1>2. CASE RunContext
  <2>1. <<Part("header", mainq[1].from, mainq[1].cmd),
          Part("payload", mainq[1].from, mainq[1].cmd)>> \in Seq(Parts) \ {<<>>}
    BY <1>2, ContextTyped, PartsTyped DEF RunContext
  <2>2. main' \in {None} \cup [fd : Fds, out : Seq(Parts) \ {<<>>}]
    BY <1>2, <2>1, ContextTyped DEF RunContext
  <2>3. mainq' \in Seq(Context)
    BY <1>2, ContextTyped DEF RunContext
  <2> QED
    BY <1>1, <1>2, <2>2, <2>3 DEF TypeOK, RunContext, Context
<1>3. CASE PushFails
  <2>1. mainq' \in Seq(Context)
    BY <1>3, ContextTyped DEF PushFails
  <2> QED
    BY <1>1, <1>3, <2>1 DEF TypeOK, PushFails, Context
<1>4. CASE MainSends
  <2>1. main \in [fd : Fds, out : Seq(Parts) \ {<<>>}]
    BY <1>4 DEF TypeOK, MainSends
  <2>2. main.fd \in Fds /\ main.out \in Seq(Parts) /\ main.out # <<>>
    BY <2>1
  <2>3. /\ Head(main.out) \in Parts /\ Tail(main.out) \in Seq(Parts)
        /\ Len(main.out) # 1 => Tail(main.out) # <<>>
    <3>1. ASSUME NEW o \in Seq(Parts), o # <<>>
          PROVE  /\ Head(o) \in Parts /\ Tail(o) \in Seq(Parts)
                 /\ Len(Tail(o)) = Len(o) - 1 /\ Len(o) \in Nat \ {0}
      BY <3>1
    <3>2. ASSUME NEW o \in Seq(Parts), o # <<>>, Len(o) # 1
          PROVE  Tail(o) # <<>>
      <4>1. Len(Tail(o)) = Len(o) - 1 /\ Len(o) \in Nat \ {0}
        BY <3>1, <3>2
      <4>2. Len(Tail(o)) # 0 /\ Len(<<>>) = 0
        BY <3>2, <4>1
      <4> QED
        BY <4>2, Zenon
    <3> QED
      BY <2>2, <3>1, <3>2
  <2>4. main' \in {None} \cup [fd : Fds, out : Seq(Parts) \ {<<>>}]
    BY <1>4, <2>1, <2>3 DEF MainSends
  <2>5. wire' \in [Clients -> Seq(Parts)] /\ fdOf' \in [Fds -> Clients \cup {None}]
    <3>1. CASE Writable(main.fd)
      <4>1. Written(main.fd, Head(main.out)) /\ UNCHANGED fdOf
        BY <1>4, <3>1 DEF MainSends
      <4>2. wire' \in [Clients -> Seq(Parts)]
        BY <2>2, <2>3, <3>1, <4>1, WrittenTyped
      <4> QED
        BY <4>1, <4>2 DEF TypeOK
    <3>2. CASE ~ Writable(main.fd)
      <4>1. fdOf' = Closed(main.fd) /\ UNCHANGED wire
        BY <1>4, <3>2 DEF MainSends
      <4> QED
        BY <4>1, ClosedTyped DEF TypeOK
    <3> QED
      BY <3>1, <3>2
  <2> QED
    BY <1>1, <1>4, <2>4, <2>5 DEF TypeOK, MainSends
<1> QED
  BY <1>2, <1>3, <1>4 DEF Main

LEMMA TypeInit ==
  ASSUME Init, BoundedRun
  PROVE  TypeOK
<1>1. Accepted = {} /\ Cardinality({}) = 0
  BY FS_EmptySet DEF Init, Accepted
<1>2. HandlersTyped
  <2>1. [st |-> "none", fd |-> 0, out |-> <<>>]
          \in [st : States, fd : Fds \cup {0}, out : Seq(Parts)]
    BY DEF States
  <2> QED
    BY <1>1, <2>1 DEF Init, HandlersTyped
<1> QED
  BY <1>1, <1>2 DEF Init, TypeOK, BoundedRun

LEMMA TypeStep ==
  ASSUME TypeOK, BoundedRun, [Next]_vars
  PROVE  TypeOK'
<1>1. CASE UNCHANGED vars
  <2>1. HandlersTyped' /\ Accepted' = Accepted
    BY <1>1, HandlersKept DEF vars
  <2> QED
    BY <1>1, <2>1 DEF TypeOK, vars
<1>2. CASE Main
  BY <1>2, MainTyped
<1>3. ASSUME NEW c \in Clients,
             \/ Connect(c) \/ Leave(c) \/ Serve(c) \/ SendUpdate(c)
             \/ \E cmd \in Commands[c] : Ask(c, cmd)
      PROVE  TypeOK'
  <2>1. CASE Serve(c)
    BY <2>1, AcceptTyped, HandshakeTyped, EndTyped, HandleTyped, SendReplyTyped DEF Serve
  <2> QED
    BY <1>3, <2>1, ConnectTyped, LeaveTyped, SendUpdateTyped, AskTyped
<1> QED
  BY <1>1, <1>2, <1>3 DEF Next

-----------------------------------------------------------------------------
(* Answers.                                                                *)

\* A step that is not about d.
Same(d) ==
  /\ expects'[d] = expects[d] /\ wire'[d] = wire[d] /\ inbox'[d] = inbox[d]
  /\ handler'[d] = handler[d] /\ watched'[d] = watched[d] /\ client'[d] = client[d]

LEMMA LengthsTyped ==
  ASSUME TypeOK, NEW c \in Clients
  PROVE  Len(wire[c]) \in Nat /\ Len(expects[c]) \in Nat /\ Len(inbox[c]) \in Nat
<1>1. wire[c] \in Seq(Parts) /\ expects[c] \in Seq(AllCommands) /\ inbox[c] \in Seq(AllCommands)
  BY HandlerTyped
<1> QED
  BY <1>1

LEMMA ClientKept ==
  ASSUME NEW d \in Clients, ClientInv(d), Same(d), Keeps(d)'
  PROVE  ClientInv(d)'
<1>1. OneIsAnswered(d)' /\ NobodyWatches(d)'
  BY DEF ClientInv, Same, OneIsAnswered, NobodyWatches, Outstanding, Reads
<1>2. InInbox(d)'
  BY DEF ClientInv, Same, InInbox, Unbegun, Last
<1>3. InHandler(d)'
  BY DEF ClientInv, Same, InHandler, Unbegun, Begun, Last, Remaining, Whole, Rest
<1>4. Arrived(d)'
  BY DEF ClientInv, Same, Arrived
<1> QED
  BY <1>1, <1>2, <1>3, <1>4 DEF ClientInv

LEMMA QueuedKept ==
  ASSUME NEW d \in Clients, NEW x, Queued(d, x), Same(d)
  PROVE  Queued(d, x)'
BY DEF Queued, Same, Waits, Unbegun, Last

\* An answer is outstanding while it is anywhere.
LEMMA QueuedIsOutstanding ==
  ASSUME TypeOK, NEW c \in Clients, NEW x, Queued(c, x)
  PROVE  Waits(c) /\ Outstanding(c)
BY LengthsTyped DEF Queued, Unbegun, Outstanding

LEMMA RemainingIsOutstanding ==
  ASSUME TypeOK, NEW c \in Clients, NEW o, Remaining(c, o)
  PROVE  Outstanding(c)
BY LengthsTyped DEF Remaining, Unbegun, Begun, Outstanding

\* Nothing of c is queued or written by the main loop unless its handler
\* waits and its answer is outstanding.
LEMMA NothingElsewhere ==
  ASSUME TypeOK, InQueue, InMain, NEW c \in Clients, ~ (Waits(c) /\ Outstanding(c))
  PROVE  /\ \A i \in DOMAIN mainq : mainq[i].from \in Clients /\ mainq[i].from # c
         /\ main # None => \E d \in Clients : d # c /\ Writing(d)
<1>1. \A i \in DOMAIN mainq : mainq[i].from \in Clients
  <2>1. mainq \in Seq(Context)
    BY DEF TypeOK, Context
  <2>2. \A i \in DOMAIN mainq : mainq[i] \in Context
    BY <2>1
  <2> QED
    BY <2>2 DEF Context
<1>2. ASSUME NEW i \in DOMAIN mainq, mainq[i].from = c
      PROVE  FALSE
  <2>1. Queued(c, mainq[i])
    BY <1>2 DEF InQueue
  <2> QED
    BY <2>1, QueuedIsOutstanding
<1>3. ASSUME Writing(c)
      PROVE  FALSE
  BY <1>3, RemainingIsOutstanding DEF Writing
<1> QED
  BY <1>1, <1>2, <1>3 DEF InMain

LEMMA WritingKept ==
  ASSUME NEW d \in Clients, Writing(d), Same(d), UNCHANGED <<main, mainq>>
  PROVE  Writing(d)'
BY DEF Writing, Same, Waits, Unbegun, Begun, Last, Remaining, Whole, Rest

\* A step about c only, whose answer is in neither of the two places.
LEMMA OthersKept ==
  ASSUME TypeOK, InQueue, InMain, NEW c \in Clients, ~ (Waits(c) /\ Outstanding(c)),
         \A d \in Clients : d # c => Same(d),
         UNCHANGED <<main, mainq>>
  PROVE  InQueue' /\ InMain'
<1>1. \A i \in DOMAIN mainq : mainq[i].from \in Clients /\ mainq[i].from # c
  BY NothingElsewhere
<1>2. \A i \in DOMAIN mainq : Queued(mainq[i].from, mainq[i])'
  <2> TAKE i \in DOMAIN mainq
  <2>1. PICK x, d : x = mainq[i] /\ d = mainq[i].from
    OBVIOUS
  <2>2. Queued(d, x) /\ Same(d) /\ d \in Clients
    BY <1>1, <2>1 DEF InQueue
  <2>3. Queued(d, x)'
    BY <2>2, QueuedKept
  <2>4. x = mainq'[i] /\ d = mainq'[i].from
    BY <2>1
  <2> QED
    BY <2>3, <2>4
<1>3. InQueue'
  BY <1>2 DEF InQueue
<1>4. InMain'
  <2>1. SUFFICES ASSUME main' # None PROVE \E d \in Clients : Writing(d)'
    BY DEF InMain
  <2>2. PICK d \in Clients : d # c /\ Writing(d)
    BY <2>1, NothingElsewhere
  <2>3. Writing(d)'
    BY <2>2, WritingKept
  <2> QED
    BY <2>3
<1> QED
  BY <1>3, <1>4

\* The invariant without its hypothesis.
CarefulInv == (\A c \in Clients : ClientInv(c)) /\ InQueue /\ InMain

LEMMA ConnectAnswers ==
  ASSUME TypeOK, CarefulInv, NEW c \in Clients, Connect(c)
  PROVE  CarefulInv'
<1>1. handler[c].st = "none" /\ ~ Reads(c) /\ ~ Waits(c)
  <2>1. client[c] = "new" /\ handler[c].st = "none"
    BY DEF Connect, TypeOK, HandlersTyped, Accepted
  <2> QED
    BY <2>1 DEF Reads, Waits
<1>2. \A d \in Clients : d # c => Same(d)
  BY DEF Connect, Same, TypeOK
<1>3. \A d \in Clients : Keeps(d)'
  BY DEF CarefulInv, ClientInv, Keeps, Reads, Connect
<1>4. \A d \in Clients : d # c => ClientInv(d)'
  BY <1>2, <1>3, ClientKept DEF CarefulInv
<1>5. ClientInv(c)'
  <2>1. OneIsAnswered(c)'
    BY <1>1 DEF Connect, OneIsAnswered, Outstanding, CarefulInv, ClientInv, Reads
  <2>2. NobodyWatches(c)' /\ InInbox(c)' /\ InHandler(c)' /\ Arrived(c)'
    BY DEF Connect, CarefulInv, ClientInv, NobodyWatches, InInbox, InHandler, Arrived,
           Unbegun, Begun, Last, Remaining, Whole, Rest
  <2> QED
    BY <1>3, <2>1, <2>2 DEF ClientInv
<1>6. InQueue' /\ InMain'
  BY <1>1, <1>2, OthersKept DEF CarefulInv, Connect
<1> QED
  BY <1>4, <1>5, <1>6 DEF CarefulInv

LEMMA LeaveAnswers ==
  ASSUME TypeOK, CarefulInv, NEW c \in Clients, Leave(c), ~ careless'
  PROVE  CarefulInv'
<1>1. ~ (Outstanding(c) /\ Reads(c))
  <2>1. Reads(c) => fdOf[handler[c].fd] = c /\ handler[c].fd \in Fds
    BY StartedHaveDescriptor DEF CarefulInv, ClientInv, Keeps, Reads
  <2> QED
    BY <2>1 DEF Leave, Connected
<1>2. \A d \in Clients : d # c => Same(d)
  BY DEF Leave, Same, TypeOK
<1>3. \A d \in Clients : Keeps(d)'
  BY DEF CarefulInv, ClientInv, Keeps, Reads, Leave
<1>4. \A d \in Clients : d # c => ClientInv(d)'
  BY <1>2, <1>3, ClientKept DEF CarefulInv
<1>5. ClientInv(c)'
  <2>1. OneIsAnswered(c)'
    BY <1>1 DEF Leave, OneIsAnswered, Outstanding, CarefulInv, ClientInv, Reads
  <2>2. NobodyWatches(c)' /\ InInbox(c)' /\ InHandler(c)' /\ Arrived(c)'
    BY DEF Leave, CarefulInv, ClientInv, NobodyWatches, InInbox, InHandler, Arrived,
           Unbegun, Begun, Last, Remaining, Whole, Rest
  <2> QED
    BY <1>3, <2>1, <2>2 DEF ClientInv
<1>6. InQueue' /\ InMain'
  BY <1>1, <1>2, OthersKept DEF CarefulInv, Leave, Waits, Reads
<1> QED
  BY <1>4, <1>5, <1>6 DEF CarefulInv

\* A client that is not waiting for an answer has its handler idle or not
\* begun, and no answered request on its way.
LEMMA NothingOutstanding ==
  ASSUME TypeOK, NEW c \in Clients, ClientInv(c), ~ Outstanding(c)
  PROVE  /\ handler[c].out = <<>> /\ Len(wire[c]) = 2 * Len(expects[c])
         /\ \A i \in DOMAIN inbox[c] : ~ Answered(inbox[c][i])
<1>1. Len(wire[c]) = 2 * Len(expects[c])
  BY LengthsTyped DEF ClientInv, OneIsAnswered, Outstanding
<1>2. handler[c].out = <<>>
  BY RemainingIsOutstanding DEF ClientInv, InHandler
<1>3. ~ Unbegun(c)
  BY <1>1, LengthsTyped DEF Unbegun
<1> QED
  BY <1>1, <1>2, <1>3 DEF ClientInv, InInbox

LEMMA AskAnswers ==
  ASSUME TypeOK, CarefulInv, NEW c \in Clients, NEW cmd \in Commands[c], Ask(c, cmd), ~ careless'
  PROVE  CarefulInv'
<1>1. ~ Outstanding(c) /\ cmd.name # "WATCH" /\ cmd \in AllCommands /\ ClientInv(c)
  BY DEF Ask, AllCommands, CarefulInv
<1>2. \A d \in Clients : d # c => Same(d)
  BY DEF Ask, Same, TypeOK
<1>3. \A d \in Clients : Keeps(d)'
  BY DEF CarefulInv, ClientInv, Keeps, Reads, Ask
<1>4. \A d \in Clients : d # c => ClientInv(d)'
  BY <1>2, <1>3, ClientKept DEF CarefulInv
<1>5. InQueue' /\ InMain'
  BY <1>1, <1>2, OthersKept DEF CarefulInv, Ask
<1>6. /\ handler[c].out = <<>> /\ Len(wire[c]) = 2 * Len(expects[c])
      /\ \A i \in DOMAIN inbox[c] : ~ Answered(inbox[c][i])
  BY <1>1, NothingOutstanding
<1>7. /\ Len(wire[c]) \in Nat /\ Len(expects[c]) \in Nat /\ Len(inbox[c]) \in Nat
      /\ wire'[c] = wire[c] /\ handler'[c] = handler[c] /\ watched'[c] = watched[c]
      /\ client[c] = "open" /\ client'[c] = "open"
  BY LengthsTyped DEF Ask
<1>8. /\ inbox'[c] = Append(inbox[c], cmd)
      /\ DOMAIN inbox'[c] = 1 .. Len(inbox[c]) + 1 /\ DOMAIN inbox[c] = 1 .. Len(inbox[c])
      /\ Len(inbox'[c]) = Len(inbox[c]) + 1 /\ inbox'[c][Len(inbox[c]) + 1] = cmd
      /\ \A i \in 1 .. Len(inbox[c]) : inbox'[c][i] = inbox[c][i]
  <2>1. inbox'[c] = Append(inbox[c], cmd) /\ inbox[c] \in Seq(AllCommands)
    BY HandlerTyped DEF Ask, TypeOK
  <2> QED
    BY <1>1, <2>1
<1>9. \/ /\ Answered(cmd) /\ expects'[c] = Append(expects[c], cmd)
         /\ Len(expects'[c]) = Len(expects[c]) + 1 /\ expects'[c][Len(expects[c]) + 1] = cmd
         /\ \A n \in 1 .. Len(expects[c]) : expects'[c][n] = expects[c][n]
      \/ ~ Answered(cmd) /\ expects'[c] = expects[c]
  <2>1. expects'[c] = IF Answered(cmd) THEN Append(expects[c], cmd) ELSE expects[c]
    BY DEF Ask, TypeOK
  <2>2. expects[c] \in Seq(AllCommands)
    BY HandlerTyped
  <2> QED
    BY <1>1, <2>1, <2>2
<1>10. ClientInv(c)'
  <2>1. OneIsAnswered(c)'
    BY <1>6, <1>7, <1>9 DEF OneIsAnswered, Outstanding
  <2>2. NobodyWatches(c)'
    BY <1>1, <1>7, <1>8 DEF ClientInv, NobodyWatches
  <2>3. InInbox(c)'
    <3>1. SUFFICES ASSUME NEW i \in 1 .. Len(inbox[c]) + 1, Answered(inbox'[c][i])
                   PROVE  i = Len(inbox'[c]) /\ Unbegun(c)' /\ inbox'[c][i] = Last(c)'
      BY <1>8 DEF InInbox, Answered
    <3>2. i = Len(inbox[c]) + 1 /\ inbox'[c][i] = cmd
      <4>1. i \in 1 .. Len(inbox[c]) \/ i = Len(inbox[c]) + 1
        BY <1>7
      <4>2. i \notin 1 .. Len(inbox[c])
        BY <1>6, <1>8, <3>1
      <4> QED
        BY <1>8, <4>1, <4>2
    <3>3. Unbegun(c)' /\ Last(c)' = cmd
      <4>1. Answered(cmd)
        BY <3>1, <3>2
      <4>2. /\ Len(expects'[c]) = Len(expects[c]) + 1
            /\ expects'[c][Len(expects[c]) + 1] = cmd
        BY <1>9, <4>1
      <4>3. Last(c)' = cmd
        BY <4>2 DEF Last
      <4>4. Unbegun(c)'
        BY <1>6, <1>7, <4>2 DEF Unbegun
      <4> QED
        BY <4>3, <4>4
    <3> QED
      BY <1>8, <3>2, <3>3
  <2>4. InHandler(c)'
    BY <1>6, <1>7 DEF InHandler
  <2>5. Arrived(c)'
    <3>1. CASE expects'[c] = expects[c]
      BY <1>1, <1>7, <3>1 DEF ClientInv, Arrived
    <3>2. CASE /\ Len(expects'[c]) = Len(expects[c]) + 1
               /\ \A n \in 1 .. Len(expects[c]) : expects'[c][n] = expects[c][n]
      <4>1. \A n \in 1 .. Len(expects[c]) + 1 :
              n \in 1 .. Len(expects[c]) \/ 2 * n - 1 > Len(wire[c])
        BY <1>6, <1>7
      <4>2. \A n \in 1 .. Len(expects[c]) :
              /\ 2 * n - 1 <= Len(wire[c])
                   => wire[c][2 * n - 1] = Part("header", c, expects[c][n])
              /\ 2 * n <= Len(wire[c]) => wire[c][2 * n] = Part("payload", c, expects[c][n])
        BY <1>1 DEF ClientInv, Arrived
      <4>3. SUFFICES ASSUME NEW n \in 1 .. Len(expects[c]) + 1
                     PROVE  /\ 2 * n - 1 <= Len(wire[c])
                                 => wire[c][2 * n - 1] = Part("header", c, expects'[c][n])
                            /\ 2 * n <= Len(wire[c])
                                 => wire[c][2 * n] = Part("payload", c, expects'[c][n])
        BY <1>7, <3>2 DEF Arrived, Part
      <4>4. CASE n \in 1 .. Len(expects[c])
        BY <3>2, <4>2, <4>4
      <4>5. CASE 2 * n - 1 > Len(wire[c])
        BY <1>7, <4>5
      <4> QED
        BY <4>1, <4>4, <4>5
    <3> QED
      BY <1>9, <3>1, <3>2
  <2> QED
    BY <1>3, <2>1, <2>2, <2>3, <2>4, <2>5 DEF ClientInv
<1> QED
  BY <1>4, <1>5, <1>10 DEF CarefulInv

\* Closing the descriptor of c takes it from no other handler.
LEMMA CloseKeeps ==
  ASSUME TypeOK, CarefulInv, NEW c \in Clients, Reads(c), fdOf' = Closed(handler[c].fd),
         NEW d \in Clients, d # c, handler'[d] = handler[d]
  PROVE  Keeps(d)'
<1>1. fdOf[handler[c].fd] = c
  BY DEF CarefulInv, ClientInv, Keeps
<1>2. SUFFICES ASSUME Reads(d) PROVE fdOf'[handler[d].fd] = d
  BY DEF Keeps, Reads
<1>3. fdOf[handler[d].fd] = d /\ handler[d].fd \in Fds
  BY <1>2, StartedHaveDescriptor DEF CarefulInv, ClientInv, Keeps, Reads
<1>4. handler[d].fd # handler[c].fd
  BY <1>1, <1>3
<1> QED
  BY <1>3, <1>4 DEF Closed, TypeOK

\* A step of the handler of c that leaves its requests and answers alone,
\* while it writes nothing.
LEMMA HandlerMoves ==
  ASSUME TypeOK, CarefulInv, NEW c \in Clients, ~ (Waits(c) /\ Outstanding(c)),
         UNCHANGED <<expects, wire, inbox, watched, main, mainq>>,
         handler'[c].out = <<>>,
         OneIsAnswered(c)',
         \A d \in Clients : Keeps(d)',
         \A d \in Clients : d # c => handler'[d] = handler[d] /\ client'[d] = client[d]
  PROVE  CarefulInv'
<1>1. \A d \in Clients : d # c => Same(d)
  BY DEF Same
<1>2. \A d \in Clients : d # c => ClientInv(d)'
  BY <1>1, ClientKept DEF CarefulInv
<1>3. InQueue' /\ InMain'
  BY <1>1, OthersKept DEF CarefulInv
<1>4. ClientInv(c)'
  <2>1. NobodyWatches(c)' /\ InInbox(c)' /\ Arrived(c)'
    BY DEF CarefulInv, ClientInv, NobodyWatches, InInbox, Arrived, Unbegun, Last
  <2>2. InHandler(c)'
    BY DEF InHandler
  <2> QED
    BY <2>1, <2>2 DEF ClientInv
<1> QED
  BY <1>2, <1>3, <1>4 DEF CarefulInv

LEMMA AcceptAnswers ==
  ASSUME TypeOK, BoundedRun, CarefulInv, NEW c \in Clients, Accept(c)
  PROVE  CarefulInv'
<1>1. PICK f \in Fds :
        /\ fdOf[f] = None
        /\ fdOf' = [fdOf EXCEPT ![f] = c]
        /\ handler' = [handler EXCEPT ![c] = [st |-> "handshake", fd |-> f, out |-> <<>>]]
  BY DEF Accept
<1>2. /\ client[c] = "waiting" /\ client'[c] = "open"
      /\ \A d \in Clients : d # c => client'[d] = client[d]
  BY DEF Accept, TypeOK
<1>3. ~ Waits(c)
  <2>1. handler[c].st = "none"
    BY <1>2 DEF TypeOK, HandlersTyped, Accepted
  <2> QED
    BY <2>1 DEF Waits
<1>4. /\ handler'[c] = [st |-> "handshake", fd |-> f, out |-> <<>>]
      /\ \A d \in Clients : d # c => handler'[d] = handler[d]
  BY <1>1 DEF TypeOK, HandlersTyped
<1>5. OneIsAnswered(c)'
  BY <1>2 DEF OneIsAnswered, Outstanding, CarefulInv, ClientInv, Accept
<1>6. \A d \in Clients : Keeps(d)'
  <2> TAKE d \in Clients
  <2>1. CASE d = c
    BY <1>1, <1>4, <2>1 DEF Keeps, TypeOK
  <2>2. CASE d # c
    <3>1. SUFFICES ASSUME Reads(d) PROVE fdOf'[handler[d].fd] = d
      BY <1>4, <2>2 DEF Keeps, Reads
    <3>2. fdOf[handler[d].fd] = d /\ handler[d].fd \in Fds
      BY <3>1, StartedHaveDescriptor DEF CarefulInv, ClientInv, Keeps, Reads
    <3>3. handler[d].fd # f
      BY <1>1, <3>2 DEF BoundedRun
    <3> QED
      BY <1>1, <3>2, <3>3 DEF TypeOK
  <2> QED
    BY <2>1, <2>2
<1> QED
  BY <1>2, <1>3, <1>4, <1>5, <1>6, HandlerMoves DEF Accept

LEMMA HandshakeAnswers ==
  ASSUME TypeOK, CarefulInv, NEW c \in Clients, Handshake(c)
  PROVE  CarefulInv'
<1>1. /\ handler[c].st = "handshake" /\ "reading" \in States
      /\ handler' = [handler EXCEPT ![c].st = "reading"]
  BY DEF Handshake, States
<1>2. /\ handler'[c].st = "reading"
      /\ \A d \in Clients : handler'[d].fd = handler[d].fd /\ handler'[d].out = handler[d].out
      /\ \A d \in Clients : d # c => handler'[d] = handler[d]
  BY <1>1, StateTyped
<1>3. handler[c].out = <<>>
  BY <1>1 DEF CarefulInv, ClientInv, InHandler
<1>4. \A d \in Clients : Keeps(d)'
  <2> TAKE d \in Clients
  <2>1. Keeps(d) /\ Keeps(c) /\ fdOf' = fdOf
    BY DEF CarefulInv, ClientInv, Handshake
  <2> QED
    BY <1>1, <1>2, <2>1 DEF Keeps, Reads
<1>5. OneIsAnswered(c)'
  BY DEF OneIsAnswered, Outstanding, CarefulInv, ClientInv, Handshake
<1>6. ~ Waits(c)
  BY <1>1 DEF Waits
<1> QED
  BY <1>2, <1>3, <1>4, <1>5, <1>6, HandlerMoves DEF Handshake

LEMMA EndAnswers ==
  ASSUME TypeOK, CarefulInv, NEW c \in Clients, HandlerEnds(c) \/ WriterCloses(c)
  PROVE  CarefulInv'
<1>1. /\ Reads(c) /\ handler' = [handler EXCEPT ![c].st = "ended"] /\ "ended" \in States
      /\ fdOf' = Closed(handler[c].fd)
  BY DEF HandlerEnds, WriterCloses, Reads, States
<1>2. fdOf[handler[c].fd] = c
  BY <1>1 DEF CarefulInv, ClientInv, Keeps
<1>3. ~ (Waits(c) /\ Outstanding(c))
  BY <1>1, <1>2 DEF CarefulInv, ClientInv, OneIsAnswered, HandlerEnds, WriterCloses, Waits
<1>4. handler[c].out = <<>>
  BY DEF CarefulInv, ClientInv, InHandler, HandlerEnds, WriterCloses
<1>5. /\ handler'[c].st = "ended"
      /\ \A d \in Clients : handler'[d].fd = handler[d].fd /\ handler'[d].out = handler[d].out
      /\ \A d \in Clients : d # c => handler'[d] = handler[d]
  BY <1>1, StateTyped
<1>6. \A d \in Clients : Keeps(d)'
  <2> TAKE d \in Clients
  <2>1. CASE d = c
    BY <1>5, <2>1 DEF Keeps, Reads
  <2>2. CASE d # c
    BY <1>1, <1>5, <2>2, CloseKeeps
  <2> QED
    BY <2>1, <2>2
<1>7. OneIsAnswered(c)'
  BY <1>5 DEF OneIsAnswered, Outstanding, CarefulInv, ClientInv, HandlerEnds, WriterCloses, Reads
<1> QED
  BY <1>3, <1>4, <1>5, <1>6, <1>7, HandlerMoves DEF HandlerEnds, WriterCloses

\* Reading a request leaves the rest of the inbox; an answered request is
\* the last one on its way, and none of its answer has arrived.
LEMMA ReadAnswers ==
  ASSUME TypeOK, NEW c \in Clients, ClientInv(c), Reading(c), Taken(c),
         UNCHANGED <<expects, wire, client>>
  PROVE  /\ OneIsAnswered(c)' /\ InInbox(c)' /\ Arrived(c)'
         /\ Request(c).name # "WATCH"
         /\ \A i \in DOMAIN inbox'[c] : inbox'[c][i].name # "WATCH"
         /\ Answered(Request(c)) => Request(c) = Last(c) /\ Unbegun(c) /\ inbox'[c] = <<>>
<1>1. /\ inbox[c] \in Seq(AllCommands) /\ inbox[c] # <<>> /\ inbox'[c] = Tail(inbox[c])
      /\ Request(c) = inbox[c][1] /\ Len(inbox[c]) \in Nat \ {0}
      /\ DOMAIN inbox[c] = 1 .. Len(inbox[c])
      /\ Len(inbox'[c]) = Len(inbox[c]) - 1
      /\ DOMAIN inbox'[c] = 1 .. Len(inbox[c]) - 1
      /\ \A i \in 1 .. Len(inbox[c]) - 1 : inbox'[c][i] = inbox[c][i + 1]
  <2>1. inbox[c] \in Seq(AllCommands) /\ inbox[c] # <<>> /\ inbox'[c] = Tail(inbox[c])
    BY HandlerTyped, TakenTyped DEF Reading
  <2>2. Tail(inbox[c]) \in Seq(AllCommands) /\ Len(Tail(inbox[c])) = Len(inbox[c]) - 1
    BY <2>1, ReadTyped
  <2>3. DOMAIN Tail(inbox[c]) = 1 .. Len(Tail(inbox[c])) /\ DOMAIN inbox[c] = 1 .. Len(inbox[c])
    BY <2>1, <2>2
  <2> QED
    BY <2>1, <2>2, <2>3, ReadTyped
<1>2. \A i \in 1 .. Len(inbox[c]) :
         /\ inbox[c][i].name # "WATCH"
         /\ Answered(inbox[c][i])
              => i = Len(inbox[c]) /\ Unbegun(c) /\ inbox[c][i] = Last(c)
  BY <1>1 DEF ClientInv, NobodyWatches, InInbox
<1>3. OneIsAnswered(c)' /\ Arrived(c)'
  BY DEF ClientInv, OneIsAnswered, Outstanding, Arrived, Reading, Reads
<1>4. /\ Request(c).name # "WATCH"
      /\ \A i \in DOMAIN inbox'[c] : inbox'[c][i].name # "WATCH"
  BY <1>1, <1>2
<1>5. Answered(Request(c)) => Request(c) = Last(c) /\ Unbegun(c) /\ inbox'[c] = <<>>
  <2>1. SUFFICES ASSUME Answered(inbox[c][1])
                 PROVE  inbox[c][1] = Last(c) /\ Unbegun(c) /\ inbox'[c] = <<>>
    BY <1>1
  <2>2. 1 = Len(inbox[c]) /\ Unbegun(c) /\ inbox[c][1] = Last(c)
    <3>1. 1 \in 1 .. Len(inbox[c])
      BY <1>1
    <3> QED
      BY <1>2, <2>1, <3>1
  <2>3. inbox'[c] \in Seq(AllCommands) /\ Len(inbox'[c]) = 0
    BY <1>1, <2>2, TakenTyped
  <2> QED
    BY <2>2, <2>3
<1>6. InInbox(c)'
  <2>1. SUFFICES ASSUME NEW i \in 1 .. Len(inbox[c]) - 1, Answered(inbox[c][i + 1])
                 PROVE  i = Len(inbox'[c]) /\ Unbegun(c)' /\ inbox[c][i + 1] = Last(c)'
    BY <1>1 DEF InInbox, Answered
  <2>2. i + 1 \in 1 .. Len(inbox[c])
    BY <1>1
  <2>3. i + 1 = Len(inbox[c]) /\ Unbegun(c) /\ inbox[c][i + 1] = Last(c)
    BY <1>2, <2>1, <2>2
  <2> QED
    BY <1>1, <2>3 DEF Unbegun, Last
<1> QED
  BY <1>3, <1>4, <1>5, <1>6

\* A context appended to the queue by a handler that now waits.
LEMMA DeferredAnswers ==
  ASSUME TypeOK, InQueue, InMain, NEW c \in Clients, ~ Waits(c), NEW x, x.from = c,
         mainq' = Append(mainq, x), UNCHANGED main, Queued(c, x)',
         \A d \in Clients : d # c => Same(d)
  PROVE  InQueue' /\ InMain'
<1>1. \A i \in DOMAIN mainq : mainq[i].from \in Clients /\ mainq[i].from # c
  BY NothingElsewhere
<1>2. /\ Len(mainq) \in Nat /\ DOMAIN mainq = 1 .. Len(mainq)
      /\ DOMAIN mainq' = 1 .. Len(mainq) + 1 /\ mainq'[Len(mainq) + 1] = x
      /\ \A i \in DOMAIN mainq : mainq'[i] = mainq[i]
  <2>1. mainq \in Seq(Context)
    BY DEF TypeOK, Context
  <2> QED
    BY <2>1
<1>3. \A i \in DOMAIN mainq' : i \in DOMAIN mainq \/ i = Len(mainq) + 1
  BY <1>2
<1>4. ASSUME NEW i \in DOMAIN mainq'
      PROVE  Queued(mainq[i].from, mainq[i])'
  <2>1. CASE i = Len(mainq) + 1
    <3>1. mainq'[i] = x /\ mainq'[i].from = c
      BY <1>2, <2>1
    <3> QED
      BY <3>1
  <2>2. CASE i \in DOMAIN mainq
    <3>1. PICK y, d : y = mainq[i] /\ d = mainq[i].from
      OBVIOUS
    <3>2. Queued(d, y) /\ Same(d) /\ d \in Clients
      BY <1>1, <2>2, <3>1 DEF InQueue
    <3>3. Queued(d, y)'
      BY <3>2, QueuedKept
    <3>4. y = mainq'[i] /\ d = mainq'[i].from
      BY <1>2, <2>2, <3>1
    <3> QED
      BY <3>3, <3>4
  <2> QED
    BY <1>3, <2>1, <2>2
<1>5. \A i, j \in DOMAIN mainq' : mainq'[i].from = mainq'[j].from => i = j
  <2>1. \A i \in DOMAIN mainq : mainq'[i].from # c
    BY <1>1, <1>2
  <2>2. \A i, j \in DOMAIN mainq : mainq'[i].from = mainq'[j].from => i = j
    BY <1>2 DEF InQueue
  <2> QED
    BY <1>2, <1>3, <2>1, <2>2
<1>6. InMain'
  <2>1. SUFFICES ASSUME main' # None PROVE \E d \in Clients : Writing(d)'
    BY DEF InMain
  <2>2. PICK d \in Clients : d # c /\ Writing(d)
    BY <2>1, NothingElsewhere
  <2>3. Waits(d)' /\ Remaining(d, main.out)' /\ main'.fd = handler'[d].fd
    BY <2>2 DEF Writing, Same, Waits, Remaining, Unbegun, Begun, Last, Whole, Rest
  <2>4. \A i \in DOMAIN mainq' : mainq'[i].from # d
    BY <1>2, <1>3, <2>2 DEF Writing
  <2> QED
    BY <2>3, <2>4 DEF Writing
<1> QED
  BY <1>4, <1>5, <1>6 DEF InQueue

LEMMA HandleAnswers ==
  ASSUME TypeOK, CarefulInv, NEW c \in Clients, Handle(c)
  PROVE  CarefulInv'
<1>1. PICK q : q = Request(c)
  OBVIOUS
<1>2. Reading(c) /\ Taken(c) /\ ClientInv(c)
  BY HandleShape DEF CarefulInv
<1>3. UNCHANGED <<fdOf, client, expects, main, wire>>
  BY HandleShape
<1>4. /\ OneIsAnswered(c)' /\ InInbox(c)' /\ Arrived(c)' /\ q.name # "WATCH"
      /\ \A i \in DOMAIN inbox'[c] : inbox'[c][i].name # "WATCH"
      /\ Answered(q) => q = Last(c) /\ Unbegun(c) /\ inbox'[c] = <<>>
  BY <1>1, <1>2, <1>3, ReadAnswers
<1>5. UNCHANGED watched
  BY <1>1, <1>4, HandleShape
<1>6. ~ Waits(c) /\ handler[c].st = "reading" /\ handler[c].out = <<>> /\ "handed" \in States
  BY <1>2 DEF Waits, Reading, States
<1>7. \/ UNCHANGED <<handler, mainq>>
      \/ Reply(c) /\ UNCHANGED mainq /\ Answered(q)
      \/ handler' = [handler EXCEPT ![c].st = "handed"] /\ UNCHANGED mainq
      \/ /\ mainq' = Append(mainq, [cmd |-> q, fd |-> handler[c].fd, from |-> c])
         /\ UNCHANGED handler /\ Answered(q)
  BY <1>1, <1>4, HandleShape
<1>8. NobodyWatches(c)'
  BY <1>2, <1>4, <1>5 DEF ClientInv, NobodyWatches
<1>9. ASSUME \A d \in Clients : handler'[d].fd = handler[d].fd,
             \A d \in Clients : d # c => handler'[d] = handler[d],
             Reads(c)' => Reads(c), InHandler(c)'
      PROVE  /\ \A d \in Clients : ClientInv(d)'
             /\ \A d \in Clients : d # c => Same(d)
  <2>1. \A d \in Clients : Keeps(d)'
    <3> TAKE d \in Clients
    <3>1. Keeps(d) /\ fdOf' = fdOf
      BY <1>3 DEF CarefulInv, ClientInv
    <3> QED
      BY <1>9, <3>1 DEF Keeps, Reads
  <2>2. \A d \in Clients : d # c => Same(d)
    BY <1>2, <1>3, <1>5, <1>9, TakenTyped DEF Same
  <2>3. \A d \in Clients : d # c => ClientInv(d)'
    BY <2>1, <2>2, ClientKept DEF CarefulInv
  <2>4. ClientInv(c)'
    BY <1>4, <1>8, <1>9, <2>1 DEF ClientInv
  <2> QED
    BY <2>2, <2>3, <2>4
<1>10. CASE UNCHANGED <<handler, mainq>>
  <2>1. InHandler(c)'
    BY <1>6, <1>10 DEF InHandler
  <2>2. /\ \A d \in Clients : ClientInv(d)'
        /\ \A d \in Clients : d # c => Same(d)
    BY <1>9, <1>10, <2>1 DEF Reads
  <2> QED
    BY <1>3, <1>6, <1>10, <2>2, OthersKept DEF CarefulInv
<1>11. CASE handler' = [handler EXCEPT ![c].st = "handed"] /\ UNCHANGED mainq
  <2>1. /\ \A d \in Clients : handler'[d].fd = handler[d].fd /\ handler'[d].out = handler[d].out
        /\ \A d \in Clients : d # c => handler'[d] = handler[d]
    BY <1>6, <1>11, StateTyped
  <2>2. InHandler(c)' /\ Reads(c)
    BY <1>6, <2>1 DEF InHandler, Reads
  <2>3. /\ \A d \in Clients : ClientInv(d)'
        /\ \A d \in Clients : d # c => Same(d)
    BY <1>9, <2>1, <2>2
  <2> QED
    BY <1>3, <1>6, <1>11, <2>3, OthersKept DEF CarefulInv
<1>12. CASE Reply(c) /\ UNCHANGED mainq /\ Answered(q)
  <2>1. /\ handler' = [handler EXCEPT ![c].out = <<Part("header", c, q), Part("payload", c, q)>>]
        /\ \A d \in Clients : handler'[d].st = handler[d].st /\ handler'[d].fd = handler[d].fd
        /\ handler'[c].out = <<Part("header", c, q), Part("payload", c, q)>>
    BY <1>1, <1>2, <1>12, ReplyTyped
  <2>2. \A d \in Clients : d # c => handler'[d] = handler[d]
    BY <2>1 DEF TypeOK, HandlersTyped
  <2>3. InHandler(c)'
    BY <1>3, <1>4, <1>6, <1>12, <2>1
       DEF InHandler, Remaining, Unbegun, Whole, Last, Part
  <2>4. /\ \A d \in Clients : ClientInv(d)'
        /\ \A d \in Clients : d # c => Same(d)
    BY <1>6, <1>9, <2>1, <2>2, <2>3 DEF Reads
  <2> QED
    BY <1>3, <1>6, <1>12, <2>4, OthersKept DEF CarefulInv
<1>13. CASE /\ mainq' = Append(mainq, [cmd |-> q, fd |-> handler[c].fd, from |-> c])
            /\ UNCHANGED handler /\ Answered(q)
  <2>1. InHandler(c)'
    BY <1>6, <1>13 DEF InHandler
  <2>2. /\ \A d \in Clients : ClientInv(d)'
        /\ \A d \in Clients : d # c => Same(d)
    BY <1>9, <1>13, <2>1 DEF Reads
  <2>3. PICK x : x = [cmd |-> q, fd |-> handler[c].fd, from |-> c]
    OBVIOUS
  <2>4. Queued(c, x)'
    BY <1>3, <1>4, <1>6, <1>13, <2>3 DEF Queued, Waits, Unbegun, Last
  <2>5. x.from = c /\ mainq' = Append(mainq, x)
    BY <1>13, <2>3
  <2> QED
    BY <1>3, <1>6, <2>2, <2>4, <2>5, DeferredAnswers DEF CarefulInv
<1> QED
  BY <1>7, <1>10, <1>11, <1>12, <1>13

\* The next part of an answer arrives: after the header the payload remains,
\* after the payload nothing.
LEMMA PartArrives ==
  ASSUME TypeOK, NEW c \in Clients, NEW o, Remaining(c, o), ClientInv(c), Reads(c),
         wire'[c] = Append(wire[c], Head(o)), UNCHANGED <<expects, client>>
  PROVE  /\ OneIsAnswered(c)' /\ Arrived(c)'
         /\ \/ Len(o) = 1 /\ Tail(o) = <<>> /\ ~ Outstanding(c)'
            \/ Len(o) = 2 /\ Remaining(c, Tail(o))'
<1>1. /\ wire[c] \in Seq(Parts) /\ Len(wire[c]) \in Nat /\ Len(expects[c]) \in Nat
  BY HandlerTyped, LengthsTyped
<1>2. /\ Len(wire'[c]) = Len(wire[c]) + 1 /\ wire'[c][Len(wire[c]) + 1] = Head(o)
      /\ \A i \in 1 .. Len(wire[c]) : wire'[c][i] = wire[c][i]
  BY <1>1
<1>3. \A n \in 1 .. Len(expects[c]) :
        /\ 2 * n - 1 <= Len(wire[c]) => wire[c][2 * n - 1] = Part("header", c, expects[c][n])
        /\ 2 * n <= Len(wire[c]) => wire[c][2 * n] = Part("payload", c, expects[c][n])
  BY DEF ClientInv, Arrived
<1>4. Outstanding(c) /\ client[c] = "open"
  BY RemainingIsOutstanding DEF ClientInv, OneIsAnswered
<1>5. CASE Unbegun(c) /\ o = Whole(c)
  <2>1. /\ Len(o) = 2 /\ Head(o) = Part("header", c, Last(c))
        /\ Tail(o) = <<Part("payload", c, Last(c))>>
    BY <1>5 DEF Whole
  <2>2. Len(wire[c]) + 2 = 2 * Len(expects[c]) /\ Len(expects[c]) >= 1
    BY <1>1, <1>5 DEF Unbegun
  <2>3. Remaining(c, Tail(o))'
    BY <1>1, <1>2, <2>1, <2>2 DEF Remaining, Begun, Rest, Last, Part
  <2>4. OneIsAnswered(c)'
    BY <1>1, <1>2, <1>4, <2>2 DEF OneIsAnswered, Outstanding
  <2>5. ASSUME NEW n \in 1 .. Len(expects[c])
        PROVE  /\ 2 * n - 1 <= Len(wire'[c])
                    => wire'[c][2 * n - 1] = Part("header", c, expects[c][n])
               /\ 2 * n <= Len(wire'[c]) => wire'[c][2 * n] = Part("payload", c, expects[c][n])
    <3>1. CASE n = Len(expects[c])
      <4>1. 2 * n - 1 = Len(wire[c]) + 1 /\ 2 * n > Len(wire'[c]) /\ expects[c][n] = Last(c)
        BY <1>1, <1>2, <2>2, <3>1 DEF Last
      <4>2. 2 * n \in Int /\ Len(wire'[c]) \in Int
        BY <1>1, <1>2
      <4>3. ~ (2 * n <= Len(wire'[c]))
        BY <4>1, <4>2
      <4>4. wire'[c][2 * n - 1] = Part("header", c, expects[c][n])
        BY <1>2, <2>1, <4>1
      <4> QED
        BY <4>3, <4>4
    <3>2. CASE n # Len(expects[c])
      <4>1. 2 * n \in 1 .. Len(wire[c]) /\ 2 * n - 1 \in 1 .. Len(wire[c])
        BY <1>1, <2>2, <3>2
      <4> QED
        BY <1>2, <1>3, <4>1
    <3> QED
      BY <3>1, <3>2
  <2>6. Arrived(c)'
    BY <2>5 DEF Arrived, Part
  <2> QED
    BY <2>1, <2>3, <2>4, <2>6
<1>6. CASE Begun(c) /\ o = Rest(c)
  <2>1. Len(o) = 1 /\ Head(o) = Part("payload", c, Last(c)) /\ Tail(o) = <<>>
    BY <1>6 DEF Rest
  <2>2. Len(wire[c]) + 1 = 2 * Len(expects[c]) /\ Len(expects[c]) >= 1
    BY <1>1, <1>6 DEF Begun
  <2>3. ~ Outstanding(c)' /\ OneIsAnswered(c)'
    BY <1>1, <1>2, <1>4, <2>2 DEF OneIsAnswered, Outstanding
  <2>4. ASSUME NEW n \in 1 .. Len(expects[c])
        PROVE  /\ 2 * n - 1 <= Len(wire'[c])
                    => wire'[c][2 * n - 1] = Part("header", c, expects[c][n])
               /\ 2 * n <= Len(wire'[c]) => wire'[c][2 * n] = Part("payload", c, expects[c][n])
    <3>1. 2 * n - 1 \in 1 .. Len(wire[c])
      BY <1>1, <2>2
    <3>2. wire'[c][2 * n - 1] = Part("header", c, expects[c][n])
      BY <1>2, <1>3, <3>1
    <3>3. CASE n = Len(expects[c])
      <4>1. 2 * n = Len(wire[c]) + 1 /\ expects[c][n] = Last(c)
        BY <1>1, <2>2, <3>3 DEF Last
      <4>2. wire'[c][2 * n] = Part("payload", c, expects[c][n])
        BY <1>2, <2>1, <4>1
      <4> QED
        BY <3>2, <4>2
    <3>4. CASE n # Len(expects[c])
      <4>1. 2 * n \in 1 .. Len(wire[c])
        BY <1>1, <2>2, <3>4
      <4> QED
        BY <1>2, <1>3, <3>2, <4>1
    <3> QED
      BY <3>3, <3>4
  <2>5. Arrived(c)'
    BY <2>4 DEF Arrived, Part
  <2> QED
    BY <2>1, <2>3, <2>5
<1> QED
  BY <1>5, <1>6 DEF Remaining

\* The descriptor of a connection whose answer is outstanding is its own and
\* can be written to.
LEMMA OwnIsWritable ==
  ASSUME TypeOK, BoundedRun, NEW c \in Clients, ClientInv(c), Outstanding(c),
         handler[c].st = "reading"
  PROVE  handler[c].fd \in Fds /\ fdOf[handler[c].fd] = c /\ Writable(handler[c].fd)
<1>1. handler[c].fd \in Fds
  BY StartedHaveDescriptor
<1>2. fdOf[handler[c].fd] = c /\ client[c] = "open"
  BY DEF ClientInv, Keeps, Reads, OneIsAnswered
<1> QED
  BY <1>1, <1>2 DEF Writable, BoundedRun

LEMMA SendReplyAnswers ==
  ASSUME TypeOK, BoundedRun, CarefulInv, NEW c \in Clients, SendReply(c)
  PROVE  CarefulInv'
<1>1. PICK o : o = handler[c].out
  OBVIOUS
<1>2. /\ handler[c].st = "reading" /\ o # <<>> /\ ClientInv(c)
      /\ inbox[c] = <<>> /\ Remaining(c, o) /\ Outstanding(c)
  BY <1>1, RemainingIsOutstanding DEF SendReply, CarefulInv, ClientInv, InHandler
<1>3. handler[c].fd \in Fds /\ fdOf[handler[c].fd] = c /\ Writable(handler[c].fd)
  BY <1>2, OwnIsWritable
<1>4. /\ wire' = [wire EXCEPT ![c] = Append(@, Head(o))] /\ UNCHANGED fdOf
      /\ handler' = [handler EXCEPT ![c].out = Tail(o)]
  BY <1>1, <1>3 DEF SendReply, Written
<1>5. wire'[c] = Append(wire[c], Head(o)) /\ \A d \in Clients : d # c => wire'[d] = wire[d]
  BY <1>4 DEF TypeOK
<1>6. Tail(o) \in Seq(Parts)
  BY <1>1, <1>2, HandlerTyped
<1>7. /\ handler'[c].out = Tail(o)
      /\ \A d \in Clients : handler'[d].fd = handler[d].fd /\ handler'[d].st = handler[d].st
      /\ \A d \in Clients : d # c => handler'[d] = handler[d]
  BY <1>4, <1>6, RestTyped
<1>8. \A d \in Clients : Keeps(d)'
  BY <1>4, <1>7 DEF CarefulInv, ClientInv, Keeps, Reads
<1>9. \A d \in Clients : d # c => Same(d)
  BY <1>5, <1>7 DEF Same, SendReply
<1>10. \A d \in Clients : d # c => ClientInv(d)'
  BY <1>8, <1>9, ClientKept DEF CarefulInv
<1>11. /\ OneIsAnswered(c)' /\ Arrived(c)'
       /\ Tail(o) = <<>> \/ Remaining(c, Tail(o))'
  BY <1>2, <1>5, PartArrives DEF SendReply, Reads
<1>12. ClientInv(c)'
  <2>1. inbox'[c] = <<>> /\ watched'[c] = watched[c]
    BY <1>2 DEF SendReply
  <2>2. NobodyWatches(c)' /\ InInbox(c)'
    BY <1>2, <2>1 DEF ClientInv, NobodyWatches, InInbox
  <2>3. InHandler(c)'
    <3>1. PICK t : t = Tail(o)
      OBVIOUS
    <3>2. handler'[c].out = t /\ (t = <<>> \/ Remaining(c, t)')
      BY <1>7, <1>11, <3>1
    <3> QED
      BY <1>2, <1>7, <2>1, <3>2 DEF InHandler
  <2> QED
    BY <1>8, <1>11, <2>2, <2>3 DEF ClientInv
<1>13. ~ Waits(c)
  BY <1>1, <1>2 DEF Waits
<1>14. InQueue' /\ InMain'
  BY <1>9, <1>13, OthersKept DEF CarefulInv, SendReply
<1> QED
  BY <1>10, <1>12, <1>14 DEF CarefulInv

\* Nobody watches, so no update is sent.
LEMMA SendUpdateAnswers ==
  ASSUME CarefulInv, NEW c \in Clients, SendUpdate(c)
  PROVE  FALSE
BY DEF CarefulInv, ClientInv, NobodyWatches, SendUpdate

\* The queue without its first context.
LEMMA ShorterQueue ==
  ASSUME TypeOK, InQueue, mainq # <<>>, mainq' = Tail(mainq),
         \A d \in Clients : Same(d)
  PROVE  /\ InQueue'
         /\ \A i \in DOMAIN mainq' : mainq'[i].from # mainq[1].from
         /\ \A d \in Clients : (\A i \in DOMAIN mainq : mainq[i].from # d)
                                  => \A i \in DOMAIN mainq' : mainq'[i].from # d
         /\ Queued(mainq[1].from, mainq[1]) /\ mainq[1].from \in Clients
<1>1. /\ mainq[1].from \in Clients
      /\ mainq \in Seq(Context) /\ Tail(mainq) \in Seq(Context) /\ Len(mainq) \in Nat \ {0}
      /\ Len(Tail(mainq)) = Len(mainq) - 1
      /\ \A i \in 1 .. Len(mainq) - 1 : Tail(mainq)[i] = mainq[i + 1]
  BY ContextTyped DEF TypeOK, Context
<1>2. /\ DOMAIN mainq = 1 .. Len(mainq) /\ DOMAIN mainq' = 1 .. Len(mainq) - 1
      /\ \A i \in DOMAIN mainq' : mainq'[i] = mainq[i + 1]
      /\ \A i \in DOMAIN mainq' : i + 1 \in DOMAIN mainq /\ i + 1 # 1 /\ i \in Int
      /\ 1 \in DOMAIN mainq
  <2>1. DOMAIN Tail(mainq) = 1 .. Len(Tail(mainq)) /\ DOMAIN mainq = 1 .. Len(mainq)
    BY <1>1
  <2>2. DOMAIN mainq' = 1 .. Len(mainq) - 1
    BY <1>1, <2>1
  <2> QED
    BY <1>1, <2>1, <2>2
<1>3. \A i \in DOMAIN mainq : mainq[i].from \in Clients
  <2>1. \A i \in DOMAIN mainq : mainq[i] \in Context
    BY <1>1
  <2> QED
    BY <2>1 DEF Context
<1>4. ASSUME NEW i \in DOMAIN mainq'
      PROVE  Queued(mainq[i].from, mainq[i])'
  <2>1. PICK y, d : y = mainq[i + 1] /\ d = mainq[i + 1].from
    OBVIOUS
  <2>2. Queued(d, y) /\ d \in Clients
    BY <1>2, <1>3, <2>1 DEF InQueue
  <2>3. Queued(d, y)'
    BY <2>2, QueuedKept
  <2>4. y = mainq'[i] /\ d = mainq'[i].from
    BY <1>2, <2>1
  <2> QED
    BY <2>3, <2>4
<1>5. ASSUME NEW i \in DOMAIN mainq', NEW j \in DOMAIN mainq', mainq'[i].from = mainq'[j].from
      PROVE  i = j
  <2>1. i + 1 = j + 1 /\ i \in Int /\ j \in Int
    BY <1>2, <1>5 DEF InQueue
  <2> QED
    BY <2>1
<1>6. InQueue'
  BY <1>4, <1>5 DEF InQueue
<1>7. \A i \in DOMAIN mainq' : mainq'[i].from # mainq[1].from
  BY <1>2 DEF InQueue
<1> QED
  BY <1>1, <1>2, <1>6, <1>7 DEF InQueue

LEMMA RunAnswers ==
  ASSUME TypeOK, CarefulInv, RunContext \/ PushFails
  PROVE  CarefulInv'
<1>1. /\ main = None /\ mainq # <<>> /\ mainq' = Tail(mainq) /\ Head(mainq) = mainq[1]
      /\ \A d \in Clients : Same(d)
  BY ContextTyped DEF RunContext, PushFails, Same
<1>2. /\ InQueue'
      /\ \A i \in DOMAIN mainq' : mainq'[i].from # mainq[1].from
      /\ Queued(mainq[1].from, mainq[1]) /\ mainq[1].from \in Clients
  BY <1>1, ShorterQueue DEF CarefulInv
<1>3. \A d \in Clients : ClientInv(d)'
  <2> TAKE d \in Clients
  <2>1. Keeps(d)'
    BY DEF CarefulInv, ClientInv, Keeps, Reads, RunContext, PushFails
  <2> QED
    BY <1>1, <2>1, ClientKept DEF CarefulInv
<1>4. CASE PushFails
  <2>1. InMain'
    BY <1>1, <1>4 DEF PushFails, InMain
  <2> QED
    BY <1>2, <1>3, <2>1 DEF CarefulInv
<1>5. CASE RunContext
  <2>1. PICK x, c : x = mainq[1] /\ c = mainq[1].from
    OBVIOUS
  <2>2. Queued(c, x) /\ c \in Clients /\ Same(c)
    BY <1>1, <1>2, <2>1
  <2>3. main'.fd = x.fd /\ main'.out = <<Part("header", c, x.cmd), Part("payload", c, x.cmd)>>
    BY <1>1, <1>5, <2>1 DEF RunContext
  <2>4. Queued(c, x)'
    BY <2>2, QueuedKept
  <2>5. Remaining(c, main.out)'
    BY <2>3, <2>4 DEF Queued, Remaining, Whole, Part
  <2>6. Writing(c)'
    BY <1>2, <2>1, <2>3, <2>4, <2>5 DEF Writing, Queued
  <2>7. InMain'
    BY <2>2, <2>6 DEF InMain
  <2> QED
    BY <1>2, <1>3, <2>7 DEF CarefulInv
<1> QED
  BY <1>4, <1>5

LEMMA MainSendsAnswers ==
  ASSUME TypeOK, BoundedRun, CarefulInv, MainSends
  PROVE  CarefulInv'
<1>1. PICK c \in Clients : Writing(c)
  BY DEF MainSends, CarefulInv, InMain
<1>2. PICK o : o = main.out
  OBVIOUS
<1>3. /\ Waits(c) /\ Remaining(c, o) /\ main.fd = handler[c].fd /\ ClientInv(c)
      /\ \A i \in DOMAIN mainq : mainq[i].from # c
  BY <1>1, <1>2 DEF Writing, CarefulInv
<1>4. Outstanding(c) /\ handler[c].st = "reading"
  BY <1>3, RemainingIsOutstanding DEF Waits
<1>5. fdOf[main.fd] = c /\ Writable(main.fd)
  BY <1>3, <1>4, OwnIsWritable
<1>6. /\ wire' = [wire EXCEPT ![c] = Append(@, Head(o))] /\ UNCHANGED fdOf
      /\ main' = IF Len(o) = 1 THEN None ELSE [main EXCEPT !.out = Tail(o)]
      /\ UNCHANGED <<client, expects, inbox, handler, watched, mainq>>
  BY <1>2, <1>5 DEF MainSends, Written
<1>7. wire'[c] = Append(wire[c], Head(o)) /\ \A d \in Clients : d # c => wire'[d] = wire[d]
  BY <1>6 DEF TypeOK
<1>8. \A d \in Clients : Keeps(d)'
  BY <1>6 DEF CarefulInv, ClientInv, Keeps, Reads
<1>9. \A d \in Clients : d # c => Same(d)
  BY <1>6, <1>7 DEF Same
<1>10. \A d \in Clients : d # c => ClientInv(d)'
  BY <1>8, <1>9, ClientKept DEF CarefulInv
<1>11. /\ OneIsAnswered(c)' /\ Arrived(c)'
       /\ \/ Len(o) = 1
          \/ Len(o) = 2 /\ Remaining(c, Tail(o))'
  BY <1>3, <1>4, <1>6, <1>7, PartArrives DEF Reads
<1>12. ClientInv(c)'
  <2>1. NobodyWatches(c)' /\ InInbox(c)' /\ InHandler(c)'
    BY <1>3, <1>6 DEF ClientInv, NobodyWatches, InInbox, InHandler, Waits
  <2> QED
    BY <1>8, <1>11, <2>1 DEF ClientInv
<1>13. InQueue'
  <2>1. \A i \in DOMAIN mainq : Queued(mainq[i].from, mainq[i])'
    <3> TAKE i \in DOMAIN mainq
    <3>1. PICK x, d : x = mainq[i] /\ d = mainq[i].from
      OBVIOUS
    <3>2. mainq[i] \in Context
      <4>1. mainq \in Seq(Context)
        BY DEF TypeOK, Context
      <4> QED
        BY <4>1
    <3>3. Queued(d, x) /\ Same(d) /\ d \in Clients
      BY <1>3, <1>9, <3>1, <3>2 DEF CarefulInv, InQueue, Context
    <3>4. Queued(d, x)'
      BY <3>3, QueuedKept
    <3>5. x = mainq'[i] /\ d = mainq'[i].from
      BY <1>6, <3>1
    <3> QED
      BY <3>4, <3>5
  <2> QED
    BY <1>6, <2>1 DEF CarefulInv, InQueue
<1>14. InMain'
  <2>1. CASE Len(o) = 1
    BY <1>6, <2>1 DEF InMain
  <2>2. CASE Len(o) = 2 /\ Remaining(c, Tail(o))'
    <3>1. PICK t : t = Tail(o)
      OBVIOUS
    <3>2. main \in [fd : Fds, out : Seq(Parts) \ {<<>>}]
      BY DEF TypeOK, MainSends
    <3>3. main'.out = t /\ main'.fd = main.fd
      BY <1>6, <2>2, <3>1, <3>2
    <3>4. Writing(c)'
      BY <1>3, <1>6, <2>2, <3>1, <3>3 DEF Writing, Waits
    <3> QED
      BY <3>4 DEF InMain
  <2> QED
    BY <1>11, <2>1, <2>2
<1> QED
  BY <1>10, <1>12, <1>13, <1>14 DEF CarefulInv

-----------------------------------------------------------------------------
(* The theorems.                                                           *)

LEMMA AnswerInit ==
  ASSUME Init
  PROVE  AnswerInv
<1>1. \A c \in Clients : ClientInv(c)
  <2> TAKE c \in Clients
  <2>1. OneIsAnswered(c) /\ NobodyWatches(c) /\ InInbox(c) /\ InHandler(c) /\ Keeps(c)
    BY DEF Init, OneIsAnswered, Outstanding, NobodyWatches, InInbox, InHandler, Keeps, Reads
  <2>2. Arrived(c)
    BY DEF Init, Arrived
  <2> QED
    BY <2>1, <2>2 DEF ClientInv
<1>2. InQueue /\ InMain
  BY DEF Init, InQueue, InMain
<1> QED
  BY <1>1, <1>2 DEF AnswerInv

LEMMA AnswerStep ==
  ASSUME TypeOK, BoundedRun, AnswerInv, [Next]_vars
  PROVE  AnswerInv'
<1>1. SUFFICES ASSUME ~ careless' PROVE CarefulInv'
  BY DEF AnswerInv, CarefulInv
<1>2. CASE UNCHANGED vars
  <2>1. CarefulInv
    BY <1>1, <1>2 DEF AnswerInv, CarefulInv, vars
  <2>2. \A d \in Clients : Same(d) /\ Keeps(d)'
    BY <1>2, <2>1 DEF vars, Same, CarefulInv, ClientInv, Keeps, Reads
  <2>3. \A d \in Clients : ClientInv(d)'
    BY <2>1, <2>2, ClientKept DEF CarefulInv
  <2>4. InQueue'
    BY <1>2, <2>1 DEF vars, CarefulInv, InQueue, Queued, Waits, Unbegun, Last
  <2>5. InMain'
    <3>1. SUFFICES ASSUME main' # None PROVE \E d \in Clients : Writing(d)'
      BY DEF InMain
    <3>2. PICK d \in Clients : Writing(d)
      BY <1>2, <2>1, <3>1 DEF vars, CarefulInv, InMain
    <3> QED
      BY <1>2, <2>2, <3>2, WritingKept DEF vars
  <2> QED
    BY <2>3, <2>4, <2>5 DEF CarefulInv
<1>3. CASE Main
  <2>1. CarefulInv
    BY <1>1, <1>3 DEF AnswerInv, CarefulInv, Main, RunContext, PushFails, MainSends
  <2> QED
    BY <1>3, <2>1, RunAnswers, MainSendsAnswers DEF Main
<1>4. ASSUME NEW c \in Clients, Serve(c)
      PROVE  CarefulInv'
  <2>1. careless' = careless
    BY <1>4, HandleShape DEF Serve, Accept, Handshake, HandlerEnds, SendReply, WriterCloses
  <2>2. CarefulInv
    BY <1>1, <2>1 DEF AnswerInv, CarefulInv
  <2> QED
    BY <1>4, <2>2, AcceptAnswers, HandshakeAnswers, EndAnswers, HandleAnswers,
       SendReplyAnswers DEF Serve
<1>5. ASSUME NEW c \in Clients,
             \/ Connect(c) \/ Leave(c) \/ SendUpdate(c)
             \/ \E cmd \in Commands[c] : Ask(c, cmd)
      PROVE  CarefulInv'
  <2>1. CarefulInv
    BY <1>1, <1>5 DEF AnswerInv, CarefulInv, Connect, Leave, SendUpdate, Ask
  <2> QED
    BY <1>1, <1>5, <2>1, ConnectAnswers, LeaveAnswers, SendUpdateAnswers, AskAnswers
<1> QED
  BY <1>2, <1>3, <1>4, <1>5 DEF Next

\* Descriptors, connections, requests, replies and contexts keep their types,
\* and handler_threads_status_ grows by one entry per connection, whatever
\* the clients do.
THEOREM ApiTypes ==
  ASSUME BoundedRun
  PROVE  Spec => []TypeOK
<1>1. Init => TypeOK
  BY TypeInit
<1>2. TypeOK /\ [Next]_vars => TypeOK'
  BY TypeStep
<1> QED
  BY <1>1, <1>2, PTL DEF Spec

\* AnswerInv implies both properties.
LEMMA AnswerInvImplies ==
  ASSUME TypeOK, AnswerInv
  PROVE  AnswersAreWhole /\ DescriptorsAreNotShared
<1>1. SUFFICES ASSUME CarefulInv
               PROVE  AnswersAreWhole /\ DescriptorsAreNotShared
  BY DEF AnswerInv, CarefulInv, AnswersAreWhole, DescriptorsAreNotShared
<1>2. AnswersAreWhole
  BY <1>1 DEF CarefulInv, ClientInv, OneIsAnswered, Arrived, AnswersAreWhole
<1>3. \A c \in Clients : Reads(c) => fdOf[handler[c].fd] = c
  BY <1>1 DEF CarefulInv, ClientInv, Keeps
<1>4. ASSUME NEW i \in DOMAIN mainq
      PROVE  fdOf[mainq[i].fd] = mainq[i].from
  <2>1. mainq[i] \in Context
    <3>1. mainq \in Seq(Context)
      BY DEF TypeOK, Context
    <3> QED
      BY <3>1
  <2>2. mainq[i].from \in Clients /\ Queued(mainq[i].from, mainq[i])
    BY <1>1, <2>1 DEF CarefulInv, InQueue, Context
  <2> QED
    BY <1>3, <2>2 DEF Queued, Waits, Reads
<1> QED
  BY <1>2, <1>3, <1>4 DEF DescriptorsAreNotShared

\* A client that waits for its answers, watches nothing and leaves only when
\* answered receives the header and the payload of every answer, whole and in
\* the order of its requests, although the handler and the main loop write to
\* the same descriptor without a lock.
THEOREM AnswersArriveWhole ==
  ASSUME BoundedRun
  PROVE  Spec => []AnswersAreWhole
<1>1. Init => TypeOK /\ AnswerInv
  BY TypeInit, AnswerInit
<1>2. TypeOK /\ AnswerInv /\ [Next]_vars => (TypeOK /\ AnswerInv)'
  BY TypeStep, AnswerStep
<1>3. TypeOK /\ AnswerInv => AnswersAreWhole
  BY AnswerInvImplies
<1> QED
  BY <1>1, <1>2, <1>3, PTL DEF Spec

\* With such clients no thread closes or writes to a descriptor that was
\* given to another connection: a handler that reads still has its own, and
\* an execution context names the descriptor of its client.
THEOREM DescriptorsStayOwn ==
  ASSUME BoundedRun
  PROVE  Spec => []DescriptorsAreNotShared
<1>1. Init => TypeOK /\ AnswerInv
  BY TypeInit, AnswerInit
<1>2. TypeOK /\ AnswerInv /\ [Next]_vars => (TypeOK /\ AnswerInv)'
  BY TypeStep, AnswerStep
<1>3. TypeOK /\ AnswerInv => DescriptorsAreNotShared
  BY AnswerInvImplies
<1> QED
  BY <1>1, <1>2, <1>3, PTL DEF Spec
=============================================================================
