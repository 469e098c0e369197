---------------------------- MODULE SocketChannel ----------------------------
(***************************************************************************)
(* A channel over generic TCP: the dispatcher accepts connections, each    *)
(* gets a thread that acts as a websocket server and turns text messages   *)
(* into events, and a sender thread writes frames to the connection that   *)
(* is registered under the socket's name (reuse_socket), or to one of its  *)
(* own.                                                                    *)
(*                                                                         *)
(* The registry holds a descriptor number and whether it may be used.      *)
(* Descriptors are reused: a number means whichever connection has it now. *)
(***************************************************************************)
EXTENDS Integers, Sequences, FiniteSets, SequencesExt

CONSTANTS
  Clients,     \* connections of a run
  Fds,         \* descriptors
  Kinds,       \* kinds of messages clients send: "text", "binary", "fragmented"
  MaxMessages, \* bound: messages per client
  MaxFrames,   \* bound: frames given to the sender
  Pieces,      \* write calls per frame: som, header, length, content, eof
  None         \* a descriptor that is not open

ASSUME NoneAssumption == None \notin Clients
ASSUME PiecesAssumption == Pieces \in Nat \ {0}

VARIABLES
  owner,    \* TRUE: the sender connects by itself (reuse_socket is not set)
  evenMarks, \* TRUE: som is empty or as long as eof
  reg,      \* get_reg_socks()[sock_name]: <<descriptor or -1, usable>>
  fdOf,     \* the descriptor table
  client,   \* "new", "backlog", "open", "gone"
  handler,  \* per connection: [st, fd]
  inbox,    \* messages on their way to the handler
  events,   \* events pushed, as <<client, number of the message>>
  sender,   \* [pc, cfd, up, ioErr], and of the current frame the pieces
            \* written and the connections they went to
  frames,   \* frames queued for the sender, numbered
  current,  \* the frame the sender has popped, 0 for none
  produced, \* frames pushed so far
  written   \* complete frames written, with the connections they went to

vars == <<owner, evenMarks, reg, fdOf, client, handler, inbox, events, sender, frames, current,
          produced, written>>

serverVars == <<owner, evenMarks, reg, fdOf, client, handler, inbox, events>>
senderVars == <<sender, frames, current, written>>

Init ==
  /\ owner \in BOOLEAN /\ evenMarks \in BOOLEAN
  /\ reg = <<-1, FALSE>>
  /\ fdOf = [f \in Fds |-> None]
  /\ client = [c \in Clients |-> "new"]
  /\ handler = [c \in Clients |-> [st |-> "none", fd |-> -1, read |-> 0]]
  /\ inbox = [c \in Clients |-> <<>>]
  /\ events = <<>>
  /\ sender = [pc |-> "pop", cfd |-> -1, up |-> FALSE, ioErr |-> FALSE, piece |-> 0,
               to |-> {}]
  /\ frames = <<>> /\ current = 0 /\ produced = 0 /\ written = <<>>

-----------------------------------------------------------------------------
(* Clients, the kernel and the program's producers.                        *)

Connect(c) ==
  /\ client[c] = "new"
  /\ client' = [client EXCEPT ![c] = "backlog"]
  /\ UNCHANGED <<owner, evenMarks, reg, fdOf, handler, inbox, events, produced, senderVars>>

Speak(c, kind) ==
  /\ client[c] = "open" /\ handler[c].read + Len(inbox[c]) < MaxMessages
  /\ inbox' = [inbox EXCEPT ![c] = Append(@, kind)]
  /\ UNCHANGED <<owner, evenMarks, reg, fdOf, client, handler, events, produced, senderVars>>

Leave(c) ==
  /\ client[c] = "open"
  /\ client' = [client EXCEPT ![c] = "gone"]
  /\ UNCHANGED <<owner, evenMarks, reg, fdOf, handler, inbox, events, produced, senderVars>>

PushFrame ==
  /\ produced < MaxFrames
  /\ produced' = produced + 1
  /\ frames' = Append(frames, produced + 1)
  /\ UNCHANGED <<serverVars, sender, current, written>>

-----------------------------------------------------------------------------
(* The dispatcher and the server threads.                                  *)

\* comm_generic_tcp_in_dispatcher_thread: the new descriptor is registered
\* as not usable, whatever was registered before.
Accept(c) ==
  /\ client[c] = "backlog"
  /\ \E f \in Fds :
       /\ fdOf[f] = None /\ \A g \in Fds : g < f => fdOf[g] # None
       /\ fdOf' = [fdOf EXCEPT ![f] = c]
       /\ reg' = <<f, FALSE>>
       /\ handler' = [handler EXCEPT ![c] = [st |-> "handshake", fd |-> f, read |-> 0]]
  /\ client' = [client EXCEPT ![c] = "open"]
  /\ UNCHANGED <<owner, evenMarks, inbox, events, produced, senderVars>>

\* accept fails (no descriptor is left, the connection was aborted): the name
\* loses the socket it had, which may still be served.
AcceptFails(c) ==
  /\ client[c] = "backlog"
  /\ reg' = <<-1, FALSE>>
  /\ UNCHANGED <<owner, evenMarks, fdOf, client, handler, inbox, events, produced, senderVars>>

\* comm_act_as_websocket_server: after the handshake the descriptor may be
\* used by the sender.
Upgrade(c) ==
  /\ handler[c].st = "handshake" /\ client[c] = "open"
  /\ reg' = <<handler[c].fd, TRUE>>
  /\ handler' = [handler EXCEPT ![c].st = "serving"]
  /\ UNCHANGED <<owner, evenMarks, fdOf, client, inbox, events, produced, senderVars>>

\* A message becomes an event when the opcode of its last frame says text;
\* a continuation frame has opcode 0.
ReadMessage(c) ==
  /\ handler[c].st = "serving" /\ inbox[c] # <<>>
  /\ handler' = [handler EXCEPT ![c].read = @ + 1]
  /\ inbox' = [inbox EXCEPT ![c] = Tail(@)]
  /\ events' = IF Head(inbox[c]) = "text"
               THEN Append(events, <<c, handler[c].read + 1>>) ELSE events
  /\ UNCHANGED <<owner, evenMarks, reg, fdOf, client, produced, senderVars>>

\* The request is no upgrade, a message came in pieces, or the client is gone.
GivesUp(c) ==
  \/ handler[c].st = "handshake"
  \/ handler[c].st = "serving" /\ (inbox[c] # <<>> \/ client[c] = "gone")

\* A bug: the descriptor is closed before it leaves the registry.
UnregisterLate(c) ==
  /\ GivesUp(c)
  /\ fdOf' = [fdOf EXCEPT ![handler[c].fd] = None]
  /\ handler' = [handler EXCEPT ![c].st = "ended"]
  /\ UNCHANGED <<owner, evenMarks, reg, client, inbox, events, produced, senderVars>>

\* cleanup_f, first half: the name has no usable socket from here on, also
\* when the registered one is another connection's.
Unregister(c) ==
  /\ GivesUp(c)
  /\ reg' = <<-1, FALSE>>
  /\ handler' = [handler EXCEPT ![c].st = "closing"]
  /\ UNCHANGED <<owner, evenMarks, fdOf, client, inbox, events, produced, senderVars>>

\* cleanup_f, second half: close(sck).
Close(c) ==
  /\ handler[c].st = "closing"
  /\ fdOf' = [fdOf EXCEPT ![handler[c].fd] = None]
  /\ handler' = [handler EXCEPT ![c].st = "ended"]
  /\ UNCHANGED <<owner, evenMarks, reg, client, inbox, events, produced, senderVars>>

Serve(c) == Accept(c) \/ AcceptFails(c) \/ Upgrade(c) \/ ReadMessage(c) \/ Unregister(c) \/ Close(c)

-----------------------------------------------------------------------------
(* comm_sender_generic_tcp_out_thread.                                     *)

\* The next frame is popped only when the last one was written completely.
PopFrame ==
  /\ sender.pc = "pop" /\ frames # <<>>
  /\ current' = Head(frames) /\ frames' = Tail(frames)
  /\ sender' = [sender EXCEPT !.pc = IF sender.up THEN "write" ELSE "connect"]
  /\ UNCHANGED <<serverVars, produced, written>>


\* reuse_socket: wait for a usable socket of that name, after an error for
\* another descriptor than the one that failed.
TakeRegistered ==
  /\ sender.pc = "connect" /\ ~ owner
  /\ reg[2] /\ (~ sender.ioErr \/ sender.cfd # reg[1])
  /\ sender' = [pc |-> "write", cfd |-> reg[1], up |-> TRUE, ioErr |-> FALSE,
                piece |-> 0, to |-> {}]
  /\ UNCHANGED <<serverVars, frames, current, produced, written>>

\* Without reuse_socket the sender connects by itself; the context it asks
\* for the kind of its channel is looked up only for reused sockets, so the
\* thread ends with an access to a null pointer at its first frame.
ConnectOwn ==
  /\ sender.pc = "connect" /\ owner
  /\ sender' = [sender EXCEPT !.pc = "crashed"]
  /\ UNCHANGED <<serverVars, frames, current, produced, written>>

\* A write succeeds while the descriptor is open, whoever has it by now; when
\* the peer has gone the kernel may still take it.  Of som as many bytes are
\* written as eof has: unless the two have one length the write counts as
\* failed.
Writable == /\ sender.pc = "write" /\ evenMarks
            /\ sender.cfd \in Fds /\ fdOf[sender.cfd] # None

\* The connections that have got a piece of the current frame after a write.
Reached == sender.to \cup {fdOf[sender.cfd]}

WritePiece ==
  /\ Writable /\ sender.piece + 1 < Pieces
  /\ sender' = [sender EXCEPT !.piece = @ + 1, !.to = Reached]
  /\ UNCHANGED <<serverVars, frames, current, produced, written>>

\* The last piece: the frame is written.
WriteOk ==
  /\ Writable /\ sender.piece + 1 = Pieces
  /\ written' = Append(written, [frame |-> current, to |-> Reached])
  /\ sender' = [sender EXCEPT !.pc = "pop", !.piece = 0, !.to = {}]
  /\ current' = 0
  /\ UNCHANGED <<serverVars, frames, produced>>

\* A write may fail: the descriptor is closed or the peer has gone.
Broken(f) == ~ evenMarks \/ IF fdOf[f] = None THEN TRUE ELSE client[fdOf[f]] = "gone"

\* A bug: the frame is dropped when it could not be written.
WriteFailsDropping ==
  /\ sender.pc = "write"
  /\ Broken(sender.cfd)
  /\ sender' = [sender EXCEPT !.pc = "pop", !.up = FALSE, !.ioErr = TRUE, !.piece = 0, !.to = {}]
  /\ current' = 0
  /\ UNCHANGED <<serverVars, frames, produced, written>>

\* A failed write: the frame is kept, to be written again from its first piece
\* on another connection.
WriteFails ==
  /\ sender.pc = "write"
  /\ Broken(sender.cfd)
  /\ sender' = [sender EXCEPT !.pc = "connect", !.up = FALSE, !.ioErr = TRUE, !.piece = 0,
                              !.to = {}]
  /\ UNCHANGED <<serverVars, frames, current, produced, written>>

SenderThread == PopFrame \/ TakeRegistered \/ ConnectOwn \/ WritePiece \/ WriteOk \/ WriteFails

Next ==
  \/ \E c \in Clients : \/ Connect(c) \/ Leave(c) \/ Serve(c)
                        \/ \E k \in Kinds : Speak(c, k)
  \/ PushFrame \/ SenderThread

\* The threads run; clients and producers need not.
Fairness == WF_vars(SenderThread) /\ \A c \in Clients : WF_vars(Serve(c))

Spec == Init /\ [][Next]_vars /\ Fairness

-----------------------------------------------------------------------------
Handler == [st : {"none", "handshake", "serving", "closing", "ended"}, fd : Fds \cup {-1},
            read : Nat]
Sender == [pc : {"pop", "connect", "write", "crashed"}, cfd : Fds \cup {-1}, up : BOOLEAN,
           ioErr : BOOLEAN, piece : Nat, to : SUBSET Clients]

\* Every variable keeps its type.
TypeOK ==
  /\ owner \in BOOLEAN /\ evenMarks \in BOOLEAN /\ reg \in (Fds \cup {-1}) \X BOOLEAN
  /\ fdOf \in [Fds -> Clients \cup {None}]
  /\ client \in [Clients -> {"new", "backlog", "open", "gone"}]
  /\ handler \in [Clients -> Handler] /\ inbox \in [Clients -> Seq(Kinds)]
  /\ events \in Seq(Clients \X Nat)
  /\ sender \in Sender
  /\ frames \in Seq(Nat) /\ current \in Nat /\ produced \in Nat
  /\ written \in Seq([frame : Nat, to : SUBSET Clients])

\* A thread has its connection's descriptor from accept to close.
ThreadsOwnDescriptors ==
  \A c \in Clients :
    /\ handler[c].st \in {"handshake", "serving", "closing"} =>
         handler[c].fd \in Fds /\ fdOf[handler[c].fd] = c
    /\ client[c] \in {"new", "backlog"} => handler[c].st = "none"

\* A socket that is registered as usable is the open descriptor of a
\* connection whose handshake is done and whose thread still serves it.
RegisteredIsServed ==
  reg[2] => \E c \in Clients : /\ handler[c].st = "serving" /\ handler[c].fd = reg[1]
                               /\ fdOf[reg[1]] = c

\* The frame in the sender's hands and those behind it are the next ones.
Held == IF current > 0 THEN 1 ELSE 0
FramesAreNext ==
  /\ sender.pc = "pop" <=> current = 0
  /\ current > 0 => current = Len(written) + 1
  /\ \A i \in DOMAIN frames : frames[i] = Len(written) + Held + i

\* The frames are written completely in the order they were queued, none is
\* skipped and none written twice, however often connections break.
FramesInOrder ==
  /\ \A i \in DOMAIN written : written[i].frame = i
  /\ Len(written) + Held + Len(frames) = produced

\* The pieces of a frame reach one connection, unless its thread closed the
\* descriptor in between and it was given to another one: at most one of the
\* connections a frame went to is not closed.
AtMostOneOpen(cs) == \A c, d \in cs : c # d => "ended" \in {handler[c].st, handler[d].st}
FramesStayTogether ==
  /\ \A i \in DOMAIN written : AtMostOneOpen(written[i].to)
  /\ sender.to # {} => sender.cfd \in Fds
  /\ \A c \in sender.to : fdOf[sender.cfd] = c \/ handler[c].st = "ended"

\* What a channel keeps true of its sockets and frames.
ChannelInv ==
  /\ TypeOK /\ ThreadsOwnDescriptors /\ RegisteredIsServed
  /\ FramesAreNext /\ FramesInOrder /\ FramesStayTogether

\* A frame waiting for a connection is written once a usable socket stays
\* registered that is not the one the sender failed on.
Waits(n) == /\ current = n /\ ~ owner
            /\ reg[2] /\ ~ (sender.ioErr /\ sender.cfd = reg[1])
WaitingFramesAreWritten == \A n \in 1 .. MaxFrames : Waits(n) ~> ~ Waits(n)
=============================================================================
