------------------------ MODULE SocketChannelProofs ------------------------
(***************************************************************************)
(* Proofs about SocketChannel, for any number of connections, descriptors  *)
(* and frames.  The registry is right because a descriptor belongs to one  *)
(* thread from accept to close and leaves the registry before it is        *)
(* closed; the frames are in order because the sender keeps the one it     *)
(* holds until it is written; and its pieces are parted only when the      *)
(* descriptor they go to changes hands, which takes a close.               *)
(***************************************************************************)
EXTENDS SocketChannel, TLAPS

\* The first conjuncts are about sockets, the others about frames.
SocketInv == TypeOK /\ ThreadsOwnDescriptors /\ RegisteredIsServed
FrameInv == FramesAreNext /\ FramesInOrder

LEMMA ChannelInvParts == ChannelInv <=> SocketInv /\ FrameInv /\ FramesStayTogether
BY DEF ChannelInv, SocketInv, FrameInv

LEMMA InitIsSound == Init => ChannelInv
<1> SUFFICES ASSUME Init PROVE ChannelInv
  OBVIOUS
<1>1. TypeOK
  <2>1. handler \in [Clients -> Handler] /\ sender \in Sender
    BY DEF Init, Handler, Sender
  <2>2. reg \in (Fds \cup {-1}) \X BOOLEAN /\ fdOf \in [Fds -> Clients \cup {None}]
    BY DEF Init
  <2> QED
    BY <2>1, <2>2 DEF Init, TypeOK
<1>2. ThreadsOwnDescriptors /\ RegisteredIsServed
  BY DEF Init, ThreadsOwnDescriptors, RegisteredIsServed
<1>3. FramesAreNext /\ FramesInOrder /\ FramesStayTogether
  BY DEF Init, FramesAreNext, FramesInOrder, Held, FramesStayTogether
<1> QED
  BY <1>1, <1>2, <1>3 DEF ChannelInv

-----------------------------------------------------------------------------
(* The dispatcher and the server threads change the sockets only.          *)

LEMMA ServerKeepsFrames ==
  ASSUME UNCHANGED <<produced, senderVars>>, FrameInv
  PROVE  FrameInv'
BY DEF FrameInv, FramesAreNext, FramesInOrder, Held, senderVars

LEMMA ServerKeepsSockets ==
  ASSUME SocketInv, NEW c \in Clients,
         \/ Connect(c) \/ Leave(c) \/ Serve(c)
         \/ \E k \in Kinds : Speak(c, k)
  PROVE  SocketInv'
<1> USE DEF SocketInv
<1>1. CASE Connect(c)
  BY <1>1 DEF Connect, TypeOK, ThreadsOwnDescriptors, RegisteredIsServed, senderVars
<1>2. CASE Leave(c)
  BY <1>2 DEF Leave, TypeOK, ThreadsOwnDescriptors, RegisteredIsServed, senderVars
<1>3. CASE Accept(c)
  <2>1. PICK f \in Fds :
          /\ fdOf[f] = None
          /\ fdOf' = [fdOf EXCEPT ![f] = c]
          /\ reg' = <<f, FALSE>>
          /\ handler' = [handler EXCEPT ![c] = [st |-> "handshake", fd |-> f, read |-> 0]]
    BY <1>3 DEF Accept
  <2>2. TypeOK'
    BY <1>3, <2>1 DEF Accept, TypeOK, Handler, senderVars
  <2>3. ThreadsOwnDescriptors'
    BY <1>3, <2>1, NoneAssumption DEF Accept, TypeOK, Handler, ThreadsOwnDescriptors
  <2>4. RegisteredIsServed'
    BY <2>1 DEF RegisteredIsServed
  <2> QED
    BY <2>2, <2>3, <2>4
<1>4. CASE Upgrade(c)
  <2>1. handler[c].fd \in Fds /\ fdOf[handler[c].fd] = c
    BY <1>4 DEF Upgrade, ThreadsOwnDescriptors
  <2>2. TypeOK'
    BY <1>4 DEF Upgrade, TypeOK, Handler, senderVars
  <2>3. ThreadsOwnDescriptors'
    BY <1>4 DEF Upgrade, TypeOK, Handler, ThreadsOwnDescriptors
  <2>4. RegisteredIsServed'
    BY <1>4, <2>1 DEF Upgrade, TypeOK, Handler, RegisteredIsServed
  <2> QED
    BY <2>2, <2>3, <2>4
<1>5. CASE ReadMessage(c)
  <2>1. TypeOK'
    <3>0. [handler[c] EXCEPT !.read = @ + 1] \in Handler
      <4>1. handler[c] \in Handler /\ handler[c].read + 1 \in Nat
        BY DEF TypeOK, Handler
      <4> QED
        BY ONLY <4>1 DEF Handler
    <3>1. handler' \in [Clients -> Handler]
      BY <1>5, <3>0 DEF ReadMessage, TypeOK
    <3>2. Tail(inbox[c]) \in Seq(Kinds)
      BY <1>5 DEF ReadMessage, TypeOK
    <3>3. inbox' \in [Clients -> Seq(Kinds)]
      BY <1>5, <3>2 DEF ReadMessage, TypeOK
    <3>4. <<c, handler[c].read + 1>> \in Clients \X Nat
      BY DEF TypeOK, Handler
    <3>5. events' \in Seq(Clients \X Nat)
      BY <1>5, <3>4 DEF ReadMessage, TypeOK
    <3> QED
      BY <1>5, <3>1, <3>3, <3>5 DEF ReadMessage, TypeOK, senderVars
  <2>2. \A d \in Clients : handler'[d].st = handler[d].st /\ handler'[d].fd = handler[d].fd
    BY <1>5 DEF ReadMessage, TypeOK, Handler
  <2>3. ThreadsOwnDescriptors' /\ RegisteredIsServed'
    BY <1>5, <2>2 DEF ReadMessage, ThreadsOwnDescriptors, RegisteredIsServed
  <2> QED
    BY <2>1, <2>3
<1>6. CASE Unregister(c)
  <2>1. TypeOK'
    BY <1>6 DEF Unregister, TypeOK, Handler, senderVars
  <2>2. ThreadsOwnDescriptors'
    BY <1>6 DEF Unregister, GivesUp, TypeOK, Handler, ThreadsOwnDescriptors
  <2>3. RegisteredIsServed'
    BY <1>6 DEF Unregister, RegisteredIsServed
  <2> QED
    BY <2>1, <2>2, <2>3
<1>7. CASE Close(c)
  <2>1. TypeOK'
    BY <1>7 DEF Close, TypeOK, Handler, senderVars
  <2>2. \A d \in Clients \ {c} : handler'[d] = handler[d]
    BY <1>7 DEF Close, TypeOK
  <2>3. handler'[c].st = "ended"
    BY <1>7 DEF Close, TypeOK, Handler
  <2>4. fdOf[handler[c].fd] = c
    BY <1>7 DEF Close, ThreadsOwnDescriptors
  <2>5. \A f \in Fds : fdOf[f] # c => fdOf'[f] = fdOf[f]
    BY <1>7, <2>4 DEF Close, TypeOK
  <2>6. ThreadsOwnDescriptors'
    BY <1>7, <2>2, <2>3, <2>5 DEF Close, ThreadsOwnDescriptors
  \* The registered connection is served, so it is not the one that is closed.
  <2>7. RegisteredIsServed'
    BY <1>7, <2>2, <2>5 DEF Close, ThreadsOwnDescriptors, RegisteredIsServed
  <2> QED
    BY <2>1, <2>6, <2>7
<1>9. CASE AcceptFails(c)
  <2>1. TypeOK'
    BY <1>9 DEF AcceptFails, TypeOK, senderVars
  <2> QED
    BY <1>9, <2>1 DEF AcceptFails, ThreadsOwnDescriptors, RegisteredIsServed
<1>8. CASE \E k \in Kinds : Speak(c, k)
  BY <1>8 DEF Speak, TypeOK, ThreadsOwnDescriptors, RegisteredIsServed, senderVars
<1> QED
  BY <1>1, <1>2, <1>3, <1>4, <1>5, <1>6, <1>7, <1>8, <1>9 DEF Serve

-----------------------------------------------------------------------------
(* The producers and the sender change the frames only.                    *)

LEMMA SenderKeepsSockets ==
  ASSUME SocketInv, PushFrame \/ SenderThread
  PROVE  SocketInv'
<1> USE DEF SocketInv
<1>1. ThreadsOwnDescriptors' /\ RegisteredIsServed'
  BY DEF PushFrame, SenderThread, PopFrame, TakeRegistered, ConnectOwn, WritePiece, WriteOk,
         WriteFails, serverVars, ThreadsOwnDescriptors, RegisteredIsServed
<1>2. CASE PushFrame
  BY <1>1, <1>2 DEF PushFrame, TypeOK, serverVars
<1>3. CASE PopFrame
  <2>1. sender' \in Sender
    BY <1>3 DEF PopFrame, TypeOK, Sender
  <2>2. frames' \in Seq(Nat) /\ current' \in Nat
    BY <1>3 DEF PopFrame, TypeOK
  <2> QED
    BY <1>1, <1>3, <2>1, <2>2 DEF PopFrame, TypeOK, serverVars
<1>4. CASE TakeRegistered
  <2>1. sender' \in Sender
    BY <1>4 DEF TakeRegistered, TypeOK, Sender
  <2> QED
    BY <1>1, <1>4, <2>1 DEF TakeRegistered, TypeOK, serverVars
<1>5. CASE ConnectOwn
  <2>1. sender' \in Sender
    BY <1>5 DEF ConnectOwn, TypeOK, Sender
  <2> QED
    BY <1>1, <1>5, <2>1 DEF ConnectOwn, TypeOK, serverVars
<1>6. CASE WriteOk
  <2>1. sender' \in Sender
    BY <1>6 DEF WriteOk, TypeOK, Sender
  <2>2. Reached \in SUBSET Clients
    BY <1>6 DEF WriteOk, Writable, Reached, TypeOK, Sender
  <2> DEFINE w == [frame |-> current, to |-> Reached]
  <2>3. written' = Append(written, w)
    BY <1>6 DEF WriteOk
  <2>4. w \in [frame : Nat, to : SUBSET Clients]
    BY <2>2 DEF TypeOK
  <2> HIDE DEF w
  <2>5. written' \in Seq([frame : Nat, to : SUBSET Clients])
    BY <2>3, <2>4 DEF TypeOK
  <2> QED
    BY <1>1, <1>6, <2>1, <2>5 DEF WriteOk, TypeOK, serverVars
<1>8. CASE WritePiece
  <2>1. Reached \in SUBSET Clients
    BY <1>8 DEF WritePiece, Writable, Reached, TypeOK, Sender
  <2>2. sender' \in Sender
    <3>1. sender \in Sender /\ sender.piece + 1 \in Nat
      BY DEF TypeOK, Sender
    <3>2. sender' = [sender EXCEPT !.piece = sender.piece + 1, !.to = Reached]
      BY <1>8 DEF WritePiece
    <3> QED
      BY ONLY <2>1, <3>1, <3>2 DEF Sender
  <2> QED
    BY <1>1, <1>8, <2>2 DEF WritePiece, TypeOK, serverVars
<1>7. CASE WriteFails
  <2>1. sender' \in Sender
    BY <1>7 DEF WriteFails, TypeOK, Sender
  <2> QED
    BY <1>1, <1>7, <2>1 DEF WriteFails, TypeOK, serverVars
<1> QED
  BY <1>2, <1>3, <1>4, <1>5, <1>6, <1>7, <1>8 DEF SenderThread

LEMMA SenderKeepsFrames ==
  ASSUME TypeOK, FrameInv, PushFrame \/ SenderThread
  PROVE  FrameInv'
<1>0. /\ frames \in Seq(Nat) /\ current \in Nat /\ produced \in Nat
      /\ Len(written) \in Nat /\ Len(frames) \in Nat
      /\ written \in Seq([frame : Nat, to : SUBSET Clients])
      /\ sender \in Sender
  BY DEF TypeOK
<1> USE DEF FrameInv
<1>5. Held \in {0, 1}
  BY DEF Held
<1>1. CASE PushFrame
  <2>1. UNCHANGED <<sender, current, written>> /\ Held' = Held
    BY <1>1 DEF PushFrame, Held
  <2>2. /\ Len(frames') = Len(frames) + 1 /\ produced' = produced + 1
        /\ DOMAIN frames' = 1 .. Len(frames) + 1
        /\ \A i \in 1 .. Len(frames) : frames'[i] = frames[i]
        /\ frames'[Len(frames) + 1] = produced + 1
    BY <1>0, <1>1 DEF PushFrame
  <2>3. produced = Len(written) + Held + Len(frames)
    BY DEF FramesInOrder
  <2>4. ASSUME NEW i \in DOMAIN frames'
        PROVE  frames'[i] = Len(written) + Held + i
    <3>1. CASE i \in DOMAIN frames
      <4>1. frames[i] = Len(written) + Held + i
        BY <3>1 DEF FramesAreNext
      <4>2. i \in 1 .. Len(frames)
        BY <1>0, <3>1
      <4>3. frames'[i] = frames[i]
        BY ONLY <2>2, <4>2
      <4> QED
        BY <4>1, <4>3
    <3>2. CASE i = Len(frames) + 1
      BY ONLY <1>0, <1>5, <2>2, <2>3, <3>2
    <3>3. i \in DOMAIN frames \/ i = Len(frames) + 1
      BY <1>0, <2>2
    <3> QED
      BY <3>1, <3>2, <3>3
  <2>5. Len(written) + Held + Len(frames') = produced'
    BY <1>0, <1>5, <2>2, <2>3
  <2> QED
    BY <2>1, <2>4, <2>5 DEF FramesAreNext, FramesInOrder
<1>2. CASE PopFrame
  <2>1. /\ frames # <<>> /\ current = 0 /\ current' = frames[1]
        /\ frames' = Tail(frames) /\ UNCHANGED <<written, produced>>
    BY <1>2 DEF PopFrame, FramesAreNext
  <2>2. current' = Len(written) + 1 /\ Held = 0
    BY <1>0, <2>1 DEF FramesAreNext, Held
  <2>3. sender'.pc # "pop"
    BY <1>0, <1>2 DEF PopFrame, Sender
  <2>4. \A i \in DOMAIN frames' : frames'[i] = Len(written) + 1 + i
    BY <1>0, <2>1, <2>2 DEF FramesAreNext
  <2>5. Len(frames') = Len(frames) - 1
    BY <1>0, <2>1
  <2>6. Held' = 1 /\ current' > 0
    BY <1>0, <2>2 DEF Held
  <2>7. FramesAreNext'
    BY <2>1, <2>2, <2>3, <2>4, <2>6 DEF FramesAreNext
  <2>8. Len(written) + 1 + Len(frames') = produced
    BY <1>0, <2>2, <2>5 DEF FramesInOrder
  <2> QED
    BY <2>1, <2>6, <2>7, <2>8 DEF FramesInOrder
<1>3. CASE TakeRegistered \/ ConnectOwn \/ WritePiece \/ WriteFails
  <2>1. UNCHANGED <<frames, current, produced, written>>
    BY <1>3 DEF TakeRegistered, ConnectOwn, WritePiece, Writable, WriteFails
  <2>2. sender.pc # "pop"
    BY <1>3 DEF TakeRegistered, ConnectOwn, WritePiece, Writable, WriteFails
  <2>3. sender'.pc # "pop"
    <3>1. CASE TakeRegistered
      BY <3>1 DEF TakeRegistered
    <3>2. CASE ConnectOwn
      BY <1>0, <3>2 DEF ConnectOwn, Sender
    <3>3. CASE WriteFails
      BY <1>0, <3>3 DEF WriteFails, Sender
    <3>4. CASE WritePiece
      BY <1>0, <2>2, <3>4 DEF WritePiece, Sender
    <3> QED
      BY <1>3, <3>1, <3>2, <3>3, <3>4
  <2> QED
    BY <2>1, <2>2, <2>3 DEF FramesAreNext, FramesInOrder, Held
<1>4. CASE WriteOk
  <2>1. PICK w : written' = Append(written, w) /\ w.frame = current
    BY <1>4 DEF WriteOk
  <2>2. sender'.pc = "pop" /\ current' = 0 /\ UNCHANGED <<frames, produced>>
    BY <1>0, <1>4 DEF WriteOk, Sender
  <2>3. current > 0 /\ current = Len(written) + 1
    BY <1>0, <1>4 DEF WriteOk, Writable, FramesAreNext
  <2>4. /\ Len(written') = Len(written) + 1
        /\ \A i \in DOMAIN written : written'[i] = written[i]
        /\ written'[Len(written) + 1] = w /\ DOMAIN written' = 1 .. Len(written) + 1
    BY <1>0, <2>1
  <2> QED
    BY <1>0, <2>1, <2>2, <2>3, <2>4 DEF FramesAreNext, FramesInOrder, Held
<1> QED
  BY <1>1, <1>2, <1>3, <1>4 DEF SenderThread

-----------------------------------------------------------------------------
(* The pieces of a frame.                                                  *)

\* A connection that ended stays so, and one loses its descriptor only by
\* ending.
LEMMA ServerKeepsFramesTogether ==
  ASSUME SocketInv, FramesStayTogether, NEW c \in Clients,
         \/ Connect(c) \/ Leave(c) \/ Serve(c)
         \/ \E k \in Kinds : Speak(c, k)
  PROVE  FramesStayTogether'
<1> USE DEF SocketInv
<1>1. UNCHANGED <<sender, written>>
  BY DEF Connect, Leave, Serve, Accept, AcceptFails, Upgrade, ReadMessage, Unregister, Close,
         Speak, senderVars
<1>2. \A d \in Clients : handler[d].st = "ended" => handler'[d].st = "ended"
  <2>1. CASE UNCHANGED handler
    BY <2>1
  <2>2. CASE Accept(c)
    BY <2>2 DEF Accept, TypeOK, ThreadsOwnDescriptors
  <2>3. CASE Upgrade(c) \/ Unregister(c) \/ Close(c)
    BY <2>3 DEF Upgrade, Unregister, GivesUp, Close, TypeOK, Handler
  <2>4. CASE ReadMessage(c)
    BY <2>4 DEF ReadMessage, TypeOK, Handler
  <2> QED
    BY <2>1, <2>2, <2>3, <2>4 DEF Connect, Leave, Serve, AcceptFails, Speak
<1>3. \A d \in Clients, f \in Fds : fdOf[f] = d => fdOf'[f] = d \/ handler'[d].st = "ended"
  <2>1. CASE Close(c)
    <3>1. fdOf[handler[c].fd] = c /\ handler'[c].st = "ended"
      BY <2>1 DEF Close, ThreadsOwnDescriptors, TypeOK, Handler
    <3> QED
      BY <2>1, <3>1 DEF Close, TypeOK
  <2>2. CASE Accept(c)
    BY <2>2, NoneAssumption DEF Accept, TypeOK
  <2>3. CASE UNCHANGED fdOf
    BY <2>3
  <2> QED
    BY <2>1, <2>2, <2>3 DEF Connect, Leave, Serve, AcceptFails, Upgrade, ReadMessage, Unregister,
                            Speak
<1>4. \A i \in DOMAIN written : written[i].to \subseteq Clients
  <2> DEFINE S == [frame : Nat, to : SUBSET Clients]
  <2>1. written \in Seq(S)
    BY DEF TypeOK
  <2>2. \A w \in S : w.to \subseteq Clients
    OBVIOUS
  <2> HIDE DEF S
  <2>3. \A i \in DOMAIN written : written[i] \in S
    BY <2>1
  <2> QED
    BY <2>2, <2>3
<1>5. ASSUME NEW i \in DOMAIN written PROVE AtMostOneOpen(written[i].to)'
  BY <1>1, <1>2, <1>4 DEF AtMostOneOpen, FramesStayTogether
<1>6. sender.to \subseteq Clients /\ (sender.to # {} => sender.cfd \in Fds)
  BY DEF TypeOK, Sender, FramesStayTogether
<1>7. ASSUME NEW d \in sender.to
      PROVE  fdOf'[sender.cfd] = d \/ handler'[d].st = "ended"
  BY <1>2, <1>3, <1>6 DEF FramesStayTogether
<1> QED
  BY <1>1, <1>5, <1>7 DEF FramesStayTogether

\* A connection with a piece of the frame that is not the one written to has
\* ended.
LEMMA SenderKeepsFramesTogether ==
  ASSUME SocketInv, FramesStayTogether, PushFrame \/ SenderThread
  PROVE  FramesStayTogether'
<1> USE DEF SocketInv
<1>1. UNCHANGED <<handler, fdOf>>
  BY DEF PushFrame, SenderThread, PopFrame, TakeRegistered, ConnectOwn, WritePiece, WriteOk,
         WriteFails, serverVars
<1>2. CASE PushFrame \/ PopFrame \/ ConnectOwn
  <2>1. UNCHANGED written /\ sender'.to = sender.to /\ sender'.cfd = sender.cfd
    BY <1>2 DEF PushFrame, PopFrame, ConnectOwn, TypeOK, Sender
  <2> QED
    BY <1>1, <2>1 DEF FramesStayTogether, AtMostOneOpen
<1>3. CASE TakeRegistered \/ WriteFails
  <2>1. UNCHANGED written
    BY <1>3 DEF TakeRegistered, WriteFails
  <2>2. sender'.to = {}
    <3>1. CASE TakeRegistered
      BY <3>1 DEF TakeRegistered
    <3>2. CASE WriteFails
      BY <3>2 DEF WriteFails, TypeOK, Sender
    <3> QED
      BY <1>3, <3>1, <3>2
  <2> QED
    BY <1>1, <2>1, <2>2 DEF FramesStayTogether, AtMostOneOpen
<1>4. \A d \in Reached : fdOf[sender.cfd] = d \/ handler[d].st = "ended"
  BY DEF Reached, FramesStayTogether
<1>5. CASE WritePiece
  <2>1. /\ UNCHANGED written /\ sender'.to = Reached
        /\ sender'.cfd = sender.cfd /\ sender.cfd \in Fds
    BY <1>5 DEF WritePiece, Writable, TypeOK, Sender
  <2> QED
    BY <1>1, <1>4, <2>1 DEF FramesStayTogether, AtMostOneOpen
<1>6. CASE WriteOk
  <2>1. AtMostOneOpen(Reached)
    BY <1>4 DEF AtMostOneOpen
  <2>2. sender'.to = {}
    BY <1>6 DEF WriteOk, TypeOK, Sender
  <2> DEFINE w == [frame |-> current, to |-> Reached]
  <2>3. written' = Append(written, w) /\ w.to = Reached
    BY <1>6 DEF WriteOk
  <2> HIDE DEF w
  <2>4. \A i \in DOMAIN written' : (i \in DOMAIN written /\ written'[i] = written[i])
                                  \/ written'[i] = w
    BY <2>3 DEF TypeOK
  <2> QED
    BY <1>1, <2>1, <2>2, <2>3, <2>4 DEF FramesStayTogether, AtMostOneOpen
<1> QED
  BY <1>2, <1>3, <1>5, <1>6 DEF SenderThread

-----------------------------------------------------------------------------
\* The socket a name is registered with is the open descriptor of a served
\* connection, and the frames of a channel are written in order, none
\* skipped and none twice, and each to one connection as long as that is not
\* closed, however many connections come, break and reuse each other's
\* descriptors.
THEOREM ChannelIsSound == Spec => []ChannelInv
<1>1. Init => ChannelInv
  BY InitIsSound
<1>2. ChannelInv /\ [Next]_vars => ChannelInv'
  <2> SUFFICES ASSUME ChannelInv, [Next]_vars PROVE ChannelInv'
    OBVIOUS
  <2>1. SocketInv /\ FrameInv /\ FramesStayTogether /\ TypeOK
    BY ChannelInvParts DEF SocketInv
  <2>2. CASE UNCHANGED vars
    BY <2>2 DEF vars, ChannelInv, TypeOK, ThreadsOwnDescriptors, RegisteredIsServed,
                FramesAreNext, FramesInOrder, Held, FramesStayTogether, AtMostOneOpen
  <2>3. ASSUME NEW c \in Clients,
               Connect(c) \/ Leave(c) \/ Serve(c) \/ \E k \in Kinds : Speak(c, k)
        PROVE  ChannelInv'
    <3>1. SocketInv'
      BY <2>1, <2>3, ServerKeepsSockets
    <3>2. UNCHANGED <<produced, senderVars>>
      BY <2>3 DEF Connect, Leave, Serve, Accept, AcceptFails, Upgrade, ReadMessage, Unregister, Close,
                  Speak
    <3>3. FrameInv'
      BY <2>1, <3>2, ServerKeepsFrames
    <3>4. FramesStayTogether'
      BY <2>1, <2>3, ServerKeepsFramesTogether
    <3> QED
      BY <3>1, <3>3, <3>4 DEF ChannelInv, SocketInv, FrameInv
  <2>4. CASE PushFrame \/ SenderThread
    BY <2>1, <2>4, SenderKeepsSockets, SenderKeepsFrames, SenderKeepsFramesTogether
       DEF ChannelInv, SocketInv, FrameInv
  <2> QED
    BY <2>2, <2>3, <2>4 DEF Next
<1> QED
  BY <1>1, <1>2, PTL DEF Spec
=============================================================================
