---------------------------- MODULE EventPayload ----------------------------
(***************************************************************************)
(* An event whose payload is JSON: the EVENT command of the websocket API  *)
(* (ws_api.cpp) parses the text with fast_json (fast-json.hpp) into a      *)
(* message in memory of the payload arena, adds the connection it came     *)
(* from and queues the event; the main loop copies the message for the     *)
(* virtual machine and returns the memory.  Parser and loop take the same  *)
(* mutex.  The text is a sequence of tokens (JsonToken.tla makes them), a  *)
(* string token is its length and the length up to its first zero byte,    *)
(* and a message is a function from offsets to nodes: the sizes of nodes,  *)
(* buffer and pages are the code's.                                        *)
(***************************************************************************)
EXTENDS Arena, SequencesExt

CONSTANTS Texts,         \* token sequences that are sent
          MaxMessages,   \* bound: EVENT commands
          OriginName     \* the string token of the field origin_websocket_sock

VARIABLES text,          \* the tokens that were sent, <<>> when no parse runs
          rest,          \* tokens not read
          tok,           \* cur_tok
          phase,         \* where the recursive descent stands
          frames,        \* its open calls
          ctx,           \* block, buf, total, used, cur: ser_ctxt_t
          queue,         \* events with a message
          buffered,      \* oblectamenta_global_event_buffer_offs is set
          taken,         \* the current event, until its memory is returned
          got,           \* what the loop copied last
          sent           \* number of EVENT commands

loopVars == <<queue, buffered, taken, got>>
payloadVars == <<text, rest, tok, phase, frames, ctx, loopVars, sent>>
vars == <<arenaVars, payloadVars>>

MsgNode == 12    \* sizeof(msg_node), packed
Tk(t) == [type |-> t, len |-> 0, z |-> 0]
Eoi == Tk("eoi")

Leaf == [number |-> "F64", string |-> "SZ", null |-> "NIL", boolean |-> "BOOLEAN"]
LeafSize(t) == CASE t.type = "number" -> MsgNode + 8
                 [] t.type = "boolean" -> MsgNode + 4
                 [] t.type = "null" -> MsgNode
                 [] t.type = "string" -> MsgNode + t.len + 1

Idle == [block |-> Nil, buf |-> <<>>, total |-> 0, used |-> 0, cur |-> 0]

Init == /\ ArenaInit
        /\ text = <<>> /\ rest = <<>> /\ tok = Eoi /\ phase = "idle"
        /\ frames = <<>> /\ ctx = Idle /\ queue = <<>> /\ got = <<>> /\ sent = 0
        /\ buffered \in BOOLEAN /\ taken = <<>>

-----------------------------------------------------------------------------
(* read_token: a token the lexer refuses ends the parse.                   *)

First(ts) == IF ts = <<>> THEN Eoi ELSE Head(ts)
After(ts) == IF ts = <<>> THEN <<>> ELSE Tail(ts)

Reject == /\ phase' = "idle" /\ text' = <<>> /\ rest' = <<>> /\ tok' = Eoi
          /\ frames' = <<>> /\ ctx' = Idle
          /\ UNCHANGED <<loopVars, sent>>

(* Reads a token and goes on at phase p with the calls fs and context c.   *)
ReadToken(ts, p, fs, c) ==
    IF First(ts).type = "undef" THEN Reject
    ELSE /\ tok' = First(ts) /\ rest' = After(ts) /\ phase' = p
         /\ frames' = fs /\ ctx' = c /\ UNCHANGED <<text, loopVars, sent>>

GrowNot(n, ask) ==
    [arena |-> ArenaState, ctx |-> ctx, live |-> live]

(* Room for n more bytes: the buffer is reallocated with what `ask' says.  *)
Grow(n, ask) ==
    IF ctx.total - ctx.used >= n THEN [arena |-> ArenaState, ctx |-> ctx, live |-> live]
    ELSE LET size == Resized(ctx.total + ask)
             r == Reallocate(ArenaState, ctx.block, size)
         IN [arena |-> r.state, live |-> (live \ {ctx.block}) \union {r.block},
             ctx |-> [ctx EXCEPT !.block = r.block, !.total = size]]

PutUncounted(c, what, t, n) ==
    [c EXCEPT !.buf = (c.used :> [what |-> what, tok |-> t, size |-> n]) @@ @,
              !.used = @ + n]

(* A node is put at the end and counted in the node that encloses it.      *)
Put(c, what, t, n) ==
    [c EXCEPT !.buf = (c.used :> [what |-> what, tok |-> t, size |-> n])
                      @@ [@ EXCEPT ![c.cur].size = @ + n],
              !.used = @ + n]

(* A container is put and becomes the current node; the call that opened   *)
(* it remembers the node before, the new one and its size at that time.    *)
Open(c, what, t, n) == [Put(c, what, t, n) EXCEPT !.cur = c.used]
Call(c, kind, n) == [kind |-> kind, t |-> c.cur, ofs |-> c.used, old |-> n]

(* The enclosing node is current again and takes over what was added.      *)
Close(c, f) == [c EXCEPT !.cur = f.t,
                         !.buf[f.t].size = @ + c.buf[f.ofs].size - f.old]

Becomes(g) == ArenaBecomes(g.arena) /\ live' = g.live /\ MayGrow(g.arena)
KeepArena == UNCHANGED arenaVars

-----------------------------------------------------------------------------
(* The EVENT command: the lock is taken and read starts with a root node.  *)

Start(ts) ==
    /\ phase = "idle" /\ sent < MaxMessages
    /\ \E r \in {Allocate(ArenaState, 0, MsgNode)} :
         LET c == [block |-> r.block, total |-> MsgNode, used |-> MsgNode, cur |-> 0,
                   buf |-> (0 :> [what |-> "ROOT", tok |-> Eoi, size |-> MsgNode])]
         IN /\ MayGrow(r.state) /\ ArenaBecomes(r.state)
            /\ live' = live \union {r.block}
            /\ IF First(ts).type = "undef" THEN Reject
               ELSE /\ text' = ts /\ tok' = First(ts) /\ rest' = After(ts)
                    /\ phase' = "element" /\ frames' = <<>> /\ ctx' = c
                    /\ UNCHANGED loopVars
            /\ sent' = sent + 1

(* json2protobufish_consume_number, _string, _null, _boolean.              *)
ConsumeLeaf ==
    /\ phase = "element" /\ tok.type \in DOMAIN Leaf
    /\ \E g \in {Grow(LeafSize(tok), IF tok.type = "string" THEN MsgNode + tok.len
                                     ELSE LeafSize(tok))} :
         /\ Becomes(g)
         /\ ReadToken(rest, "return", frames, Put(g.ctx, Leaf[tok.type], tok, LeafSize(tok)))

ConsumeObject ==
    /\ phase = "element" /\ tok.type = "lbrace"
    /\ \E g \in {Grow(MsgNode + 1, MsgNode + 1)} :
         /\ Becomes(g)
         /\ ReadToken(rest, "members", <<Call(g.ctx, "object", MsgNode + 1)>> \o frames,
                      Open(g.ctx, "NODE", [Tk("string") EXCEPT !.len = 0], MsgNode + 1))

ConsumeArray ==
    /\ phase = "element" /\ tok.type = "lsqrbra"
    /\ \E g \in {Grow(MsgNode, MsgNode)} :
         /\ Becomes(g)
         /\ ReadToken(rest, IF First(rest).type = "rsqrbra" THEN "arrayend" ELSE "element",
                      <<Call(g.ctx, "array", MsgNode)>> \o frames,
                      Open(g.ctx, "ARRAY", Eoi, MsgNode))

(* Any other token is no element: the top level and the end of the input   *)
(* refuse it, an array or a member goes on as if an element had been read. *)
ConsumeNothing ==
    /\ phase = "element"
    /\ tok.type \notin DOMAIN Leaf \union {"lbrace", "lsqrbra"}
    /\ KeepArena
    /\ IF tok.type = "eoi" \/ frames = <<>> THEN Reject
       ELSE phase' = "return" /\ UNCHANGED <<text, rest, tok, frames, ctx, loopVars, sent>>

(* The loop of consume_object, with consume_member.                        *)
ConsumeMember ==
    /\ phase = "members" /\ tok.type = "string"
    /\ LET n == MsgNode + tok.len + 1 IN
       \E g \in {Grow(n, n)} :
         /\ Becomes(g)
         /\ IF First(rest).type # "colon" THEN Reject
            ELSE ReadToken(After(rest), "element", <<Call(g.ctx, "member", n)>> \o frames,
                           Open(g.ctx, "NODE", tok, n))

SkipComma == /\ phase = "members" /\ tok.type = "comma"
             /\ KeepArena /\ ReadToken(rest, "members", frames, ctx)

EndObject == /\ phase = "members" /\ tok.type \notin {"string", "comma"} /\ KeepArena
             /\ IF tok.type # "rbrace" THEN Reject
                ELSE ReadToken(rest, "return", Tail(frames), Close(ctx, Head(frames)))

(* A call of consume_element returns to the call that made it.             *)
EndMember == /\ phase = "return" /\ frames # <<>> /\ Head(frames).kind = "member"
             /\ KeepArena /\ phase' = "members"
             /\ frames' = Tail(frames) /\ ctx' = Close(ctx, Head(frames))
             /\ UNCHANGED <<text, rest, tok, loopVars, sent>>

NextInArray == /\ phase = "return" /\ frames # <<>> /\ Head(frames).kind = "array"
               /\ tok.type = "comma" /\ KeepArena
               /\ ReadToken(rest, "element", frames, ctx)

EndArray == /\ \/ phase = "arrayend"
               \/ phase = "return" /\ frames # <<>> /\ Head(frames).kind = "array"
            /\ tok.type # "comma" /\ KeepArena
            /\ IF tok.type # "rsqrbra" THEN Reject
               ELSE ReadToken(rest, "return", Tail(frames), Close(ctx, Head(frames)))

-----------------------------------------------------------------------------
(* The message is complete: the handler adds the connection when the       *)
(* buffer has no room for it, and queues the event.                        *)

OriginSize == MsgNode + OriginName.len + 1 + MsgNode + 4

(* The name is copied without its terminating zero: unless the memory held *)
(* one, the name runs on into the first byte of the number's node.         *)
OriginNames == {OriginName, [OriginName EXCEPT !.z = @ + 2]}

WithOrigin(b, used, name) ==
    (used :> [what |-> "NODE", tok |-> name, size |-> OriginSize])
    @@ (used + MsgNode + OriginName.len + 1 :>
          [what |-> "INT32", tok |-> Tk("number"), size |-> MsgNode + 4])
    @@ [b EXCEPT ![0].size = @ + OriginSize]

Enqueue(block, buf, used) ==
    queue' = Append(queue, [block |-> block, buf |-> buf, used |-> used, text |-> text])

Finish ==
    /\ phase = "return" /\ frames = <<>>
    /\ IF tok.type # "eoi" THEN KeepArena /\ Reject
       ELSE /\ IF ctx.total <= ctx.used + OriginSize
               THEN \E r \in {Reallocate(ArenaState, ctx.block, ctx.used + OriginSize)} :
                      /\ MayGrow(r.state) /\ ArenaBecomes(r.state)
                      /\ live' = (live \ {ctx.block}) \union {r.block}
                      /\ \E name \in OriginNames :
                           Enqueue(r.block, WithOrigin(ctx.buf, ctx.used, name), ctx.used + OriginSize)
               ELSE KeepArena /\ Enqueue(ctx.block, ctx.buf, ctx.used)
            /\ phase' = "idle" /\ text' = <<>> /\ rest' = <<>> /\ tok' = Eoi
            /\ ctx' = Idle /\ UNCHANGED <<frames, buffered, taken, got, sent>>

(* The loop takes the event and copies the message, without the mutex, to  *)
(* the place the program declared; without one the message is ignored and  *)
(* its memory never returned.                                              *)
Consume ==
    /\ queue # <<>> /\ taken = <<>>
    /\ queue' = Tail(queue)
    /\ IF buffered THEN taken' = <<Head(queue).block>> /\ got' = <<Head(queue)>>
       ELSE UNCHANGED <<taken, got>>
    /\ KeepArena /\ UNCHANGED <<text, rest, tok, phase, frames, ctx, buffered, sent>>

(* Then it frees the memory; the mutex keeps it out while a text is parsed.*)
FreeMessage ==
    /\ taken # <<>> /\ phase = "idle"
    /\ DoFree(Head(taken)) /\ taken' = <<>>
    /\ UNCHANGED <<text, rest, tok, phase, frames, ctx, queue, buffered, got, sent>>

Next == \/ \E ts \in Texts : Start(ts)
        \/ ConsumeLeaf \/ ConsumeObject \/ ConsumeArray \/ ConsumeNothing
        \/ ConsumeMember \/ SkipComma \/ EndObject \/ EndMember
        \/ NextInArray \/ EndArray \/ Finish \/ Consume \/ FreeMessage

Spec == Init /\ [][Next]_vars

-----------------------------------------------------------------------------
(* protobufish2json / traverse_binary_representation: the message at an    *)
(* offset as tokens and the number of bytes it was read from.  A string    *)
(* ends at its first zero byte.                                            *)

Nowhere == [what |-> "?", tok |-> Eoi, size |-> 0]
At(b, o) == IF o \in DOMAIN b THEN b[o] ELSE Nowhere

RECURSIVE ToJson(_, _, _)
RECURSIVE AllToJson(_, _, _)
ToJson(b, o, size) ==
    LET n == At(b, o)
        hd == MsgNode + (IF n.what = "NODE" THEN n.tok.z + 1 ELSE 0)
        inner == AllToJson(b, o + hd, n.size - hd)
    IN CASE n.what = "?" -> [toks |-> <<Tk("garbage")>>, n |-> size]
         [] n.what = "ROOT" -> [toks |-> inner, n |-> n.size]
         [] n.what = "ARRAY" ->
              [toks |-> <<Tk("lsqrbra")>> \o inner \o <<Tk("rsqrbra")>>, n |-> n.size]
         [] n.what = "NODE" /\ n.tok.z = 0 ->
              [toks |-> <<Tk("lbrace")>> \o inner \o <<Tk("rbrace")>>, n |-> n.size]
         [] n.what = "NODE" /\ n.tok.z > 0 ->
              [toks |-> <<n.tok, Tk("colon")>> \o inner, n |-> n.size]
         [] n.what = "SZ" -> [toks |-> <<n.tok>>, n |-> MsgNode + n.tok.z + 1]
         [] OTHER -> [toks |-> <<n.tok>>, n |-> n.size]

AllToJson(b, o, size) ==
    IF size <= 0 THEN <<>>
    ELSE LET p == ToJson(b, o, size)
         IN p.toks \o (IF p.n < size THEN <<Tk("comma")>> ELSE <<>>)
                   \o AllToJson(b, o + p.n, size - p.n)

(* A text of which every string is free of zero bytes and every member has *)
(* a name, and that is JSON, as opposed to what the parser also accepts.   *)
Plain(ts) == \A i \in DOMAIN ts : ts[i].type = "string" => ts[i].z = ts[i].len /\ ts[i].len > 0

(* What the loop hands to the virtual machine is the value that was sent,  *)
(* at most followed by the connection: growing buffers, nested node sizes  *)
(* and reused pages lose nothing, even if the connection is unreadable.    *)
PayloadSurvives(json) ==
    \A i \in DOMAIN got :
       got[i].text \in json /\ Plain(got[i].text) =>
         LET p == ToJson(got[i].buf, 0, got[i].used) IN
         /\ p.n = got[i].used
         /\ IsPrefix(got[i].text, p.toks)
         /\ Len(p.toks) > Len(got[i].text) => p.toks[Len(got[i].text) + 1] = Tk("comma")

(* Memory: the arena is sound, and what a queued event or the event being  *)
(* copied points to is held, by that event alone.                          *)
PayloadMemory ==
    /\ ListsAreSound /\ BlocksAreSafe
    /\ \A b \in Range(taken) : b \in live /\ \A i \in DOMAIN queue : queue[i].block # b
    /\ \A i \in DOMAIN queue : /\ queue[i].block \in live
                               /\ queue[i].used <= queue[i].block.n
    /\ \A i, j \in DOMAIN queue : i # j => queue[i].block # queue[j].block
    /\ phase # "idle" => /\ ctx.block \in live /\ ctx.used <= ctx.total
                         /\ ctx.total = ctx.block.n
=============================================================================
