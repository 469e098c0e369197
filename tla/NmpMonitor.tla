----------------------------- MODULE NmpMonitor -----------------------------
(***************************************************************************)
(* nmp_monitoring_thread_fn: a connection that asks for the block of       *)
(* system states (NMP_REQ_SYSTEMSTATES) or evaluates an expression and     *)
(* then gets the block (NMP_EVAL_CEPS_EXPRESSION).                         *)
(* serialize_system_state_block writes into a buffer of a computed size.   *)
(***************************************************************************)
EXTENDS Integers, Sequences, SequencesExt, FiniteSets, FiniteSetsExt

CONSTANTS
  Names,       \* names of the system states
  NameLength,  \* their lengths
  Values,      \* values a state may get: [kind, len]
  Asks,        \* what the peer sends: [id, len, ok]
  MaxAsks      \* bound: requests per connection

VARIABLES
  states,   \* get_global_states()
  stream,   \* headers and bodies on their way to the thread
  asked,    \* the requests sent, in order
  answers,  \* the answers: [id, size, states]
  open,     \* the thread serves the connection
  astray    \* history: a body or a part of a header was read as a header

vars == <<states, stream, asked, answers, open, astray>>

Numeric == {"int", "double"}
Written(v) == v.kind \in Numeric \cup {"string"}

Header(id, len, ok) == [part |-> "header", id |-> id, len |-> len, ok |-> ok]
Body(len) == [part |-> "body", id |-> "none", len |-> len, ok |-> TRUE]

Init ==
  /\ states \in [Names -> Values]
  /\ stream = <<>> /\ asked = <<>> /\ answers = <<>>
  /\ open = TRUE /\ astray = FALSE

\* The peer sends a header and, when it announces one, a body.
Ask(a) ==
  /\ open /\ Len(asked) < MaxAsks
  /\ asked' = Append(asked, a)
  /\ stream' = stream \o <<Header(a.id, a.len, a.ok)>>
                 \o (IF a.len > 0 THEN <<Body(a.len)>> ELSE <<>>)
  /\ UNCHANGED <<states, answers, open, astray>>

\* A bug: the unit of a number is not counted.
ValueSizeNoUnit(v) == IF v.kind = "int" THEN 4 ELSE v.len + 1

\* serialize_system_state_block, first pass: name and value of a state; a
\* string has its characters and a 0, a double is printed.
ValueSize(v) ==
  CASE v.kind = "int" -> 4 + 7 * 2
    [] v.kind = "double" -> v.len + 1 + 7 * 2
    [] OTHER -> v.len + 1

Serializable == {n \in Names : Written(states[n])}

BufferSize ==
  FoldSet(LAMBDA n, acc : acc + NameLength[n] + 1 + ValueSize(states[n]), 0, Serializable)
    + Cardinality(Serializable) * 4 * 2 + 2 * 4

\* Second pass: the offset behind the last state; two tags precede every
\* value and seven exponents follow a number.
Offset ==
  FoldSet(LAMBDA n, acc :
            acc + 4 + NameLength[n] + 1 + 4
              + (IF states[n].kind = "int" THEN 4 ELSE states[n].len + 1)
              + (IF states[n].kind \in Numeric THEN 7 * 2 ELSE 0),
          8, Serializable)

Block == [id |-> "NMP_SYSTEMSTATES", size |-> BufferSize, offset |-> Offset,
          about |-> [n \in Serializable |-> states[n]]]
Err == [id |-> "NMP_ERR", size |-> 8, offset |-> 8, about |-> <<>>]

NextHeader == open /\ stream # <<>> /\ Head(stream).part = "header"

\* An answer is written, or the write fails or is cut short: then the socket is
\* closed, whatever was done for the request.
Reply(a) ==
  \/ answers' = Append(answers, a) /\ UNCHANGED open
  \/ open' = FALSE /\ UNCHANGED answers

\* NMP_REQ_SYSTEMSTATES: the block; a body is not expected and not read.
AnswerStates ==
  /\ NextHeader /\ Head(stream).id = "NMP_REQ_SYSTEMSTATES"
  /\ Reply(Block)
  /\ stream' = Tail(stream)
  /\ UNCHANGED <<states, asked, astray>>

\* The expression runs as an action, which may change states, and the block
\* follows; an error text otherwise.
Evaluate(ok) ==
  \/ ok /\ \E n \in Names, v \in Values : states' = [states EXCEPT ![n] = v] /\ Reply(Block')
  \/ ~ ok /\ Reply(Err) /\ UNCHANGED states

\* NMP_EVAL_CEPS_EXPRESSION: one recv for the expression; unless all of it has
\* arrived the thread closes the socket.
AnswerEval ==
  /\ NextHeader /\ Head(stream).id = "NMP_EVAL_CEPS_EXPRESSION"
  /\ stream' = Tail(Tail(stream))
  /\ \/ Evaluate(Head(stream).ok)
     \/ open' = FALSE /\ UNCHANGED <<states, answers>>
  /\ UNCHANGED <<asked, astray>>

\* Anything else is an error; its body, if it has one, stays in the stream.
AnswerUnknown ==
  /\ NextHeader
  /\ Head(stream).id \notin {"NMP_REQ_SYSTEMSTATES", "NMP_EVAL_CEPS_EXPRESSION"}
  /\ Reply(Err)
  /\ stream' = Tail(stream)
  /\ UNCHANGED <<states, asked, astray>>

\* A body read as a header is an unknown request and is answered as one.
AnswerBody ==
  /\ open /\ stream # <<>> /\ Head(stream).part = "body"
  /\ astray' = TRUE
  /\ Reply(Err)
  /\ stream' = Tail(stream)
  /\ UNCHANGED <<states, asked>>

\* A recv that returns a part of a header is taken for the whole of it: what is
\* missing is whatever the memory holds, so the request is any of the three,
\* an expression of any length included, which takes what follows or closes
\* the socket. The rest of the header is read as the next one.
AnswerPartOfHeader ==
  /\ NextHeader
  /\ astray' = TRUE
  /\ \/ /\ \E a \in {Block, Err} : Reply(a)
        /\ stream' = <<Body(1)>> \o Tail(stream) /\ UNCHANGED states
     \/ stream' = Tail(stream) /\ \E ok \in BOOLEAN : Evaluate(ok)
     \/ open' = FALSE /\ stream' = Tail(stream) /\ UNCHANGED <<states, answers>>
  /\ UNCHANGED asked

\* recv fails, or returns 0 when the peer has closed.
Disconnect ==
  /\ open
  /\ open' = FALSE
  /\ UNCHANGED <<states, stream, asked, answers, astray>>

Next ==
  \/ \E a \in Asks : Ask(a)
  \/ AnswerStates \/ AnswerEval \/ AnswerUnknown \/ AnswerBody \/ AnswerPartOfHeader
  \/ Disconnect

Spec == Init /\ [][Next]_vars

-----------------------------------------------------------------------------
\* The block's announced size is what the second pass wrote, and as long as
\* no part of a header and no body was read as a header, the answers are those
\* of the requests in their order, up to a failed write or read, which ends
\* the connection. On an open connection the newest block shows the newest
\* values.
MonitorAnswers ==
  /\ \A i \in DOMAIN answers : answers[i].size = answers[i].offset
  /\ ~ astray =>
       /\ Len(answers) <= Len(asked)
       /\ \A i \in DOMAIN answers :
            (answers[i].id = "NMP_SYSTEMSTATES") =
              \/ asked[i].id = "NMP_REQ_SYSTEMSTATES"
              \/ asked[i].id = "NMP_EVAL_CEPS_EXPRESSION" /\ asked[i].ok
       /\ (open /\ stream = <<>>) => Len(answers) = Len(asked)
  /\ open /\ answers # <<>> /\ Last(answers).id = "NMP_SYSTEMSTATES" =>
       Last(answers).about = [n \in Serializable |-> states[n]]
=============================================================================
