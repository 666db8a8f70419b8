------------------------------ MODULE TurnLoop ------------------------------
(***************************************************************************)
(* One conversation with a language model: the tool loop of the chat       *)
(* assistant (internal/chat/chat.go behind internal/webapi/chat.go), the   *)
(* one of the run engine (internal/runner/runner.go), and the providers    *)
(* that put a streamed turn together (internal/llm/anthropic.go,           *)
(* openai.go).                                                             *)
(*                                                                         *)
(* The model decides what arrives on the wire; a tool call is its id and   *)
(* the pieces of its input in their order.  A message is its role and the  *)
(* calls it makes or answers.                                              *)
(***************************************************************************)
EXTENDS Naturals, Sequences, Ordering

CONSTANTS
    MaxTurns,    \* turns of the loop (chat: 6, run: max_turns)
    MaxHistory,  \* messages of the conversation that are kept (40)
    MaxCalls,    \* bound: tool calls in a turn
    MaxPieces    \* bound: pieces of one call's input

ASSUME LoopBounds ==
    /\ MaxTurns \in Nat \ {0} /\ MaxHistory \in Nat \ {0}
    /\ MaxCalls \in Nat \ {0} /\ MaxPieces \in Nat

VARIABLES
    conv,   \* who holds the conversation, and through which provider
    pc,     \* where the loop is
    turn,   \* turns begun
    msgs,   \* the messages of the conversation so far
    sent,   \* the request of the last turn, as the provider converts them
    wire,   \* what the model has sent of the turn in progress
    acc,    \* what the provider has put together of it
    uses,   \* TurnResult.ToolUses of the last turn
    call,   \* the tool call the chat's loop is at
    end     \* how the conversation ended

turnVars == <<conv, pc, turn, msgs, sent, wire, acc, uses, call, end>>

User == [role |-> "user", uses |-> <<>>, answers |-> <<>>]
Assistant(u) == [role |-> "assistant", uses |-> u, answers |-> <<>>]
Tool(id) == [role |-> "tool", uses |-> <<>>, answers |-> id]
Ids(calls) == [k \in DOMAIN calls |-> calls[k].id]

NoWire == [calls |-> <<>>, open |-> FALSE, text |-> FALSE]
NoCall == [id |-> <<>>, input |-> <<>>]
NoAcc == [cur |-> NoCall, done |-> <<>>, text |-> FALSE]

TurnInit ==
    /\ conv \in [who : {"chat", "run", "plain"}, provider : {"anthropic", "openai"}]
    /\ pc = "start" /\ turn = 0 /\ msgs = <<>> /\ sent = <<>> /\ wire = NoWire /\ acc = NoAcc
    /\ uses = <<>> /\ call = 1 /\ end = "none"

Over(how) == pc' = "over" /\ end' = how

-----------------------------------------------------------------------------
(* The request.                                                            *)

\* The last MaxHistory messages are kept.
Trim(h) == IF Len(h) > MaxHistory THEN SubSeq(h, Len(h) - MaxHistory + 1, Len(h)) ELSE h

\* A dock sends its whole conversation, which ends with the user's message; a
\* run starts with the body of the skill.
Begin ==
    /\ pc = "start" /\ pc' = "turn"
    /\ \E n \in (IF conv.who = "chat" THEN {1, MaxHistory + 1} ELSE {1}) :
         msgs' = Trim([k \in 1..n |-> IF (n - k) % 2 = 0 THEN User ELSE Assistant(<<>>)])
    /\ UNCHANGED <<conv, sent, turn, wire, acc, uses, call, end>>

\* Missing credentials, an unknown provider or one without tools.
Refused ==
    /\ pc = "start" /\ Over("refused")
    /\ UNCHANGED <<conv, sent, turn, msgs, wire, acc, uses, call>>

\* Anthropic knows no tool role: a result is a user's message of its own.
AnthropicMessages(h) ==
    [k \in DOMAIN h |-> IF h[k].role = "tool" THEN [h[k] EXCEPT !.role = "user"] ELSE h[k]]
\* OpenAI takes the calls of an assistant's message and the tool role as they are.
OpenAIMessages(h) == h
Request(h) == IF conv.provider = "anthropic" THEN AnthropicMessages(h) ELSE OpenAIMessages(h)

\* Provider.Chat passes the user's messages on, and no others.
UserMessages(h) ==
    LET at == Ascending({k \in DOMAIN h : h[k].role = "user"})
    IN  [i \in DOMAIN at |-> h[at[i]]]

\* A run without MCP servers makes one call without tools.
Chat ==
    /\ pc = "turn" /\ conv.who = "plain"
    /\ sent' = UserMessages(msgs)
    /\ turn' = 1 /\ \E how \in {"answer", "error"} : Over(how)
    /\ UNCHANGED <<conv, msgs, wire, acc, uses, call>>

ChatTurn ==
    /\ pc = "turn" /\ conv.who # "plain" /\ turn < MaxTurns
    /\ pc' = "stream" /\ turn' = turn + 1
    /\ sent' = Request(msgs)
    /\ wire' = NoWire /\ acc' = NoAcc
    /\ UNCHANGED <<conv, msgs, uses, call, end>>

\* Mutant of OutOfTurns: only a run notices.
OutOfTurnsRun ==
    /\ pc = "turn" /\ conv.who = "run" /\ turn >= MaxTurns /\ Over("no turns")
    /\ UNCHANGED <<conv, sent, turn, msgs, wire, acc, uses, call>>

\* Chat says it ran out of turns, a run fails with max_turns_exceeded.
OutOfTurns ==
    /\ pc = "turn" /\ conv.who # "plain" /\ turn >= MaxTurns /\ Over("no turns")
    /\ UNCHANGED <<conv, sent, turn, msgs, wire, acc, uses, call>>

-----------------------------------------------------------------------------
(* The stream of a turn, and the provider that reads it.                   *)
NewId == <<turn, Len(wire.calls) + 1>>
Piece(k) == <<wire.calls[k].id, Len(wire.calls[k].input) + 1>>
streaming == <<conv, sent, pc, turn, msgs, uses, call, end>>

FlushToolUse(a) ==
    IF a.cur.id = <<>> THEN a ELSE [a EXCEPT !.done = Append(@, a.cur), !.cur = NoCall]

\* Anthropic: content blocks one after the other, of text or of a tool call.
BlockStart ==
    /\ pc = "stream" /\ conv.provider = "anthropic" /\ ~wire.open
    /\ \/ /\ Len(wire.calls) < MaxCalls
          /\ wire' = [wire EXCEPT !.calls = Append(@, [id |-> NewId, input |-> <<>>]), !.open = TRUE]
          /\ acc' = [FlushToolUse(acc) EXCEPT !.cur = [id |-> NewId, input |-> <<>>]]
       \/ /\ ~wire.text
          /\ wire' = [wire EXCEPT !.text = TRUE]
          /\ acc' = [FlushToolUse(acc) EXCEPT !.text = TRUE]
    /\ UNCHANGED streaming

InputJSONDelta ==
    /\ pc = "stream" /\ conv.provider = "anthropic" /\ wire.open
    /\ LET k == Len(wire.calls) IN
       /\ Len(wire.calls[k].input) < MaxPieces
       /\ wire' = [wire EXCEPT !.calls[k].input = Append(@, Piece(k))]
       /\ acc' = [acc EXCEPT !.cur.input = Append(@, Piece(k))]
    /\ UNCHANGED streaming

BlockStop ==
    /\ pc = "stream" /\ conv.provider = "anthropic" /\ wire.open
    /\ wire' = [wire EXCEPT !.open = FALSE]
    /\ acc' = FlushToolUse(acc)
    /\ UNCHANGED streaming

\* Mutant of Accumulate: a piece goes to the call seen last, not to its index.
AccumulateLast(a, k, c, piece) ==
    IF k > Len(a.done) THEN [a EXCEPT !.done = Append(@, [c EXCEPT !.input = piece])]
    ELSE [a EXCEPT !.done[Len(a.done)].input = @ \o piece]
\* toolsByIndex: the accumulator of the call's index takes the piece.
Accumulate(a, k, c, piece) ==
    IF k > Len(a.done) THEN [a EXCEPT !.done = Append(@, [c EXCEPT !.input = piece])]
    ELSE [a EXCEPT !.done[k].input = @ \o piece]

\* OpenAI: deltas of any call begun so far, or of the next one, by index.
ToolCallDelta ==
    /\ pc = "stream" /\ conv.provider = "openai"
    /\ \/ \E k \in 1..Len(wire.calls) :
            /\ Len(wire.calls[k].input) < MaxPieces
            /\ wire' = [wire EXCEPT !.calls[k].input = Append(@, Piece(k))]
            /\ acc' = Accumulate(acc, k, wire.calls[k], <<Piece(k)>>)
       \/ /\ Len(wire.calls) < MaxCalls
          /\ LET new == [id |-> NewId, input |-> <<>>] IN
             /\ wire' = [wire EXCEPT !.calls = Append(@, new)]
             /\ acc' = Accumulate(acc, Len(wire.calls) + 1, new, <<>>)
       \/ ~wire.text /\ wire' = [wire EXCEPT !.text = TRUE] /\ acc' = [acc EXCEPT !.text = TRUE]
    /\ UNCHANGED streaming

\* The stream ends: the turn's result goes into the history.  Without tool
\* calls it is the answer, whatever the stop reason.
TurnEnds ==
    /\ pc = "stream" /\ ~wire.open
    /\ LET calls == FlushToolUse(acc).done IN
       /\ uses' = calls /\ call' = 1
       /\ msgs' = Append(msgs, Assistant(Ids(calls)))
       /\ IF calls = <<>> THEN Over("answer") ELSE pc' = "tools" /\ UNCHANGED end
    /\ UNCHANGED <<conv, sent, turn, wire, acc>>

\* The stream breaks or the context is cancelled.
TurnFails ==
    /\ pc = "stream" /\ Over("error")
    /\ UNCHANGED <<conv, sent, turn, msgs, wire, acc, uses, call>>

-----------------------------------------------------------------------------
(* The tool calls of a turn.                                               *)
Results == {"ok", "error"}

\* Chat calls its tools one after the other.
ToolStart ==
    /\ pc = "tools" /\ conv.who = "chat" /\ call <= Len(uses)
    /\ pc' = "calling"
    /\ UNCHANGED <<conv, sent, turn, msgs, wire, acc, uses, call, end>>

\* Mutant of Report: a failed call is shown to the user, not to the model.
ReportOnlyShown(h, id, result) == IF result = "error" THEN h ELSE Append(h, Tool(id))
\* The result, or the error in its place, becomes a message.
Report(h, id, result) == Append(h, Tool(id))

\* Toolbox.Call returns: an unknown tool, bad input or a failed query is an error.
ToolEnd ==
    /\ pc = "calling" /\ pc' = "tools" /\ call' = call + 1
    /\ \E result \in Results : msgs' = Report(msgs, uses[call].id, result)
    /\ UNCHANGED <<conv, sent, turn, wire, acc, uses, end>>

ToolsDone ==
    /\ pc = "tools" /\ conv.who = "chat" /\ call > Len(uses)
    /\ pc' = "turn"
    /\ UNCHANGED <<conv, sent, turn, msgs, wire, acc, uses, call, end>>

\* A run dispatches the calls together (module Mcp): results in the order of
\* the calls, or a fatal error that ends the run.
DispatchAll ==
    /\ pc = "tools" /\ conv.who = "run"
    /\ \/ msgs' = msgs \o [k \in DOMAIN uses |-> Tool(uses[k].id)] /\ pc' = "turn" /\ UNCHANGED end
       \/ Over("fatal") /\ UNCHANGED msgs
    /\ UNCHANGED <<conv, sent, turn, wire, acc, uses, call>>

TurnNext ==
    \/ Begin \/ Refused \/ Chat \/ ChatTurn \/ OutOfTurns
    \/ BlockStart \/ InputJSONDelta \/ BlockStop \/ ToolCallDelta \/ TurnEnds \/ TurnFails
    \/ ToolStart \/ ToolEnd \/ ToolsDone \/ DispatchAll

\* Calls return and streams end (each has the request's context).
TurnSpec == TurnInit /\ [][TurnNext]_turnVars /\ WF_turnVars(TurnNext)

-----------------------------------------------------------------------------
CallIds == Seq(Nat)
ToolCalls == [id : CallIds, input : Seq(CallIds \X Nat)]
Messages == [role : {"user", "assistant", "tool"}, uses : Seq(CallIds), answers : CallIds]

\* Every variable has its type.
TurnTypeOK ==
    /\ conv \in [who : {"chat", "run", "plain"}, provider : {"anthropic", "openai"}]
    /\ pc \in {"start", "turn", "stream", "tools", "calling", "over"}
    /\ turn \in 0..MaxTurns /\ call \in Nat \ {0}
    /\ msgs \in Seq(Messages) /\ sent \in Seq(Messages) /\ uses \in Seq(ToolCalls)
    /\ wire \in [calls : Seq(ToolCalls), open : BOOLEAN, text : BOOLEAN]
    /\ acc \in [cur : ToolCalls, done : Seq(ToolCalls), text : BOOLEAN]
    /\ end \in {"none", "refused", "answer", "no turns", "error", "fatal"}

\* The provider returns the calls the model made: each once, in the order they
\* were begun, with its own pieces in their order, whether the wire brings them
\* one after the other or interleaved by index.
CallsAsSent == pc \in {"tools", "calling"} => uses = wire.calls

\* Whatever tools fail, the request sent with a turn is one the model's API
\* accepts: each assistant message is followed by one result for each of its
\* calls, in their order, and nothing else answers a call.
HistoryWellFormed ==
    /\ \A k \in DOMAIN sent : \A i \in DOMAIN sent[k].uses :
         k + i <= Len(sent) /\ sent[k + i].answers = sent[k].uses[i]
    /\ \A k \in DOMAIN sent : sent[k].answers # <<>> =>
         \E i \in 1..(k - 1) : i \in DOMAIN sent[k - i].uses

\* Every conversation ends, although the model may ask for tools for ever.
ConversationEnds == <>(pc = "over")
=============================================================================
