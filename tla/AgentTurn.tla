----------------------------- MODULE AgentTurn -----------------------------
(***************************************************************************)
(* One conversation turn of the agent: POST /chat (run_agent) and          *)
(* POST /chat/stream (stream_agent), with the language model, the tools    *)
(* and the client as the environment.                                      *)
(*                                                                         *)
(* A turn loads its context, tries the fast path (one search the agent     *)
(* runs itself, one request to the model), and otherwise loops: it asks    *)
(* the model, runs the tool calls the model asks for, and asks again, at   *)
(* most MaxIterations times.  The tool results of the loop are cut to what *)
(* is left of the turn's token budget; the result the fast path pastes     *)
(* into the user's message is not.  When the model stops, /chat stores the *)
(* exchange and then answers; /chat/stream sends the `done' event and then *)
(* stores.                                                                 *)
(***************************************************************************)
EXTENDS Naturals, Sequences

CONSTANTS
    Size,           \* lengths in characters a serialised tool result can have
    Budget,         \* WARN_TOOL_TOKENS, the tool-result tokens of a turn (1800)
    Suffix,         \* characters of the mark a truncated result ends with (14)
    MaxIterations,  \* MAX_ITERATIONS, requests to the model in the loop (10)
    MaxCalls        \* bound: tool calls in one message of the model

ASSUME AgentTurnAssumption ==
    /\ Size \subseteq Nat
    /\ Budget \in Nat
    /\ Suffix \in Nat
    /\ MaxIterations \in Nat
    /\ MaxCalls \in Nat \ {0}

VARIABLES
    mode,       \* the endpoint: "chat" or "stream"
    pc,         \* control point of the handler
    iteration,  \* requests made to the model by the loop
    calls,      \* tool calls in the model's last message
    todo,       \* those not run yet
    answered,   \* results collected for them
    exchanges,  \* messages after the user's: for each message of the model with tool
                \*   calls, how many calls it made and how many results follow it
    used,       \* tool_tokens_used
    truncated,  \* tool results cut so far
    prompted,   \* tokens of tool results in the messages of the next request
    reply,      \* the model's final text
    stored,     \* times the exchange was appended to the session document
    events,     \* stream: the terminal events sent to the client
    status,     \* chat: the HTTP status sent to the client, 0 before
    cause       \* why the turn failed

runVars == <<iteration, calls, todo, answered, exchanges, used, truncated>>
loopVars == <<runVars, prompted>>
clientVars == <<reply, stored, events, status, cause>>
vars == <<mode, pc, loopVars, clientVars>>

Exchange == [calls : 0..MaxCalls, results : 0..MaxCalls]
Content == {"text", "empty", "none"}
Event == {"done", "error"}

TypeOK ==
    /\ mode \in {"chat", "stream"}
    /\ pc \in {"load", "fast", "ask", "tools", "persist", "answer", "over"}
    /\ iteration \in 0..MaxIterations
    /\ calls \in 0..MaxCalls
    /\ todo \in 0..calls
    /\ answered \in 0..calls
    /\ exchanges \in Seq(Exchange)
    /\ used \in Nat
    /\ truncated \in Nat
    /\ prompted \in Nat
    /\ reply \in {"none", "text", "empty"}
    /\ stored \in {0, 1}
    /\ events \in Seq(Event)
    /\ status \in {0, 200, 500, 502}
    /\ cause \in {"none", "context", "model", "tool", "iterations", "persist", "cut off"}

Init ==
    /\ mode \in {"chat", "stream"}
    /\ pc = "load"
    /\ iteration = 0
    /\ calls = 0
    /\ todo = 0
    /\ answered = 0
    /\ exchanges = <<>>
    /\ used = 0
    /\ truncated = 0
    /\ prompted = 0
    /\ reply = "none"
    /\ stored = 0
    /\ events = <<>>
    /\ status = 0
    /\ cause = "none"
-----------------------------------------------------------------------------
(* How a turn ends. *)

(* A wrong variant of Fail: the stream goes on after it has sent `error'. *)
MutFail(why) ==
    /\ pc' = IF mode = "stream" THEN "ask" ELSE "over"
    /\ cause' = why
    /\ IF mode = "stream"
       THEN events' = Append(events, "error") /\ UNCHANGED status
       ELSE status' = 502 /\ UNCHANGED events
    /\ UNCHANGED <<reply, stored>>

(* An exception, or the loop running out: /chat answers 502, the stream sends `error'. *)
Fail(why) ==
    /\ pc' = "over"
    /\ cause' = why
    /\ IF mode = "stream"
       THEN events' = Append(events, "error") /\ UNCHANGED status
       ELSE status' = 502 /\ UNCHANGED events
    /\ UNCHANGED <<reply, stored>>

(* The model's final text: the stream yields it in `done' at once. *)
Finish(content) ==
    /\ reply' = IF content = "text" THEN "text" ELSE "empty"
    /\ pc' = "persist"
    /\ events' = IF mode = "stream" THEN Append(events, "done") ELSE events
    /\ UNCHANGED <<stored, status, cause>>

(* Wrong variants of Persist: the reply goes out whether or not it was stored; a write
   that fails is tried again although it may have been applied. *)
MutPersist(written, raises) ==
    /\ pc = "persist"
    /\ pc' = "answer"
    /\ stored' = IF written THEN stored + 1 ELSE stored
    /\ UNCHANGED <<mode, loopVars, reply, events, status, cause>>
MutPersistRetries(written, raises) ==
    /\ pc = "persist"
    /\ written \/ raises
    /\ pc' = IF raises THEN "persist" ELSE "answer"
    /\ stored' = IF written THEN stored + 1 ELSE stored
    /\ UNCHANGED <<mode, loopVars, reply, events, status, cause>>

(* persist_turn: one write of the session document, which may fail before the database
   applied it or only in bringing the answer back. *)
Persist(written, raises) ==
    /\ pc = "persist"
    /\ written \/ raises
    /\ pc' = "answer"
    /\ stored' = IF written THEN stored + 1 ELSE stored
    /\ cause' = IF raises THEN "persist" ELSE cause
    /\ UNCHANGED <<mode, loopVars, reply, events, status>>

(* The client learns of the write: it is outside the try block of /chat, whose failure
   becomes a 500, and inside that of the stream, which ends or sends `error'. *)
Respond ==
    /\ pc = "answer"
    /\ pc' = "over"
    /\ IF mode = "chat"
       THEN status' = (IF cause = "persist" THEN 500 ELSE 200) /\ UNCHANGED events
       ELSE /\ events' = IF cause = "persist" THEN Append(events, "error") ELSE events
            /\ UNCHANGED status
    /\ UNCHANGED <<mode, loopVars, reply, stored, cause>>

(* The pod dies, or the client of a stream goes away and the generator is cancelled: no
   handler of Exception sees it, and a write that was applied stays.  A client that leaves
   /chat does not stop the handler. *)
CutOff ==
    /\ pc # "over"
    /\ pc' = "over"
    /\ cause' = "cut off"
    /\ UNCHANGED <<mode, loopVars, reply, stored, events, status>>
-----------------------------------------------------------------------------
(* Context and fast path. *)

ContextFails ==
    /\ pc = "load"
    /\ Fail("context")
    /\ UNCHANGED <<mode, loopVars>>

(* The message names no two airports, or the search raised: the loop takes over. *)
NoFastPath ==
    /\ pc = "load"
    /\ pc' = "ask"
    /\ UNCHANGED <<mode, loopVars, clientVars>>

EstimatedTokens(size) == size \div 4

(* The search result goes into the user's message as it is. *)
FastPath(size) ==
    /\ pc = "load"
    /\ pc' = "fast"
    /\ prompted' = EstimatedTokens(size)
    /\ UNCHANGED <<mode, runVars, clientVars>>

(* A wrong variant of FastReply: no return after the answer, the loop runs as well. *)
MutFastReply(content) ==
    /\ pc = "fast"
    /\ pc' = "ask"
    /\ prompted' = 0
    /\ IF content = "text" /\ mode = "stream"
       THEN events' = Append(events, "done")
       ELSE UNCHANGED events
    /\ UNCHANGED <<mode, runVars, reply, stored, status, cause>>

(* run_agent takes any text, the stream only a non-empty one; otherwise the loop starts
   from the plain message, without the search result. *)
FastReply(content) ==
    /\ pc = "fast"
    /\ IF content = "text" \/ (mode = "chat" /\ content = "empty")
       THEN Finish(content) /\ UNCHANGED prompted
       ELSE pc' = "ask" /\ prompted' = 0 /\ UNCHANGED clientVars
    /\ UNCHANGED <<mode, runVars>>

FastReplyFails ==
    /\ pc = "fast"
    /\ Fail("model")
    /\ UNCHANGED <<mode, loopVars>>
-----------------------------------------------------------------------------
(* The loop. *)

(* The model stops, in the first request too: tool_choice "required" is a wish to the
   model, and the code takes whatever finish reason it gets. *)
AskForStop(content) ==
    /\ pc = "ask"
    /\ iteration < MaxIterations
    /\ iteration' = iteration + 1
    /\ IF mode = "chat" /\ content = "none" THEN Fail("model") ELSE Finish(content)
    /\ UNCHANGED <<mode, calls, todo, answered, exchanges, used, truncated, prompted>>

(* A message with n tool calls, which may be none: it is then appended at once. *)
AskForTools(n) ==
    /\ pc = "ask"
    /\ iteration < MaxIterations
    /\ iteration' = iteration + 1
    /\ calls' = n
    /\ todo' = n
    /\ answered' = 0
    /\ IF n = 0
       THEN exchanges' = Append(exchanges, [calls |-> 0, results |-> 0]) /\ UNCHANGED pc
       ELSE pc' = "tools" /\ UNCHANGED exchanges
    /\ UNCHANGED <<mode, used, truncated, prompted, clientVars>>

(* Any other finish reason (length, content_filter): the loop just asks again. *)
AskAgain ==
    /\ pc = "ask"
    /\ iteration < MaxIterations
    /\ iteration' = iteration + 1
    /\ UNCHANGED <<mode, pc, calls, todo, answered, exchanges, used, truncated, prompted,
                   clientVars>>

AskFails ==
    /\ pc = "ask"
    /\ iteration < MaxIterations
    /\ iteration' = iteration + 1
    /\ Fail("model")
    /\ UNCHANGED <<mode, calls, todo, answered, exchanges, used, truncated, prompted>>

(* A wrong variant of IterationsExceeded: off by one. *)
MutIterationsExceeded ==
    /\ pc = "ask"
    /\ iteration = MaxIterations + 1
    /\ Fail("iterations")
    /\ UNCHANGED <<mode, loopVars>>

IterationsExceeded ==
    /\ pc = "ask"
    /\ iteration = MaxIterations
    /\ Fail("iterations")
    /\ UNCHANGED <<mode, loopVars>>

(* A wrong variant of Remaining: a budget per call, not per turn. *)
MutRemaining == Budget
Remaining == IF used < Budget THEN Budget - used ELSE 0

(* The length of a result that _truncate_tool_result cuts to the remaining tokens. *)
CutSize(size) == IF size <= Remaining * 4 THEN size ELSE Remaining * 4 + Suffix

OverBudget(size) == EstimatedTokens(size) > Remaining

SizeKept(size) == IF OverBudget(size) THEN CutSize(size) ELSE size

(* A wrong variant of Answer: a result with nothing left of the budget is dropped. *)
MutAnswer(size) ==
    /\ used' = used + EstimatedTokens(SizeKept(size))
    /\ truncated' = truncated + (IF OverBudget(size) THEN 1 ELSE 0)
    /\ IF Remaining = 0 THEN UNCHANGED answered ELSE answered' = answered + 1

Answer(size) ==
    /\ used' = used + EstimatedTokens(SizeKept(size))
    /\ truncated' = truncated + (IF OverBudget(size) THEN 1 ELSE 0)
    /\ answered' = answered + 1

(* The next call names a tool that exists and its arguments parse: whatever the tool does,
   dispatch_tool returns a result, an error being one.  After the last one the message and
   its results are appended for the next request. *)
RunTool(size) ==
    /\ pc = "tools"
    /\ todo' = todo - 1
    /\ Answer(size)
    /\ IF todo = 1
       THEN /\ exchanges' = Append(exchanges, [calls |-> calls, results |-> answered'])
            /\ prompted' = used'
            /\ pc' = "ask"
       ELSE UNCHANGED <<exchanges, prompted, pc>>
    /\ UNCHANGED <<mode, iteration, calls, clientVars>>

(* The arguments are not JSON, or there is no tool of that name: both raise outside the
   try block of dispatch_tool. *)
BadCall ==
    /\ pc = "tools"
    /\ Fail("tool")
    /\ UNCHANGED <<mode, loopVars>>
-----------------------------------------------------------------------------
Turn ==
    \/ ContextFails
    \/ NoFastPath
    \/ \E size \in Size : FastPath(size)
    \/ \E content \in Content : FastReply(content)
    \/ FastReplyFails
    \/ \E content \in Content : AskForStop(content)
    \/ \E n \in 0..MaxCalls : AskForTools(n)
    \/ AskAgain
    \/ AskFails
    \/ IterationsExceeded
    \/ \E size \in Size : RunTool(size)
    \/ BadCall
    \/ \E written, raises \in BOOLEAN : Persist(written, raises)
    \/ Respond

Next == Turn \/ CutOff

Spec == Init /\ [][Next]_vars

(* The event loop resumes the handler, and requests to the model, the tools and the
   database end, if only with a timeout's exception. *)
FairSpec == Spec /\ WF_vars(Turn)
-----------------------------------------------------------------------------
(* Correctness. *)

(* The tool results in the messages of any request of the loop, whatever the number of
   calls and iterations so far, cost at most the budget and the mark of every result that
   was cut: the accounting adds what a cut result really costs, the mark itself is not
   budgeted, and the search result of a fast path that got no text is not carried over.
   The one request of the fast path itself is not within it: see WholeTurnBudget. *)
BudgetKept ==
    /\ used <= Budget + truncated * (Suffix \div 4)
    /\ pc \in {"ask", "tools"} => prompted <= Budget + truncated * (Suffix \div 4)

(* The budget is the turn's ("The agent enforces a hard budget ... tool_results <= 1800
   tokens (enforced -- warning logged if exceeded)", docs/architecture.md:288-293; "tool-result
   budget for the WHOLE turn", loop.py:27): no request of a turn has more of tool results
   in its messages, the marks apart.  The fast path's has. *)
WholeTurnBudget == prompted <= Budget + truncated * (Suffix \div 4)

(* Every message of the model with tool calls is followed by one result per call before
   the model is asked again, errors and exhausted budgets included: the chat completions
   API refuses a request in which a call has no result. *)
EveryCallAnswered == \A i \in DOMAIN exchanges : exchanges[i].results = exchanges[i].calls

(* The client learns one outcome.  Only a stream whose exchange could not be stored sends
   two events, `done' and then `error'; only a turn that is cut off sends none. *)
OneOutcome ==
    /\ events \in {<<>>, <<"done">>, <<"error">>, <<"done", "error">>}
    /\ mode = "chat" => events = <<>>
    /\ mode = "stream" => status = 0
    /\ events = <<"done", "error">> => cause = "persist"
    /\ pc = "over" /\ cause # "cut off" => status # 0 \/ events # <<>>

(* /chat says 200 only of an exchange that is in the session document, nothing is stored
   of a turn that failed before its reply, and a stream stores what it sent `done' for. *)
StoredIsAnswered ==
    /\ status = 200 => stored = 1
    /\ stored = 1 => reply # "none" /\ (mode = "stream" => events # <<>> /\ Head(events) = "done")
    /\ cause \in {"context", "model", "tool", "iterations"} => stored = 0

(* Every turn ends, although the model may ask for tools for ever. *)
TurnEnds == <>(pc = "over")

Phase ==
    IF pc = "over" THEN "closed"
    ELSE IF pc = "answer" THEN "settled" ELSE IF pc = "persist" THEN "replied" ELSE "open"

(* What a client of /chat was told is its status. *)
Told ==
    IF mode = "stream" THEN events
    ELSE IF status = 0 THEN <<>> ELSE IF status = 200 THEN <<"done">> ELSE <<"error">>

Contract == INSTANCE TurnContract
    WITH Limit <- MaxIterations,
         prompt <- mode = "stream",
         phase <- Phase,
         asked <- iteration,
         told <- Told,
         recorded <- stored = 1

(* Step by step, both endpoints keep the contract of a turn: one reply or one refusal, an
   exchange recorded once and after its reply, told to the client before it (stream) or only
   after it (chat), and nothing done once the turn is closed. *)
ContractSpec == Contract!Spec
=============================================================================
