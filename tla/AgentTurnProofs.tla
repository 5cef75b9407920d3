--------------------------- MODULE AgentTurnProofs ---------------------------
(***************************************************************************)
(* Proofs about AgentTurn, for every budget, mark, set of result sizes,    *)
(* number of iterations and number of calls per message.                   *)
(***************************************************************************)
EXTENDS AgentTurn, TLAPS

(* What a cut result costs: what was left of the budget, and the mark. *)
LEMMA CutTokens ==
    ASSUME NEW r \in Nat, NEW s \in Nat
    PROVE  (r * 4 + s) \div 4 = r + s \div 4
  OBVIOUS

(* Truncation never leaves a result as it is: one that is over what remains is longer
   than what _truncate_tool_result lets through. *)
LEMMA OverBudgetIsCut ==
    ASSUME NEW size \in Nat, NEW r \in Nat, size \div 4 > r
    PROVE  size > r * 4
  OBVIOUS

(* The type invariant in two parts: what the loop keeps and what the client and the
   database see. *)
LoopType ==
    /\ iteration \in 0..MaxIterations
    /\ calls \in 0..MaxCalls
    /\ todo \in 0..calls
    /\ answered \in 0..calls
    /\ exchanges \in Seq(Exchange)
    /\ used \in Nat
    /\ truncated \in Nat
    /\ prompted \in Nat

ClientType ==
    /\ mode \in {"chat", "stream"}
    /\ pc \in {"load", "fast", "ask", "tools", "persist", "answer", "over"}
    /\ reply \in {"none", "text", "empty"}
    /\ stored \in {0, 1}
    /\ events \in Seq(Event)
    /\ status \in {0, 200, 500, 502}
    /\ cause \in {"none", "context", "model", "tool", "iterations", "persist", "cut off"}

(* The tokens of the loop, of all its results so far. *)
UsedKept == used <= Budget + truncated * (Suffix \div 4)

(* What an answered call adds to the tokens used: nothing that the budget does not have,
   except for a mark. *)
LEMMA AnswerCost ==
    ASSUME AgentTurnAssumption, LoopType, NEW size \in Size, Answer(size)
    PROVE  /\ used' \in Nat
           /\ truncated' \in Nat
           /\ UsedKept => UsedKept'
  <1> DEFINE mark == Suffix \div 4
  <1>1. size \in Nat /\ used \in Nat /\ truncated \in Nat /\ Budget \in Nat /\ Suffix \in Nat
    BY DEF AgentTurnAssumption, LoopType
  <1>2. mark \in Nat
    BY <1>1
  <1>3. Remaining \in Nat /\ size \div 4 \in Nat
    BY <1>1 DEF Remaining
  <1>4. CASE OverBudget(size)
    <2>1. SizeKept(size) = Remaining * 4 + Suffix
      BY <1>1, <1>3, <1>4, OverBudgetIsCut DEF OverBudget, SizeKept, CutSize, EstimatedTokens
    <2>2. used' = used + (Remaining + mark)
      BY <1>1, <1>3, <2>1, CutTokens DEF Answer, EstimatedTokens
    <2>3. truncated' = truncated + 1
      BY <1>4 DEF Answer
    <2>4. (truncated + 1) * mark = truncated * mark + mark
      BY <1>1, <1>2
    <2>5. truncated * mark \in Nat
      BY <1>1, <1>2
    <2> HIDE DEF mark
    <2>6. used + Remaining = (IF used < Budget THEN Budget ELSE used)
      BY <1>1 DEF Remaining
    <2>7. used <= Budget + truncated * mark => used' <= Budget + truncated' * mark
      BY <1>1, <1>2, <1>3, <2>2, <2>3, <2>4, <2>5, <2>6
    <2>8. used' \in Nat /\ truncated' \in Nat
      BY <1>1, <1>2, <1>3, <2>2, <2>3
    <2> QED
      BY <2>7, <2>8 DEF UsedKept, mark
  <1>5. CASE ~OverBudget(size)
    <2>1. used' = used + size \div 4
      BY <1>5 DEF Answer, SizeKept, EstimatedTokens
    <2>2. truncated' = truncated
      BY <1>1, <1>5 DEF Answer
    <2>3. size \div 4 <= Remaining
      BY <1>3, <1>5 DEF OverBudget, EstimatedTokens
    <2>4. truncated * mark \in Nat
      BY <1>1, <1>2
    <2> HIDE DEF mark
    <2>5. used <= Budget + truncated * mark => used' <= Budget + truncated' * mark
      BY <1>1, <1>2, <1>3, <2>1, <2>2, <2>3, <2>4 DEF Remaining
    <2> QED
      BY <1>1, <1>3, <2>1, <2>2, <2>5 DEF UsedKept, mark
  <1> QED
    BY <1>4, <1>5
-----------------------------------------------------------------------------
(* The strengthening.  While the tools of a message run, calls run and calls to run add up;
   before the reply nothing is sent or stored; when the write is due, nothing is stored
   and the client knows at most `done'. *)
CallInv == pc = "tools" => todo > 0 /\ answered + todo = calls

Running == {"load", "fast", "ask", "tools"}

Untold == reply = "none" /\ stored = 0 /\ events = <<>> /\ status = 0 /\ cause = "none"

RunningInv == pc \in Running => Untold

(* Outside the fast path's own request the messages hold results of the loop only. *)
PromptInv == pc \in {"load", "ask", "tools"} => prompted <= used

(* Once the write is over the client knows what it knew before it, and the exchange is
   stored unless the write is known to have raised. *)
AnswerInv ==
    pc = "answer" =>
       /\ reply # "none" /\ status = 0 /\ cause \in {"none", "persist"}
       /\ cause = "none" => stored = 1
       /\ events = IF mode = "stream" THEN <<"done">> ELSE <<>>

RepliedInv ==
    pc = "persist" =>
       /\ reply # "none" /\ stored = 0 /\ status = 0 /\ cause = "none"
       /\ events = IF mode = "stream" THEN <<"done">> ELSE <<>>

LoopInv == LoopType /\ CallInv /\ UsedKept /\ PromptInv /\ EveryCallAnswered
ClientInv == ClientType /\ RunningInv /\ RepliedInv /\ AnswerInv /\ OneOutcome /\ StoredIsAnswered
IInv == LoopInv /\ ClientInv

LEMMA InitIInv ==
    ASSUME AgentTurnAssumption, Init PROVE IInv
  <1>1. LoopType /\ CallInv
    BY DEF AgentTurnAssumption, Init, LoopType, CallInv
  <1>2. UsedKept /\ PromptInv
    <2>1. Suffix \div 4 \in Nat
      BY DEF AgentTurnAssumption
    <2> QED
      BY <2>1 DEF AgentTurnAssumption, Init, UsedKept, PromptInv
  <1>3. EveryCallAnswered
    BY DEF Init, EveryCallAnswered
  <1>4. ClientType /\ RunningInv /\ RepliedInv /\ AnswerInv
    BY DEF Init, ClientType, Running, RunningInv, RepliedInv, AnswerInv, Untold
  <1>5. OneOutcome /\ StoredIsAnswered
    BY DEF Init, OneOutcome, StoredIsAnswered
  <1> QED
    BY <1>1, <1>2, <1>3, <1>4, <1>5 DEF IInv, LoopInv, ClientInv
-----------------------------------------------------------------------------
(* What a step does to the client's half of the invariant. *)

LEMMA ClientTypeKept ==
    ASSUME ClientType, mode' = mode, reply' = reply, stored' = stored, events' = events,
           status' = status,
           pc' \in {"load", "fast", "ask", "tools", "persist", "answer", "over"},
           cause' \in {"none", "context", "model", "tool", "iterations", "persist", "cut off"}
    PROVE  ClientType'
  <1>1. mode' \in {"chat", "stream"} /\ reply' \in {"none", "text", "empty"}
    BY DEF ClientType
  <1>2. stored' \in {0, 1}
    BY DEF ClientType
  <1>3. status' \in {0, 200, 500, 502}
    BY DEF ClientType
  <1>4. events' \in Seq(Event)
    BY DEF ClientType
  <1> QED
    BY <1>1, <1>2, <1>3, <1>4 DEF ClientType

(* The turn goes on: nothing is sent or stored. *)
LEMMA GoesOn ==
    ASSUME ClientInv, pc \in Running, pc' \in Running, mode' = mode, UNCHANGED clientVars
    PROVE  ClientInv'
  <1>1. ClientType'
    <2>1. /\ reply' = reply /\ stored' = stored /\ events' = events /\ status' = status
          /\ cause' = cause
      BY DEF clientVars
    <2>2. ClientType /\ pc' \in {"load", "fast", "ask", "tools"}
      BY DEF ClientInv, Running
    <2>3. cause \in {"none", "context", "model", "tool", "iterations", "persist", "cut off"}
      BY <2>2 DEF ClientType
    <2> QED
      BY <2>1, <2>2, <2>3, ClientTypeKept
  <1>2. RunningInv' /\ RepliedInv' /\ AnswerInv'
    BY DEF ClientInv, RunningInv, RepliedInv, AnswerInv, Running, Untold, clientVars
  <1>3. OneOutcome' /\ StoredIsAnswered'
    BY DEF ClientInv, OneOutcome, StoredIsAnswered, Running, clientVars
  <1> QED
    BY <1>1, <1>2, <1>3 DEF ClientInv

(* A failure gives the client its one outcome. *)
LEMMA FailOutcome ==
    ASSUME ClientInv, pc \in Running, mode' = mode,
           NEW why \in {"context", "model", "tool", "iterations"}, Fail(why)
    PROVE  ClientInv'
  <1>1. Untold
    BY DEF ClientInv, RunningInv
  <1>2. reply' = "none" /\ stored' = 0 /\ pc' = "over" /\ cause' = why
    BY <1>1 DEF Fail, Untold
  <1>3. RunningInv' /\ RepliedInv' /\ AnswerInv'
    BY <1>2 DEF RunningInv, RepliedInv, AnswerInv, Running
  <1>4. CASE mode = "stream"
    <2>1. events' = <<"error">> /\ status' = 0
      BY <1>1, <1>4 DEF Fail, Untold
    <2>2. events' \in Seq(Event)
      BY <2>1 DEF Event
    <2>3. ClientType'
      BY <1>2, <1>4, <2>1, <2>2 DEF ClientType
    <2>4. OneOutcome'
      BY <1>2, <1>4, <2>1 DEF OneOutcome
    <2>5. StoredIsAnswered'
      BY <1>2, <2>1 DEF StoredIsAnswered
    <2> QED
      BY <1>3, <2>3, <2>4, <2>5 DEF ClientInv
  <1>5. CASE mode = "chat"
    <2>1. events' = <<>> /\ events' \in Seq(Event) /\ status' = 502
      BY <1>1, <1>5 DEF Fail, Untold
    <2>2. ClientType'
      BY <1>2, <1>5, <2>1 DEF ClientType
    <2>3. OneOutcome'
      BY <1>2, <1>5, <2>1 DEF OneOutcome
    <2>4. StoredIsAnswered'
      BY <1>2, <2>1 DEF StoredIsAnswered
    <2> QED
      BY <1>3, <2>2, <2>3, <2>4 DEF ClientInv
  <1> QED
    BY <1>4, <1>5 DEF ClientInv, ClientType

(* The model's final text: a stream has said `done'. *)
LEMMA FinishOutcome ==
    ASSUME ClientInv, pc \in Running, mode' = mode, NEW content \in Content, Finish(content)
    PROVE  ClientInv'
  <1>1. Untold
    BY DEF ClientInv, RunningInv
  <1>2. /\ reply' \in {"text", "empty"} /\ stored' = 0 /\ pc' = "persist"
        /\ cause' = "none" /\ status' = 0
    BY <1>1 DEF Finish, Untold
  <1>3. CASE mode = "stream"
    <2>1. events' = <<"done">>
      BY <1>1, <1>3 DEF Finish, Untold
    <2>2. ClientType'
      <3>1. events' \in Seq(Event)
        BY <2>1 DEF Event
      <3> QED
        BY <1>2, <1>3, <3>1 DEF ClientType
    <2>3. RunningInv' /\ RepliedInv' /\ AnswerInv'
      BY <1>2, <1>3, <2>1 DEF RunningInv, RepliedInv, AnswerInv, Running
    <2>4. OneOutcome'
      BY <1>2, <1>3, <2>1 DEF OneOutcome
    <2>5. StoredIsAnswered'
      BY <1>2 DEF StoredIsAnswered
    <2> QED
      BY <2>2, <2>3, <2>4, <2>5 DEF ClientInv
  <1>4. CASE mode = "chat"
    <2>1. events' = <<>>
      BY <1>1, <1>4 DEF Finish, Untold
    <2>2. ClientType'
      BY <1>2, <1>4, <2>1 DEF ClientType
    <2>3. RunningInv' /\ RepliedInv' /\ AnswerInv'
      BY <1>2, <1>4, <2>1 DEF RunningInv, RepliedInv, AnswerInv, Running
    <2>4. OneOutcome'
      BY <1>2, <1>4, <2>1 DEF OneOutcome
    <2>5. StoredIsAnswered'
      BY <1>2 DEF StoredIsAnswered
    <2> QED
      BY <2>2, <2>3, <2>4, <2>5 DEF ClientInv
  <1> QED
    BY <1>3, <1>4 DEF ClientInv, ClientType

(* Storing the exchange, whether or not it succeeds: nothing is told. *)
LEMMA PersistOutcome ==
    ASSUME ClientInv, NEW written \in BOOLEAN, NEW raises \in BOOLEAN, Persist(written, raises)
    PROVE  ClientInv'
  <1>1. /\ reply # "none" /\ stored = 0 /\ status = 0 /\ cause = "none"
        /\ events = IF mode = "stream" THEN <<"done">> ELSE <<>>
    BY DEF ClientInv, RepliedInv, Persist
  <1>2. /\ pc' = "answer" /\ mode' = mode /\ reply' = reply /\ status' = 0 /\ events' = events
        /\ stored' = (IF written THEN 1 ELSE 0)
        /\ cause' = (IF raises THEN "persist" ELSE "none")
        /\ written \/ raises
    BY <1>1 DEF Persist
  <1>3. /\ mode \in {"chat", "stream"} /\ reply \in {"none", "text", "empty"}
        /\ events \in Seq(Event)
    BY DEF ClientInv, ClientType
  <1>4. RunningInv' /\ RepliedInv' /\ AnswerInv'
    BY <1>1, <1>2 DEF RunningInv, RepliedInv, AnswerInv, Running
  <1>5. ClientType'
    BY <1>2, <1>3 DEF ClientType
  <1>6. mode = "stream" => Head(events) = "done"
    BY <1>1
  <1>7. OneOutcome'
    <2>1. mode = "stream" => events = <<"done">>
      BY <1>1
    <2>2. mode = "chat" => events = <<>>
      BY <1>1
    <2> QED
      BY <1>2, <1>3, <2>1, <2>2 DEF OneOutcome
  <1>8. StoredIsAnswered'
    <2>1. mode = "stream" => events # <<>>
      BY <1>1
    <2> QED
      BY <1>1, <1>2, <1>6, <2>1 DEF StoredIsAnswered
  <1> QED
    BY <1>4, <1>5, <1>7, <1>8 DEF ClientInv

(* The answer agrees with what is known of the write. *)
LEMMA RespondOutcome ==
    ASSUME ClientInv, Respond PROVE ClientInv'
  <1>1. /\ reply # "none" /\ status = 0 /\ cause \in {"none", "persist"}
        /\ cause = "none" => stored = 1
        /\ events = IF mode = "stream" THEN <<"done">> ELSE <<>>
    BY DEF ClientInv, AnswerInv, Respond
  <1>2. pc' = "over" /\ mode' = mode /\ reply' = reply /\ stored' = stored /\ cause' = cause
    BY DEF Respond
  <1>3. RunningInv' /\ RepliedInv' /\ AnswerInv'
    BY <1>2 DEF RunningInv, RepliedInv, AnswerInv, Running
  <1>4. /\ mode \in {"chat", "stream"} /\ reply \in {"none", "text", "empty"}
        /\ stored \in {0, 1}
    BY DEF ClientInv, ClientType
  <1>5. CASE mode = "stream"
    <2>1. status' = 0
      BY <1>1, <1>5 DEF Respond
    <2>2. events' = IF cause = "persist" THEN <<"done", "error">> ELSE <<"done">>
      BY <1>1, <1>5 DEF Respond
    <2>3. events' \in Seq(Event) /\ events' # <<>> /\ Head(events') = "done"
      <3>1. CASE cause = "persist"
        <4>1. events' = <<"done", "error">>
          BY <2>2, <3>1
        <4> QED
          BY <4>1 DEF Event
      <3>2. CASE cause # "persist"
        <4>1. events' = <<"done">>
          BY <2>2, <3>2
        <4> QED
          BY <4>1 DEF Event
      <3> QED
        BY <3>1, <3>2
    <2>4. OneOutcome'
      BY <1>2, <1>5, <2>1, <2>2 DEF OneOutcome
    <2>5. StoredIsAnswered'
      BY <1>1, <1>2, <1>5, <2>1, <2>3 DEF StoredIsAnswered
    <2>6. ClientType'
      BY <1>1, <1>2, <1>4, <2>1, <2>3 DEF ClientType
    <2> QED
      BY <1>3, <2>4, <2>5, <2>6 DEF ClientInv
  <1>6. CASE mode = "chat"
    <2>1. status' = (IF cause = "persist" THEN 500 ELSE 200) /\ events' = <<>>
      BY <1>1, <1>6 DEF Respond
    <2>2. OneOutcome'
      BY <1>2, <1>6, <2>1 DEF OneOutcome
    <2>3. StoredIsAnswered'
      BY <1>1, <1>2, <1>6, <2>1 DEF StoredIsAnswered
    <2>4. ClientType'
      <3>1. events' \in Seq(Event)
        BY <2>1
      <3>2. status' \in {0, 200, 500, 502}
        BY <2>1
      <3>3. cause' \in {"none", "context", "model", "tool", "iterations", "persist", "cut off"}
        BY <1>1, <1>2
      <3> QED
        <4>1. /\ mode' \in {"chat", "stream"} /\ reply' \in {"none", "text", "empty"}
              /\ stored' \in {0, 1}
              /\ pc' \in {"load", "fast", "ask", "tools", "persist", "answer", "over"}
          BY <1>2, <1>4
        <4> QED
          BY <3>1, <3>2, <3>3, <4>1, Zenon DEF ClientType
    <2> QED
      BY <1>3, <2>2, <2>3, <2>4 DEF ClientInv
  <1> QED
    BY <1>4, <1>5, <1>6

LEMMA CutOffOutcome ==
    ASSUME ClientInv, CutOff PROVE ClientInv'
  <1>1. ClientType'
    <2>1. /\ reply' = reply /\ stored' = stored /\ events' = events /\ status' = status
          /\ cause' = "cut off" /\ pc' = "over" /\ mode' = mode
      BY DEF CutOff
    <2>2. ClientType
      BY DEF ClientInv
    <2> QED
      BY <2>1, <2>2, ClientTypeKept
  <1>2. RunningInv' /\ RepliedInv' /\ AnswerInv'
    BY DEF RunningInv, RepliedInv, AnswerInv, Running, CutOff
  <1>3. StoredIsAnswered'
    BY DEF ClientInv, StoredIsAnswered, CutOff
  <1>4. events # <<"done", "error">>
    <2>1. CASE pc \in Running
      BY <2>1 DEF ClientInv, RunningInv, Untold
    <2>2. CASE pc = "persist"
      BY <2>2 DEF ClientInv, RepliedInv
    <2>3. CASE pc = "answer"
      BY <2>3 DEF ClientInv, AnswerInv
    <2>4. pc \in Running \/ pc = "persist" \/ pc = "answer"
      BY DEF ClientInv, ClientType, Running, CutOff
    <2> QED
      BY <2>1, <2>2, <2>3, <2>4
  <1>5. OneOutcome'
    BY <1>4 DEF ClientInv, OneOutcome, CutOff
  <1> QED
    BY <1>1, <1>2, <1>3, <1>5 DEF ClientInv
-----------------------------------------------------------------------------
(* What a step does to the loop's half. *)

LEMMA LoopKept ==
    ASSUME LoopInv, UNCHANGED loopVars,
           pc' \in {"persist", "answer", "over"} \/ (pc = "load" /\ pc' = "ask")
    PROVE  LoopInv'
  BY DEF LoopInv, LoopType, CallInv, UsedKept, PromptInv, EveryCallAnswered, loopVars, runVars

(* The fast path pastes its result, and drops it again if the loop takes over. *)
LEMMA LoopPastes ==
    ASSUME AgentTurnAssumption, LoopInv, NEW size \in Size, FastPath(size) PROVE LoopInv'
  <1>1. prompted' \in Nat
    BY DEF AgentTurnAssumption, FastPath, EstimatedTokens
  <1> QED
    BY <1>1 DEF LoopInv, LoopType, CallInv, UsedKept, PromptInv, EveryCallAnswered, FastPath, runVars

LEMMA LoopStarts ==
    ASSUME LoopInv, UNCHANGED runVars, pc' = "ask", prompted' = 0 PROVE LoopInv'
  BY DEF LoopInv, LoopType, CallInv, UsedKept, PromptInv, EveryCallAnswered, runVars

(* One more request to the model. *)
LEMMA LoopAsks ==
    ASSUME AgentTurnAssumption, LoopInv, iteration < MaxIterations, iteration' = iteration + 1,
           pc = "ask", pc' # "tools",
           UNCHANGED <<calls, todo, answered, exchanges, used, truncated, prompted>>
    PROVE  LoopInv'
  <1>1. iteration' \in 0..MaxIterations
    BY DEF LoopInv, LoopType, AgentTurnAssumption
  <1> QED
    BY <1>1 DEF LoopInv, LoopType, CallInv, UsedKept, PromptInv, EveryCallAnswered

LEMMA LoopTakesCalls ==
    ASSUME AgentTurnAssumption, LoopInv, NEW n \in 0..MaxCalls, AskForTools(n)
    PROVE  LoopInv' /\ pc' \in Running
  <1>1. iteration' \in 0..MaxIterations
    BY DEF LoopInv, LoopType, AgentTurnAssumption, AskForTools
  <1>2. UsedKept' /\ PromptInv'
    BY DEF LoopInv, UsedKept, PromptInv, AskForTools
  <1>3. exchanges \in Seq(Exchange) /\ MaxCalls \in Nat
    BY DEF LoopInv, LoopType, AgentTurnAssumption
  <1>4. CASE n = 0
    <2>1. [calls |-> 0, results |-> 0] \in Exchange
      BY <1>3 DEF Exchange
    <2>2. exchanges' = Append(exchanges, [calls |-> 0, results |-> 0]) /\ pc' = "ask"
      BY <1>4 DEF AskForTools
    <2>3. exchanges' \in Seq(Exchange)
      BY <1>3, <2>1, <2>2
    <2>4. EveryCallAnswered'
      BY <1>3, <2>2 DEF LoopInv, EveryCallAnswered
    <2>5. LoopType' /\ CallInv'
      BY <1>1, <2>2, <2>3 DEF LoopInv, LoopType, CallInv, AskForTools
    <2> QED
      BY <1>2, <2>2, <2>4, <2>5 DEF LoopInv, Running
  <1>5. CASE n # 0
    <2>1. pc' = "tools" /\ exchanges' = exchanges /\ n > 0
      BY <1>3, <1>5 DEF AskForTools
    <2>2. LoopType' /\ CallInv'
      BY <1>1, <1>3, <2>1 DEF LoopInv, LoopType, CallInv, AskForTools
    <2>3. EveryCallAnswered'
      BY <2>1 DEF LoopInv, EveryCallAnswered
    <2> QED
      BY <1>2, <2>1, <2>2, <2>3 DEF LoopInv, Running
  <1> QED
    BY <1>4, <1>5

LEMMA LoopRuns ==
    ASSUME AgentTurnAssumption, LoopInv, NEW size \in Size, RunTool(size)
    PROVE  LoopInv' /\ pc' \in Running
  <1>1. used' \in Nat /\ truncated' \in Nat /\ UsedKept'
    BY AnswerCost DEF RunTool, LoopInv
  <1>2. /\ answered' = answered + 1 /\ todo' = todo - 1 /\ calls' = calls
        /\ answered + todo = calls /\ todo > 0 /\ pc = "tools"
    BY DEF RunTool, Answer, CallInv, LoopInv
  <1>3. calls \in Nat /\ todo \in Nat /\ answered \in Nat /\ MaxCalls \in Nat /\ calls <= MaxCalls
    BY DEF LoopInv, LoopType, AgentTurnAssumption
  <1>4. todo' \in 0..calls /\ answered' \in 0..calls /\ calls \in 1..MaxCalls
    BY <1>2, <1>3
  <1>5. exchanges \in Seq(Exchange) /\ iteration' \in 0..MaxIterations
    BY DEF LoopInv, LoopType, RunTool
  <1>0. used' >= used /\ prompted \in Nat /\ prompted <= used
    <2>1. \A n \in Nat : n \div 4 >= 0
      OBVIOUS
    <2>2. SizeKept(size) \in Nat
      BY DEF SizeKept, CutSize, Remaining, LoopInv, LoopType, AgentTurnAssumption
    <2>3. PICK c : c = EstimatedTokens(SizeKept(size)) /\ c \in Nat
      BY <2>1, <2>2 DEF EstimatedTokens
    <2>4. used' = used + c
      BY <2>3 DEF RunTool, Answer
    <2>5. prompted \in Nat /\ prompted <= used /\ used \in Nat
      BY DEF RunTool, LoopInv, LoopType, PromptInv
    <2> QED
      BY <2>3, <2>4, <2>5
  <1>6. CASE todo = 1
    <2>1. answered' = calls
      BY <1>2, <1>3, <1>6
    <2>2. exchanges' = Append(exchanges, [calls |-> calls, results |-> calls]) /\ pc' = "ask"
      BY <1>6, <2>1 DEF RunTool
    <2>3. [calls |-> calls, results |-> calls] \in Exchange
      BY <1>3, <1>4 DEF Exchange
    <2>4. exchanges' \in Seq(Exchange)
      BY <1>5, <2>2, <2>3
    <2>5. EveryCallAnswered'
      BY <1>5, <2>2, <2>3 DEF LoopInv, EveryCallAnswered
    <2>7. prompted' = used' /\ PromptInv'
      BY <1>1, <1>6 DEF RunTool, PromptInv
    <2>6. LoopType' /\ CallInv'
      BY <1>1, <1>2, <1>3, <1>4, <1>5, <2>2, <2>4, <2>7 DEF LoopType, CallInv
    <2> QED
      BY <1>1, <2>2, <2>5, <2>6, <2>7 DEF LoopInv, Running
  <1>7. CASE todo # 1
    <2>1. exchanges' = exchanges /\ pc' = "tools"
      BY <1>2, <1>7 DEF RunTool
    <2>2. EveryCallAnswered'
      BY <2>1 DEF LoopInv, EveryCallAnswered
    <2>3. CallInv'
      BY <1>2, <1>3, <1>7 DEF CallInv
    <2>5. prompted' = prompted /\ prompted' \in Nat /\ PromptInv'
      <3>1. prompted' = prompted
        BY <1>7 DEF RunTool
      <3>2. used \in Nat
        BY DEF LoopInv, LoopType
      <3> QED
        BY <1>0, <1>1, <3>1, <3>2 DEF PromptInv
    <2>4. LoopType'
      BY <1>1, <1>2, <1>3, <1>4, <1>5, <2>1, <2>5 DEF LoopType
    <2> QED
      BY <1>1, <2>1, <2>2, <2>3, <2>4, <2>5 DEF LoopInv, Running
  <1> QED
    BY <1>6, <1>7
-----------------------------------------------------------------------------
(* Every step preserves the invariant. *)
LEMMA NextIInv ==
    ASSUME AgentTurnAssumption, IInv, [Next]_vars PROVE IInv'
  <1> USE DEF IInv
  <1>1. CASE ContextFails
    <2>1. ClientInv'
      BY <1>1, FailOutcome DEF ContextFails, Running
    <2> QED
      BY <1>1, <2>1, LoopKept DEF ContextFails, Fail
  <1>2. CASE NoFastPath
    <2>1. ClientInv'
      BY <1>2, GoesOn DEF NoFastPath, Running
    <2> QED
      BY <1>2, <2>1, LoopKept DEF NoFastPath
  <1>15. ASSUME NEW size \in Size, FastPath(size) PROVE IInv'
    <2>1. ClientInv'
      BY <1>15, GoesOn DEF FastPath, Running
    <2> QED
      BY <1>15, <2>1, LoopPastes
  <1>16. CASE Respond
    BY <1>16, RespondOutcome, LoopKept DEF Respond
  <1>3. ASSUME NEW content \in Content, FastReply(content) PROVE IInv'
    <2>1. CASE Finish(content)
      <3>1. ClientInv'
        BY <1>3, <2>1, FinishOutcome DEF FastReply, Running
      <3> QED
        <4>1. UNCHANGED loopVars /\ pc' = "persist"
          BY <1>3, <2>1 DEF FastReply, Finish, loopVars
        <4> QED
          BY <3>1, <4>1, LoopKept
    <2>2. CASE pc' = "ask" /\ prompted' = 0 /\ UNCHANGED clientVars
      <3>1. ClientInv'
        BY <1>3, <2>2, GoesOn DEF FastReply, Running
      <3> QED
        BY <1>3, <2>2, <3>1, LoopStarts DEF FastReply
    <2> QED
      BY <1>3, <2>1, <2>2 DEF FastReply
  <1>4. CASE FastReplyFails
    <2>1. ClientInv'
      BY <1>4, FailOutcome DEF FastReplyFails, Running
    <2> QED
      BY <1>4, <2>1, LoopKept DEF FastReplyFails, Fail
  <1>5. ASSUME NEW content \in Content, AskForStop(content) PROVE IInv'
    <2>1. CASE Fail("model")
      <3>1. ClientInv'
        BY <1>5, <2>1, FailOutcome DEF AskForStop, Running
      <3> QED
        BY <1>5, <2>1, <3>1, LoopAsks DEF AskForStop, Fail
    <2>2. CASE Finish(content)
      <3>1. ClientInv'
        BY <1>5, <2>2, FinishOutcome DEF AskForStop, Running
      <3> QED
        BY <1>5, <2>2, <3>1, LoopAsks DEF AskForStop, Finish
    <2> QED
      BY <1>5, <2>1, <2>2 DEF AskForStop
  <1>6. ASSUME NEW n \in 0..MaxCalls, AskForTools(n) PROVE IInv'
    <2>1. LoopInv' /\ pc' \in Running
      BY <1>6, LoopTakesCalls
    <2>2. ClientInv'
      BY <1>6, <2>1, GoesOn DEF AskForTools, Running
    <2> QED
      BY <2>1, <2>2
  <1>7. CASE AskAgain
    <2>1. ClientInv'
      BY <1>7, GoesOn DEF AskAgain, Running
    <2> QED
      BY <1>7, <2>1, LoopAsks DEF AskAgain
  <1>8. CASE AskFails
    <2>1. ClientInv'
      BY <1>8, FailOutcome DEF AskFails, Running
    <2> QED
      BY <1>8, <2>1, LoopAsks DEF AskFails, Fail
  <1>9. CASE IterationsExceeded
    <2>1. ClientInv'
      BY <1>9, FailOutcome DEF IterationsExceeded, Running
    <2> QED
      BY <1>9, <2>1, LoopKept DEF IterationsExceeded, Fail
  <1>10. ASSUME NEW size \in Size, RunTool(size) PROVE IInv'
    <2>1. LoopInv' /\ pc' \in Running
      BY <1>10, LoopRuns
    <2>2. ClientInv'
      BY <1>10, <2>1, GoesOn DEF RunTool, Running
    <2> QED
      BY <2>1, <2>2
  <1>11. CASE BadCall
    <2>1. ClientInv'
      BY <1>11, FailOutcome DEF BadCall, Running
    <2> QED
      BY <1>11, <2>1, LoopKept DEF BadCall, Fail
  <1>12. ASSUME NEW written \in BOOLEAN, NEW raises \in BOOLEAN, Persist(written, raises)
         PROVE  IInv'
    BY <1>12, PersistOutcome, LoopKept DEF Persist
  <1>13. CASE CutOff
    BY <1>13, CutOffOutcome, LoopKept DEF CutOff
  <1>14. CASE UNCHANGED vars
    <2>1. /\ mode' = mode /\ pc' = pc /\ iteration' = iteration /\ calls' = calls
          /\ todo' = todo /\ answered' = answered /\ exchanges' = exchanges /\ used' = used
          /\ truncated' = truncated /\ prompted' = prompted
      BY <1>14 DEF vars, loopVars, runVars
    <2>2. /\ reply' = reply /\ stored' = stored /\ events' = events /\ status' = status
          /\ cause' = cause
      BY <1>14 DEF vars, clientVars
    <2>3. LoopInv'
      BY <2>1 DEF LoopInv, LoopType, CallInv, UsedKept, PromptInv, EveryCallAnswered
    <2>4. ClientType'
      <3>1. ClientType
        BY DEF ClientInv
      <3>2. /\ pc \in {"load", "fast", "ask", "tools", "persist", "answer", "over"}
            /\ cause \in {"none", "context", "model", "tool", "iterations", "persist", "cut off"}
        BY <3>1 DEF ClientType
      <3> QED
        BY <2>1, <2>2, <3>1, <3>2, ClientTypeKept
    <2>5. RunningInv' /\ RepliedInv' /\ AnswerInv'
      <3>1. RunningInv /\ RepliedInv /\ AnswerInv
        BY DEF ClientInv
      <3>2. RunningInv'
        BY <2>1, <2>2, <3>1 DEF RunningInv, Untold
      <3>3. RepliedInv'
        BY <2>1, <2>2, <3>1 DEF RepliedInv
      <3>4. AnswerInv'
        BY <2>1, <2>2, <3>1 DEF AnswerInv
      <3> QED
        BY <3>2, <3>3, <3>4
    <2>6. OneOutcome' /\ StoredIsAnswered'
      <3>1. OneOutcome /\ StoredIsAnswered
        BY DEF ClientInv
      <3>2. OneOutcome'
        BY <2>1, <2>2, <3>1, Zenon DEF OneOutcome
      <3>3. StoredIsAnswered'
        BY <2>1, <2>2, <3>1, Zenon DEF StoredIsAnswered
      <3> QED
        BY <3>2, <3>3
    <2> QED
      BY <2>3, <2>4, <2>5, <2>6 DEF ClientInv
  <1> QED
    BY <1>1, <1>2, <1>3, <1>4, <1>5, <1>6, <1>7, <1>8, <1>9, <1>10, <1>11, <1>12, <1>13, <1>14,
       <1>15, <1>16 DEF Next, Turn
-----------------------------------------------------------------------------
LEMMA Invariant ==
    ASSUME AgentTurnAssumption PROVE Spec => []IInv
  <1>1. Init => IInv
    BY InitIInv
  <1>2. IInv /\ [Next]_vars => IInv'
    BY NextIInv
  <1> QED
    BY <1>1, <1>2, PTL DEF Spec

(* The type invariant; an exchange is stored at most once. *)
THEOREM TypeCorrect ==
    ASSUME AgentTurnAssumption PROVE Spec => []TypeOK
  <1>1. IInv => TypeOK
    BY DEF IInv, LoopInv, LoopType, ClientInv, ClientType, TypeOK
  <1> QED
    BY <1>1, Invariant, PTL

(* The tool results in the messages of every request of the loop stay within the budget and
   the marks, and nothing of a fast path's result is left in them (loop.py:207-348).  It is
   no bound for the request of the fast path itself. *)
THEOREM BudgetHolds ==
    ASSUME AgentTurnAssumption PROVE Spec => []BudgetKept
  <1>1. IInv => BudgetKept
    <2> SUFFICES ASSUME IInv PROVE BudgetKept
      OBVIOUS
    <2>1. UsedKept /\ used \in Nat /\ prompted \in Nat /\ truncated \in Nat
      BY DEF IInv, LoopInv, LoopType
    <2>2. pc \in {"ask", "tools"} => prompted <= used
      BY DEF IInv, LoopInv, PromptInv
    <2>3. PICK m \in Nat : m = truncated * (Suffix \div 4)
      <3>1. Suffix \div 4 \in Nat
        BY DEF AgentTurnAssumption
      <3> QED
        BY <2>1, <3>1
    <2> QED
      BY <2>1, <2>2, <2>3 DEF BudgetKept, UsedKept, AgentTurnAssumption
  <1> QED
    BY <1>1, Invariant, PTL

(* No request to the model leaves one of its tool calls without a result (loop.py:304-348). *)
THEOREM CallsAnswered ==
    ASSUME AgentTurnAssumption PROVE Spec => []EveryCallAnswered
  <1>1. IInv => EveryCallAnswered
    BY DEF IInv, LoopInv
  <1> QED
    BY <1>1, Invariant, PTL

(* The client learns one outcome, and what it learns agrees with what was stored
   (app.py:539-610). *)
THEOREM OutcomeAgrees ==
    ASSUME AgentTurnAssumption PROVE Spec => [](OneOutcome /\ StoredIsAnswered)
  <1>1. IInv => OneOutcome /\ StoredIsAnswered
    BY DEF IInv, ClientInv
  <1> QED
    BY <1>1, Invariant, PTL

(* The client learns one outcome: never a reply after an error, and an error after a reply
   only when the exchange could not be stored (app.py:583-610). *)
THEOREM OneOutcomeHolds ==
    ASSUME AgentTurnAssumption PROVE Spec => []OneOutcome
  <1>1. IInv => OneOutcome
    BY DEF IInv, ClientInv
  <1> QED
    BY <1>1, Invariant, PTL
-----------------------------------------------------------------------------
(* The turn implements its contract. *)

(* One more request to the model, or none. *)
Spends == iteration' = iteration \/ (iteration < MaxIterations /\ iteration' = iteration + 1)

LEMMA MapInit ==
    ASSUME Init PROVE Contract!Init
  BY DEF Init, Phase, Told, Contract!Init

LEMMA MapAsk ==
    ASSUME IInv, pc \in Running, pc' \in Running, mode' = mode, Spends, UNCHANGED clientVars
    PROVE  Contract!Ask
  <1>1. Phase = "open" /\ Phase' = "open"
    BY DEF Phase, Running
  <1>2. Told' = Told /\ stored' = stored
    BY DEF Told, clientVars
  <1> QED
    BY <1>1, <1>2 DEF Contract!Ask, Contract!Spend, Spends

LEMMA MapFail ==
    ASSUME IInv, pc \in Running, mode' = mode, Spends, NEW why, Fail(why)
    PROVE  Contract!Refuse
  <1>1. Untold
    BY DEF IInv, ClientInv, RunningInv
  <1>2. Phase = "open" /\ Phase' = "closed" /\ stored' = stored
    BY DEF Phase, Running, Fail
  <1>3. Told' = <<"error">>
    <2>1. CASE mode = "stream"
      <3>1. events' = <<"error">>
        BY <1>1, <2>1 DEF Fail, Untold
      <3> QED
        BY <2>1, <3>1 DEF Told
    <2>2. CASE mode # "stream"
      BY <2>2 DEF Told, Fail
    <2> QED
      BY <2>1, <2>2
  <1> QED
    BY <1>2, <1>3 DEF Contract!Refuse, Contract!Spend, Spends

LEMMA MapFinish ==
    ASSUME IInv, pc \in Running, mode' = mode, Spends, NEW content, Finish(content)
    PROVE  Contract!Reply
  <1>1. Untold
    BY DEF IInv, ClientInv, RunningInv
  <1>2. Phase = "open" /\ Phase' = "replied" /\ stored' = stored
    BY DEF Phase, Running, Finish
  <1>3. Told' = IF mode = "stream" THEN <<"done">> ELSE <<>>
    <2>1. CASE mode = "stream"
      <3>1. events' = <<"done">>
        BY <1>1, <2>1 DEF Finish, Untold
      <3> QED
        BY <2>1, <3>1 DEF Told
    <2>2. CASE mode # "stream"
      BY <1>1, <2>2 DEF Told, Finish, Untold
    <2> QED
      BY <2>1, <2>2
  <1> QED
    BY <1>2, <1>3 DEF Contract!Reply, Contract!Spend, Spends

LEMMA MapPersist ==
    ASSUME IInv, NEW written \in BOOLEAN, NEW raises \in BOOLEAN, Persist(written, raises)
    PROVE  Contract!Record
  <1>1. Phase = "replied" /\ Phase' = "settled"
    BY DEF Phase, Persist
  <1>2. Told' = Told
    BY DEF Told, Persist
  <1>3. (stored' = 1) \in BOOLEAN
    OBVIOUS
  <1> QED
    BY <1>1, <1>2, <1>3 DEF Contract!Record, Persist, loopVars, runVars

LEMMA MapRespond ==
    ASSUME IInv, Respond PROVE Contract!Tell
  <1>1. /\ status = 0 /\ cause \in {"none", "persist"}
        /\ cause = "none" => stored = 1
        /\ events = IF mode = "stream" THEN <<"done">> ELSE <<>>
    BY DEF IInv, ClientInv, AnswerInv, Respond
  <1>2. /\ Phase = "settled" /\ Phase' = "closed" /\ mode' = mode /\ iteration' = iteration
        /\ stored' = stored
    BY DEF Phase, Respond, loopVars, runVars
  <1>3. mode \in {"chat", "stream"}
    BY DEF IInv, ClientInv, ClientType
  <1>4. Told = IF mode = "stream" THEN <<"done">> ELSE <<>>
    BY <1>1 DEF Told
  <1>5. CASE cause = "persist"
    <2>1. Told' = Append(Told, "error")
      <3>1. CASE mode = "stream"
        BY <1>1, <1>4, <1>5, <3>1 DEF Told, Respond
      <3>2. CASE mode = "chat"
        <4>1. status' = 500
          BY <1>5, <3>2 DEF Respond
        <4>2. Told' = <<"error">>
          BY <1>2, <3>2, <4>1 DEF Told
        <4> QED
          BY <1>4, <3>2, <4>2
      <3> QED
        BY <1>3, <3>1, <3>2
    <2> QED
      BY <1>2, <2>1 DEF Contract!Tell
  <1>6. CASE cause = "none"
    <2>1. Told' = <<"done">>
      <3>1. CASE mode = "stream"
        BY <1>1, <1>6, <3>1 DEF Told, Respond
      <3>2. CASE mode = "chat"
        <4>1. status' = 200
          BY <1>6, <3>2 DEF Respond
        <4> QED
          BY <1>2, <3>2, <4>1 DEF Told
      <3> QED
        BY <1>3, <3>1, <3>2
    <2> QED
      BY <1>1, <1>2, <1>6, <2>1 DEF Contract!Tell
  <1> QED
    BY <1>1, <1>5, <1>6

LEMMA MapCutOff ==
    ASSUME CutOff PROVE Contract!Abandon
  <1>1. Phase # "closed" /\ Phase' = "closed"
    BY DEF Phase, CutOff
  <1>2. Told' = Told
    BY DEF Told, CutOff
  <1> QED
    BY <1>1, <1>2 DEF Contract!Abandon, CutOff, loopVars, runVars

LEMMA MapStutter ==
    ASSUME UNCHANGED vars PROVE UNCHANGED Contract!vars
  <1>1. /\ mode' = mode /\ pc' = pc /\ iteration' = iteration /\ events' = events
        /\ status' = status /\ stored' = stored
    BY DEF vars, loopVars, runVars, clientVars
  <1> QED
    BY <1>1 DEF Contract!vars, Phase, Told

(* Every step of a turn is a step of its contract. *)
LEMMA MapNext ==
    ASSUME IInv, [Next]_vars PROVE [Contract!Next]_(Contract!vars)
  <1> USE DEF Contract!Next
  <1>1. CASE ContextFails
    BY <1>1, MapFail DEF ContextFails, Running, Spends, loopVars, runVars
  <1>2. CASE NoFastPath
    BY <1>2, MapAsk DEF NoFastPath, Running, Spends, loopVars, runVars
  <1>15. ASSUME NEW size \in Size, FastPath(size) PROVE Contract!Next
    BY <1>15, MapAsk DEF FastPath, Running, Spends, runVars
  <1>16. CASE Respond
    BY <1>16, MapRespond
  <1>3. ASSUME NEW content \in Content, FastReply(content) PROVE Contract!Next
    <2>1. CASE Finish(content)
      BY <1>3, <2>1, MapFinish DEF FastReply, Running, Spends, runVars
    <2>2. CASE pc' = "ask" /\ UNCHANGED clientVars
      BY <1>3, <2>2, MapAsk DEF FastReply, Running, Spends, runVars
    <2> QED
      BY <1>3, <2>1, <2>2 DEF FastReply
  <1>4. CASE FastReplyFails
    BY <1>4, MapFail DEF FastReplyFails, Running, Spends, loopVars, runVars
  <1>5. ASSUME NEW content \in Content, AskForStop(content) PROVE Contract!Next
    <2>1. CASE Fail("model")
      BY <1>5, <2>1, MapFail DEF AskForStop, Running, Spends
    <2>2. CASE Finish(content)
      BY <1>5, <2>2, MapFinish DEF AskForStop, Running, Spends
    <2> QED
      BY <1>5, <2>1, <2>2 DEF AskForStop
  <1>6. ASSUME NEW n \in 0..MaxCalls, AskForTools(n) PROVE Contract!Next
    <2>1. pc' \in {"ask", "tools"} /\ pc = "ask"
      BY <1>6 DEF AskForTools
    <2> QED
      BY <1>6, <2>1, MapAsk DEF AskForTools, Running, Spends
  <1>7. CASE AskAgain
    BY <1>7, MapAsk DEF AskAgain, Running, Spends
  <1>8. CASE AskFails
    BY <1>8, MapFail DEF AskFails, Running, Spends
  <1>9. CASE IterationsExceeded
    BY <1>9, MapFail DEF IterationsExceeded, Running, Spends, loopVars, runVars
  <1>10. ASSUME NEW size \in Size, RunTool(size) PROVE Contract!Next
    <2>1. pc' \in {"ask", "tools"} /\ pc = "tools"
      BY <1>10 DEF RunTool
    <2> QED
      BY <1>10, <2>1, MapAsk DEF RunTool, Running, Spends
  <1>11. CASE BadCall
    BY <1>11, MapFail DEF BadCall, Running, Spends, loopVars, runVars
  <1>12. ASSUME NEW written \in BOOLEAN, NEW raises \in BOOLEAN, Persist(written, raises)
         PROVE  Contract!Next
    BY <1>12, MapPersist
  <1>13. CASE CutOff
    BY <1>13, MapCutOff
  <1>14. CASE UNCHANGED vars
    BY <1>14, MapStutter
  <1> QED
    BY <1>1, <1>2, <1>3, <1>4, <1>5, <1>6, <1>7, <1>8, <1>9, <1>10, <1>11, <1>12, <1>13, <1>14,
       <1>15, <1>16 DEF Next, Turn

(* A turn of either endpoint, whatever the model, the tools, the database and the client do,
   is a turn of the contract (loop.py:234-554, app.py:539-610). *)
THEOREM Refinement ==
    ASSUME AgentTurnAssumption PROVE Spec => ContractSpec
  <1>1. Init => Contract!Init
    BY MapInit
  <1>2. IInv /\ [Next]_vars => [Contract!Next]_(Contract!vars)
    BY MapNext
  <1> QED
    BY <1>1, <1>2, Invariant, PTL DEF Spec, ContractSpec, Contract!Spec
=============================================================================
