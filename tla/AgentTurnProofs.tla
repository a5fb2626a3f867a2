-------------------------- MODULE AgentTurnProofs --------------------------
(***************************************************************************)
(* Proofs about AgentTurn, for every budget, every set of refs and every   *)
(* bound on what one model call spends or one reply asks for.              *)
(***************************************************************************)
EXTENDS AgentTurn, TLAPS

USE RefsAssumption, BudgetAssumption, BoundAssumption

(* Clamping a budget gives a budget the ceiling bounds (Budget.clamp).     *)
LEMMA ClampIsBounded ==
  ASSUME NEW b \in Budget
  PROVE  /\ Clamp(b) \in Budget
         /\ Clamp(b).max_steps <= Ceiling.max_steps
         /\ Clamp(b).max_tool_calls <= Ceiling.max_tool_calls
         /\ Clamp(b).max_critique_rounds <= Ceiling.max_critique_rounds
BY DEF Clamp, Least, Budget

(* Every variable keeps its type in every turn.                            *)
THEOREM TypeCorrect == Spec => []TypeOK
<1>1. Init => TypeOK
  <2> SUFFICES ASSUME Init PROVE TypeOK
    OBVIOUS
  <2>1. budget \in Budget
    BY ClampIsBounded DEF Init
  <2>2. NoVerdict \in Verdicts /\ NoDraft \in Drafts
    BY DEF NoVerdict, Verdicts, NoDraft, Drafts
  <2>3. NoCall \in Calls
    BY <2>2 DEF NoCall, Calls, StopReasons, AnswerableStops, DegradeReasons
  <2>4. NoAnswer \in Answers
    BY <2>2 DEF NoAnswer, Answers, StopReasons, AnswerableStops
  <2>5. pc \in Running /\ stop \in StopReasons /\ late \in BOOLEAN
    BY DEF Init, Running, StopReasons, AnswerableStops
  <2>6. ledger \in SUBSET Visible /\ rejected \in SUBSET Nat
    BY DEF Init
  <2>7. QED
    BY <2>1, <2>2, <2>3, <2>4, <2>5, <2>6 DEF Init, TypeOK
<1>2. TypeOK /\ [Next]_vars => TypeOK'
  <2> SUFFICES ASSUME TypeOK, [Next]_vars PROVE TypeOK'
    OBVIOUS
  <2> USE DEF TypeOK, Running, Ended, ChargeUsage, vars, tracker, loopVars,
              history
  <2>1. CASE StopExhausted
    BY <2>1 DEF StopExhausted, StopReasons
  <2>2. CASE AskPlanner
    BY <2>2 DEF AskPlanner
  <2>3. CASE PlannerFails
    BY <2>3 DEF PlannerFails, StopReasons, Calls, DegradeReasons, NoVerdict,
       Verdicts
  <2>4. ASSUME NEW u \in 0..MaxCallUsage,
               NEW n \in 1..MaxCallsPerReply, PlannerCallsTools(n, u)
        PROVE  TypeOK'
    <3>1. RemainingToolCalls \in Nat
      BY DEF RemainingToolCalls, Budget
    <3>2. AllowedCalls(n) \in Nat
      BY <3>1 DEF AllowedCalls, Least
    <3>3. QED
      BY <2>4, <3>1, <3>2 DEF PlannerCallsTools, StopReasons
  <2>5. ASSUME NEW u \in 0..MaxCallUsage, PlannerReturnsNothing(u)
        PROVE  TypeOK'
    BY <2>5 DEF PlannerReturnsNothing, NoDraft, Drafts
  <2>6. ASSUME NEW u \in 0..MaxCallUsage,
               NEW cites \in SUBSET Refs, PlannerDrafts(cites, u)
        PROVE  TypeOK'
    BY <2>6 DEF PlannerDrafts, Drafts, StopReasons, AnswerableStops
  <2>7. ASSUME NEW u \in 0..MaxCallUsage, CriticApproves(u)
        PROVE  TypeOK'
    BY <2>7 DEF CriticApproves, Drafts, Verdicts, StopReasons, AnswerableStops
  <2>8. ASSUME NEW u \in 0..MaxCallUsage, CriticRejects(u)
        PROVE  TypeOK'
    <3>1. draft.step \in Nat
      BY DEF Drafts
    <3>2. verdict' \in Verdicts
      BY <2>8, <3>1 DEF CriticRejects, Verdicts
    <3>3. rejected' \in SUBSET Nat
      BY <2>8, <3>1 DEF CriticRejects
    <3>4. QED
      BY <2>8, <3>2, <3>3 DEF CriticRejects
  <2>9. ASSUME NEW u \in 0..MaxCallUsage, NEW refused \in BOOLEAN,
               NEW cites \in SUBSET Visible, PipelineAnswers(refused, cites, u)
        PROVE  TypeOK'
    BY <2>9 DEF PipelineAnswers, BuildAnswer, Answers, Calls, StopReasons
  <2>10. ASSUME NEW found \in SUBSET Refs, ToolsReturn(found)
         PROVE  TypeOK'
    BY <2>10 DEF ToolsReturn, Authorised
  <2>11. CASE CriticRaises
    BY <2>11 DEF CriticRaises
  <2>12. CASE ClockPasses
    BY <2>12 DEF ClockPasses
  <2>13. CASE DeadlineFires
    BY <2>13 DEF DeadlineFires, StopReasons
  <2>14. CASE RequestCancelled
    BY <2>14 DEF RequestCancelled
  <2>15. CASE FinalizeOwn
    BY <2>15 DEF FinalizeOwn, BuildAnswer, NoOutcome, Citations, Answers, Drafts, DegradeReasons
  <2>16. CASE StepAside
    BY <2>16 DEF StepAside, DegradedReason, DegradedStop, Calls, StopReasons,
       DegradeReasons
  <2>17. CASE PipelineFails
    BY <2>17 DEF PipelineFails, BuildAnswer, Answers, Calls
  <2>18. CASE Idle \/ UNCHANGED vars
    BY <2>18 DEF Idle
  <2>19. QED
    BY <2>1, <2>2, <2>3, <2>4, <2>5, <2>6, <2>7, <2>8, <2>9, <2>10, <2>11,
       <2>12, <2>13, <2>14, <2>15, <2>16, <2>17, <2>18 DEF Next
<1>3. QED
  BY <1>1, <1>2, PTL DEF Spec
(***************************************************************************)
(* The inductive strengthenings.  Each says what the control state adds to *)
(* a property: where the dispatched calls are not charged yet, which side  *)
(* of a cap the tracker is on, which draft and evidence a verdict is about *)
(* and with which arguments the pipeline is called.                        *)
(***************************************************************************)
BudgetInv ==
  /\ budget.max_steps <= Ceiling.max_steps
  /\ budget.max_tool_calls <= Ceiling.max_tool_calls
  /\ budget.max_critique_rounds <= Ceiling.max_critique_rounds
  /\ steps <= budget.max_steps
  /\ critique_rounds <= budget.max_critique_rounds
  /\ tool_calls <= dispatched /\ dispatched <= budget.max_tool_calls
  /\ pc \in {"loop", "plan", "critique"} => dispatched = tool_calls
  /\ pc = "tools" => dispatched = tool_calls + batch

HistoryInv ==
  /\ pc = "loop" /\ unpaired # 0 => tool_calls >= budget.max_tool_calls
  /\ pc \in {"plan", "tools", "critique"} => unpaired = 0
  /\ pc = "tools" /\ asked # batch
       => tool_calls + batch >= budget.max_tool_calls

TokenInv ==
  /\ usage = tokens
  /\ pc = "plan" => tokens < budget.max_tokens
  /\ pc = "critique" => tokens < budget.max_tokens + MaxCallUsage
  /\ TokenOvershootBounded

DraftInv ==
  /\ \A d \in rejected : d <= steps
  /\ pc = "plan" => \A d \in rejected : d < steps
  /\ pc = "critique" => draft.step = steps /\ steps \notin rejected
  /\ pc \in {"loop", "plan", "tools", "critique", "rescue"}
       => verdict.kind # "approve"
  /\ pc = "finalize" =>
       stop \in {"budget_exhausted", "critic_grounded", "critic_exhausted"}
  /\ pc = "finalize" /\ stop = "critic_grounded" =>
       /\ verdict = [kind |-> "approve", of |-> draft.step, over |-> ledger]
       /\ draft.step \notin rejected
  /\ pc = "finalize" /\ stop = "critic_exhausted" =>
       /\ verdict.kind # "approve"
       /\ draft.step \notin rejected
       /\ critique_rounds = budget.max_critique_rounds
  /\ OwnAnswerStands

CallInv ==
  /\ pc \in {"rescue", "fallback"} =>
       call.stop \in {"error", "budget_exhausted", "no_grounding"}
  /\ pc = "rescue" => call.reason = "llm_unavailable" /\ fallbacks = 1
  /\ pc = "fallback" => call.usage = usage
  /\ pc \in {"loop", "plan", "tools", "critique"} => fallbacks = 0
  /\ pc = "finalize" => \/ fallbacks = 0
                        \/ fallbacks = 1 /\ late /\ stop = "budget_exhausted"
  /\ FallbackRunsBounded /\ UsageCoversSpend /\ AnswerContract

(* The spend of a turn stays under its budget and its budget under the     *)
(* ceiling; a batch in flight is dispatched but not charged.               *)
THEOREM BudgetInvariant == Spec => []BudgetInv
<1>1. Init => BudgetInv
  BY ClampIsBounded DEF Init, BudgetInv, Budget
<1>2. TypeOK /\ BudgetInv /\ [Next]_vars => BudgetInv'
  <2> SUFFICES ASSUME TypeOK, BudgetInv, [Next]_vars
              PROVE  BudgetInv'
    OBVIOUS
  <2> USE DEF TypeOK, vars, tracker, loopVars, history, BudgetInv,
              ChargeUsage, Budget
  <2>1. CASE StopExhausted
    BY <2>1 DEF StopExhausted
  <2>2. CASE AskPlanner
    BY <2>2 DEF AskPlanner, TerminalStop
  <2>3. CASE PlannerFails
    BY <2>3 DEF PlannerFails
  <2>4. ASSUME NEW u \in 0..MaxCallUsage, NEW n \in 1..MaxCallsPerReply,
               PlannerCallsTools(n, u)
        PROVE  BudgetInv'
    <3>1. RemainingToolCalls \in Nat
      BY DEF RemainingToolCalls
    <3>2. /\ AllowedCalls(n) \in Nat
          /\ AllowedCalls(n) <= RemainingToolCalls
      BY <3>1 DEF AllowedCalls, Least
    <3>3. QED
      BY <2>4, <3>1, <3>2 DEF PlannerCallsTools, RemainingToolCalls
  <2>5. ASSUME NEW u \in 0..MaxCallUsage, PlannerReturnsNothing(u)
        PROVE  BudgetInv'
    BY <2>5 DEF PlannerReturnsNothing
  <2>6. ASSUME NEW u \in 0..MaxCallUsage, NEW cites \in SUBSET Refs,
               PlannerDrafts(cites, u)
        PROVE  BudgetInv'
    BY <2>6 DEF PlannerDrafts, CanCritique
  <2>7. ASSUME NEW u \in 0..MaxCallUsage, CriticApproves(u)
        PROVE  BudgetInv'
    BY <2>7 DEF CriticApproves
  <2>8. ASSUME NEW u \in 0..MaxCallUsage, CriticRejects(u)
        PROVE  BudgetInv'
    BY <2>8 DEF CriticRejects
  <2>9. ASSUME NEW u \in 0..MaxCallUsage, NEW refused \in BOOLEAN,
               NEW cites \in SUBSET Visible,
               PipelineAnswers(refused, cites, u)
        PROVE  BudgetInv'
    BY <2>9 DEF PipelineAnswers, BuildAnswer
  <2>10. ASSUME NEW found \in SUBSET Refs, ToolsReturn(found)
        PROVE  BudgetInv'
    BY <2>10 DEF ToolsReturn
  <2>11. CASE CriticRaises
    BY <2>11 DEF CriticRaises
  <2>12. CASE ClockPasses
    BY <2>12 DEF ClockPasses
  <2>13. CASE DeadlineFires
    BY <2>13 DEF DeadlineFires, Guarded
  <2>14. CASE RequestCancelled
    BY <2>14 DEF RequestCancelled, Guarded
  <2>15. CASE FinalizeOwn
    BY <2>15 DEF FinalizeOwn, BuildAnswer, NoOutcome
  <2>16. CASE StepAside
    BY <2>16 DEF StepAside
  <2>17. CASE PipelineFails
    BY <2>17 DEF PipelineFails, BuildAnswer
  <2>18. CASE Idle \/ UNCHANGED vars
    BY <2>18 DEF Idle
  <2>19. QED
    BY <2>1, <2>2, <2>3, <2>4, <2>5, <2>6, <2>7, <2>8, <2>9, <2>10, <2>11,
       <2>12, <2>13, <2>14, <2>15, <2>16, <2>17, <2>18 DEF Next
<1>3. QED
  BY <1>1, <1>2, TypeCorrect, PTL DEF Spec

(* A call without a reply enters the history only with the batch that       *)
(* spends the last tool call, and then the loop does not ask again.        *)
THEOREM HistoryInvariant == Spec => []HistoryInv
<1>1. Init => HistoryInv
  BY DEF Init, HistoryInv
<1>2. TypeOK /\ HistoryInv /\ [Next]_vars => HistoryInv'
  <2> SUFFICES ASSUME TypeOK, HistoryInv, [Next]_vars
              PROVE  HistoryInv'
    OBVIOUS
  <2> USE DEF TypeOK, vars, tracker, loopVars, history, HistoryInv,
              ChargeUsage, Budget
  <2>1. CASE StopExhausted
    BY <2>1 DEF StopExhausted
  <2>2. CASE AskPlanner
    BY <2>2 DEF AskPlanner, TerminalStop
  <2>3. CASE PlannerFails
    BY <2>3 DEF PlannerFails
  <2>4. ASSUME NEW u \in 0..MaxCallUsage, NEW n \in 1..MaxCallsPerReply,
               PlannerCallsTools(n, u)
        PROVE  HistoryInv'
    BY <2>4 DEF PlannerCallsTools, AllowedCalls, Least, RemainingToolCalls
  <2>5. ASSUME NEW u \in 0..MaxCallUsage, PlannerReturnsNothing(u)
        PROVE  HistoryInv'
    BY <2>5 DEF PlannerReturnsNothing
  <2>6. ASSUME NEW u \in 0..MaxCallUsage, NEW cites \in SUBSET Refs,
               PlannerDrafts(cites, u)
        PROVE  HistoryInv'
    BY <2>6 DEF PlannerDrafts
  <2>7. ASSUME NEW u \in 0..MaxCallUsage, CriticApproves(u)
        PROVE  HistoryInv'
    BY <2>7 DEF CriticApproves
  <2>8. ASSUME NEW u \in 0..MaxCallUsage, CriticRejects(u)
        PROVE  HistoryInv'
    BY <2>8 DEF CriticRejects
  <2>9. ASSUME NEW u \in 0..MaxCallUsage, NEW refused \in BOOLEAN,
               NEW cites \in SUBSET Visible,
               PipelineAnswers(refused, cites, u)
        PROVE  HistoryInv'
    BY <2>9 DEF PipelineAnswers, BuildAnswer
  <2>10. ASSUME NEW found \in SUBSET Refs, ToolsReturn(found)
        PROVE  HistoryInv'
    BY <2>10 DEF ToolsReturn
  <2>11. CASE CriticRaises
    BY <2>11 DEF CriticRaises
  <2>12. CASE ClockPasses
    BY <2>12 DEF ClockPasses
  <2>13. CASE DeadlineFires
    BY <2>13 DEF DeadlineFires, Guarded
  <2>14. CASE RequestCancelled
    BY <2>14 DEF RequestCancelled, Guarded
  <2>15. CASE FinalizeOwn
    BY <2>15 DEF FinalizeOwn, BuildAnswer, NoOutcome
  <2>16. CASE StepAside
    BY <2>16 DEF StepAside
  <2>17. CASE PipelineFails
    BY <2>17 DEF PipelineFails, BuildAnswer
  <2>18. CASE Idle \/ UNCHANGED vars
    BY <2>18 DEF Idle
  <2>19. QED
    BY <2>1, <2>2, <2>3, <2>4, <2>5, <2>6, <2>7, <2>8, <2>9, <2>10, <2>11,
       <2>12, <2>13, <2>14, <2>15, <2>16, <2>17, <2>18 DEF Next
<1>3. QED
  BY <1>1, <1>2, TypeCorrect, PTL DEF Spec

(* The reported usage is what the tracker was charged, and one iteration    *)
(* starts below the token cap.                                             *)
THEOREM TokenInvariant == Spec => []TokenInv
<1>1. Init => TokenInv
  BY DEF Init, TokenInv, TokenOvershootBounded
<1>2. TypeOK /\ TokenInv /\ [Next]_vars => TokenInv'
  <2> SUFFICES ASSUME TypeOK, TokenInv, [Next]_vars
              PROVE  TokenInv'
    OBVIOUS
  <2> USE DEF TypeOK, vars, tracker, loopVars, history, TokenInv,
              TokenOvershootBounded, ChargeUsage, Budget
  <2>1. CASE StopExhausted
    BY <2>1 DEF StopExhausted
  <2>2. CASE AskPlanner
    BY <2>2 DEF AskPlanner, TerminalStop
  <2>3. CASE PlannerFails
    BY <2>3 DEF PlannerFails
  <2>4. ASSUME NEW u \in 0..MaxCallUsage, NEW n \in 1..MaxCallsPerReply,
               PlannerCallsTools(n, u)
        PROVE  TokenInv'
    BY <2>4 DEF PlannerCallsTools
  <2>5. ASSUME NEW u \in 0..MaxCallUsage, PlannerReturnsNothing(u)
        PROVE  TokenInv'
    BY <2>5 DEF PlannerReturnsNothing
  <2>6. ASSUME NEW u \in 0..MaxCallUsage, NEW cites \in SUBSET Refs,
               PlannerDrafts(cites, u)
        PROVE  TokenInv'
    BY <2>6 DEF PlannerDrafts
  <2>7. ASSUME NEW u \in 0..MaxCallUsage, CriticApproves(u)
        PROVE  TokenInv'
    BY <2>7 DEF CriticApproves
  <2>8. ASSUME NEW u \in 0..MaxCallUsage, CriticRejects(u)
        PROVE  TokenInv'
    BY <2>8 DEF CriticRejects
  <2>9. ASSUME NEW u \in 0..MaxCallUsage, NEW refused \in BOOLEAN,
               NEW cites \in SUBSET Visible,
               PipelineAnswers(refused, cites, u)
        PROVE  TokenInv'
    BY <2>9 DEF PipelineAnswers, BuildAnswer
  <2>10. ASSUME NEW found \in SUBSET Refs, ToolsReturn(found)
        PROVE  TokenInv'
    BY <2>10 DEF ToolsReturn
  <2>11. CASE CriticRaises
    BY <2>11 DEF CriticRaises
  <2>12. CASE ClockPasses
    BY <2>12 DEF ClockPasses
  <2>13. CASE DeadlineFires
    BY <2>13 DEF DeadlineFires
  <2>14. CASE RequestCancelled
    BY <2>14 DEF RequestCancelled
  <2>15. CASE FinalizeOwn
    BY <2>15 DEF FinalizeOwn, BuildAnswer, NoOutcome
  <2>16. CASE StepAside
    BY <2>16 DEF StepAside
  <2>17. CASE PipelineFails
    BY <2>17 DEF PipelineFails, BuildAnswer
  <2>18. CASE Idle \/ UNCHANGED vars
    BY <2>18 DEF Idle
  <2>19. QED
    BY <2>1, <2>2, <2>3, <2>4, <2>5, <2>6, <2>7, <2>8, <2>9, <2>10, <2>11,
       <2>12, <2>13, <2>14, <2>15, <2>16, <2>17, <2>18 DEF Next
<1>3. QED
  BY <1>1, <1>2, TypeCorrect, PTL DEF Spec

(* Verdicts, drafts and evidence stay together until the turn is finalized. *)
THEOREM DraftInvariant == Spec => []DraftInv
<1>1. Init => DraftInv
  BY DEF Init, DraftInv, OwnAnswerStands, NoVerdict, NoDraft
<1>2. TypeOK /\ BudgetInv /\ DraftInv /\ [Next]_vars => DraftInv'
  <2> SUFFICES ASSUME TypeOK, BudgetInv, DraftInv, [Next]_vars
              PROVE  DraftInv'
    OBVIOUS
  <2> USE DEF TypeOK, vars, tracker, loopVars, history, DraftInv,
              OwnAnswerStands, ChargeUsage, Budget, Drafts, Verdicts
  <2>1. CASE StopExhausted
    BY <2>1 DEF StopExhausted
  <2>2. CASE AskPlanner
    BY <2>2 DEF AskPlanner
  <2>3. CASE PlannerFails
    BY <2>3 DEF PlannerFails
  <2>4. ASSUME NEW u \in 0..MaxCallUsage, NEW n \in 1..MaxCallsPerReply,
               PlannerCallsTools(n, u)
        PROVE  DraftInv'
    BY <2>4 DEF PlannerCallsTools
  <2>5. ASSUME NEW u \in 0..MaxCallUsage, PlannerReturnsNothing(u)
        PROVE  DraftInv'
    BY <2>5 DEF PlannerReturnsNothing
  <2>6. ASSUME NEW u \in 0..MaxCallUsage, NEW cites \in SUBSET Refs,
               PlannerDrafts(cites, u)
        PROVE  DraftInv'
    BY <2>6 DEF PlannerDrafts, CanCritique, BudgetInv
  <2>7. ASSUME NEW u \in 0..MaxCallUsage, CriticApproves(u)
        PROVE  DraftInv'
    BY <2>7 DEF CriticApproves
  <2>8. ASSUME NEW u \in 0..MaxCallUsage, CriticRejects(u)
        PROVE  DraftInv'
    BY <2>8 DEF CriticRejects
  <2>9. ASSUME NEW u \in 0..MaxCallUsage, NEW refused \in BOOLEAN,
               NEW cites \in SUBSET Visible,
               PipelineAnswers(refused, cites, u)
        PROVE  DraftInv'
    BY <2>9 DEF PipelineAnswers, BuildAnswer
  <2>10. ASSUME NEW found \in SUBSET Refs, ToolsReturn(found)
        PROVE  DraftInv'
    BY <2>10 DEF ToolsReturn
  <2>11. CASE CriticRaises
    BY <2>11 DEF CriticRaises
  <2>12. CASE ClockPasses
    BY <2>12 DEF ClockPasses
  <2>13. CASE DeadlineFires
    BY <2>13 DEF DeadlineFires, Guarded
  <2>14. CASE RequestCancelled
    BY <2>14 DEF RequestCancelled, Guarded
  <2>15. CASE FinalizeOwn
    BY <2>15 DEF FinalizeOwn, BuildAnswer, NoOutcome, KeepsDraft, Citations, AnswerableStops
  <2>16. CASE StepAside
    BY <2>16 DEF StepAside
  <2>17. CASE PipelineFails
    BY <2>17 DEF PipelineFails, BuildAnswer
  <2>18. CASE Idle \/ UNCHANGED vars
    <3>1. UNCHANGED vars
      BY <2>18 DEF Idle
    <3>2. QED
      BY <3>1
  <2>19. QED
    BY <2>1, <2>2, <2>3, <2>4, <2>5, <2>6, <2>7, <2>8, <2>9, <2>10, <2>11,
       <2>12, <2>13, <2>14, <2>15, <2>16, <2>17, <2>18 DEF Next
<1>3. QED
  BY <1>1, <1>2, TypeCorrect, BudgetInvariant, PTL DEF Spec

(* The arguments of the fallback, its runs, and the answers it gives.       *)
THEOREM CallInvariant == Spec => []CallInv
<1>1. Init => CallInv
  BY DEF Init, CallInv, FallbackRunsBounded, UsageCoversSpend, AnswerContract
<1>2. TypeOK /\ TokenInv /\ DraftInv /\ CallInv /\ [Next]_vars => CallInv'
  <2> SUFFICES ASSUME TypeOK, TokenInv, DraftInv, CallInv, [Next]_vars
              PROVE  CallInv'
    OBVIOUS
  <2> USE DEF TypeOK, vars, tracker, loopVars, history, CallInv,
              FallbackRunsBounded, UsageCoversSpend, AnswerContract,
              ChargeUsage
  <2>1. CASE StopExhausted
    BY <2>1 DEF StopExhausted
  <2>2. CASE AskPlanner
    BY <2>2 DEF AskPlanner
  <2>3. CASE PlannerFails
    BY <2>3 DEF PlannerFails
  <2>4. ASSUME NEW u \in 0..MaxCallUsage, NEW n \in 1..MaxCallsPerReply,
               PlannerCallsTools(n, u)
        PROVE  CallInv'
    BY <2>4 DEF PlannerCallsTools
  <2>5. ASSUME NEW u \in 0..MaxCallUsage, PlannerReturnsNothing(u)
        PROVE  CallInv'
    BY <2>5 DEF PlannerReturnsNothing
  <2>6. ASSUME NEW u \in 0..MaxCallUsage, NEW cites \in SUBSET Refs,
               PlannerDrafts(cites, u)
        PROVE  CallInv'
    BY <2>6 DEF PlannerDrafts
  <2>7. ASSUME NEW u \in 0..MaxCallUsage, CriticApproves(u)
        PROVE  CallInv'
    BY <2>7 DEF CriticApproves
  <2>8. ASSUME NEW u \in 0..MaxCallUsage, CriticRejects(u)
        PROVE  CallInv'
    BY <2>8 DEF CriticRejects
  <2>9. ASSUME NEW u \in 0..MaxCallUsage, NEW refused \in BOOLEAN,
               NEW cites \in SUBSET Visible,
               PipelineAnswers(refused, cites, u)
        PROVE  CallInv'
    <3>1. answer'.refused <=> answer'.refusal_reason # "none"
      BY <2>9 DEF PipelineAnswers, BuildAnswer
    <3>2. answer'.refused => answer'.citations = {}
      BY <2>9 DEF PipelineAnswers, BuildAnswer
    <3>3. /\ answer'.fallback_used /\ answer'.stop_reason = "fallback_pipeline"
          /\ answer'.degraded_reason = call.reason
          /\ answer'.usage = call.usage + u
      BY <2>9 DEF PipelineAnswers, BuildAnswer
    <3>4. call.reason \in DegradeReasons /\ call.reason # "none"
      BY DEF Calls, DegradeReasons
    <3>5. AnswerContract'
      BY <3>1, <3>2, <3>3, <3>4 DEF AnswerableStops
    <3>6. UsageCoversSpend'
      BY <2>9, <3>3 DEF PipelineAnswers, BuildAnswer, Calls, TokenInv
    <3>7. QED
      BY <2>9, <3>5, <3>6 DEF PipelineAnswers, BuildAnswer
  <2>10. ASSUME NEW found \in SUBSET Refs, ToolsReturn(found)
        PROVE  CallInv'
    BY <2>10 DEF ToolsReturn
  <2>11. CASE CriticRaises
    BY <2>11 DEF CriticRaises
  <2>12. CASE ClockPasses
    BY <2>12 DEF ClockPasses
  <2>13. CASE DeadlineFires
    BY <2>13 DEF DeadlineFires, Guarded
  <2>14. CASE RequestCancelled
    BY <2>14 DEF RequestCancelled, Guarded
  <2>15. CASE FinalizeOwn
    BY <2>15 DEF FinalizeOwn, BuildAnswer, NoOutcome, KeepsDraft, Answers, AnswerableStops, TokenInv
  <2>16. CASE StepAside
    BY <2>16 DEF StepAside, DegradedStop, DegradedReason, DraftInv
  <2>17. CASE PipelineFails
    BY <2>17 DEF PipelineFails, BuildAnswer, Answers, AnswerableStops, Calls,
       DegradeReasons, TokenInv
  <2>18. CASE Idle \/ UNCHANGED vars
    BY <2>18 DEF Idle
  <2>19. QED
    BY <2>1, <2>2, <2>3, <2>4, <2>5, <2>6, <2>7, <2>8, <2>9, <2>10, <2>11,
       <2>12, <2>13, <2>14, <2>15, <2>16, <2>17, <2>18 DEF Next
<1>3. QED
  BY <1>1, <1>2, TypeCorrect, TokenInvariant, DraftInvariant, PTL DEF Spec

(***************************************************************************)
(* The theorems.                                                           *)
(***************************************************************************)

(* No turn spends more steps, critiques or started tool calls than the     *)
(* server's ceiling.                                                       *)
THEOREM SpendIsWithinCeiling == Spec => []SpendWithinCeiling
<1>1. TypeOK /\ BudgetInv => SpendWithinCeiling
  BY DEF TypeOK, BudgetInv, SpendWithinCeiling, Budget
<1>2. QED
  BY <1>1, TypeCorrect, BudgetInvariant, PTL

(* Tokens overshoot their cap by less than one iteration's model calls.    *)
THEOREM TokenOvershootIsBounded == Spec => []TokenOvershootBounded
<1>1. TokenInv => TokenOvershootBounded
  BY DEF TokenInv
<1>2. QED
  BY <1>1, TokenInvariant, PTL

(* The planner is never sent a history with a dangling tool call.          *)
THEOREM HistoryIsPaired == Spec => []HistoryPaired
<1>1. HistoryInv => HistoryPaired
  BY DEF HistoryInv, HistoryPaired
<1>2. QED
  BY <1>1, HistoryInvariant, PTL

(* An answer the agent gives as its own was not rejected, is cited from    *)
(* the evidence and carries the verdict its stop reason claims.            *)
THEOREM OwnAnswerIsSound == Spec => []OwnAnswerStands
<1>1. DraftInv => OwnAnswerStands
  BY DEF DraftInv
<1>2. QED
  BY <1>1, DraftInvariant, PTL

(* Every answer keeps the contract between its refusal, fallback and       *)
(* degradation fields.                                                     *)
THEOREM AnswerIsConsistent == Spec => []AnswerContract
<1>1. CallInv => AnswerContract
  BY DEF CallInv
<1>2. QED
  BY <1>1, CallInvariant, PTL

(* The usage of an answer covers the spend, unless the planner failed.     *)
THEOREM UsageIsCovered == Spec => []UsageCoversSpend
<1>1. CallInv => UsageCoversSpend
  BY DEF CallInv
<1>2. QED
  BY <1>1, CallInvariant, PTL

(* The pipeline runs at most twice for one turn.                           *)
THEOREM FallbackRunsAreBounded == Spec => []FallbackRunsBounded
<1>1. CallInv => FallbackRunsBounded
  BY DEF CallInv
<1>2. QED
  BY <1>1, CallInvariant, PTL

(***************************************************************************)
(* The turn implements AgentContract.  Beside the invariants above, it     *)
(* takes that nothing is answered before the turn is done and that the     *)
(* pipeline answers only after it was asked.                               *)
(***************************************************************************)
ReplyInv ==
  /\ pc # "done" => answer = NoAnswer
  /\ pc = "fallback" => fallbacks > 0

(* The answer is built once, with the end of the turn.                     *)
THEOREM ReplyInvariant == Spec => []ReplyInv
<1>1. Init => ReplyInv
  BY DEF Init, ReplyInv
<1>2. TypeOK /\ ReplyInv /\ [Next]_vars => ReplyInv'
  <2> SUFFICES ASSUME TypeOK, ReplyInv, [Next]_vars
              PROVE  ReplyInv'
    OBVIOUS
  <2> USE DEF ReplyInv, TypeOK, vars, history
  <2>1. CASE StopExhausted \/ AskPlanner \/ PlannerFails \/ CriticRaises
             \/ ClockPasses
    BY <2>1 DEF StopExhausted, AskPlanner, PlannerFails, CriticRaises,
       ClockPasses
  <2>2. CASE DeadlineFires \/ RequestCancelled
    BY <2>2 DEF DeadlineFires, RequestCancelled, Guarded
  <2>3. CASE FinalizeOwn \/ PipelineFails
    BY <2>3 DEF FinalizeOwn, PipelineFails
  <2>4. CASE StepAside
    BY <2>4 DEF StepAside
  <2>5. ASSUME NEW u \in 0..MaxCallUsage, NEW n \in 1..MaxCallsPerReply,
               PlannerCallsTools(n, u)
        PROVE  ReplyInv'
    BY <2>5 DEF PlannerCallsTools
  <2>6. ASSUME NEW u \in 0..MaxCallUsage, NEW cites \in SUBSET Refs,
               \/ PlannerReturnsNothing(u) \/ PlannerDrafts(cites, u)
               \/ CriticApproves(u) \/ CriticRejects(u)
        PROVE  ReplyInv'
    BY <2>6 DEF PlannerReturnsNothing, PlannerDrafts, CriticApproves,
       CriticRejects
  <2>7. ASSUME NEW u \in 0..MaxCallUsage, NEW refused \in BOOLEAN,
               NEW cites \in SUBSET Visible, PipelineAnswers(refused, cites, u)
        PROVE  ReplyInv'
    BY <2>7 DEF PipelineAnswers
  <2>8. ASSUME NEW found \in SUBSET Refs, ToolsReturn(found)
        PROVE  ReplyInv'
    BY <2>8 DEF ToolsReturn
  <2>9. CASE Idle \/ UNCHANGED vars
    BY <2>9 DEF Idle
  <2>10. QED
    BY <2>1, <2>2, <2>3, <2>4, <2>5, <2>6, <2>7, <2>8, <2>9 DEF Next
<1>3. QED
  BY <1>1, <1>2, TypeCorrect, PTL DEF Spec

(* A step that touches neither the state, the work, the evidence, the      *)
(* asides nor the reply is a stutter of the contract.                      *)
LEMMA Stutter ==
  ASSUME UNCHANGED <<steps, dispatched, ledger, fallbacks, answer>>,
         pc # "done", pc' # "done", pc \notin Ended, pc' \notin Ended
  PROVE  UNCHANGED Contract!promise
BY DEF Contract!promise, ReplyBy

(* Every step of the turn is a step of the contract or a stutter.          *)
LEMMA StepKeepsContract ==
  ASSUME TypeOK, TypeOK', BudgetInv, BudgetInv', DraftInv, CallInv, ReplyInv,
         [Next]_vars
  PROVE  [Contract!Next]_(Contract!promise)
<1> USE DEF TypeOK, vars, tracker, loopVars, history, Ended, Running, Budget
<1>1. CASE StopExhausted \/ ClockPasses
  BY <1>1, Stutter DEF StopExhausted, ClockPasses
<1>2. CASE AskPlanner
  <2>1. Contract!Work([steps |-> steps + 1, calls |-> dispatched])
    BY <1>2 DEF AskPlanner, Contract!Work, ReplyBy, CallInv, BudgetInv
  <2>2. [steps |-> steps + 1, calls |-> dispatched]
          \in [steps: 0..Ceiling.max_steps, calls: 0..Ceiling.max_tool_calls]
    BY <1>2 DEF AskPlanner, BudgetInv
  <2>3. QED
    BY <2>1, <2>2 DEF Contract!Next
<1>3. CASE PlannerFails
  <2>1. Contract!GiveWay
    BY <1>3 DEF PlannerFails, Contract!GiveWay, ReplyBy, CallInv
  <2>2. QED
    BY <2>1 DEF Contract!Next
<1>4. ASSUME NEW u \in 0..MaxCallUsage, NEW n \in 1..MaxCallsPerReply,
             PlannerCallsTools(n, u)
      PROVE  [Contract!Next]_(Contract!promise)
  <2>1. CASE RemainingToolCalls <= 0
    BY <1>4, <2>1, Stutter DEF PlannerCallsTools
  <2>2. CASE ~(RemainingToolCalls <= 0)
    <3>1. RemainingToolCalls \in Nat
      BY DEF RemainingToolCalls
    <3>2. AllowedCalls(n) \in Nat
      BY <3>1 DEF AllowedCalls, Least
    <3>3. Contract!Work([steps |-> steps, calls |-> dispatched'])
      BY <1>4, <2>2, <3>2
         DEF PlannerCallsTools, Contract!Work, ReplyBy, CallInv, BudgetInv
    <3>4. [steps |-> steps, calls |-> dispatched']
            \in [steps: 0..Ceiling.max_steps,
                 calls: 0..Ceiling.max_tool_calls]
      BY DEF BudgetInv
    <3>5. QED
      BY <3>3, <3>4 DEF Contract!Next
  <2>3. QED
    BY <2>1, <2>2
<1>5. ASSUME NEW u \in 0..MaxCallUsage, NEW cites \in SUBSET Refs,
             \/ PlannerReturnsNothing(u) \/ PlannerDrafts(cites, u)
             \/ CriticApproves(u) \/ CriticRejects(u)
      PROVE  [Contract!Next]_(Contract!promise)
  BY <1>5, Stutter DEF PlannerReturnsNothing, PlannerDrafts, CriticApproves,
     CriticRejects
<1>6. ASSUME NEW found \in SUBSET Refs, ToolsReturn(found)
      PROVE  [Contract!Next]_(Contract!promise)
  <2>1. Contract!Learn(Authorised(found))
    BY <1>6 DEF ToolsReturn, Contract!Learn, ReplyBy, CallInv
  <2>2. Authorised(found) \in SUBSET Visible
    BY DEF Authorised
  <2>3. QED
    BY <2>1, <2>2 DEF Contract!Next
<1>7. CASE CriticRaises \/ RequestCancelled
  <2>1. Contract!Abandon
    BY <1>7 DEF CriticRaises, RequestCancelled, Guarded, Contract!Abandon,
       ReplyBy
  <2>2. QED
    BY <2>1 DEF Contract!Next
<1>8. CASE DeadlineFires
  BY <1>8, Stutter DEF DeadlineFires, Guarded
<1>9. CASE FinalizeOwn
  <2>1. fallbacks = 0
    BY <1>9 DEF FinalizeOwn, KeepsDraft, AnswerableStops, CallInv
  <2>2. /\ answer'.citations = Citations /\ answer'.degraded_reason = "none"
        /\ answer'.fallback_used = FALSE /\ answer'.refused = FALSE
    BY <1>9 DEF FinalizeOwn, BuildAnswer, NoOutcome
  <2>3. Citations \in (SUBSET ledger) \ {{}}
    BY <1>9 DEF FinalizeOwn, KeepsDraft, Citations
  <2>4. Contract!Answer(Contract!Reply("agent", Citations, "none"))
    BY <1>9, <2>2 DEF FinalizeOwn, Contract!Answer, Contract!Reply, ReplyBy
  <2>5. Contract!AnswerOwn
    BY <2>1, <2>3, <2>4 DEF Contract!AnswerOwn
  <2>6. QED
    BY <2>5 DEF Contract!Next
<1>10. CASE StepAside
  <2>1. fallbacks < 2
    BY <1>10 DEF StepAside, CallInv
  <2>2. Contract!GiveWay
    BY <1>10, <2>1 DEF StepAside, Contract!GiveWay, ReplyBy
  <2>3. QED
    BY <2>2 DEF Contract!Next
<1>11. ASSUME NEW u \in 0..MaxCallUsage, NEW refused \in BOOLEAN,
              NEW cites \in SUBSET Visible, PipelineAnswers(refused, cites, u)
       PROVE  [Contract!Next]_(Contract!promise)
  <2> DEFINE shown == IF refused THEN {} ELSE cites
  <2>1. fallbacks > 0
    BY <1>11 DEF PipelineAnswers, CallInv, ReplyInv
  <2>2. call.reason \in Contract!GivenUp
    BY DEF Calls, DegradeReasons, Contract!GivenUp
  <2>3. /\ answer'.citations = shown /\ answer'.degraded_reason = call.reason
        /\ answer'.fallback_used = TRUE
    BY <1>11 DEF PipelineAnswers, BuildAnswer
  <2>4. Contract!Answer(Contract!Reply("pipeline", shown, call.reason))
    BY <1>11, <2>3 DEF PipelineAnswers, Contract!Answer, Contract!Reply, ReplyBy
  <2>5. shown \in SUBSET Visible
    OBVIOUS
  <2>6. Contract!AnswerInstead
    BY <2>1, <2>2, <2>4, <2>5 DEF Contract!AnswerInstead
  <2>7. QED
    BY <2>6 DEF Contract!Next
<1>12. CASE PipelineFails
  <2>1. fallbacks > 0
    BY <1>12 DEF PipelineFails, CallInv, ReplyInv
  <2>2. call.reason \in Contract!GivenUp
    BY DEF Calls, DegradeReasons, Contract!GivenUp
  <2>3. /\ answer'.citations = {} /\ answer'.degraded_reason = call.reason
        /\ answer'.fallback_used = FALSE /\ answer'.refused = TRUE
    BY <1>12 DEF PipelineFails, BuildAnswer
  <2>4. Contract!Answer(Contract!Reply("refusal", {}, call.reason))
    BY <1>12, <2>3 DEF PipelineFails, Contract!Answer, Contract!Reply, ReplyBy
  <2>5. Contract!AnswerInstead
    BY <2>1, <2>2, <2>4 DEF Contract!AnswerInstead
  <2>6. QED
    BY <2>5 DEF Contract!Next
<1>13. CASE Idle \/ UNCHANGED vars
  BY <1>13 DEF Idle, Contract!promise, ReplyBy
<1>14. QED
  BY <1>1, <1>2, <1>3, <1>4, <1>5, <1>6, <1>7, <1>8, <1>9, <1>10, <1>11,
     <1>12, <1>13 DEF Next

(* AgentRuntime.run keeps the contract of a turn.                          *)
THEOREM TurnKeepsContract == Spec => ContractKept
<1>1. Init => Contract!Init
  BY DEF Init, NoAnswer, ReplyBy, Ended, Contract!Init, Contract!NoReply
<1>2. QED
  BY <1>1, StepKeepsContract, TypeCorrect, BudgetInvariant, DraftInvariant,
     CallInvariant, ReplyInvariant, PTL
     DEF Spec, ContractKept, Contract!Spec
=============================================================================
