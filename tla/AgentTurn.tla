----------------------------- MODULE AgentTurn -----------------------------
(***************************************************************************)
(* One turn of the agent: AgentRuntime.run, its budget tracker, the        *)
(* evidence ledger, the critic and the two ways a turn ends (an answer of  *)
(* its own, or stepping aside for the single-pass pipeline).               *)
(*                                                                         *)
(* The turn is one asyncio task, so what lies between two awaits is one    *)
(* action.  The awaits are the states "plan" (the planner call), "tools"   *)
(* (the gathered tool calls), "critique" (the critic call), and "rescue"   *)
(* and "fallback" (OnlinePipeline.answer in a worker thread, entered after *)
(* a planner failure, still inside the deadline, and by _finalize, outside *)
(* it).  The wall clock may pass the budget at any moment (late); the      *)
(* asyncio deadline only interrupts a turn that is suspended inside the    *)
(* timeout block.                                                          *)
(*                                                                         *)
(* A source is its ref, a draft is the refs it cites with the step that    *)
(* wrote it, and the two additive spending caps (tokens and dollars, which *)
(* are charged and tested side by side) are the one counter tokens.        *)
(***************************************************************************)
EXTENDS Integers, FiniteSets

CONSTANTS
  Refs,             (* refs a tool may return or a draft may cite          *)
  Visible,          (* refs whose ACL admits the principal of the turn     *)
  Ceiling,          (* the budget of the settings                          *)
  Requests,         (* budgets a caller may ask for                        *)
  MaxCallUsage,     (* bound: the most one model call spends               *)
  MaxCallsPerReply  (* bound: the most tool calls of one planner reply     *)

Budget == [max_steps: Nat, max_tool_calls: Nat,
           max_critique_rounds: Nat, max_tokens: Nat]

ASSUME RefsAssumption == Visible \subseteq Refs
ASSUME BudgetAssumption == Ceiling \in Budget /\ Requests \subseteq Budget
ASSUME BoundAssumption == MaxCallUsage \in Nat /\ MaxCallsPerReply \in Nat

VARIABLES
  pc,               (* where the task is suspended, or how it ended        *)
  budget,           (* the effective budget                                *)
  steps, tool_calls, critique_rounds, tokens,     (* BudgetTracker         *)
  ledger,           (* refs in the evidence ledger                         *)
  draft,            (* the last draft                                      *)
  verdict,          (* the last verdict of the critic                      *)
  stop,             (* the stop reason so far                              *)
  usage,            (* usage accumulated for the answer                    *)
  asked, batch,     (* tool calls of the last reply, and those dispatched  *)
  unpaired,         (* tool calls in the message history without a reply   *)
  late,             (* the wall clock has passed max_wall_clock_seconds    *)
  call,             (* arguments of the running _fallback_or_refuse        *)
  answer,           (* the AgentAnswer, once pc = "done"                   *)
  dispatched,       (* history: tool executions started                    *)
  rejected,         (* history: drafts the critic rejected                 *)
  fallbacks         (* history: runs of OnlinePipeline.answer started      *)

tracker == <<steps, tool_calls, critique_rounds, tokens>>
loopVars == <<ledger, draft, verdict, usage, asked, batch, unpaired>>
history == <<dispatched, rejected, fallbacks>>
vars == <<pc, budget, tracker, loopVars, stop, late, call, answer, history>>

(***************************************************************************)
(* Types.                                                                  *)
(***************************************************************************)
AnswerableStops == {"answered", "critic_grounded", "critic_exhausted"}
StopReasons == AnswerableStops \cup
  {"budget_exhausted", "no_grounding", "fallback_pipeline", "error"}
DegradeReasons ==
  {"llm_unavailable", "agent_budget_exhausted", "agent_no_grounding"}

Drafts == [step: Nat, cites: SUBSET Refs]
NoDraft == [step |-> 0, cites |-> {}]   \* no draft, or an empty one

(* A verdict remembers the draft it judged and the evidence it was shown.  *)
Verdicts == [kind: {"none", "approve", "reject"},
             of: Nat, over: SUBSET Refs]
NoVerdict == [kind |-> "none", of |-> 0, over |-> {}]

Calls == [reason: DegradeReasons, stop: StopReasons, usage: Nat,
          verdict: Verdicts]
NoCall == [reason |-> "agent_no_grounding", stop |-> "answered", usage |-> 0,
           verdict |-> NoVerdict]

Answers == [draft: Nat, citations: SUBSET Refs, refused: BOOLEAN,
            refusal_reason: DegradeReasons \cup {"none", "pipeline_refusal"},
            stop_reason: StopReasons, fallback_used: BOOLEAN,
            degraded_reason: DegradeReasons \cup {"none"},
            critic_verdict: Verdicts, usage: Nat,
            steps_taken: Nat, tool_calls: Nat]
NoAnswer == [draft |-> 0, citations |-> {}, refused |-> FALSE,
             refusal_reason |-> "none", stop_reason |-> "answered",
             fallback_used |-> FALSE, degraded_reason |-> "none",
             critic_verdict |-> NoVerdict, usage |-> 0,
             steps_taken |-> 0, tool_calls |-> 0]

Running == {"loop", "plan", "tools", "critique", "rescue", "finalize",
            "fallback"}
Ended == {"done", "raised", "cancelled"}

(***************************************************************************)
(* Mutated forms of definitions below: plausible bugs that the properties  *)
(* must catch.                                                             *)
(***************************************************************************)
(* the deadline around the model calls only, not the tools *)
GuardedWithoutTools == {"plan", "critique", "rescue"}
(* terminal_stop without its token test *)
TerminalStopIgnoringTokens ==
  steps >= budget.max_steps \/ tool_calls >= budget.max_tool_calls \/ late
(* terminal_stop with > for >= on tool calls *)
TerminalStopOneCallLate ==
  \/ steps >= budget.max_steps
  \/ tool_calls > budget.max_tool_calls
  \/ tokens >= budget.max_tokens
  \/ late
(* the usage of the answer not kept in step with the tracker *)
ChargeTrackerOnly(u) == tokens' = tokens + u /\ UNCHANGED usage
(* a reply's tool calls not truncated to what is left *)
AllowedCallsUntruncated(n) == n
(* the ACL filter on tool sources forgotten *)
AuthorisedAll(found) == found
(* a new ledger for each batch of tool calls *)
ToolsReturnAfresh(found) ==
  /\ pc = "tools"
  /\ tool_calls' = tool_calls + batch
  /\ ledger' = found \cap Visible
  /\ unpaired' = unpaired + (asked - batch)
  /\ asked' = 0 /\ batch' = 0
  /\ pc' = "loop"
  /\ UNCHANGED <<budget, steps, critique_rounds, tokens, draft, verdict, usage,
                 stop, late, call, answer, history>>
(* a draft kept whenever it cites something *)
KeepsDraftOnBudget ==
  /\ draft.cites \cap (ledger \cap Visible) # {}
  /\ stop \in AnswerableStops \cup {"budget_exhausted"}
(* the stop reason passed on as it is *)
DegradedStopUnchanged == stop

(***************************************************************************)
(* The awaits under asyncio.timeout.                                       *)
(***************************************************************************)
Guarded == {"plan", "tools", "critique", "rescue"}

(***************************************************************************)
(* Budget.clamp and BudgetTracker.                                         *)
(***************************************************************************)
Least(a, b) == IF a <= b THEN a ELSE b

Clamp(b) == [max_steps |-> Least(b.max_steps, Ceiling.max_steps),
             max_tool_calls |-> Least(b.max_tool_calls, Ceiling.max_tool_calls),
             max_critique_rounds |->
               Least(b.max_critique_rounds, Ceiling.max_critique_rounds),
             max_tokens |-> Least(b.max_tokens, Ceiling.max_tokens)]

TerminalStop ==
  \/ steps >= budget.max_steps
  \/ tool_calls >= budget.max_tool_calls
  \/ tokens >= budget.max_tokens
  \/ late

RemainingToolCalls == IF tool_calls <= budget.max_tool_calls
                      THEN budget.max_tool_calls - tool_calls ELSE 0

CanCritique == critique_rounds < budget.max_critique_rounds

ChargeUsage(u) == /\ tokens' = tokens + u
                  /\ usage' = usage + u

(***************************************************************************)
(* The loop.                                                               *)
(***************************************************************************)
Init ==
  /\ pc = "loop"
  /\ \E request \in Requests : budget = Clamp(request)
  /\ steps = 0 /\ tool_calls = 0 /\ critique_rounds = 0 /\ tokens = 0
  /\ ledger = {} /\ draft = NoDraft /\ verdict = NoVerdict
  /\ stop = "answered" /\ usage = 0
  /\ asked = 0 /\ batch = 0 /\ unpaired = 0
  /\ late = FALSE /\ call = NoCall /\ answer = NoAnswer
  /\ dispatched = 0 /\ rejected = {} /\ fallbacks = 0

(* The top of the loop with a terminal dimension spent.                    *)
StopExhausted ==
  /\ pc = "loop" /\ TerminalStop
  /\ stop' = "budget_exhausted"
  /\ pc' = "finalize"
  /\ UNCHANGED <<budget, tracker, loopVars, late, call, answer, history>>

AskPlanner ==
  /\ pc = "loop" /\ ~TerminalStop
  /\ steps' = steps + 1
  /\ pc' = "plan"
  /\ UNCHANGED <<budget, tool_calls, critique_rounds, tokens, loopVars, stop,
                 late, call, answer, history>>

(* The planner raises: step aside from inside the timeout block, passing   *)
(* neither the usage nor the verdict gathered so far.                      *)
PlannerFails ==
  /\ pc = "plan"
  /\ stop' = "error"
  /\ call' = [reason |-> "llm_unavailable", stop |-> "error", usage |-> 0,
              verdict |-> NoVerdict]
  /\ fallbacks' = fallbacks + 1
  /\ pc' = "rescue"
  /\ UNCHANGED <<budget, tracker, loopVars, late, answer, dispatched, rejected>>

AllowedCalls(n) == Least(n, RemainingToolCalls)

PlannerCallsTools(n, u) ==
  /\ pc = "plan"
  /\ ChargeUsage(u)
  /\ IF RemainingToolCalls <= 0
     THEN /\ stop' = "budget_exhausted" /\ pc' = "finalize"
          /\ UNCHANGED <<asked, batch, dispatched>>
     ELSE /\ asked' = n /\ batch' = AllowedCalls(n)
          /\ dispatched' = dispatched + batch'
          /\ pc' = "tools" /\ UNCHANGED stop
  /\ UNCHANGED <<budget, steps, tool_calls, critique_rounds, ledger, draft,
                 verdict, unpaired, late, call, answer, rejected, fallbacks>>

(* Every dispatched call has a result, ok or not; found are the refs of    *)
(* the successful ones.  The reply joins the history with all its calls,   *)
(* the results with those that were dispatched.                            *)
Authorised(found) == found \cap Visible

ToolsReturn(found) ==
  /\ pc = "tools"
  /\ tool_calls' = tool_calls + batch
  /\ ledger' = ledger \cup Authorised(found)
  /\ unpaired' = unpaired + (asked - batch)
  /\ asked' = 0 /\ batch' = 0
  /\ pc' = "loop"
  /\ UNCHANGED <<budget, steps, critique_rounds, tokens, draft, verdict, usage,
                 stop, late, call, answer, history>>

PlannerReturnsNothing(u) ==
  /\ pc = "plan"
  /\ ChargeUsage(u)
  /\ draft' = NoDraft
  /\ pc' = "loop"
  /\ UNCHANGED <<budget, steps, tool_calls, critique_rounds, ledger, verdict,
                 asked, batch, unpaired, stop, late, call, answer, history>>

PlannerDrafts(cites, u) ==
  /\ pc = "plan"
  /\ ChargeUsage(u)
  /\ draft' = [step |-> steps, cites |-> cites]
  /\ IF CanCritique
     THEN /\ critique_rounds' = critique_rounds + 1
          /\ pc' = "critique" /\ UNCHANGED stop
     ELSE /\ stop' = "critic_exhausted"
          /\ pc' = "finalize" /\ UNCHANGED critique_rounds
  /\ UNCHANGED <<budget, steps, tool_calls, ledger, verdict, asked, batch,
                 unpaired, late, call, answer, history>>

CriticApproves(u) ==
  /\ pc = "critique"
  /\ ChargeUsage(u)
  /\ verdict' = [kind |-> "approve", of |-> draft.step, over |-> ledger]
  /\ stop' = "critic_grounded"
  /\ pc' = "finalize"
  /\ UNCHANGED <<budget, steps, tool_calls, critique_rounds, ledger, draft,
                 asked, batch, unpaired, late, call, answer, history>>

CriticRejects(u) ==
  /\ pc = "critique"
  /\ ChargeUsage(u)
  /\ verdict' = [kind |-> "reject", of |-> draft.step, over |-> ledger]
  /\ rejected' = rejected \cup {draft.step}
  /\ pc' = "loop"
  /\ UNCHANGED <<budget, steps, tool_calls, critique_rounds, ledger, draft,
                 asked, batch, unpaired, stop, late, call, answer, dispatched,
                 fallbacks>>

(* Nothing catches what Critic.evaluate raises: it leaves run().           *)
CriticRaises ==
  /\ pc = "critique"
  /\ pc' = "raised"
  /\ UNCHANGED <<budget, tracker, loopVars, stop, late, call, answer, history>>

(***************************************************************************)
(* The clock, the deadline and the request above the turn.                 *)
(***************************************************************************)
ClockPasses ==
  /\ pc \in Running /\ ~late
  /\ late' = TRUE
  /\ UNCHANGED <<pc, budget, tracker, loopVars, stop, call, answer, history>>

DeadlineFires ==
  /\ pc \in Guarded /\ late
  /\ stop' = "budget_exhausted"
  /\ pc' = "finalize"
  /\ UNCHANGED <<budget, tracker, loopVars, late, call, answer, history>>

(* TimeoutMiddleware cancels the request at an await.                      *)
RequestCancelled ==
  /\ pc \in Guarded \cup {"fallback"}
  /\ pc' = "cancelled"
  /\ UNCHANGED <<budget, tracker, loopVars, stop, late, call, answer, history>>

(***************************************************************************)
(* _finalize and _fallback_or_refuse.                                      *)
(***************************************************************************)
(* What the two of them hand to _build_answer, which adds what the tracker *)
(* counted.                                                                *)
NoOutcome == [draft |-> 0, citations |-> {}, refused |-> FALSE,
              refusal_reason |-> "none", stop_reason |-> "answered",
              fallback_used |-> FALSE, degraded_reason |-> "none",
              critic_verdict |-> NoVerdict, usage |-> 0]

BuildAnswer(o) ==
  [draft |-> o.draft, citations |-> o.citations, refused |-> o.refused,
   refusal_reason |-> o.refusal_reason, stop_reason |-> o.stop_reason,
   fallback_used |-> o.fallback_used, degraded_reason |-> o.degraded_reason,
   critic_verdict |-> o.critic_verdict, usage |-> o.usage,
   steps_taken |-> steps, tool_calls |-> tool_calls]

Citations == draft.cites \cap (ledger \cap Visible)

KeepsDraft == Citations # {} /\ stop \in AnswerableStops

FinalizeOwn ==
  /\ pc = "finalize" /\ KeepsDraft
  /\ answer' = BuildAnswer([NoOutcome EXCEPT
                 !.draft = draft.step, !.citations = Citations,
                 !.stop_reason = stop, !.critic_verdict = verdict,
                 !.usage = usage])
  /\ pc' = "done"
  /\ UNCHANGED <<budget, tracker, loopVars, stop, late, call, history>>

DegradedReason == IF stop = "budget_exhausted" THEN "agent_budget_exhausted"
                                              ELSE "agent_no_grounding"
DegradedStop == IF stop = "budget_exhausted" THEN stop ELSE "no_grounding"

StepAside ==
  /\ pc = "finalize" /\ ~KeepsDraft
  /\ call' = [reason |-> DegradedReason, stop |-> DegradedStop,
              usage |-> usage, verdict |-> verdict]
  /\ fallbacks' = fallbacks + 1
  /\ pc' = "fallback"
  /\ UNCHANGED <<budget, tracker, loopVars, stop, late, answer, dispatched,
                 rejected>>

PipelineAnswers(refused, cites, u) ==
  /\ pc \in {"rescue", "fallback"}
  /\ answer' = BuildAnswer(
       [draft |-> 0, citations |-> IF refused THEN {} ELSE cites,
        refused |-> refused,
        refusal_reason |-> IF refused THEN "pipeline_refusal" ELSE "none",
        stop_reason |-> "fallback_pipeline", fallback_used |-> TRUE,
        degraded_reason |-> call.reason,
        critic_verdict |-> call.verdict, usage |-> call.usage + u])
  /\ pc' = "done"
  /\ UNCHANGED <<budget, tracker, loopVars, stop, late, call, history>>

PipelineFails ==
  /\ pc \in {"rescue", "fallback"}
  /\ answer' = BuildAnswer(
       [draft |-> 0, citations |-> {}, refused |-> TRUE,
        refusal_reason |-> call.reason, stop_reason |-> call.stop,
        fallback_used |-> FALSE, degraded_reason |-> call.reason,
        critic_verdict |-> call.verdict, usage |-> call.usage])
  /\ pc' = "done"
  /\ UNCHANGED <<budget, tracker, loopVars, stop, late, call, history>>

(* A turn that has ended does nothing more.                                *)
Idle == pc \in Ended /\ UNCHANGED vars

Next ==
  \/ StopExhausted \/ AskPlanner \/ PlannerFails
  \/ \E u \in 0..MaxCallUsage :
       \/ \E n \in 1..MaxCallsPerReply : PlannerCallsTools(n, u)
       \/ PlannerReturnsNothing(u)
       \/ \E cites \in SUBSET Refs : PlannerDrafts(cites, u)
       \/ CriticApproves(u)
       \/ CriticRejects(u)
       \/ \E refused \in BOOLEAN, cites \in SUBSET Visible :
            PipelineAnswers(refused, cites, u)
  \/ \E found \in SUBSET Refs : ToolsReturn(found)
  \/ CriticRaises
  \/ ClockPasses \/ DeadlineFires \/ RequestCancelled
  \/ FinalizeOwn \/ StepAside \/ PipelineFails
  \/ Idle

Spec == Init /\ [][Next]_vars

(* Nothing is assumed of the planner, the tools and the critic: they may   *)
(* hang.  The event loop runs what is ready, time passes, the deadline is  *)
(* delivered, and the pipeline, which is called once and has timeouts and  *)
(* retries of its own, comes back.                                         *)
PipelineReturns ==
  \/ PipelineFails
  \/ \E refused \in BOOLEAN, cites \in SUBSET Visible, u \in 0..MaxCallUsage :
       PipelineAnswers(refused, cites, u)

Fairness ==
  /\ WF_vars(StopExhausted) /\ WF_vars(AskPlanner)
  /\ WF_vars(FinalizeOwn) /\ WF_vars(StepAside)
  /\ WF_vars(ClockPasses) /\ WF_vars(DeadlineFires)
  /\ WF_vars(PipelineReturns)

FairSpec == Spec /\ Fairness

(***************************************************************************)
(* Properties.                                                             *)
(***************************************************************************)

(* Every variable has its type; the ledger only ever holds refs the        *)
(* principal may see, whatever the tools returned (_authorised_sources).   *)
TypeOK ==
  /\ pc \in Running \cup Ended
  /\ budget \in Budget
  /\ steps \in Nat /\ tool_calls \in Nat
  /\ critique_rounds \in Nat /\ tokens \in Nat
  /\ ledger \in SUBSET Visible
  /\ draft \in Drafts /\ verdict \in Verdicts /\ stop \in StopReasons
  /\ usage \in Nat /\ asked \in Nat /\ batch \in Nat /\ unpaired \in Int
  /\ late \in BOOLEAN /\ call \in Calls /\ answer \in Answers
  /\ dispatched \in Nat /\ rejected \in SUBSET Nat /\ fallbacks \in Nat

(* However the loop is cut short, a turn never takes more steps, critiques *)
(* or tool calls than the server's ceiling, counting the tool calls it     *)
(* started and not only those it lived to charge (BudgetTracker, clamp and *)
(* the truncation of a reply's calls).                                     *)
SpendWithinCeiling ==
  /\ steps <= Ceiling.max_steps
  /\ critique_rounds <= Ceiling.max_critique_rounds
  /\ tool_calls <= dispatched
  /\ dispatched <= Ceiling.max_tool_calls

(* Tokens are only tested between iterations, so they can overshoot their  *)
(* cap, but by less than the two model calls of one iteration.             *)
TokenOvershootBounded ==
  tokens > 0 => tokens < budget.max_tokens + 2 * MaxCallUsage

(* Whenever the planner is asked, every tool call in the history it is     *)
(* sent has its reply: chat APIs reject a history with a dangling call.    *)
(* Truncating a reply leaves dangling calls, so a truncation must be the   *)
(* last thing the loop does.                                               *)
HistoryPaired == pc = "plan" => unpaired = 0

(* An answer the agent gives as its own is a draft the critic has not      *)
(* rejected, cites something, and cites only evidence.  If it claims the   *)
(* critic's approval, the critic approved this draft over this very        *)
(* evidence; if it claims the critique budget was spent, it was, and the   *)
(* verdict it shows is no approval.                                        *)
OwnAnswerStands ==
  (pc = "done" /\ answer.draft # 0) =>
    /\ answer.draft = draft.step
    /\ answer.draft \notin rejected
    /\ answer.citations # {}
    /\ answer.citations \subseteq ledger
    /\ answer.stop_reason = "critic_grounded" =>
         verdict = [kind |-> "approve", of |-> answer.draft, over |-> ledger]
    /\ answer.stop_reason = "critic_exhausted" =>
         /\ critique_rounds = budget.max_critique_rounds
         /\ answer.critic_verdict.kind # "approve"

(* What a caller can rely on in an AgentAnswer: a refusal and a refusal    *)
(* reason come together and without citations, a fallback says so in both  *)
(* its fields, and exactly the agent's own answers are not degraded.       *)
AnswerContract ==
  pc = "done" =>
    /\ answer.refused <=> answer.refusal_reason # "none"
    /\ answer.refused => answer.citations = {}
    /\ answer.fallback_used <=> answer.stop_reason = "fallback_pipeline"
    /\ answer.stop_reason \in AnswerableStops <=> answer.degraded_reason = "none"
    /\ answer.stop_reason \in AnswerableStops => ~answer.refused

(* The pipeline runs at most once per turn, or twice when the planner      *)
(* failed and the deadline then cut its rescue short.                      *)
FallbackRunsBounded ==
  /\ fallbacks <= 2
  /\ fallbacks = 2 => late /\ stop = "budget_exhausted"

(* The usage an answer reports covers every token the turn was charged,    *)
(* except after a planner failure.                                         *)
UsageCoversSpend ==
  (pc = "done" /\ answer.degraded_reason # "llm_unavailable") =>
    answer.usage >= tokens

(* A turn ends, even if the planner, a tool or the critic never returns.   *)
TurnEnds == <>(pc \in Ended)

(* The turn keeps what AgentContract promises: one reply, grounded in      *)
(* evidence that is never lost, or degraded after giving way, within the   *)
(* ceiling, wherever failures, the deadline and cancellation strike.       *)
ReplyBy == IF ~(pc = "done") THEN "nobody"
           ELSE IF answer.fallback_used THEN "pipeline"
           ELSE IF answer.refused THEN "refusal" ELSE "agent"

Contract == INSTANCE AgentContract WITH
  Evidence <- Visible,
  StepCeiling <- Ceiling.max_steps,
  CallCeiling <- Ceiling.max_tool_calls,
  state <- IF pc = "done" THEN "answered"
           ELSE IF pc \in Ended THEN "gone" ELSE "open",
  work <- [steps |-> steps, calls |-> dispatched],
  evidence <- ledger,
  asides <- fallbacks,
  reply <- [by |-> ReplyBy, citations |-> answer.citations,
            reason |-> answer.degraded_reason]

ContractKept == Contract!Spec

(* docs/agentic.md:23: model failure falls back to the pipeline.           *)
ModelFailureFallsBack == pc # "raised"
=============================================================================
