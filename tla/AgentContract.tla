---------------------------- MODULE AgentContract ----------------------------
(***************************************************************************)
(* What one agent turn promises the request that waits for it, without     *)
(* saying how.  While the turn is open it takes steps and starts tool      *)
(* calls, within the server's ceiling, and gathers evidence the caller may *)
(* see, which it never loses.  It ends once: with an answer of its own     *)
(* cited from that evidence, with the answer of the single-pass pipeline   *)
(* that it asked instead, with a refusal because the pipeline failed too,  *)
(* or with no answer, when the request was cancelled or the critic raised. *)
(* The pipeline is asked only when the agent has given up, and at most     *)
(* twice.  AgentTurn implements this (docs/agentic.md, schemas/agent.py).  *)
(***************************************************************************)
EXTENDS Integers

CONSTANTS
  Evidence,        (* refs the caller may see                              *)
  StepCeiling,     (* agent_max_steps                                      *)
  CallCeiling      (* agent_max_tool_calls                                 *)

VARIABLES
  state,           (* "open", "answered" or "gone"                         *)
  work,            (* steps taken and tool calls started                   *)
  evidence,        (* what the turn may cite                               *)
  asides,          (* how often it gave way to the pipeline                *)
  reply            (* what the caller gets                                 *)

promise == <<state, work, evidence, asides, reply>>

NoReply == [by |-> "nobody", citations |-> {}, reason |-> "none"]
Reply(by, citations, reason) ==
  [by |-> by, citations |-> citations, reason |-> reason]
GivenUp == {"llm_unavailable", "agent_budget_exhausted", "agent_no_grounding"}

Init ==
  /\ state = "open"
  /\ work = [steps |-> 0, calls |-> 0]
  /\ evidence = {}
  /\ asides = 0
  /\ reply = NoReply

(* A planner call, or a batch of tool calls: never after giving way.       *)
Work(w) ==
  /\ state = "open" /\ asides = 0
  /\ w.steps >= work.steps /\ w.steps <= StepCeiling
  /\ w.calls >= work.calls /\ w.calls <= CallCeiling
  /\ work' = w
  /\ UNCHANGED <<state, evidence, asides, reply>>

(* Tool results: evidence is only added.                                   *)
Learn(refs) ==
  /\ state = "open" /\ asides = 0
  /\ evidence' = evidence \cup refs
  /\ UNCHANGED <<state, work, asides, reply>>

GiveWay ==
  /\ state = "open" /\ asides < 2
  /\ asides' = asides + 1
  /\ UNCHANGED <<state, work, evidence, reply>>

Answer(r) ==
  /\ state = "open"
  /\ state' = "answered"
  /\ reply' = r
  /\ UNCHANGED <<work, evidence, asides>>

(* The agent's own answer: grounded, and only if the pipeline was never    *)
(* asked.                                                                  *)
AnswerOwn ==
  /\ asides = 0
  /\ \E cited \in (SUBSET evidence) \ {{}} : Answer(Reply("agent", cited, "none"))

(* The pipeline's answer, or a refusal, which cites nothing; both say why  *)
(* the agent gave up.                                                      *)
AnswerInstead ==
  /\ asides > 0
  /\ \E why \in GivenUp :
       \/ \E cited \in SUBSET Evidence : Answer(Reply("pipeline", cited, why))
       \/ Answer(Reply("refusal", {}, why))

Abandon ==
  /\ state = "open"
  /\ state' = "gone"
  /\ UNCHANGED <<work, evidence, asides, reply>>

Next ==
  \/ \E w \in [steps: 0..StepCeiling, calls: 0..CallCeiling] : Work(w)
  \/ \E refs \in SUBSET Evidence : Learn(refs)
  \/ GiveWay \/ AnswerOwn \/ AnswerInstead \/ Abandon

Spec == Init /\ [][Next]_promise
=============================================================================
