---------------------------- MODULE ResilientLLM ----------------------------
(***************************************************************************)
(* One call through the retry wrappers of the model providers:             *)
(* ResilientLLM.complete, which runs the provider in a thread, and         *)
(* ResilientChatLLM.chat, which is asyncio code (async).  Each model of    *)
(* the chain is attempted MaxAttempts times, with a timeout per attempt    *)
(* and a backoff between attempts of one model; the call ends with the     *)
(* first success, or raises when the chain is exhausted.                   *)
(*                                                                         *)
(* Models are numbered in chain order.  Time is counted in ticks; a        *)
(* provider call may take any time, or for ever.                           *)
(***************************************************************************)
EXTENDS Integers, FiniteSets

CONSTANTS
  NModels,       (* the primary and its fallbacks                          *)
  MaxAttempts,   (* policy.max_attempts                                    *)
  Timeout,       (* policy.timeout_seconds, in ticks; 0: none              *)
  BaseDelay,     (* policy.base_delay_seconds                              *)
  MaxDelay,      (* policy.max_delay_seconds                               *)
  MaxHang        (* bound: ticks a call is watched for                     *)

ASSUME PolicyAssumption ==
  /\ NModels \in Nat \ {0} /\ MaxAttempts \in Nat /\ Timeout \in Nat
  /\ BaseDelay \in Nat /\ MaxDelay \in Nat
  /\ MaxHang \in Nat

VARIABLES
  async,           (* which of the two wrappers                            *)
  model, attempt,  (* the loop's position                                  *)
  phase,           (* what it is doing                                     *)
  elapsed,         (* ticks since the attempt began                        *)
  delay,           (* ticks left of the backoff                            *)
  running,         (* provider calls in flight, as <<model, attempt>>      *)
  tried,           (* history: attempts of each model                      *)
  answer,          (* the attempt whose answer was returned                *)
  clock            (* history: ticks since the call began                  *)

position == <<model, attempt>>
vars == <<async, position, phase, elapsed, delay, running, tried, answer, clock>>

Models == 1..NModels
Attempts == Models \X (1..MaxAttempts)
NoAnswer == <<0, 0>>
Over == {"returned", "raised", "cancelled"}
Phases == Over \cup {"next", "calling", "blocked", "sleeping"}

(***************************************************************************)
(* Mutated forms of definitions below: plausible bugs that the properties  *)
(* must catch.                                                             *)
(***************************************************************************)
(* the attempt counter not started again for the next model *)
FirstAttemptKept == attempt' = attempt
(* a backoff after a model's last attempt *)
AttemptsLeftInclusive == attempt <= MaxAttempts
(* the timeout not passed on *)
ExpiredNever == FALSE

(***************************************************************************)
(* RetryPolicy.delay_for with its jitter, and the worst case it allows.    *)
(***************************************************************************)
Raw[a \in Nat] == IF a <= 1 THEN BaseDelay ELSE 2 * Raw[a - 1]

Capped(a) == IF Raw[a] < MaxDelay THEN Raw[a] ELSE MaxDelay

Delays(a) == (Capped(a) \div 2)..Capped(a)

DelaySum[n \in Nat] == IF n = 0 THEN 0 ELSE Capped(n) + DelaySum[n - 1]

WorstCase ==
  IF MaxAttempts = 0 THEN 0
  ELSE NModels * (MaxAttempts * Timeout + DelaySum[MaxAttempts - 1])

Init ==
  /\ async \in BOOLEAN
  /\ model = 1 /\ attempt = 1
  /\ phase = "next"
  /\ elapsed = 0 /\ delay = 0
  /\ running = {}
  /\ tried = [m \in Models |-> 0]
  /\ answer = NoAnswer
  /\ clock = 0

(***************************************************************************)
(* The loop.                                                               *)
(***************************************************************************)
MayAttempt == attempt <= MaxAttempts

Begin ==
  /\ phase = "next" /\ MayAttempt
  /\ phase' = "calling"
  /\ elapsed' = 0
  /\ running' = running \cup {<<model, attempt>>}
  /\ tried' = [tried EXCEPT ![model] = @ + 1]
  /\ UNCHANGED <<position, delay, answer, clock>>

(* The model's attempts are spent: the next model, or LLMUnavailableError. *)
FirstAttempt == attempt' = 1

NextModel ==
  /\ phase = "next" /\ ~MayAttempt
  /\ \/ /\ model < NModels
        /\ model' = model + 1
        /\ FirstAttempt
        /\ UNCHANGED phase
     \/ /\ model = NModels
        /\ phase' = "raised"
        /\ UNCHANGED position
  /\ UNCHANGED <<elapsed, delay, running, tried, answer, clock>>

(* A failed attempt backs off unless it was the model's last.              *)
AttemptsLeft == attempt < MaxAttempts

Failed ==
  /\ UNCHANGED model
  /\ \/ /\ AttemptsLeft
        /\ phase' = "sleeping"
        /\ delay' \in Delays(attempt)
        /\ UNCHANGED attempt
     \/ /\ ~AttemptsLeft
        /\ phase' = "next"
        /\ attempt' = attempt + 1
        /\ UNCHANGED delay

Awake ==
  /\ phase = "sleeping" /\ delay = 0
  /\ phase' = "next"
  /\ attempt' = attempt + 1
  /\ UNCHANGED <<model, elapsed, delay, running, tried, answer, clock>>

CallEnds == running' = running \ {<<model, attempt>>}

Returns ==
  /\ phase = "calling"
  /\ CallEnds
  /\ phase' = "returned"
  /\ answer' = <<model, attempt>>
  /\ UNCHANGED <<position, elapsed, delay, tried, clock>>

Raises ==
  /\ phase = "calling"
  /\ CallEnds
  /\ Failed
  /\ UNCHANGED <<elapsed, tried, answer, clock>>

(* wait_for cancels the call.  future.result gives up on it, but leaving   *)
(* "with ThreadPoolExecutor" waits until it ends.                          *)
Expired == Timeout > 0 /\ elapsed = Timeout

(* mutated form: shutdown(wait=False) *)
TimesOutDetached ==
  /\ phase = "calling" /\ Expired
  /\ Failed
  /\ UNCHANGED <<elapsed, running, tried, answer, clock>>

TimesOut ==
  /\ phase = "calling" /\ Expired
  /\ \/ async /\ CallEnds /\ Failed
     \/ ~async /\ phase' = "blocked" /\ UNCHANGED <<running, position, delay>>
  /\ UNCHANGED <<elapsed, tried, answer, clock>>

(* mutated form: future.result() once more when the pool has shut down *)
UnblocksReturning ==
  /\ phase = "blocked"
  /\ CallEnds
  /\ phase' = "returned"
  /\ answer' = <<model, attempt>>
  /\ UNCHANGED <<position, elapsed, delay, tried, clock>>

(* The blocked call ends, and its answer, if any, is dropped.              *)
Unblocks ==
  /\ phase = "blocked"
  /\ CallEnds
  /\ Failed
  /\ UNCHANGED <<elapsed, tried, answer, clock>>

(* The agent's deadline cancels chat(): CancelledError is no Exception, so *)
(* nothing is retried.                                                     *)
Cancelled ==
  /\ async /\ phase \notin Over
  /\ phase' = "cancelled"
  /\ running' = {}
  /\ UNCHANGED <<position, elapsed, delay, tried, answer, clock>>

Tick ==
  /\ \/ /\ phase \in {"calling", "blocked"} /\ elapsed < MaxHang
        /\ ~(phase = "calling" /\ Expired)
        /\ elapsed' = elapsed + 1
        /\ UNCHANGED delay
     \/ /\ phase = "sleeping" /\ delay > 0
        /\ delay' = delay - 1
        /\ UNCHANGED elapsed
  /\ clock' = clock + 1
  /\ UNCHANGED <<position, phase, running, tried, answer>>

Next == /\ UNCHANGED async
        /\ \/ Begin \/ NextModel \/ Awake \/ Returns \/ Raises
           \/ TimesOut \/ Unblocks \/ Cancelled \/ Tick

Spec == Init /\ [][Next]_vars

(* Time passes and the loop runs; a provider may never answer, and nobody  *)
(* has to cancel the call.                                                 *)
Progresses == /\ UNCHANGED async
              /\ Begin \/ NextModel \/ Awake \/ TimesOut \/ Tick

FairSpec == Spec /\ WF_vars(Progresses)

-----------------------------------------------------------------------------
(***************************************************************************)
(* Properties.                                                             *)
(***************************************************************************)
(* Every variable keeps its type (llm/resilient.py, llm/resilient_chat.py).*)
TypeOK ==
  /\ async \in BOOLEAN
  /\ model \in Models /\ attempt \in 1..(MaxAttempts + 1)
  /\ phase \in Phases
  /\ elapsed \in Nat /\ delay \in Int /\ clock \in Nat
  /\ running \in SUBSET Attempts
  /\ tried \in [Models -> 0..MaxAttempts]
  /\ answer \in Attempts \cup {NoAnswer}

(* A model is tried only when every model before it has failed MaxAttempts *)
(* times, and LLMUnavailableError means that all of them have              *)
(* (resilient.py:44-67: "only when a model exhausts its attempts do we     *)
(* move to the next fallback").                                            *)
ChainInOrder ==
  /\ \A m \in Models : /\ m < model => tried[m] = MaxAttempts
                       /\ m > model => tried[m] = 0
  /\ phase = "raised" => \A m \in Models : tried[m] = MaxAttempts

(* One call never has two provider calls in flight, and none once it is    *)
(* over: a retry does not overlap the attempt it replaces.                 *)
OneCallInFlight ==
  /\ running \subseteq {<<model, attempt>>}
  /\ phase \in Over => running = {}

(* The answer returned is the last attempt's, never the late answer of an  *)
(* attempt that had timed out.                                             *)
AnswerIsLast ==
  phase = "returned" => /\ answer = <<model, attempt>>
                        /\ tried[model] = attempt
                        /\ Timeout > 0 => elapsed <= Timeout

(* A call of chat() is over after its attempts' timeouts and its backoffs, *)
(* under a policy that has a timeout (policy.py:14).                       *)
TimeWithinPolicy == async /\ Timeout > 0 => clock <= WorstCase

(* A call of chat() ends even when no provider ever answers.               *)
ChatEnds == async ~> phase \in Over
=============================================================================
