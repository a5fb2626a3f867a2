------------------------- MODULE ResilientLLMProofs -------------------------
(***************************************************************************)
(* What holds of a call through the retry wrappers for every chain, number *)
(* of attempts, timeout and backoff.                                       *)
(***************************************************************************)
EXTENDS ResilientLLM, NaturalsInduction, WellFoundedInduction, TLAPS

(* How the loop's position and phase determine the attempts made and the   *)
(* call in flight: the induction hypothesis of the theorems below.         *)
Progress ==
  /\ \A m \in Models : /\ m < model => tried[m] = MaxAttempts
                       /\ m > model => tried[m] = 0
  /\ phase = "next" => tried[model] = attempt - 1
  /\ phase \in {"calling", "blocked", "sleeping", "returned"} =>
       attempt <= MaxAttempts /\ tried[model] = attempt
  /\ phase = "sleeping" => attempt < MaxAttempts
  /\ phase = "raised" => model = NModels /\ tried[model] = MaxAttempts

Flight ==
  /\ phase \in {"calling", "blocked"} => running = {<<model, attempt>>}
  /\ phase \notin {"calling", "blocked"} => running = {}

Patience ==
  /\ phase \in {"calling", "returned"} /\ Timeout > 0 => elapsed <= Timeout
  /\ phase = "returned" => answer = <<model, attempt>>

CallInv == TypeOK /\ Progress /\ Flight /\ Patience

LEMMA InitCall == Init => CallInv
<1> SUFFICES ASSUME Init PROVE CallInv
  OBVIOUS
<1> USE PolicyAssumption DEF Init, position
<1>1. TypeOK
  BY DEF TypeOK, Models, Phases, Over
<1>2. Progress
  BY DEF Progress, Models
<1>3. Flight /\ Patience
  BY DEF Flight, Patience
<1> QED BY <1>1, <1>2, <1>3 DEF CallInv

LEMMA StepCall == CallInv /\ [Next]_vars => CallInv'
<1> SUFFICES ASSUME CallInv, [Next]_vars PROVE CallInv'
  OBVIOUS
<1> USE PolicyAssumption DEF CallInv, position
<1>a. /\ model \in Models /\ attempt \in 1..(MaxAttempts + 1)
      /\ model \in Int /\ attempt \in Int /\ MaxAttempts \in Int
      /\ elapsed \in Nat /\ delay \in Int /\ clock \in Nat
      /\ tried \in [Models -> 0..MaxAttempts]
      /\ running \in SUBSET Attempts
      /\ answer \in Attempts \cup {NoAnswer}
      /\ phase \in Phases
  BY DEF TypeOK, Models
<1>w. async' \in BOOLEAN
  BY DEF TypeOK, Next, vars
<1>b. ASSUME NEW a PROVE \A d \in Delays(a) : d \in Int
  BY DEF Delays
(* A failed attempt leaves the loop sleeping, or at the next attempt.      *)
<1>f. ASSUME Failed, phase \in {"calling", "blocked"}
      PROVE /\ model' = model
            /\ \/ /\ phase' = "sleeping" /\ attempt < MaxAttempts
                  /\ attempt' = attempt /\ delay' \in Int
               \/ /\ phase' = "next" /\ attempt = MaxAttempts
                  /\ attempt' = attempt + 1 /\ delay' = delay
  <2>1. attempt <= MaxAttempts
    BY <1>f DEF Progress
  <2> QED BY <2>1, <1>a, <1>b, <1>f DEF Failed, AttemptsLeft
<1>1. CASE Begin
  <2>1. /\ phase = "next" /\ attempt <= MaxAttempts /\ phase' = "calling"
        /\ elapsed' = 0 /\ running' = running \cup {<<model, attempt>>}
        /\ tried' = [tried EXCEPT ![model] = @ + 1]
        /\ UNCHANGED <<model, attempt, delay, answer, clock>>
    BY <1>1 DEF Begin, MayAttempt
  <2>2. <<model, attempt>> \in Attempts
    BY <2>1, <1>a DEF Attempts
  <2>3. tried[model] = attempt - 1 /\ tried'[model] = attempt
    BY <2>1, <1>a DEF Progress
  <2>4. tried' \in [Models -> 0..MaxAttempts]
    BY <2>1, <2>3, <1>a
  <2>5. TypeOK'
    BY <2>1, <2>2, <2>4, <1>a, <1>w DEF TypeOK, Phases, Over
  <2>6. Progress'
    BY <2>1, <2>3, <1>a DEF Progress, Models
  <2>7. Flight' /\ Patience'
    BY <2>1, <1>a DEF Flight, Patience
  <2> QED BY <2>5, <2>6, <2>7
<1>2. CASE NextModel
  <2>1. /\ phase = "next" /\ attempt = MaxAttempts + 1
        /\ UNCHANGED <<elapsed, delay, running, tried, answer, clock>>
        /\ tried[model] = MaxAttempts
    BY <1>2, <1>a DEF NextModel, MayAttempt, Progress
  <2>2. CASE model < NModels /\ model' = model + 1 /\ attempt' = 1 /\ phase' = phase
    <3>1. TypeOK'
      BY <2>1, <2>2, <1>a, <1>w DEF TypeOK, Models
    <3>2. Progress'
      BY <2>1, <2>2, <1>a DEF Progress, Models
    <3>3. Flight' /\ Patience'
      BY <2>1, <2>2, <1>a DEF Flight, Patience
    <3> QED BY <3>1, <3>2, <3>3
  <2>3. CASE model = NModels /\ phase' = "raised" /\ UNCHANGED <<model, attempt>>
    <3>1. TypeOK'
      BY <2>1, <2>3, <1>a, <1>w DEF TypeOK, Phases, Over
    <3>2. Progress'
      BY <2>1, <2>3, <1>a DEF Progress, Models
    <3>3. Flight' /\ Patience'
      BY <2>1, <2>3, <1>a DEF Flight, Patience
    <3> QED BY <3>1, <3>2, <3>3
  <2> QED BY <1>2, <2>2, <2>3 DEF NextModel, FirstAttempt
<1>3. CASE Awake
  <2>1. /\ phase = "sleeping" /\ phase' = "next" /\ attempt' = attempt + 1
        /\ UNCHANGED <<model, elapsed, delay, running, tried, answer, clock>>
        /\ attempt < MaxAttempts /\ tried[model] = attempt
    BY <1>3 DEF Awake, Progress
  <2>2. TypeOK'
    BY <2>1, <1>a, <1>w DEF TypeOK, Phases
  <2>3. Progress'
    BY <2>1, <1>a DEF Progress, Models
  <2>4. Flight' /\ Patience'
    BY <2>1 DEF Flight, Patience
  <2> QED BY <2>2, <2>3, <2>4
<1>4. CASE Returns
  <2>1. /\ phase = "calling" /\ phase' = "returned"
        /\ running' = running \ {<<model, attempt>>}
        /\ answer' = <<model, attempt>>
        /\ UNCHANGED <<model, attempt, elapsed, delay, tried, clock>>
        /\ attempt <= MaxAttempts /\ tried[model] = attempt
    BY <1>4 DEF Returns, CallEnds, Progress
  <2>2. <<model, attempt>> \in Attempts /\ running' = {}
    BY <2>1, <1>a DEF Attempts, Flight
  <2>3. TypeOK'
    BY <2>1, <2>2, <1>a, <1>w DEF TypeOK, Phases, Over
  <2>4. Progress'
    BY <2>1, <1>a DEF Progress, Models
  <2>5. Flight' /\ Patience'
    BY <2>1, <2>2 DEF Flight, Patience
  <2> QED BY <2>3, <2>4, <2>5
(* Raises, the asynchronous TimesOut and Unblocks fail the attempt.        *)
<1>5. ASSUME Failed, phase \in {"calling", "blocked"}, CallEnds,
             UNCHANGED <<elapsed, tried, answer, clock>>
      PROVE CallInv'
  <2>1. running' = {}
    BY <1>5 DEF CallEnds, Flight
  <2>2. /\ attempt <= MaxAttempts /\ tried[model] = attempt
    BY <1>5 DEF Progress
  <2>3. TypeOK'
    BY <2>1, <2>2, <1>5, <1>f, <1>a, <1>w DEF TypeOK, Phases
  <2>4. Progress'
    BY <2>2, <1>5, <1>f, <1>a DEF Progress, Models
  <2>5. Flight' /\ Patience'
    BY <2>1, <1>5, <1>f DEF Flight, Patience
  <2> QED BY <2>3, <2>4, <2>5
<1>6. CASE Raises
  BY <1>5, <1>6 DEF Raises
<1>7. CASE TimesOut
  <2>1. CASE CallEnds /\ Failed
    BY <1>5, <1>7, <2>1 DEF TimesOut
  <2>2. CASE phase' = "blocked" /\ UNCHANGED <<running, position, delay>>
    <3>1. /\ phase = "calling" /\ phase' = "blocked"
          /\ UNCHANGED <<running, model, attempt, delay, elapsed, tried, answer, clock>>
      BY <1>7, <2>2 DEF TimesOut
    <3>2. TypeOK'
      BY <3>1, <1>a, <1>w DEF TypeOK, Phases
    <3>3. Progress'
      BY <3>1, <1>a DEF Progress, Models
    <3>4. Flight' /\ Patience'
      BY <3>1 DEF Flight, Patience
    <3> QED BY <3>2, <3>3, <3>4
  <2> QED BY <1>7, <2>1, <2>2 DEF TimesOut
<1>8. CASE Unblocks
  BY <1>5, <1>8 DEF Unblocks
<1>9. CASE Cancelled
  <2>1. /\ phase' = "cancelled" /\ running' = {}
        /\ UNCHANGED <<model, attempt, elapsed, delay, tried, answer, clock>>
    BY <1>9 DEF Cancelled
  <2>2. TypeOK'
    BY <2>1, <1>a, <1>w DEF TypeOK, Phases, Over
  <2>3. Progress'
    BY <2>1, <1>a DEF Progress, Models
  <2>4. Flight' /\ Patience'
    BY <2>1 DEF Flight, Patience
  <2> QED BY <2>2, <2>3, <2>4
<1>10. CASE Tick
  <2>1. /\ phase \in {"calling", "blocked", "sleeping"}
        /\ UNCHANGED <<model, attempt, phase, running, tried, answer>>
        /\ clock' = clock + 1
        /\ elapsed' \in {elapsed, elapsed + 1} /\ delay' \in {delay, delay - 1}
        /\ phase = "calling" /\ Timeout > 0 /\ elapsed' = elapsed + 1
             => elapsed # Timeout
    BY <1>10, <1>a DEF Tick, Expired
  <2>2. TypeOK'
    BY <2>1, <1>a, <1>w DEF TypeOK
  <2>3. Progress'
    BY <2>1, <1>a DEF Progress, Models
  <2>4. Flight' /\ Patience'
    BY <2>1, <1>a DEF Flight, Patience
  <2> QED BY <2>2, <2>3, <2>4
<1>11. CASE UNCHANGED vars
  BY <1>11 DEF vars, TypeOK, Progress, Flight, Patience
<1> QED BY <1>1, <1>2, <1>3, <1>4, <1>6, <1>7, <1>8, <1>9, <1>10, <1>11 DEF Next

(* The invariant of both wrappers.                                         *)
THEOREM CallInvariant == Spec => []CallInv
BY InitCall, StepCall, PTL DEF Spec

(* complete() and chat() keep the types of their state.                    *)
THEOREM CallTypeCorrect == Spec => []TypeOK
BY CallInvariant, PTL DEF CallInv

(* Whatever the chain and the number of attempts, models are tried in      *)
(* order, each to its last attempt before the next (resilient.py:44-67).   *)
THEOREM ChainIsInOrder == Spec => []ChainInOrder
<1>1. CallInv => ChainInOrder
  BY PolicyAssumption DEF CallInv, TypeOK, Progress, ChainInOrder, Models
<1> QED BY <1>1, CallInvariant, PTL

(* One call through a wrapper never holds two provider calls at once, and  *)
(* leaves none behind (resilient.py:73, resilient_chat.py:80).             *)
THEOREM OneCallIsInFlight == Spec => []OneCallInFlight
<1>1. CallInv => OneCallInFlight
  BY DEF CallInv, TypeOK, Flight, OneCallInFlight, Over, Phases
<1> QED BY <1>1, CallInvariant, PTL

(* The answer is the last attempt's, and came within its timeout.          *)
THEOREM AnswerIsTheLast == Spec => []AnswerIsLast
<1>1. CallInv => AnswerIsLast
  BY DEF CallInv, Progress, Patience, AnswerIsLast
<1> QED BY <1>1, CallInvariant, PTL

(***************************************************************************)
(* Functions defined by recursion on the naturals.                         *)
(***************************************************************************)

(* A nonempty set of numbers has a least one.                              *)
LEMMA LeastExists ==
  ASSUME NEW S \in SUBSET Nat, S # {}
  PROVE  \E m \in S : \A n \in S : m <= n
<1>1. PICK m \in S : \A n \in S : ~(<<n, m>> \in OpToRel(<, Nat))
  BY WFMin, NatLessThanWellFounded, Zenon
<1>2. \A n \in S : ~(n < m)
  BY <1>1 DEF OpToRel
<1> QED
  BY <1>2

(* Induction, over sets.                                                   *)
LEMMA Induction ==
  ASSUME NEW S \in SUBSET Nat, 0 \in S, \A n \in S : n + 1 \in S
  PROVE  \A n \in Nat : n \in S
<1> SUFFICES ASSUME Nat \ S # {} PROVE FALSE
  OBVIOUS
<1>1. PICK m \in Nat \ S : \A n \in Nat \ S : m <= n
  BY LeastExists
<1>2. m # 0 /\ m - 1 \in Nat
  BY <1>1
<1>3. m - 1 \in S
  BY <1>1, <1>2
<1>4. (m - 1) + 1 = m
  BY <1>1
<1> QED
  BY <1>1, <1>3, <1>4

(* A first value and a step determine a function.                          *)
LEMMA RecursionOnNat ==
  ASSUME NEW first \in Nat, NEW step \in [Nat -> [Nat -> Nat]]
  PROVE  \E f \in [Nat -> Nat] : /\ f[0] = first
                               /\ \A n \in Nat : f[n + 1] = step[n][f[n]]
<1> DEFINE V == Nat
<1>0. first \in V /\ step \in [Nat -> [V -> V]]
  OBVIOUS
<1> HIDE DEF V
<1> USE <1>0
<1> DEFINE Begun(n, f) == /\ f \in [0..n -> V]
                          /\ f[0] = first
                          /\ \A k \in 0..(n - 1) : f[k + 1] = step[k][f[k]]
<1> DEFINE Reached == {n \in Nat : \E f \in [0..n -> V] : Begun(n, f)}
<1> DEFINE Agreed ==
      {k \in Nat : \A m \in Nat, n \in Nat :
         m >= k /\ n >= k =>
           \A f \in [0..m -> V], g \in [0..n -> V] :
              Begun(m, f) /\ Begun(n, g) => f[k] = g[k]}
<1>1. \A n \in Nat : n \in Reached
  <2>1. 0 \in Reached
    <3>1. Begun(0, [k \in 0..0 |-> first])
      OBVIOUS
    <3> QED
      BY <3>1
  <2>2. ASSUME NEW n \in Reached PROVE n + 1 \in Reached
    <3>1. PICK f \in [0..n -> V] : Begun(n, f)
      OBVIOUS
    <3> DEFINE g == [k \in 0..(n + 1) |->
                       IF k = n + 1 THEN step[n][f[n]] ELSE f[k]]
    <3>0. n \in Nat /\ f[n] \in V /\ step[n][f[n]] \in V
      BY <3>1
    <3>2. g \in [0..(n + 1) -> V]
      BY <3>0, <3>1
    <3>3. g[0] = first
      BY <3>0, <3>1
    <3>4. ASSUME NEW k \in 0..((n + 1) - 1) PROVE g[k + 1] = step[k][g[k]]
      <4>1. k \in 0..n /\ k # n + 1 /\ k \in 0..(n + 1) /\ k + 1 \in 0..(n + 1)
        BY <3>0
      <4>2. g[k] = f[k]
        BY <4>1
      <4>3. CASE k = n
        BY <4>1, <4>2, <4>3
      <4>4. CASE k # n
        <5>1. k \in 0..(n - 1) /\ k + 1 # n + 1
          BY <4>1, <4>4, <3>0
        <5>2. g[k + 1] = f[k + 1]
          BY <4>1, <5>1
        <5> QED
          BY <5>1, <5>2, <4>2, <3>1
      <4> QED
        BY <4>3, <4>4
    <3> HIDE DEF g
    <3>5. Begun(n + 1, g)
      BY <3>2, <3>3, <3>4
    <3> HIDE DEF Begun
    <3>6. n + 1 \in Nat /\ \E h \in [0..(n + 1) -> V] : Begun(n + 1, h)
      BY <3>0, <3>2, <3>5
    <3> QED
      BY <3>6
  <2> HIDE DEF Reached
  <2>3. Reached \in SUBSET Nat
    BY DEF Reached
  <2> QED
    BY <2>1, <2>2, <2>3, Induction
<1>2. \A k \in Nat : k \in Agreed
  <2>1. 0 \in Agreed
    OBVIOUS
  <2>2. ASSUME NEW k \in Agreed PROVE k + 1 \in Agreed
    <3>1. k \in Nat /\ k + 1 \in Nat
      OBVIOUS
    <3>2. \A m \in Nat, n \in Nat :
            m >= k + 1 /\ n >= k + 1 =>
              \A f \in [0..m -> V], g \in [0..n -> V] :
                 Begun(m, f) /\ Begun(n, g) => f[k + 1] = g[k + 1]
      <4> TAKE m \in Nat, n \in Nat
      <4> HAVE m >= k + 1 /\ n >= k + 1
      <4> TAKE f \in [0..m -> V], g \in [0..n -> V]
      <4> HAVE Begun(m, f) /\ Begun(n, g)
      <4>1. k \in 0..(m - 1) /\ k \in 0..(n - 1) /\ m >= k /\ n >= k
        BY <3>1
      <4>2. f[k] = g[k]
        <5> HIDE DEF Begun
        <5> QED
          BY <4>1
      <4> QED
        BY <4>1, <4>2
    <3> HIDE DEF Begun
    <3> DEFINE next == k + 1
    <3> HIDE DEF next
    <3>3. next \in Agreed
      BY <3>1, <3>2 DEF next
    <3> QED
      BY <3>3 DEF next
  <2> HIDE DEF Agreed
  <2>3. Agreed \in SUBSET Nat
    BY DEF Agreed
  <2> QED
    BY <2>1, <2>2, <2>3, Induction
<1> DEFINE beginning(n) == CHOOSE f \in [0..n -> V] : Begun(n, f)
<1>3. ASSUME NEW n \in Nat
      PROVE  beginning(n) \in [0..n -> V] /\ Begun(n, beginning(n))
  <2>1. \E f \in [0..n -> V] : Begun(n, f)
    BY <1>1
  <2> HIDE DEF Begun
  <2> QED
    BY <2>1
<1>4. ASSUME NEW n \in Nat
      PROVE  beginning(n + 1)[n + 1] = step[n][beginning(n)[n]]
  <2>1. /\ beginning(n) \in [0..n -> V] /\ Begun(n, beginning(n))
        /\ beginning(n + 1) \in [0..(n + 1) -> V]
        /\ Begun(n + 1, beginning(n + 1))
    <3> HIDE DEF Begun, beginning
    <3>1. n + 1 \in Nat
      OBVIOUS
    <3> QED
      BY <3>1, <1>3
  <2> HIDE DEF beginning
  <2>2. n \in 0..((n + 1) - 1) /\ n + 1 >= n /\ n + 1 \in Nat /\ n >= n
    OBVIOUS
  <2>3. beginning(n + 1)[n] = beginning(n)[n]
    <3> HIDE DEF Begun
    <3>1. n \in Agreed
      BY <1>2
    <3> QED
      BY <3>1, <2>1, <2>2
  <2>4. beginning(n + 1)[n + 1] = step[n][beginning(n + 1)[n]]
    BY <2>1, <2>2
  <2> QED
    BY <2>3, <2>4
<1> DEFINE whole == [n \in Nat |-> beginning(n)[n]]
<1>5. beginning(0)[0] = first
  <2>1. Begun(0, beginning(0))
    <3> HIDE DEF Begun, beginning
    <3> QED
      BY <1>3
  <2> HIDE DEF beginning
  <2> QED
    BY <2>1
<1>6. \A n \in Nat : beginning(n)[n] \in V
  <2> SUFFICES ASSUME NEW n \in Nat PROVE beginning(n)[n] \in V
    OBVIOUS
  <2>1. beginning(n) \in [0..n -> V] /\ n \in 0..n
    <3>1. n \in 0..n
      OBVIOUS
    <3> HIDE DEF Begun, beginning
    <3>2. beginning(n) \in [0..n -> V]
      BY <1>3
    <3> QED
      BY <3>1, <3>2
  <2> HIDE DEF beginning
  <2> QED
    BY <2>1
<1> HIDE DEF beginning
<1>7. whole \in [Nat -> V]
  BY <1>6
<1>8. whole[0] = first
  BY <1>5
<1>9. \A n \in Nat : whole[n + 1] = step[n][whole[n]]
  BY <1>4
<1> HIDE DEF whole
<1> QED
  BY <1>7, <1>8, <1>9 DEF V

(* The backoff before its cap, and the backoffs summed up, are what their  *)
(* definitions say (policy.py delay_for).                                  *)
LEMMA RawGrows ==
  /\ Raw \in [Nat -> Nat]
  /\ \A a \in Nat : Raw[a] = IF a <= 1 THEN BaseDelay ELSE 2 * Raw[a - 1]
<1> DEFINE step == [n \in Nat |-> [r \in Nat |-> IF n = 0 THEN BaseDelay ELSE 2 * r]]
<1>1. step \in [Nat -> [Nat -> Nat]] /\ BaseDelay \in Nat
  BY PolicyAssumption
<1>2. \A n, r \in Nat : step[n][r] = IF n = 0 THEN BaseDelay ELSE 2 * r
  OBVIOUS
<1> HIDE DEF step
<1>3. PICK f \in [Nat -> Nat] : /\ f[0] = BaseDelay
                                /\ \A n \in Nat : f[n + 1] = step[n][f[n]]
  BY <1>1, RecursionOnNat
<1>4. \A a \in Nat : f[a] = IF a <= 1 THEN BaseDelay ELSE 2 * f[a - 1]
  <2> SUFFICES ASSUME NEW a \in Nat
               PROVE  f[a] = IF a <= 1 THEN BaseDelay ELSE 2 * f[a - 1]
    OBVIOUS
  <2>1. CASE a = 0
    BY <1>3, <2>1
  <2>2. CASE a # 0
    <3>1. a - 1 \in Nat /\ (a - 1) + 1 = a
      BY <2>2
    <3>2. f[a] = step[a - 1][f[a - 1]] /\ f[a - 1] \in Nat
      BY <3>1, <1>3
    <3> QED
      BY <3>1, <3>2, <1>2
  <2> QED
    BY <2>1, <2>2
<1>5. f = [a \in Nat |-> IF a <= 1 THEN BaseDelay ELSE 2 * f[a - 1]]
  BY <1>4
<1>6. Raw = [a \in Nat |-> IF a <= 1 THEN BaseDelay ELSE 2 * Raw[a - 1]]
  BY <1>5 DEF Raw
<1>7. \A a \in Nat : Raw[a] = IF a <= 1 THEN BaseDelay ELSE 2 * Raw[a - 1]
  BY <1>6
<1> DEFINE S == {a \in Nat : Raw[a] \in Nat}
<1>8. S \in SUBSET Nat /\ 0 \in S
  <2>1. Raw[0] = BaseDelay
    BY <1>7
  <2> QED
    BY <1>1, <2>1
<1>9. \A a \in S : a + 1 \in S
  <2> SUFFICES ASSUME NEW a \in S PROVE a + 1 \in S
    OBVIOUS
  <2>1. a \in Nat /\ a + 1 \in Nat /\ (a + 1) - 1 = a /\ Raw[a] \in Nat
    OBVIOUS
  <2>2. Raw[a + 1] = IF a + 1 <= 1 THEN BaseDelay ELSE 2 * Raw[a]
    BY <2>1, <1>7
  <2> DEFINE r == Raw[a]
  <2>3. r \in Nat /\ 2 * r \in Nat
    BY <2>1
  <2>4. Raw[a + 1] \in Nat
    BY <1>1, <2>2, <2>3
  <2> QED
    BY <2>1, <2>4
<1>10. \A a \in Nat : a \in S
  <2> HIDE DEF S
  <2> QED
    BY <1>8, <1>9, Induction
<1>11. \A a \in Nat : Raw[a] \in Nat
  BY <1>10
<1> QED
  BY <1>6, <1>7, <1>11

LEMMA CapKept == \A a \in Nat : Capped(a) \in Nat
BY RawGrows, PolicyAssumption DEF Capped

LEMMA BackoffsAdd ==
  /\ DelaySum[0] = 0
  /\ \A n \in Nat : /\ DelaySum[n] \in Nat
                    /\ DelaySum[n + 1] = Capped(n + 1) + DelaySum[n]
<1> DEFINE step == [n \in Nat |-> [r \in Nat |-> Capped(n + 1) + r]]
<1>1. step \in [Nat -> [Nat -> Nat]]
  BY CapKept
<1>2. \A n, r \in Nat : step[n][r] = Capped(n + 1) + r
  OBVIOUS
<1> HIDE DEF step
<1>3. PICK f \in [Nat -> Nat] : /\ f[0] = 0
                                /\ \A n \in Nat : f[n + 1] = step[n][f[n]]
  <2>1. 0 \in Nat
    OBVIOUS
  <2> QED
    BY <1>1, <2>1, RecursionOnNat
<1>4. ASSUME NEW a \in Nat PROVE f[a] = IF a = 0 THEN 0 ELSE Capped(a) + f[a - 1]
  <2>1. CASE a = 0
    BY <1>3, <2>1
  <2>2. CASE a # 0
    <3>1. a - 1 \in Nat /\ (a - 1) + 1 = a
      BY <2>2
    <3>2. f[(a - 1) + 1] = step[a - 1][f[a - 1]] /\ f[a - 1] \in Nat
      BY <3>1, <1>3
    <3>3. step[a - 1][f[a - 1]] = Capped((a - 1) + 1) + f[a - 1]
      BY <3>1, <3>2, <1>2
    <3> QED
      BY <3>1, <3>2, <3>3, <2>2
  <2> QED
    BY <2>1, <2>2
<1>5. f = [a \in Nat |-> IF a = 0 THEN 0 ELSE Capped(a) + f[a - 1]]
  BY <1>4
<1>6. DelaySum = [a \in Nat |-> IF a = 0 THEN 0 ELSE Capped(a) + DelaySum[a - 1]]
  BY <1>5 DEF DelaySum
<1>7. DelaySum[0] = 0
  BY <1>6
<1>8. ASSUME NEW n \in Nat PROVE DelaySum[n + 1] = Capped(n + 1) + DelaySum[n]
  <2>1. n + 1 \in Nat /\ n + 1 # 0 /\ (n + 1) - 1 = n
    OBVIOUS
  <2> QED
    BY <2>1, <1>6
<1> DEFINE S == {n \in Nat : DelaySum[n] \in Nat}
<1>9. S \in SUBSET Nat /\ 0 \in S
  BY <1>7
<1>10. \A n \in S : n + 1 \in S
  <2> SUFFICES ASSUME NEW n \in S PROVE n + 1 \in S
    OBVIOUS
  <2>1. n \in Nat /\ DelaySum[n] \in Nat /\ n + 1 \in Nat
    OBVIOUS
  <2>2. Capped(n + 1) \in Nat
    BY <2>1, CapKept
  <2> QED
    BY <2>1, <2>2, <1>8
<1>11. \A n \in Nat : n \in S
  <2> HIDE DEF S
  <2> QED
    BY <1>9, <1>10, Induction
<1> QED
  BY <1>7, <1>8, <1>11

LEMMA BackoffsGrow ==
  ASSUME NEW n \in Nat, NEW k \in 0..n
  PROVE  DelaySum[k] <= DelaySum[n]
<1> DEFINE S == {m \in Nat : \A j \in 0..m : DelaySum[j] <= DelaySum[m]}
<1>1. S \in SUBSET Nat /\ 0 \in S
  BY BackoffsAdd
<1>2. ASSUME NEW m \in S PROVE m + 1 \in S
  <2> SUFFICES ASSUME NEW j \in 0..(m + 1) PROVE DelaySum[j] <= DelaySum[m + 1]
    OBVIOUS
  <2>1. /\ m \in Nat /\ j \in Nat /\ m + 1 \in Nat /\ Capped(m + 1) \in Nat
        /\ DelaySum[m] \in Nat /\ DelaySum[m + 1] = Capped(m + 1) + DelaySum[m]
    BY BackoffsAdd, CapKept
  <2>2. DelaySum[j] \in Nat
    BY <2>1, BackoffsAdd
  <2>3. CASE j = m + 1
    BY <2>1, <2>3
  <2>4. CASE j # m + 1
    <3>1. j \in 0..m
      BY <2>1, <2>4
    <3>2. DelaySum[j] <= DelaySum[m]
      BY <3>1
    <3> QED
      BY <2>1, <2>2, <3>2
  <2> QED
    BY <2>3, <2>4
<1>3. \A m \in Nat : m \in S
  <2> HIDE DEF S
  <2> QED
    BY <1>1, <1>2, Induction
<1> QED
  BY <1>3

(***************************************************************************)
(* The time a call may have used.                                          *)
(***************************************************************************)
(* The first a attempts of one model, and the backoffs after them: there   *)
(* is none after the last.                                                 *)
Used(a) ==
  a * Timeout + DelaySum[IF a < MaxAttempts THEN a ELSE MaxAttempts - 1]

(* All attempts of the models before m.                                    *)
Before(m) == (m - 1) * Used(MaxAttempts)

LEMMA UsedAddsUp ==
  ASSUME MaxAttempts > 0
  PROVE  /\ Used(0) = 0
         /\ \A a \in 0..MaxAttempts : Used(a) \in Nat /\ Used(a) <= Used(MaxAttempts)
         /\ \A a \in 1..MaxAttempts :
              Used(a) = Used(a - 1) + Timeout
                        + (IF a < MaxAttempts THEN Capped(a) ELSE 0)
<1>1. MaxAttempts \in Nat /\ Timeout \in Nat /\ MaxAttempts - 1 \in Nat
  BY PolicyAssumption
<1>2. Used(0) = 0
  BY <1>1, BackoffsAdd DEF Used
<1>3. ASSUME NEW a \in 0..MaxAttempts
      PROVE  Used(a) \in Nat /\ Used(a) <= Used(MaxAttempts)
  <2> DEFINE backoffs == IF a < MaxAttempts THEN a ELSE MaxAttempts - 1
             waited == DelaySum[backoffs]
             most == DelaySum[MaxAttempts - 1]
  <2>1. backoffs \in 0..(MaxAttempts - 1) /\ backoffs \in Nat
    BY <1>1
  <2>2. waited <= most /\ waited \in Nat /\ most \in Nat
    <3> HIDE DEF backoffs
    <3> QED
      BY <2>1, <1>1, BackoffsGrow, BackoffsAdd
  <2>3. a * Timeout \in Nat /\ a * Timeout <= MaxAttempts * Timeout
        /\ MaxAttempts * Timeout \in Nat
    <3>1. a \in Nat /\ a <= MaxAttempts
      BY <1>1
    <3>2. PICK d \in Nat : MaxAttempts = a + d
      <4>1. MaxAttempts - a \in Nat /\ MaxAttempts = a + (MaxAttempts - a)
        BY <3>1, <1>1
      <4> QED
        BY <4>1
    <3>3. MaxAttempts * Timeout = a * Timeout + d * Timeout
      BY <3>1, <3>2, <1>1
    <3>4. a * Timeout \in Nat /\ d * Timeout \in Nat
      BY <3>1, <3>2, <1>1
    <3> DEFINE x == a * Timeout
               y == d * Timeout
               z == MaxAttempts * Timeout
    <3>5. x \in Nat /\ y \in Nat /\ z = x + y
      BY <3>3, <3>4
    <3> HIDE DEF x, y, z
    <3>6. x \in Nat /\ x <= z /\ z \in Nat
      BY <3>5
    <3> QED
      BY <3>6 DEF x, z
  <2>4. Used(a) = a * Timeout + waited
    BY DEF Used
  <2>5. Used(MaxAttempts) = MaxAttempts * Timeout + most
    BY <1>1 DEF Used
  <2> DEFINE x == a * Timeout
             z == MaxAttempts * Timeout
  <2>6. x \in Nat /\ z \in Nat /\ x <= z /\ Used(a) = x + waited
        /\ Used(MaxAttempts) = z + most
    BY <2>3, <2>4, <2>5
  <2> HIDE DEF x, z, waited, most
  <2> QED
    BY <2>2, <2>6
<1>4. ASSUME NEW a \in 1..MaxAttempts
      PROVE  Used(a) = Used(a - 1) + Timeout
                       + (IF a < MaxAttempts THEN Capped(a) ELSE 0)
  <2>1. a \in Nat /\ a - 1 \in Nat /\ a - 1 < MaxAttempts /\ (a - 1) + 1 = a
    BY <1>1
  <2>2. a * Timeout = (a - 1) * Timeout + Timeout
    BY <2>1, <1>1
  <2>3. Used(a - 1) = (a - 1) * Timeout + DelaySum[a - 1]
    BY <2>1 DEF Used
  <2>4. DelaySum[a - 1] \in Nat /\ DelaySum[(a - 1) + 1] = Capped((a - 1) + 1) + DelaySum[a - 1]
    BY <2>1, BackoffsAdd
  <2>5. DelaySum[a] = Capped(a) + DelaySum[a - 1] /\ Capped(a) \in Nat
    BY <2>1, <2>4, CapKept
  <2>6. (a - 1) * Timeout \in Int
    BY <2>1, <1>1
  <2> DEFINE x == (a - 1) * Timeout
             w == DelaySum[a - 1]
  <2>7. CASE a < MaxAttempts
    <3>1. Used(a) = a * Timeout + DelaySum[a]
      BY <2>7 DEF Used
    <3>2. Used(a) = (x + Timeout) + (Capped(a) + w) /\ Used(a - 1) = x + w
          /\ x \in Int /\ w \in Nat
      BY <3>1, <2>2, <2>3, <2>4, <2>5, <2>6
    <3> HIDE DEF x, w
    <3> QED
      BY <3>2, <2>5, <2>7, <1>1
  <2>8. CASE ~(a < MaxAttempts)
    <3>1. a = MaxAttempts
      BY <2>1, <2>8, <1>1
    <3>2. Used(a) = a * Timeout + DelaySum[a - 1]
      BY <2>8, <3>1 DEF Used
    <3>3. Used(a) = (x + Timeout) + w /\ Used(a - 1) = x + w
          /\ x \in Int /\ w \in Nat
      BY <3>2, <2>2, <2>3, <2>4, <2>6
    <3> HIDE DEF x, w
    <3> QED
      BY <3>3, <2>8, <1>1
  <2> QED
    BY <2>7, <2>8
<1> QED
  BY <1>2, <1>3, <1>4

LEMMA BeforeAddsUp ==
  ASSUME MaxAttempts > 0
  PROVE  /\ Before(1) = 0
         /\ \A m \in Models :
              /\ Before(m) \in Int /\ Before(m + 1) = Before(m) + Used(MaxAttempts)
              /\ Before(m) + Used(MaxAttempts) <= WorstCase
<1> DEFINE u == Used(MaxAttempts)
<1>1. MaxAttempts \in 0..MaxAttempts /\ NModels \in Nat /\ MaxAttempts \in Nat
  BY PolicyAssumption
<1>2. u \in Nat
  BY <1>1, UsedAddsUp
<1>3. WorstCase = NModels * u
  BY <1>1 DEF WorstCase, Used
<1>4. \A m : Before(m) = (m - 1) * u
  BY DEF Before
<1> HIDE DEF u
<1>5. ASSUME NEW m \in Models
      PROVE  /\ Before(m) \in Int /\ Before(m + 1) = Before(m) + u
             /\ Before(m) + u <= WorstCase
  <2>1. m \in Nat /\ m <= NModels
    BY <1>1 DEF Models
  <2>2. PICK d \in Nat : NModels = m + d
    <3>1. NModels - m \in Nat /\ NModels = m + (NModels - m)
      BY <2>1, <1>1
    <3> QED
      BY <3>1
  <2>3. NModels * u = m * u + d * u /\ m * u \in Int /\ d * u \in Nat
    BY <2>1, <2>2, <1>2
  <2>4. (m - 1) * u + u = m * u /\ ((m + 1) - 1) * u = m * u /\ (m - 1) * u \in Int
    BY <2>1, <1>2
  <2> DEFINE x == m * u
             y == d * u
             z == (m - 1) * u
  <2>5. /\ WorstCase = x + y /\ x \in Int /\ y \in Nat /\ z \in Int
        /\ z + u = x /\ Before(m) = z /\ Before(m + 1) = x
    BY <2>3, <2>4, <1>3, <1>4
  <2> HIDE DEF x, y, z
  <2> QED
    BY <2>5, <1>2
<1>6. Before(1) = 0
  BY <1>2, <1>4
<1> QED
  BY <1>5, <1>6 DEF u

(* What the clock shows at each point of the asyncio wrapper's loop.       *)
Punctual ==
  async /\ Timeout > 0 =>
    /\ phase # "blocked"
    /\ MaxAttempts = 0 => clock = 0
    /\ MaxAttempts > 0 =>
         /\ phase = "next" => clock <= Before(model) + Used(attempt - 1)
         /\ phase = "calling" =>
              clock <= Before(model) + Used(attempt - 1) + elapsed
         /\ phase = "sleeping" => clock + delay <= Before(model) + Used(attempt)
         /\ phase = "sleeping" => delay >= 0
         /\ phase \in Over => clock <= WorstCase

LEMMA InitPunctual == Init => Punctual
<1> SUFFICES ASSUME Init PROVE Punctual
  OBVIOUS
<1>1. clock = 0 /\ model = 1 /\ attempt = 1 /\ phase = "next"
  BY DEF Init
<1>2. MaxAttempts > 0 => Before(1) = 0 /\ Used(0) = 0
  BY UsedAddsUp, BeforeAddsUp
<1> QED
  BY <1>1, <1>2 DEF Punctual, Over

(* What the time allowed to the loop's position is made of.                *)
LEMMA PositionCosts ==
  ASSUME CallInv, MaxAttempts > 0
  PROVE  /\ Before(model) \in Int /\ Used(MaxAttempts) \in Nat
         /\ Before(model) + Used(MaxAttempts) <= WorstCase /\ WorstCase \in Int
         /\ Before(model + 1) = Before(model) + Used(MaxAttempts) /\ Used(0) = 0
         /\ Used(attempt - 1) \in Nat /\ Used(attempt - 1) <= Used(MaxAttempts)
         /\ attempt <= MaxAttempts =>
              /\ Used(attempt) \in Nat /\ Used(attempt) <= Used(MaxAttempts)
              /\ Capped(attempt) \in Nat
              /\ Used(attempt) = Used(attempt - 1) + Timeout
                    + (IF attempt < MaxAttempts THEN Capped(attempt) ELSE 0)
<1>a. /\ model \in Models /\ attempt \in 1..(MaxAttempts + 1)
      /\ MaxAttempts \in Nat /\ NModels \in Nat /\ Timeout \in Nat
  BY PolicyAssumption DEF CallInv, TypeOK
<1>1. /\ attempt - 1 \in 0..MaxAttempts /\ MaxAttempts \in 0..MaxAttempts
      /\ attempt <= MaxAttempts =>
           attempt \in Nat /\ attempt \in 1..MaxAttempts /\ attempt \in 0..MaxAttempts
  BY <1>a
<1>2. /\ Before(model) \in Int
      /\ Before(model + 1) = Before(model) + Used(MaxAttempts)
      /\ Before(model) + Used(MaxAttempts) <= WorstCase
  BY <1>a, BeforeAddsUp
<1>3. /\ Used(0) = 0
      /\ \A a \in 0..MaxAttempts : Used(a) \in Nat /\ Used(a) <= Used(MaxAttempts)
      /\ \A a \in 1..MaxAttempts :
           Used(a) = Used(a - 1) + Timeout
                     + (IF a < MaxAttempts THEN Capped(a) ELSE 0)
  BY UsedAddsUp
<1>4. WorstCase \in Int
  <2> DEFINE s == MaxAttempts * Timeout + DelaySum[MaxAttempts - 1]
  <2>1. DelaySum[MaxAttempts - 1] \in Nat
    BY <1>a, BackoffsAdd
  <2>2. s \in Int
    BY <2>1, <1>a
  <2>3. WorstCase = NModels * s
    BY <1>a DEF WorstCase
  <2> HIDE DEF s
  <2> QED
    BY <2>2, <2>3, <1>a
<1> QED
  BY <1>1, <1>2, <1>3, <1>4, CapKept

(* Wherever the loop is, the worst case has not been passed.               *)
LEMMA PunctualIsInTime == CallInv /\ Punctual => TimeWithinPolicy
<1> SUFFICES ASSUME CallInv, Punctual, async, Timeout > 0 PROVE clock <= WorstCase
  BY DEF TimeWithinPolicy
<1>a. /\ attempt \in Int /\ MaxAttempts \in Nat /\ elapsed \in Nat
      /\ delay \in Int /\ clock \in Nat /\ Timeout \in Nat /\ phase \in Phases
      /\ attempt >= 1
  BY PolicyAssumption DEF CallInv, TypeOK
<1>b. /\ phase \in {"calling", "sleeping"} => attempt <= MaxAttempts
      /\ phase = "calling" => elapsed <= Timeout
  BY DEF CallInv, Progress, Patience
<1>1. CASE MaxAttempts = 0
  BY <1>1 DEF Punctual, WorstCase
<1>2. CASE MaxAttempts > 0
  <2> DEFINE b == Before(model)
             most == Used(MaxAttempts)
             w == WorstCase
             p == Used(attempt - 1)
             q == Used(attempt)
             c == Capped(attempt)
  <2>1. b \in Int /\ most \in Nat /\ b + most <= w /\ w \in Int /\ p \in Nat
        /\ p <= most
    BY <1>2, PositionCosts
  <2>2. attempt <= MaxAttempts =>
          /\ q \in Nat /\ c \in Nat /\ q <= most
          /\ q = p + Timeout + (IF attempt < MaxAttempts THEN c ELSE 0)
    BY <1>2, PositionCosts
  <2>3. /\ phase = "next" => clock <= b + p
        /\ phase = "calling" => clock <= b + p + elapsed
        /\ phase = "sleeping" => clock + delay <= b + q /\ delay >= 0
        /\ phase \in Over => clock <= w
        /\ phase # "blocked"
    BY <1>2 DEF Punctual
  <2> HIDE DEF b, most, w, p, q, c
  <2> SUFFICES clock <= w
    BY DEF w
  <2>4. CASE phase = "next"
    BY <2>1, <2>3, <2>4, <1>a
  <2>5. CASE phase = "calling"
    <3>1. p + Timeout <= q /\ q <= most /\ q \in Nat
      BY <2>1, <2>2, <2>5, <1>a, <1>b
    <3> QED
      BY <3>1, <2>1, <2>3, <2>5, <1>a, <1>b
  <2>6. CASE phase = "sleeping"
    BY <2>1, <2>2, <2>3, <2>6, <1>a, <1>b
  <2> QED
    BY <2>3, <2>4, <2>5, <2>6, <1>a DEF Phases
<1> QED
  BY <1>1, <1>2, <1>a

LEMMA StepPunctual == CallInv /\ Punctual /\ [Next]_vars => Punctual'
<1> SUFFICES ASSUME CallInv, Punctual, [Next]_vars, async', Timeout > 0
             PROVE  Punctual'
  BY DEF Punctual
<1>a. /\ model \in Models /\ attempt \in 1..(MaxAttempts + 1)
      /\ model \in Int /\ attempt \in Int /\ MaxAttempts \in Nat
      /\ elapsed \in Nat /\ delay \in Int /\ clock \in Nat
      /\ NModels \in Nat /\ Timeout \in Nat /\ phase \in Phases
  BY PolicyAssumption DEF CallInv, TypeOK, Models
<1>b. async
  BY DEF Next, vars
<1>c. phase # "blocked" /\ (MaxAttempts = 0 => clock = 0)
  BY <1>b DEF Punctual
<1>d. /\ phase \in {"calling", "sleeping"} => attempt <= MaxAttempts
      /\ phase = "sleeping" => attempt < MaxAttempts
      /\ phase = "calling" => elapsed <= Timeout
  BY DEF CallInv, Progress, Patience
<1>e. CASE MaxAttempts = 0
  <2>1. phase \notin {"calling", "sleeping", "blocked"} /\ clock = 0
    BY <1>a, <1>c, <1>d, <1>e
  <2>2. clock' = clock /\ phase' # "blocked"
    BY <2>1, <1>a, <1>e DEF Next, vars, Begin, MayAttempt, NextModel, Awake,
         Returns, Raises, TimesOut, Unblocks, Cancelled, Tick, position
  <2> QED
    BY <1>a, <2>1, <2>2, <1>e DEF Punctual
<1>f. CASE MaxAttempts > 0
  <2> DEFINE b == Before(model)
             most == Used(MaxAttempts)
             w == WorstCase
             p == Used(attempt - 1)
             q == Used(attempt)
             c == Capped(attempt)
  <2>1. /\ b \in Int /\ most \in Nat
        /\ Before(model + 1) = b + most /\ Used(0) = 0
    BY <1>f, PositionCosts
  <2>2. /\ p \in Nat /\ p <= most
        /\ attempt <= MaxAttempts =>
             /\ q \in Nat /\ c \in Nat
             /\ q = p + Timeout + (IF attempt < MaxAttempts THEN c ELSE 0)
    BY <1>f, PositionCosts
  <2>3. /\ phase = "next" => clock <= b + p
        /\ phase = "calling" => clock <= b + p + elapsed
        /\ phase = "sleeping" => clock + delay <= b + q /\ delay >= 0
    BY <1>b, <1>f DEF Punctual
  <2>6. clock <= w
    BY <1>b, PunctualIsInTime DEF TimeWithinPolicy
  <2> HIDE DEF w
  <2>s. ASSUME phase' # "blocked",
               phase' = "next" => clock' <= (Before(model))' + (Used(attempt - 1))',
               phase' = "calling" =>
                 clock' <= (Before(model))' + (Used(attempt - 1))' + elapsed',
               phase' = "sleeping" =>
                 clock' + delay' <= (Before(model))' + (Used(attempt))' /\ delay' >= 0,
               phase' \in Over => clock' <= w
        PROVE  Punctual'
    BY <2>s, <1>f DEF Punctual, w
  <2>7. CASE Begin
    <3>1. /\ phase = "next" /\ phase' = "calling" /\ elapsed' = 0
          /\ UNCHANGED <<model, attempt, clock>>
      BY <2>7 DEF Begin, position
    <3>2. clock' <= (Before(model))' + (Used(attempt - 1))' + elapsed'
      <4>1. (Before(model))' = b /\ (Used(attempt - 1))' = p
        BY <3>1
      <4>2. clock <= b + p /\ p \in Nat
        BY <3>1, <2>3, <2>2
      <4> HIDE DEF b, p
      <4> QED
        BY <4>1, <4>2, <3>1, <2>1, <1>a
    <3> QED
      BY <3>1, <3>2, <2>s DEF Over
  <2>8. CASE NextModel
    <3>1. /\ phase = "next" /\ attempt = MaxAttempts + 1 /\ clock' = clock
          /\ \/ model' = model + 1 /\ attempt' = 1 /\ phase' = "next"
             \/ phase' = "raised"
      BY <2>8, <1>a DEF NextModel, MayAttempt, FirstAttempt
    <3>2. CASE model' = model + 1 /\ attempt' = 1 /\ phase' = "next"
      <4>1. (Before(model))' = b + most /\ (Used(attempt - 1))' = 0
        BY <3>2, <2>1
      <4>2. clock <= b + p /\ p \in Nat /\ p <= most
        BY <3>1, <2>3, <2>2
      <4>3. clock' <= (Before(model))' + (Used(attempt - 1))'
        <5> HIDE DEF b, p, most
        <5> QED
          BY <4>1, <4>2, <3>1, <2>1, <1>a
      <4> QED
        BY <4>3, <3>2, <2>s DEF Over
    <3>3. CASE phase' = "raised"
      BY <3>1, <3>3, <2>6, <2>s DEF Over
    <3> QED
      BY <3>1, <3>2, <3>3
  <2>9. CASE Awake
    <3>1. /\ phase = "sleeping" /\ delay = 0 /\ phase' = "next"
          /\ attempt' = attempt + 1 /\ UNCHANGED <<model, clock>>
      BY <2>9 DEF Awake
    <3>2. (attempt - 1)' = attempt
      BY <3>1, <1>a
    <3>3. (Before(model))' = b /\ (Used(attempt - 1))' = q
      BY <3>1, <3>2 DEF Used, Before
    <3>4. clock <= b + q
      <4>1. clock + delay <= b + q /\ q \in Nat
        BY <3>1, <2>3, <2>2, <1>d
      <4> HIDE DEF b, q
      <4> QED
        BY <4>1, <3>1, <1>a
    <3> QED
      BY <3>1, <3>3, <3>4, <2>s DEF Over
  <2>10. CASE Returns
    BY <2>10, <2>6, <2>s DEF Returns, Over
  (* Raises and TimesOut fail the attempt.                                 *)
  <2>11. ASSUME Failed, phase = "calling", clock' = clock
         PROVE  Punctual'
    <3>1. /\ clock <= b + p + elapsed /\ elapsed <= Timeout
          /\ p \in Nat /\ q \in Nat /\ c \in Nat
          /\ q = p + Timeout + (IF attempt < MaxAttempts THEN c ELSE 0)
          /\ attempt <= MaxAttempts /\ model' = model
      BY <2>3, <2>2, <2>11, <1>d DEF Failed
    <3>2. CASE AttemptsLeft /\ phase' = "sleeping" /\ delay' \in Delays(attempt)
               /\ UNCHANGED attempt
      <4>1. (Before(model))' = b /\ (Used(attempt))' = q
        BY <3>1, <3>2
      <4>2. delay' \in (c \div 2)..c /\ attempt < MaxAttempts
        BY <3>2 DEF Delays, AttemptsLeft
      <4>3. clock' + delay' <= b + q /\ delay' >= 0
        <5> HIDE DEF b, p, q, c
        <5>1. c \div 2 \in Int /\ c \div 2 >= 0
          BY <3>1
        <5>2. delay' \in Int /\ delay' <= c /\ delay' >= c \div 2
          BY <4>2, <5>1, <3>1
        <5>3. q = p + Timeout + c
          BY <3>1, <4>2
        <5>4. delay' >= 0
          BY <5>1, <5>2
        <5>5. clock + delay' <= b + q
          <6> DEFINE d == delay'
          <6>1. d \in Int /\ d <= c /\ c \in Nat
            BY <5>2, <3>1
          <6>2. clock <= b + p + elapsed /\ elapsed <= Timeout /\ p \in Nat
            BY <3>1
          <6>3. b \in Int /\ clock \in Nat /\ elapsed \in Nat /\ Timeout \in Nat
            BY <2>1, <1>a
          <6> HIDE DEF d
          <6>4. clock + d <= b + q
            BY <6>1, <6>2, <6>3, <5>3
          <6> QED
            BY <6>4 DEF d
        <5> QED
          BY <5>4, <5>5, <2>11
      <4> QED
        BY <4>1, <4>3, <3>2, <2>s DEF Over
    <3>3. CASE ~AttemptsLeft /\ phase' = "next" /\ attempt' = attempt + 1
      <4>1. attempt = MaxAttempts /\ (attempt - 1)' = attempt
        BY <3>1, <3>3, <1>a DEF AttemptsLeft
      <4>2. (Before(model))' = b /\ (Used(attempt - 1))' = q
        BY <3>1, <4>1 DEF Used, Before
      <4>3. clock' <= b + q
        <5> HIDE DEF b, p, q, c
        <5>1. q = p + Timeout
          BY <3>1, <4>1, <1>a
        <5> QED
          BY <5>1, <3>1, <2>1, <2>11, <1>a
      <4> QED
        BY <4>2, <4>3, <3>3, <2>s DEF Over
    <3> QED
      BY <2>11, <3>2, <3>3 DEF Failed
  <2>12. CASE Raises
    BY <2>11, <2>12 DEF Raises
  <2>13. CASE TimesOut
    BY <2>11, <2>13, <1>b DEF TimesOut
  <2>14. CASE Unblocks
    BY <2>14, <1>c DEF Unblocks
  <2>15. CASE Cancelled
    BY <2>15, <2>6, <2>s DEF Cancelled, Over
  <2>16. CASE Tick
    <3>1. /\ phase' = phase /\ clock' = clock + 1 /\ UNCHANGED <<model, attempt>>
          /\ \/ phase = "calling" /\ elapsed' = elapsed + 1
             \/ phase = "sleeping" /\ delay > 0 /\ delay' = delay - 1
      BY <2>16, <1>c DEF Tick, position
    <3>2. (Before(model))' = b /\ (Used(attempt - 1))' = p /\ (Used(attempt))' = q
      BY <3>1
    <3>3. CASE phase = "calling" /\ elapsed' = elapsed + 1
      <4>1. clock <= b + p + elapsed /\ p \in Nat
        BY <3>3, <2>3, <2>2
      <4>2. clock' <= b + p + elapsed'
        <5> HIDE DEF b, p
        <5> QED
          BY <4>1, <3>1, <3>3, <2>1, <1>a
      <4> QED
        BY <4>2, <3>1, <3>2, <3>3, <2>s DEF Over
    <3>4. CASE phase = "sleeping" /\ delay > 0 /\ delay' = delay - 1
      <4>1. clock + delay <= b + q /\ q \in Nat
        BY <3>4, <2>3, <2>2, <1>d
      <4>2. clock' + delay' <= b + q /\ delay' >= 0
        <5> HIDE DEF b, q
        <5> QED
          BY <4>1, <3>1, <3>4, <2>1, <1>a
      <4> QED
        BY <4>2, <3>1, <3>2, <3>4, <2>s DEF Over
    <3> QED
      BY <3>1, <3>3, <3>4
  <2>17. CASE UNCHANGED vars
    <3>1. /\ UNCHANGED <<phase, clock, elapsed, delay, model, attempt>>
      BY <2>17 DEF vars, position
    <3> QED
      BY <3>1, <2>3, <2>6, <1>c, <2>s
  <2> QED
    BY <2>7, <2>8, <2>9, <2>10, <2>12, <2>13, <2>14, <2>15, <2>16, <2>17 DEF Next
<1> QED
  BY <1>a, <1>e, <1>f

(* A call of chat() takes no longer than its policy's timeouts and         *)
(* backoffs add up to, for every chain and every policy with a timeout     *)
(* (resilient_chat.py:61-90, policy.py delay_for).                         *)
THEOREM TimeIsWithinPolicy == Spec => []TimeWithinPolicy
<1>1. Spec => []Punctual
  BY InitPunctual, StepPunctual, CallInvariant, PTL DEF Spec
<1> QED
  BY <1>1, PunctualIsInTime, CallInvariant, PTL
=============================================================================
