------------------------- MODULE AnswerCacheProofs -------------------------
(***************************************************************************)
(* Proofs about AnswerCache, for any number of threads, any queries and    *)
(* similarities, and any threshold, bucket limit and TTL.                  *)
(***************************************************************************)
EXTENDS AnswerCache, FiniteSetTheorems, WellFoundedInduction, TLAPS

USE ScoreAssumption, BoundAssumption, WorkersAssumption

(***************************************************************************)
(* The inductive invariant.                                                *)
(***************************************************************************)
Threads == [pc: Pcs, query: Queries \cup {None}, scope: Scopes \cup {None},
            item: Items \cup {None}, value: Answers \cup {None}]

Shape ==
  /\ exact \in [Scopes \X Queries -> Items \cup {None}]
  /\ buckets \in [Scopes -> Seq(Entries)]
  /\ worker \in [Workers -> Threads]
  /\ clock \in 1..MaxClock /\ answers \in 0..MaxAnswers

(* What the caches hold answers their key: an item of the exact cache its  *)
(* scope and query, an entry of a bucket the bucket's scope and its query. *)
ItemsFit ==
  \A s \in Scopes, q \in Queries :
    LET item == exact[<<s, q>>]
    IN item # None => item.value.scope = s /\ item.value.query = q

EntriesFit ==
  \A s \in Scopes :
    \A i \in 1..Len(buckets[s]) :
      /\ buckets[s][i].value.scope = s
      /\ buckets[s][i].value.query = buckets[s][i].query

(* A thread at work has a question; what it has read, or is about to       *)
(* store, answers that question; what it serves, that or a close one.      *)
Sound(me) ==
  /\ me.pc # "idle" => me.query \in Queries /\ me.scope \in Scopes
  /\ me.pc = "check" => /\ me.item \in Items
                        /\ me.item.value.scope = me.scope
                        /\ me.item.value.query = me.query
  /\ me.pc \in {"set", "scan", "append"}
       => /\ me.value \in Answers
          /\ me.value.scope = me.scope
          /\ me.value.query = me.query
  /\ me.pc = "hit"
       => /\ me.value.scope = me.scope
          /\ \/ me.value.query = me.query
             \/ Score[me.query, me.value.query] >= Threshold

CacheInv == /\ Shape /\ ItemsFit /\ EntriesFit
            /\ \A w \in Workers : Sound(worker[w])

(***************************************************************************)
(* Choices the code makes by scanning a list.                              *)
(***************************************************************************)

(* A nonempty set of numbers has a least one.                              *)
LEMMA LeastExists ==
  ASSUME NEW S \in SUBSET Nat, S # {}
  PROVE  \E m \in S : \A n \in S : m <= n
<1>1. PICK m \in S : \A n \in S : ~(<<n, m>> \in OpToRel(<, Nat))
  BY WFMin, NatLessThanWellFounded, Zenon
<1>2. \A n \in S : ~(n < m)
  BY <1>1 DEF OpToRel
<1>3. QED
  BY <1>2

(* A cosine is a number, in hundredths at most 100.                        *)
LEMMA ScoreBounded ==
  ASSUME NEW q \in Queries, NEW p \in Queries
  PROVE  Score[q, p] \in Int /\ Score[q, p] <= 100
<1>1. Score[q, p] \in -100..100
  OBVIOUS
<1> DEFINE n == Score[q, p]
<1> HIDE DEF n
<1>2. n \in -100..100 => n \in Int /\ n <= 100
  OBVIOUS
<1>3. QED
  BY <1>1, <1>2 DEF n

(* The scan of a bucket for the best entry ends at one of its entries:     *)
(* the first with the best score.                                          *)
LEMMA BestIsThere ==
  ASSUME NEW q \in Queries, NEW bucket \in Seq(Entries), bucket # <<>>
  PROVE  BestEntry(q, bucket) \in 1..Len(bucket)
<1> DEFINE score == [i \in 1..Len(bucket) |-> Score[q, bucket[i].query]]
           gaps == {100 - score[i] : i \in 1..Len(bucket)}
<1>0. \A i \in 1..Len(bucket) : score[i] = Score[q, bucket[i].query]
  OBVIOUS
<1>1. \A i \in 1..Len(bucket) : score[i] \in Int /\ score[i] <= 100
  <2> SUFFICES ASSUME NEW i \in 1..Len(bucket)
               PROVE  score[i] \in Int /\ score[i] <= 100
    OBVIOUS
  <2>1. bucket[i] \in Entries
    OBVIOUS
  <2>2. bucket[i].query \in Queries
    BY <2>1 DEF Entries
  <2>3. QED
    BY <2>2, ScoreBounded
<1>2. 1 \in 1..Len(bucket)
  OBVIOUS
<1> HIDE DEF score
<1>3. gaps \in SUBSET Nat /\ gaps # {}
  BY <1>1, <1>2
<1>4. PICK g \in gaps : \A h \in gaps : g <= h
  BY <1>3, LeastExists
<1>5. PICK b \in 1..Len(bucket) : g = 100 - score[b]
  OBVIOUS
<1>6. \A j \in 1..Len(bucket) : score[j] <= score[b]
  <2> SUFFICES ASSUME NEW j \in 1..Len(bucket) PROVE score[j] <= score[b]
    OBVIOUS
  <2>1. 100 - score[b] <= 100 - score[j]
    BY <1>4, <1>5
  <2>2. QED
    BY <1>1, <2>1
<1> DEFINE firsts == {i \in 1..Len(bucket) : score[i] = score[b]}
<1>7. firsts \in SUBSET Nat /\ firsts # {}
  OBVIOUS
<1>8. PICK m \in firsts : \A i \in firsts : m <= i
  BY <1>7, LeastExists
<1>9. \A j \in 1..Len(bucket) :
        score[j] < score[m] \/ (score[j] = score[m] /\ m <= j)
  <2> SUFFICES ASSUME NEW j \in 1..Len(bucket)
               PROVE score[j] < score[m] \/ (score[j] = score[m] /\ m <= j)
    OBVIOUS
  <2>1. CASE j \in firsts
    BY <1>8, <2>1
  <2>2. CASE j \notin firsts
    BY <1>1, <1>6, <1>8, <2>2
  <2>3. QED
    BY <2>1, <2>2
<1>10. QED
  BY <1>0, <1>8, <1>9 DEF BestEntry

(***************************************************************************)
(* What a step must show.                                                  *)
(***************************************************************************)

(* A thread that moves to a sound state, and leaves the caches fitting,    *)
(* keeps the invariant.                                                    *)
LEMMA MoveFits ==
  ASSUME CacheInv, NEW w \in Workers, NEW next \in Threads, Sound(next),
         worker' = [worker EXCEPT ![w] = next],
         exact' \in [Scopes \X Queries -> Items \cup {None}], ItemsFit',
         buckets' \in [Scopes -> Seq(Entries)], EntriesFit',
         clock' = clock, answers' \in 0..MaxAnswers
  PROVE  CacheInv'
<1>1. Shape'
  BY DEF CacheInv, Shape
<1>2. ASSUME NEW x \in Workers PROVE Sound(worker'[x])
  <2>1. worker'[x] = IF x = w THEN next ELSE worker[x]
    BY DEF CacheInv, Shape
  <2>2. CASE x = w
    BY <2>1, <2>2
  <2>3. CASE x # w
    BY <2>1, <2>3 DEF CacheInv
  <2>4. QED
    BY <2>2, <2>3
<1>3. (\A x \in Workers : Sound(worker[x]))'
  BY <1>2 DEF Sound
<1>4. QED
  BY <1>1, <1>3 DEF CacheInv

(* The caches a step leaves alone still fit.                               *)
LEMMA ExactKept ==
  ASSUME CacheInv, exact' = exact
  PROVE  exact' \in [Scopes \X Queries -> Items \cup {None}] /\ ItemsFit'
BY DEF CacheInv, Shape, ItemsFit

LEMMA BucketsKept ==
  ASSUME CacheInv, buckets' = buckets
  PROVE  buckets' \in [Scopes -> Seq(Entries)] /\ EntriesFit'
BY DEF CacheInv, Shape, EntriesFit

(* Where Goto and Serve take a thread.                                     *)
LEMMA GoneTo ==
  ASSUME CacheInv, NEW w \in Workers, NEW at \in Pcs, Goto(w, at)
  PROVE  \E next \in Threads :
           /\ worker' = [worker EXCEPT ![w] = next]
           /\ next.pc = at
           /\ next.query = worker[w].query /\ next.scope = worker[w].scope
           /\ next.value = worker[w].value
<1> DEFINE next == [worker[w] EXCEPT !.pc = at, !.item = None]
<1>1. worker' = [worker EXCEPT ![w] = next]
  BY DEF Goto, CacheInv, Shape
<1>2. worker[w] \in Threads
  BY DEF CacheInv, Shape
<1>3. /\ next \in Threads /\ next.pc = at
      /\ next.query = worker[w].query /\ next.scope = worker[w].scope
      /\ next.value = worker[w].value
  BY <1>2 DEF Threads
<1> HIDE DEF next
<1>4. QED
  BY <1>1, <1>3

LEMMA Served ==
  ASSUME CacheInv, NEW w \in Workers, NEW value \in Answers, Serve(w, value)
  PROVE  \E next \in Threads :
           /\ worker' = [worker EXCEPT ![w] = next]
           /\ next.pc = "hit"
           /\ next.query = worker[w].query /\ next.scope = worker[w].scope
           /\ next.value = value
<1> DEFINE next == [worker[w] EXCEPT !.pc = "hit", !.item = None,
                                    !.value = value]
<1>1. worker' = [worker EXCEPT ![w] = next]
  BY DEF Serve, CacheInv, Shape
<1>2. worker[w] \in Threads
  BY DEF CacheInv, Shape
<1>3. /\ next \in Threads /\ next.pc = "hit"
      /\ next.query = worker[w].query /\ next.scope = worker[w].scope
      /\ next.value = value
  BY <1>2 DEF Threads, Pcs
<1> HIDE DEF next
<1>4. QED
  BY <1>1, <1>3

(* A thread that is not idle knows whose question it has.                  *)
LEMMA AtWork ==
  ASSUME CacheInv, NEW w \in Workers, worker[w].pc # "idle"
  PROVE  /\ worker[w] \in Threads /\ Sound(worker[w])
         /\ worker[w].query \in Queries /\ worker[w].scope \in Scopes
         /\ Key(w) \in Scopes \X Queries
BY DEF CacheInv, Shape, Sound, Key

(***************************************************************************)
(* MemoryCache.                                                            *)
(***************************************************************************)

(* A thread asks.                                                          *)
LEMMA AskFits ==
  ASSUME CacheInv, NEW w \in Workers, NEW q \in Queries, NEW s \in Scopes,
         Ask(w, q, s)
  PROVE  CacheInv'
<1> DEFINE next == [Idle EXCEPT !.pc = "read", !.query = q, !.scope = s]
<1>1. /\ next \in Threads
      /\ next.pc = "read" /\ next.query = q /\ next.scope = s
  BY DEF Idle, Threads, Pcs
<1>2. /\ UNCHANGED <<exact, buckets, clock, answers>>
      /\ worker' = [worker EXCEPT ![w] = next]
  BY DEF Ask
<1> HIDE DEF next
<1>3. Sound(next)
  BY <1>1 DEF Sound
<1>4. answers' \in 0..MaxAnswers
  BY <1>2 DEF CacheInv, Shape
<1>5. QED
  BY <1>1, <1>2, <1>3, <1>4, MoveFits, ExactKept, BucketsKept

(* MemoryCache.get reads the item of its own key.                          *)
LEMMA ReadExactFits ==
  ASSUME CacheInv, NEW w \in Workers, ReadExact(w)
  PROVE  CacheInv'
<1> DEFINE item == exact[Key(w)]
           next == [worker[w] EXCEPT !.item = item,
                      !.pc = IF item = None THEN "near" ELSE "check"]
<1>1. worker[w].pc # "idle"
  BY DEF ReadExact
<1>2. item \in Items \cup {None}
  BY <1>1, AtWork DEF CacheInv, Shape
<1>3. item # None => /\ item \in Items
                     /\ item.value.scope = worker[w].scope
                     /\ item.value.query = worker[w].query
  BY <1>1, <1>2, AtWork DEF CacheInv, ItemsFit, Key
<1>4. worker' = [worker EXCEPT ![w] = next]
  BY DEF ReadExact, CacheInv, Shape
<1> HIDE DEF item
<1>5. /\ next \in Threads
      /\ next.pc = IF item = None THEN "near" ELSE "check"
      /\ next.item = item
      /\ next.query = worker[w].query /\ next.scope = worker[w].scope
  <2>1. worker[w] \in Threads
    BY <1>1, AtWork
  <2>2. /\ next.pc = IF item = None THEN "near" ELSE "check"
        /\ next.item = item
        /\ next.query = worker[w].query /\ next.scope = worker[w].scope
    BY <2>1 DEF Threads
  <2>3. next \in Threads
    <3> DEFINE at == IF item = None THEN "near" ELSE "check"
    <3>1. at \in Pcs
      BY DEF Pcs
    <3> HIDE DEF at
    <3>2. \A t \in Threads : [t EXCEPT !.item = item, !.pc = at] \in Threads
      BY <1>2, <3>1 DEF Threads
    <3>3. QED
      BY <2>1, <3>2 DEF at
  <2>4. QED
    BY <2>2, <2>3
<1> HIDE DEF next
<1>6. Sound(next)
  BY <1>1, <1>3, <1>5, AtWork DEF Sound
<1>7. UNCHANGED <<exact, buckets, clock, answers>> /\ answers' \in 0..MaxAnswers
  BY DEF ReadExact, CacheInv, Shape
<1>8. QED
  BY <1>4, <1>5, <1>6, <1>7, MoveFits, ExactKept, BucketsKept

(* It serves what it read, or finds it expired.                            *)
LEMMA CheckExactFits ==
  ASSUME CacheInv, NEW w \in Workers, CheckExact(w)
  PROVE  CacheInv'
<1> DEFINE value == worker[w].item.value
<1>1. /\ worker[w].pc # "idle" /\ worker[w].pc = "check"
      /\ UNCHANGED <<exact, buckets, clock, answers>>
      /\ answers' \in 0..MaxAnswers
  BY DEF CheckExact, CacheInv, Shape
<1>2. /\ value \in Answers
      /\ value.scope = worker[w].scope /\ value.query = worker[w].query
  BY <1>1, AtWork DEF Sound, Items
<1>3. Goto(w, "delete") \/ Serve(w, value)
  BY DEF CheckExact
<1> HIDE DEF value
<1>4. CASE Goto(w, "delete")
  <2>1. PICK next \in Threads :
          /\ worker' = [worker EXCEPT ![w] = next]
          /\ next.pc = "delete"
          /\ next.query = worker[w].query /\ next.scope = worker[w].scope
    BY <1>4, GoneTo DEF Pcs
  <2>2. Sound(next)
    BY <1>1, <2>1, AtWork DEF Sound
  <2>3. QED
    BY <1>1, <2>1, <2>2, MoveFits, ExactKept, BucketsKept
<1>5. CASE Serve(w, value)
  <2>1. PICK next \in Threads :
          /\ worker' = [worker EXCEPT ![w] = next]
          /\ next.pc = "hit" /\ next.value = value
          /\ next.query = worker[w].query /\ next.scope = worker[w].scope
    BY <1>2, <1>5, Served
  <2>2. Sound(next)
    BY <1>1, <1>2, <2>1, AtWork DEF Sound
  <2>3. QED
    BY <1>1, <2>1, <2>2, MoveFits, ExactKept, BucketsKept
<1>6. QED
  BY <1>3, <1>4, <1>5

(* Deleting an item leaves the others, whoever deleted it first.           *)
LEMMA DeleteExactFits ==
  ASSUME CacheInv, NEW w \in Workers, DeleteExact(w)
  PROVE  CacheInv'
<1>1. /\ worker[w].pc # "idle"
      /\ UNCHANGED <<buckets, clock, answers>>
      /\ answers' \in 0..MaxAnswers
  BY DEF DeleteExact, CacheInv, Shape
<1>2. PICK at \in {"failed", "near"} : Goto(w, at)
  BY DEF DeleteExact
<1>3. PICK next \in Threads :
        /\ worker' = [worker EXCEPT ![w] = next]
        /\ next.pc = at
        /\ next.query = worker[w].query /\ next.scope = worker[w].scope
  BY <1>2, GoneTo DEF Pcs
<1>4. Sound(next)
  BY <1>1, <1>3, AtWork DEF Sound
<1>5. exact' = [exact EXCEPT ![Key(w)] = None]
  BY DEF DeleteExact
<1>6. exact' \in [Scopes \X Queries -> Items \cup {None}] /\ ItemsFit'
  <2>1. exact \in [Scopes \X Queries -> Items \cup {None}] /\ ItemsFit
    BY DEF CacheInv, Shape
  <2>2. exact' \in [Scopes \X Queries -> Items \cup {None}]
    BY <1>5, <2>1
  <2>3. \A k \in Scopes \X Queries : exact'[k] = None \/ exact'[k] = exact[k]
    BY <1>5, <2>1
  <2>4. ItemsFit'
    BY <2>1, <2>3 DEF ItemsFit
  <2>5. QED
    BY <2>2, <2>4
<1>7. QED
  BY <1>1, <1>3, <1>4, <1>6, MoveFits, BucketsKept

(* MemoryCache.set keeps an answer under the key it answers.               *)
LEMMA SetExactFits ==
  ASSUME CacheInv, NEW w \in Workers, SetExact(w)
  PROVE  CacheInv'
<1> DEFINE expires == IF TTL = 0 THEN Never ELSE clock + TTL
           item == [value |-> worker[w].value, expires |-> expires]
<1>1. /\ worker[w].pc # "idle" /\ worker[w].pc = "set"
      /\ UNCHANGED <<buckets, clock, answers>>
      /\ answers' \in 0..MaxAnswers
  BY DEF SetExact, CacheInv, Shape
<1>2. /\ worker[w].value \in Answers
      /\ worker[w].value.scope = worker[w].scope
      /\ worker[w].value.query = worker[w].query
  BY <1>1, AtWork DEF Sound
<1>3. expires \in 0..(MaxClock + TTL)
  BY DEF CacheInv, Shape, Never
<1>4. exact' = [exact EXCEPT ![Key(w)] = item]
  BY DEF SetExact
<1> HIDE DEF expires
<1>5. item \in Items /\ item.value = worker[w].value
  BY <1>2, <1>3 DEF Items
<1> HIDE DEF item
<1>6. exact' \in [Scopes \X Queries -> Items \cup {None}]
  BY <1>4, <1>5 DEF CacheInv, Shape
<1>7. ASSUME NEW s \in Scopes, NEW q \in Queries, exact'[<<s, q>>] # None
      PROVE  /\ exact'[<<s, q>>].value.scope = s
             /\ exact'[<<s, q>>].value.query = q
  <2>1. CASE <<s, q>> = Key(w)
    <3>1. exact'[<<s, q>>] = item /\ s = worker[w].scope /\ q = worker[w].query
      BY <1>4, <2>1 DEF CacheInv, Shape, Key
    <3>2. QED
      BY <1>2, <1>5, <3>1
  <2>2. CASE <<s, q>> # Key(w)
    <3>1. exact'[<<s, q>>] = exact[<<s, q>>]
      BY <1>4, <2>2 DEF CacheInv, Shape
    <3>2. QED
      BY <1>7, <3>1 DEF CacheInv, ItemsFit
  <2>3. QED
    BY <2>1, <2>2
<1>8. ItemsFit'
  BY <1>7 DEF ItemsFit
<1>9. PICK next \in Threads :
        /\ worker' = [worker EXCEPT ![w] = next]
        /\ next.pc = "scan" /\ next.value = worker[w].value
        /\ next.query = worker[w].query /\ next.scope = worker[w].scope
  BY GoneTo DEF SetExact, Pcs
<1>10. Sound(next)
  BY <1>1, <1>2, <1>9, AtWork DEF Sound
<1>11. QED
  BY <1>1, <1>6, <1>8, <1>9, <1>10, MoveFits, BucketsKept

(***************************************************************************)
(* SemanticCache.                                                          *)
(***************************************************************************)

(* A near hit is an entry of the caller's bucket, and near.                *)
LEMMA LookNearFits ==
  ASSUME CacheInv, NEW w \in Workers, LookNear(w)
  PROVE  CacheInv'
<1> DEFINE q == worker[w].query
           s == worker[w].scope
           best == buckets[s][BestEntry(q, buckets[s])]
<1>1. /\ worker[w].pc # "idle"
      /\ UNCHANGED <<exact, buckets, clock, answers>>
      /\ answers' \in 0..MaxAnswers
  BY DEF LookNear, CacheInv, Shape
<1>2. q \in Queries /\ s \in Scopes /\ buckets[s] \in Seq(Entries)
  BY <1>1, AtWork DEF CacheInv, Shape
<1>3. CASE buckets[s] # <<>> /\ NearEnough(Score[q, best.query])
           /\ Serve(w, best.value)
  <2>1. BestEntry(q, buckets[s]) \in 1..Len(buckets[s])
    BY <1>2, <1>3, BestIsThere
  <2>2. /\ best.value.scope = s /\ best.value.query = best.query
    BY <1>2, <2>1 DEF CacheInv, EntriesFit
  <2>3. best \in Entries
    BY <1>2, <2>1
  <2>4. best.value \in Answers
    BY <2>3 DEF Entries
  <2>5. Score[q, best.value.query] >= Threshold
    BY <1>3, <2>2 DEF NearEnough
  <2>6. Serve(w, best.value)
    BY <1>3
  <2> HIDE DEF best
  <2>7. PICK next \in Threads :
          /\ worker' = [worker EXCEPT ![w] = next]
          /\ next.pc = "hit" /\ next.value = best.value
          /\ next.query = q /\ next.scope = s
    BY <2>4, <2>6, Served
  <2>8. Sound(next)
    BY <1>2, <2>2, <2>5, <2>7 DEF Sound
  <2>9. QED
    BY <1>1, <2>7, <2>8, MoveFits, ExactKept, BucketsKept
<1>4. CASE Goto(w, "generate")
  <2>1. PICK next \in Threads :
          /\ worker' = [worker EXCEPT ![w] = next]
          /\ next.pc = "generate"
          /\ next.query = worker[w].query /\ next.scope = worker[w].scope
    BY <1>4, GoneTo DEF Pcs
  <2>2. Sound(next)
    BY <1>1, <2>1, AtWork DEF Sound
  <2>3. QED
    BY <1>1, <2>1, <2>2, MoveFits, ExactKept, BucketsKept
<1>5. QED
  BY <1>3, <1>4 DEF LookNear, Bucket

(* An answer is generated for the question, or there is none.              *)
LEMMA GenerateFits ==
  ASSUME CacheInv, NEW w \in Workers, Generate(w)
  PROVE  CacheInv'
<1> DEFINE value == [n |-> answers', query |-> worker[w].query,
                     scope |-> worker[w].scope]
           next == [worker[w] EXCEPT !.pc = "set", !.value = value]
<1>1. /\ worker[w].pc # "idle"
      /\ UNCHANGED <<exact, buckets, clock>>
      /\ answers' \in 1..MaxAnswers
  BY DEF Generate, CacheInv, Shape
<1>2. answers' \in 0..MaxAnswers
  BY <1>1
<1>3. /\ value \in Answers
      /\ value.scope = worker[w].scope /\ value.query = worker[w].query
  BY <1>1, AtWork DEF Answers
<1>4. CASE worker' = [worker EXCEPT ![w].pc = "set", ![w].value = value]
  <2>1. worker' = [worker EXCEPT ![w] = next]
    BY <1>4 DEF CacheInv, Shape
  <2> HIDE DEF value
  <2>2. /\ next \in Threads /\ next.pc = "set" /\ next.value = value
        /\ next.query = worker[w].query /\ next.scope = worker[w].scope
    <3>1. worker[w] \in Threads /\ value \in Answers
      BY <1>1, <1>3, AtWork
    <3>2. QED
      BY <3>1 DEF Threads, Pcs
  <2> HIDE DEF next
  <2>3. Sound(next)
    BY <1>1, <1>3, <2>2, AtWork DEF Sound
  <2>4. QED
    BY <1>1, <1>2, <2>1, <2>2, <2>3, MoveFits, ExactKept, BucketsKept
<1>5. CASE worker' = [worker EXCEPT ![w] = Idle]
  <2>1. Idle \in Threads /\ Sound(Idle)
    BY DEF Idle, Threads, Pcs, Sound
  <2>2. QED
    BY <1>1, <1>2, <1>5, <2>1, MoveFits, ExactKept, BucketsKept
<1>6. QED
  BY <1>4, <1>5 DEF Generate

(* A bucket whose entries fit its scope.                                   *)
Fitting(s, bucket) ==
  \A i \in 1..Len(bucket) : /\ bucket[i].value.scope = s
                            /\ bucket[i].value.query = bucket[i].query

(* Replacing a bucket by one that fits keeps all of them fitting.          *)
LEMMA BucketFits ==
  ASSUME CacheInv, NEW s \in Scopes, NEW bucket \in Seq(Entries),
         Fitting(s, bucket), buckets' = [buckets EXCEPT ![s] = bucket]
  PROVE  buckets' \in [Scopes -> Seq(Entries)] /\ EntriesFit'
<1>1. buckets' \in [Scopes -> Seq(Entries)]
  BY DEF CacheInv, Shape
<1>2. ASSUME NEW x \in Scopes PROVE Fitting(x, buckets'[x])
  <2>1. CASE x = s
    <3>1. buckets'[x] = bucket
      BY <2>1 DEF CacheInv, Shape
    <3>2. QED
      BY <2>1, <3>1
  <2>2. CASE x # s
    <3>1. buckets'[x] = buckets[x]
      BY <2>2 DEF CacheInv, Shape
    <3>2. QED
      BY <3>1 DEF CacheInv, EntriesFit, Fitting
  <2>3. QED
    BY <2>1, <2>2
<1>3. QED
  BY <1>1, <1>2 DEF EntriesFit, Fitting

(* The first entry of the query is updated, if there is one.               *)
LEMMA ScanUpdates ==
  ASSUME CacheInv, NEW w \in Workers, ScanBucket(w)
  PROVE  \/ Goto(w, "append") /\ buckets' = buckets
         \/ \E new \in Seq(Entries) :
              /\ buckets' = [buckets EXCEPT ![worker[w].scope] = new]
              /\ Len(new) = Len(buckets[worker[w].scope])
              /\ Fitting(worker[w].scope, new)
              /\ worker' = [worker EXCEPT ![w] = Idle]
<1> DEFINE s == worker[w].scope
           old == buckets[s]
           same == {i \in 1..Len(old) : Same(w, i)}
           first == CHOOSE i \in same : \A j \in same : i <= j
           value == worker[w].value
<1>1. worker[w].pc # "idle" /\ worker[w].pc = "scan"
  BY DEF ScanBucket
<1>2. /\ s \in Scopes /\ old \in Seq(Entries) /\ value \in Answers
      /\ value.scope = s /\ value.query = worker[w].query
  BY <1>1, AtWork DEF Sound, CacheInv, Shape
<1>3. CASE /\ same # {}
           /\ buckets' = [buckets EXCEPT ![s][first].value = value]
           /\ worker' = [worker EXCEPT ![w] = Idle]
  <2>1. first \in same
    <3>1. same \in SUBSET Nat
      OBVIOUS
    <3>2. \E i \in same : \A j \in same : i <= j
      BY <1>3, <3>1, LeastExists
    <3>3. QED
      BY <3>2
  <2>2. first \in 1..Len(old) /\ old[first].query = worker[w].query
    BY <2>1 DEF Same, Bucket
  <2> DEFINE new == [old EXCEPT ![first].value = value]
  <2>3. buckets' = [buckets EXCEPT ![s] = new]
    BY <1>2, <1>3 DEF CacheInv, Shape
  <2> HIDE DEF first
  <2>4. \A i \in 1..Len(old) : old[i] \in Entries
    BY <1>2
  <2>5. new \in Seq(Entries) /\ Len(new) = Len(old)
    BY <1>2, <2>2, <2>4 DEF Entries
  <2>6. Fitting(s, new)
    <3> SUFFICES ASSUME NEW i \in 1..Len(old)
                 PROVE /\ new[i].value.scope = s
                       /\ new[i].value.query = new[i].query
      BY <2>5 DEF Fitting
    <3>1. CASE i = first
      <4>1. /\ new[i].value = value /\ new[i].query = old[i].query
        BY <1>2, <2>2, <2>4, <3>1 DEF Entries
      <4>2. QED
        BY <1>2, <2>2, <3>1, <4>1
    <3>2. CASE i # first
      <4>1. new[i] = old[i]
        BY <1>2, <3>2
      <4>2. old[i].value.scope = s /\ old[i].value.query = old[i].query
        <5> HIDE DEF s
        <5>1. QED
          BY <1>2 DEF CacheInv, EntriesFit
      <4> HIDE DEF new
      <4>3. QED
        BY <4>1, <4>2
    <3>3. QED
      BY <3>1, <3>2
  <2> HIDE DEF new
  <2>7. QED
    BY <1>3, <2>3, <2>5, <2>6
<1>4. QED
  BY <1>3 DEF ScanBucket, Bucket

LEMMA ScanBucketFits ==
  ASSUME CacheInv, NEW w \in Workers, ScanBucket(w)
  PROVE  CacheInv'
<1> DEFINE s == worker[w].scope
<1>1. /\ worker[w].pc # "idle" /\ worker[w].pc = "scan"
      /\ UNCHANGED <<exact, clock, answers>>
      /\ answers' \in 0..MaxAnswers
  BY DEF ScanBucket, CacheInv, Shape
<1>2. CASE \E new \in Seq(Entries) :
             /\ buckets' = [buckets EXCEPT ![s] = new]
             /\ Fitting(s, new)
             /\ worker' = [worker EXCEPT ![w] = Idle]
  <2>1. Idle \in Threads /\ Sound(Idle)
    BY DEF Idle, Threads, Pcs, Sound
  <2>2. buckets' \in [Scopes -> Seq(Entries)] /\ EntriesFit'
    BY <1>1, <1>2, AtWork, BucketFits
  <2>3. QED
    BY <1>1, <1>2, <2>1, <2>2, MoveFits, ExactKept
<1>3. CASE Goto(w, "append") /\ buckets' = buckets
  <2>1. PICK next \in Threads :
          /\ worker' = [worker EXCEPT ![w] = next]
          /\ next.pc = "append" /\ next.value = worker[w].value
          /\ next.query = worker[w].query /\ next.scope = worker[w].scope
    BY <1>3, GoneTo DEF Pcs
  <2>2. Sound(next)
    BY <1>1, <2>1, AtWork DEF Sound
  <2>3. QED
    BY <1>1, <1>3, <2>1, <2>2, MoveFits, ExactKept, BucketsKept
<1>4. QED
  BY <1>2, <1>3, ScanUpdates

(* An answer is appended to the bucket of its scope.                       *)
LEMMA AppendEntryFits ==
  ASSUME CacheInv, NEW w \in Workers, AppendEntry(w)
  PROVE  CacheInv'
<1> DEFINE s == worker[w].scope
           old == buckets[s]
           entry == [query |-> worker[w].query, value |-> worker[w].value]
           new == Append(old, entry)
<1>1. /\ worker[w].pc # "idle" /\ worker[w].pc = "append"
      /\ UNCHANGED <<exact, clock, answers>>
      /\ answers' \in 0..MaxAnswers
  BY DEF AppendEntry, CacheInv, Shape
<1>2. /\ s \in Scopes /\ old \in Seq(Entries)
      /\ worker[w].query \in Queries /\ worker[w].value \in Answers
      /\ worker[w].value.scope = s
      /\ worker[w].value.query = worker[w].query
  BY <1>1, AtWork DEF Sound, CacheInv, Shape
<1>3. /\ entry \in Entries /\ entry.value.scope = s
      /\ entry.value.query = entry.query
  BY <1>2 DEF Entries
<1>4. buckets' = [buckets EXCEPT ![s] = new]
  BY DEF AppendEntry, Bucket
<1> HIDE DEF entry
<1>5. /\ new \in Seq(Entries) /\ Len(new) = Len(old) + 1
      /\ new[Len(old) + 1] = entry
      /\ \A i \in 1..Len(old) : new[i] = old[i]
  BY <1>2, <1>3
<1> HIDE DEF new
<1>6. Fitting(s, new)
  <2> SUFFICES ASSUME NEW i \in 1..Len(new)
               PROVE /\ new[i].value.scope = s
                     /\ new[i].value.query = new[i].query
    BY DEF Fitting
  <2>1. CASE i = Len(old) + 1
    BY <1>3, <1>5, <2>1
  <2>2. CASE i # Len(old) + 1
    <3>1. i \in 1..Len(old)
      BY <1>2, <1>5, <2>2
    <3>2. old[i].value.scope = s /\ old[i].value.query = old[i].query
      <4> HIDE DEF s
      <4>1. QED
        BY <1>2, <3>1 DEF CacheInv, EntriesFit
    <3>3. new[i] = old[i]
      BY <1>5, <3>1
    <3>4. QED
      BY <3>2, <3>3
  <2>3. QED
    BY <2>1, <2>2
<1>7. buckets' \in [Scopes -> Seq(Entries)] /\ EntriesFit'
  BY <1>2, <1>4, <1>5, <1>6, BucketFits
<1>8. PICK next \in Threads :
        /\ worker' = [worker EXCEPT ![w] = next]
        /\ next.pc = "evict"
        /\ next.query = worker[w].query /\ next.scope = worker[w].scope
  BY GoneTo DEF AppendEntry, Pcs
<1>9. Sound(next)
  BY <1>1, <1>8, AtWork DEF Sound
<1>10. QED
  BY <1>1, <1>7, <1>8, <1>9, MoveFits, ExactKept

(* The oldest entry of a bucket that is too long goes.                     *)
LEMMA EvictEntryFits ==
  ASSUME CacheInv, NEW w \in Workers, EvictEntry(w)
  PROVE  CacheInv'
<1> DEFINE s == worker[w].scope
           old == buckets[s]
<1>1. /\ worker[w].pc # "idle"
      /\ UNCHANGED <<exact, clock, answers>>
      /\ answers' \in 0..MaxAnswers
      /\ worker' = [worker EXCEPT ![w] = Idle]
  BY DEF EvictEntry, CacheInv, Shape
<1>2. /\ s \in Scopes /\ old \in Seq(Entries)
  BY <1>1, AtWork DEF CacheInv, Shape
<1>3. Idle \in Threads /\ Sound(Idle)
  BY DEF Idle, Threads, Pcs, Sound
<1>4. CASE Len(old) > MaxEntries /\ buckets' = [buckets EXCEPT ![s] = Tail(@)]
  <2> DEFINE new == Tail(old)
  <2>1. /\ new \in Seq(Entries) /\ Len(new) = Len(old) - 1
        /\ \A i \in 1..Len(new) : new[i] = old[i + 1] /\ i + 1 \in 1..Len(old)
    BY <1>2, <1>4
  <2>2. buckets' = [buckets EXCEPT ![s] = new]
    BY <1>4
  <2> HIDE DEF new
  <2>3. Fitting(s, new)
    <3>1. \A i \in 1..Len(old) : old[i].value.scope = s
                                 /\ old[i].value.query = old[i].query
      BY <1>2 DEF CacheInv, EntriesFit
    <3> HIDE DEF s, old
    <3>2. QED
      BY <2>1, <3>1 DEF Fitting
  <2>4. buckets' \in [Scopes -> Seq(Entries)] /\ EntriesFit'
    BY <1>2, <2>1, <2>2, <2>3, BucketFits
  <2>5. QED
    BY <1>1, <1>3, <2>4, MoveFits, ExactKept
<1>5. CASE buckets' = buckets
  BY <1>1, <1>3, <1>5, MoveFits, ExactKept, BucketsKept
<1>6. QED
  BY <1>4, <1>5 DEF EvictEntry, Bucket, Overflows

(***************************************************************************)
(* The invariant and the properties.                                       *)
(***************************************************************************)

(* The caches are empty at first, and no thread is at work.                *)
LEMMA InitFits == Init => CacheInv
<1> SUFFICES ASSUME Init PROVE CacheInv
  OBVIOUS
<1>1. Idle \in Threads /\ Sound(Idle)
  BY DEF Idle, Threads, Pcs, Sound
<1>2. Shape
  <2>1. buckets \in [Scopes -> Seq(Entries)]
    BY DEF Init
  <2>2. QED
    BY <1>1, <2>1 DEF Init, Shape
<1>3. ItemsFit /\ EntriesFit
  BY DEF Init, ItemsFit, EntriesFit
<1>4. QED
  BY <1>1, <1>2, <1>3 DEF Init, CacheInv

(* Every step keeps them so.                                               *)
LEMMA NextFits == CacheInv /\ [Next]_vars => CacheInv'
<1> SUFFICES ASSUME CacheInv, [Next]_vars PROVE CacheInv'
  OBVIOUS
<1>1. ASSUME NEW w \in Workers, Step(w) PROVE CacheInv'
  BY <1>1, AskFits, ReadExactFits, CheckExactFits, DeleteExactFits,
     LookNearFits, GenerateFits, SetExactFits, ScanBucketFits,
     AppendEntryFits, EvictEntryFits DEF Step
<1>2. ASSUME UNCHANGED <<exact, buckets, worker, answers>>,
             clock' \in 1..MaxClock
      PROVE  CacheInv'
  <2>1. Shape'
    BY <1>2 DEF CacheInv, Shape
  <2>2. (\A w \in Workers : Sound(worker[w]))'
    BY <1>2 DEF CacheInv, Sound
  <2>3. QED
    BY <1>2, <2>1, <2>2, ExactKept, BucketsKept DEF CacheInv
<1>3. CASE Tick
  BY <1>2, <1>3 DEF Tick, CacheInv, Shape
<1>4. CASE UNCHANGED vars
  BY <1>2, <1>4 DEF vars, CacheInv, Shape
<1>5. QED
  BY <1>1, <1>3, <1>4 DEF Next

LEMMA CacheInvariant == Spec => []CacheInv
BY InitFits, NextFits, PTL DEF Spec

(* Whatever the threads do to the caches between each other's reads and    *)
(* writes, a hit was generated for the caller's scope and for the question *)
(* asked, or one within the threshold (semantic.py:28-31).                 *)
THEOREM HitsAlwaysFit == Spec => []HitsFit
<1>1. CacheInv => HitsFit
  BY DEF CacheInv, Sound, HitsFit
<1>2. QED
  BY <1>1, CacheInvariant, PTL

(***************************************************************************)
(* The bound on the buckets.                                               *)
(***************************************************************************)

(* The threads that have appended to a bucket and are about to evict.      *)
Evicting(s) == {w \in Workers : worker[w].pc = "evict" /\ worker[w].scope = s}

LEMMA EvictingCount ==
  ASSUME NEW s
  PROVE  IsFiniteSet(Evicting(s)) /\ Cardinality(Evicting(s)) \in Nat
BY FS_Subset, FS_CardinalityType DEF Evicting

LEMMA EvictingCountAfter ==
  ASSUME NEW s
  PROVE  IsFiniteSet(Evicting(s)') /\ Cardinality(Evicting(s)') \in Nat
BY FS_Subset, FS_CardinalityType DEF Evicting

Bounded == \A s \in Scopes : Len(buckets[s]) <= MaxEntries + Cardinality(Evicting(s))

(* A step that neither appends nor evicts changes no length and no such    *)
(* set.                                                                    *)
LEMMA OtherStepsBounded ==
  ASSUME CacheInv, Bounded, NEW w \in Workers, Step(w),
         ~AppendEntry(w), ~EvictEntry(w)
  PROVE  Bounded'
<1>1. /\ worker[w].pc # "evict" /\ worker'[w].pc # "evict"
      /\ \A x \in Workers : x # w => worker'[x] = worker[x]
  <2>1. worker \in [Workers -> Threads]
    BY DEF CacheInv, Shape
  <2>2. ASSUME NEW at \in Pcs, at # "evict", Goto(w, at)
        PROVE  /\ worker'[w].pc # "evict"
               /\ \A x \in Workers : x # w => worker'[x] = worker[x]
    BY <2>1, <2>2 DEF Goto, Threads
  <2>3. ASSUME NEW value, Serve(w, value)
        PROVE  /\ worker'[w].pc # "evict"
               /\ \A x \in Workers : x # w => worker'[x] = worker[x]
    BY <2>1, <2>3 DEF Serve, Threads
  <2>4. CASE \E q \in Queries, s \in Scopes : Ask(w, q, s)
    BY <2>1, <2>4 DEF Ask, Idle
  <2>5. CASE ReadExact(w)
    BY <2>1, <2>5 DEF ReadExact, Threads
  <2>6. CASE CheckExact(w)
    BY <2>2, <2>3, <2>6 DEF CheckExact, Pcs
  <2>7. CASE DeleteExact(w)
    BY <2>2, <2>7 DEF DeleteExact, Pcs
  <2>8. CASE LookNear(w)
    <3>1. \/ Goto(w, "generate")
          \/ \E value : Serve(w, value)
      BY <2>8 DEF LookNear
    <3>2. worker[w].pc # "evict"
      BY <2>8 DEF LookNear
    <3>3. QED
      BY <2>2, <2>3, <3>1, <3>2 DEF Pcs
  <2>9. CASE Generate(w)
    BY <2>1, <2>9 DEF Generate, Threads, Idle
  <2>10. CASE SetExact(w)
    BY <2>2, <2>10 DEF SetExact, Pcs
  <2>11. CASE ScanBucket(w)
    <3>1. Goto(w, "append") \/ worker' = [worker EXCEPT ![w] = Idle]
      BY <2>11 DEF ScanBucket
    <3>2. worker[w].pc # "evict"
      BY <2>11 DEF ScanBucket
    <3>3. QED
      BY <2>1, <2>2, <3>1, <3>2 DEF Pcs, Idle
  <2>12. QED
    BY <2>4, <2>5, <2>6, <2>7, <2>8, <2>9, <2>10, <2>11 DEF Step
<1>2. ASSUME NEW s \in Scopes PROVE Len(buckets'[s]) = Len(buckets[s])
  <2>1. CASE ScanBucket(w)
    BY <2>1, ScanUpdates DEF CacheInv, Shape
  <2>2. CASE ~ScanBucket(w)
    <3>1. buckets' = buckets
      BY <2>2 DEF Step, Ask, ReadExact, CheckExact, DeleteExact, LookNear,
                  Generate, SetExact
    <3>2. QED
      BY <3>1
  <2>3. QED
    BY <2>1, <2>2
<1>3. ASSUME NEW s \in Scopes PROVE Evicting(s)' = Evicting(s)
  BY <1>1 DEF Evicting
<1>4. QED
  BY <1>2, <1>3 DEF Bounded

(* Whoever appends owes an eviction.                                       *)
LEMMA AppendBounded ==
  ASSUME CacheInv, Bounded, NEW w \in Workers, AppendEntry(w)
  PROVE  Bounded'
<1> DEFINE own == worker[w].scope
<1>1. /\ worker[w].pc = "append" /\ worker'[w].pc = "evict"
      /\ worker'[w].scope = own /\ own \in Scopes
      /\ \A x \in Workers : x # w => worker'[x] = worker[x]
  <2>1. worker[w].pc = "append" /\ Goto(w, "evict")
    BY DEF AppendEntry
  <2>2. own \in Scopes
    BY <2>1, AtWork
  <2>3. PICK next \in Threads :
          /\ worker' = [worker EXCEPT ![w] = next]
          /\ next.pc = "evict" /\ next.scope = own
    BY <2>1, GoneTo DEF Pcs
  <2>4. worker \in [Workers -> Threads]
    BY DEF CacheInv, Shape
  <2>5. worker'[w] = next /\ \A x \in Workers : x # w => worker'[x] = worker[x]
    BY <2>3, <2>4
  <2>6. QED
    BY <2>1, <2>2, <2>3, <2>5
<1>2. ASSUME NEW s \in Scopes
      PROVE  Len(buckets'[s]) = IF s = own THEN Len(buckets[s]) + 1
                                          ELSE Len(buckets[s])
  BY DEF AppendEntry, Bucket, CacheInv, Shape
<1>3. ASSUME NEW s \in Scopes
      PROVE  Evicting(s)' = IF s = own THEN Evicting(s) \cup {w} ELSE Evicting(s)
  BY <1>1 DEF Evicting
<1>4. ASSUME NEW s \in Scopes
      PROVE  Len(buckets'[s]) <= MaxEntries + Cardinality(Evicting(s)')
  <2>1. Len(buckets[s]) \in Nat /\ Len(buckets[s]) <= MaxEntries + Cardinality(Evicting(s))
    BY DEF Bounded, CacheInv, Shape
  <2>2. CASE s = own
    <3>1. w \notin Evicting(s)
      BY <1>1 DEF Evicting
    <3>2. Cardinality(Evicting(s)') = Cardinality(Evicting(s)) + 1
      BY <1>3, <2>2, <3>1, EvictingCount, FS_AddElement
    <3>3. QED
      BY <1>2, <2>1, <2>2, <3>2, EvictingCount
  <2>3. CASE s # own
    BY <1>2, <1>3, <2>1, <2>3
  <2>4. QED
    BY <2>2, <2>3
<1>5. QED
  BY <1>4 DEF Bounded

(* An eviction pays the debt, or there is none.                            *)
LEMMA EvictBounded ==
  ASSUME CacheInv, Bounded, NEW w \in Workers, EvictEntry(w)
  PROVE  Bounded'
<1> DEFINE own == worker[w].scope
<1>1. /\ worker[w].pc = "evict" /\ worker'[w].pc = "idle" /\ own \in Scopes
      /\ \A x \in Workers : x # w => worker'[x] = worker[x]
  BY DEF EvictEntry, Idle, CacheInv, Shape, Threads, Sound
<1>2. ASSUME NEW s \in Scopes
      PROVE  /\ Len(buckets[s]) \in Nat
             /\ Len(buckets'[s]) = IF s = own /\ Len(buckets[s]) > MaxEntries
                                   THEN Len(buckets[s]) - 1 ELSE Len(buckets[s])
  BY DEF EvictEntry, Bucket, Overflows, CacheInv, Shape
<1>3. ASSUME NEW s \in Scopes
      PROVE  Evicting(s)' = IF s = own THEN Evicting(s) \ {w} ELSE Evicting(s)
  BY <1>1 DEF Evicting
<1>4. ASSUME NEW s \in Scopes
      PROVE  Len(buckets'[s]) <= MaxEntries + Cardinality(Evicting(s)')
  <2>1. Len(buckets[s]) <= MaxEntries + Cardinality(Evicting(s))
    BY DEF Bounded
  <2>2. CASE s = own
    <3>1. w \in Evicting(s)
      BY <1>1, <2>2 DEF Evicting
    <3>2. Cardinality(Evicting(s)') = Cardinality(Evicting(s)) - 1
      BY <1>3, <2>2, <3>1, EvictingCount, FS_RemoveElement
    <3> DEFINE before == Cardinality(Evicting(s))
               after == Cardinality(Evicting(s)')
               long == Len(buckets[s])
               short == Len(buckets'[s])
    <3>3. before \in Nat /\ after \in Nat /\ after = before - 1
      BY <3>2, EvictingCount, EvictingCountAfter
    <3>4. /\ long \in Nat /\ long <= MaxEntries + before
          /\ short = IF long > MaxEntries THEN long - 1 ELSE long
      BY <1>2, <2>1, <2>2
    <3> HIDE DEF before, after, long, short
    <3>5. short <= MaxEntries + after
      BY <3>3, <3>4
    <3>6. QED
      BY <3>5 DEF after, short
  <2>3. CASE s # own
    BY <1>2, <1>3, <2>1, <2>3
  <2>4. QED
    BY <2>2, <2>3
<1>5. QED
  BY <1>4 DEF Bounded

(* However many threads append at once, a bucket exceeds its limit by no   *)
(* more than the evictions still to come (semantic.py:59-61).              *)
THEOREM BucketsStayBounded == Spec => []BucketBounded
<1>1. Init => Bounded
  <2> SUFFICES ASSUME Init, NEW s \in Scopes
               PROVE  Len(buckets[s]) <= MaxEntries + Cardinality(Evicting(s))
    BY DEF Bounded
  <2>1. Len(buckets[s]) = 0
    BY DEF Init
  <2>2. QED
    BY <2>1, EvictingCount
<1>2. CacheInv /\ Bounded /\ [Next]_vars => Bounded'
  <2> SUFFICES ASSUME CacheInv, Bounded, [Next]_vars PROVE Bounded'
    OBVIOUS
  <2>1. ASSUME NEW w \in Workers, Step(w) PROVE Bounded'
    BY <2>1, OtherStepsBounded, AppendBounded, EvictBounded
  <2>2. CASE Tick \/ UNCHANGED vars
    BY <2>2 DEF Tick, vars, Bounded, Evicting
  <2>3. QED
    BY <2>1, <2>2 DEF Next
<1>3. Bounded => BucketBounded
  BY DEF Bounded, Evicting, BucketBounded, Bucket
<1>4. QED
  BY <1>1, <1>2, <1>3, CacheInvariant, PTL DEF Spec
=============================================================================
