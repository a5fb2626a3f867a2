----------------------------- MODULE AnswerCache -----------------------------
(***************************************************************************)
(* The answer caches of the pipeline under its worker threads: MemoryCache *)
(* with its TTL and SemanticCache with its bounded buckets.  Neither has a *)
(* lock, so a lookup's read, expiry check and deletion, and a store's      *)
(* scan, append and eviction, interleave with other threads.  One          *)
(* operation on a dict or a list is one step; so is a scan of a bucket.    *)
(*                                                                         *)
(* A query of the model is a normalised one; Score stands for the cosine   *)
(* of two queries' embeddings.  An answer is known by its number.          *)
(***************************************************************************)
EXTENDS Integers, FiniteSets, Sequences

CONSTANTS
  Workers,       (* threads of the pool                                    *)
  Queries, Scopes,
  Score,         (* cosine of the embeddings of two queries, in hundredths *)
  Threshold,     (* settings.semantic_cache_threshold                      *)
  MaxEntries,    (* max_entries_per_scope                                  *)
  TTL,           (* settings.cache_ttl_seconds; 0: for ever                *)
  MaxAnswers,    (* bound: answers generated                               *)
  MaxClock       (* bound                                                  *)

ASSUME ScoreAssumption == Score \in [Queries \X Queries -> -100..100]
ASSUME WorkersAssumption == IsFiniteSet(Workers)
ASSUME BoundAssumption == /\ Threshold \in Int /\ MaxEntries \in Nat \ {0}
                          /\ TTL \in Nat /\ MaxAnswers \in Nat
                          /\ MaxClock \in Nat \ {0}

VARIABLES
  exact,     (* MemoryCache._store                                         *)
  buckets,   (* SemanticCache._buckets                                     *)
  worker,    (* each thread                                                *)
  clock,
  answers    (* answers generated so far                                   *)

vars == <<exact, buckets, worker, clock, answers>>

Answers == [n: 1..MaxAnswers, query: Queries, scope: Scopes]
Items == [value: Answers, expires: 0..(MaxClock + TTL)]
Entries == [query: Queries, value: Answers]
None == [none |-> TRUE]
Never == 0   \* no expiry; no item with an expiry expires at 0

Idle == [pc |-> "idle", query |-> None, scope |-> None, item |-> None,
         value |-> None]
Pcs == {"idle", "read", "check", "delete", "near", "generate", "set", "scan",
        "append", "evict", "failed", "hit"}

(***************************************************************************)
(* Mutated forms of definitions below: plausible bugs that the properties  *)
(* must catch.                                                             *)
(***************************************************************************)
(* one bucket for every scope *)
BucketShared(s) == CHOOSE x \in Scopes : TRUE
(* a bucket that is never trimmed *)
OverflowsNever(bucket) == FALSE

(***************************************************************************)
(* Threads.                                                                *)
(***************************************************************************)
Key(w) == <<worker[w].scope, worker[w].query>>
Goto(w, pc) == worker' = [worker EXCEPT ![w].pc = pc, ![w].item = None]
Serve(w, value) == worker' = [worker EXCEPT ![w].pc = "hit", ![w].item = None,
                                            ![w].value = value]

Init ==
  /\ exact = [k \in Scopes \X Queries |-> None]
  /\ buckets = [s \in Scopes |-> <<>>]
  /\ worker = [w \in Workers |-> Idle]
  /\ clock = 1
  /\ answers = 0

Ask(w, q, s) ==
  /\ worker[w].pc \in {"idle", "hit", "failed"}
  /\ worker' = [worker EXCEPT ![w] = [Idle EXCEPT !.pc = "read",
                                        !.query = q, !.scope = s]]
  /\ UNCHANGED <<exact, buckets, clock, answers>>

(* MemoryCache.get: read the item, *)
ReadExact(w) ==
  /\ worker[w].pc = "read"
  /\ worker' = [worker EXCEPT ![w].item = exact[Key(w)],
                  ![w].pc = IF exact[Key(w)] = None THEN "near" ELSE "check"]
  /\ UNCHANGED <<exact, buckets, clock, answers>>

(* look at its expiry, *)
CheckExact(w) ==
  LET item == worker[w].item
  IN /\ worker[w].pc = "check"
     /\ IF item.expires # Never /\ clock > item.expires
        THEN Goto(w, "delete") ELSE Serve(w, item.value)
     /\ UNCHANGED <<exact, buckets, clock, answers>>

(* and delete the key, which may be gone (KeyError) or set anew.           *)
DeleteExact(w) ==
  /\ worker[w].pc = "delete"
  /\ exact' = [exact EXCEPT ![Key(w)] = None]
  /\ Goto(w, IF exact[Key(w)] = None THEN "failed" ELSE "near")
  /\ UNCHANGED <<buckets, clock, answers>>

(* SemanticCache.get: the first of the entries with the best score.        *)
Bucket(s) == s
NearEnough(score) == score >= Threshold

BestEntry(q, bucket) ==
  CHOOSE i \in 1..Len(bucket) :
    \A j \in 1..Len(bucket) :
      LET si == Score[q, bucket[i].query]
          sj == Score[q, bucket[j].query]
      IN sj < si \/ (sj = si /\ i <= j)

LookNear(w) ==
  LET q == worker[w].query
      bucket == buckets[Bucket(worker[w].scope)]
      best == bucket[BestEntry(q, bucket)]
  IN /\ worker[w].pc = "near"
     /\ IF bucket # <<>> /\ NearEnough(Score[q, best.query])
        THEN Serve(w, best.value) ELSE Goto(w, "generate")
     /\ UNCHANGED <<exact, buckets, clock, answers>>

(* A miss: the answer is generated, or refused and not kept.               *)
Generate(w) ==
  /\ worker[w].pc = "generate" /\ answers < MaxAnswers
  /\ answers' = answers + 1
  /\ \/ worker' = [worker EXCEPT ![w].pc = "set",
                     ![w].value = [n |-> answers', query |-> worker[w].query,
                                   scope |-> worker[w].scope]]
     \/ worker' = [worker EXCEPT ![w] = Idle]
  /\ UNCHANGED <<exact, buckets, clock>>

(* MemoryCache.set.                                                        *)
SetExact(w) ==
  /\ worker[w].pc = "set"
  /\ exact' = [exact EXCEPT ![Key(w)] =
                 [value |-> worker[w].value,
                  expires |-> IF TTL = 0 THEN Never ELSE clock + TTL]]
  /\ Goto(w, "scan")
  /\ UNCHANGED <<buckets, clock, answers>>

(* SemanticCache.set: update the first entry of the query,                 *)
Same(w, i) == buckets[Bucket(worker[w].scope)][i].query = worker[w].query

ScanBucket(w) ==
  LET s == Bucket(worker[w].scope)
      same == {i \in 1..Len(buckets[s]) : Same(w, i)}
      first == CHOOSE i \in same : \A j \in same : i <= j
  IN /\ worker[w].pc = "scan"
     /\ \/ /\ same # {}
           /\ buckets' = [buckets EXCEPT ![s][first].value = worker[w].value]
           /\ worker' = [worker EXCEPT ![w] = Idle]
        \/ /\ same = {}
           /\ Goto(w, "append")
           /\ UNCHANGED buckets
     /\ UNCHANGED <<exact, clock, answers>>

(* or append one,                                                          *)
AppendEntry(w) ==
  LET s == Bucket(worker[w].scope)
  IN /\ worker[w].pc = "append"
     /\ buckets' = [buckets EXCEPT ![s] =
          Append(@, [query |-> worker[w].query, value |-> worker[w].value])]
     /\ Goto(w, "evict")
     /\ UNCHANGED <<exact, clock, answers>>

(* and evict the oldest if the bucket has become too long.                 *)
Overflows(bucket) == Len(bucket) > MaxEntries

EvictEntry(w) ==
  LET s == Bucket(worker[w].scope)
  IN /\ worker[w].pc = "evict"
     /\ buckets' = IF Overflows(buckets[s])
                   THEN [buckets EXCEPT ![s] = Tail(@)] ELSE buckets
     /\ worker' = [worker EXCEPT ![w] = Idle]
     /\ UNCHANGED <<exact, clock, answers>>

Tick ==
  /\ clock < MaxClock
  /\ clock' = clock + 1
  /\ UNCHANGED <<exact, buckets, worker, answers>>

Step(w) ==
  \/ \E q \in Queries, s \in Scopes : Ask(w, q, s)
  \/ ReadExact(w) \/ CheckExact(w) \/ DeleteExact(w)
  \/ LookNear(w) \/ Generate(w)
  \/ SetExact(w) \/ ScanBucket(w) \/ AppendEntry(w) \/ EvictEntry(w)

Next == Tick \/ \E w \in Workers : Step(w)

Spec == Init /\ [][Next]_vars

-----------------------------------------------------------------------------
(***************************************************************************)
(* Properties.                                                             *)
(***************************************************************************)
(* Every variable keeps its type (cache/memory.py, cache/semantic.py).     *)
TypeOK ==
  /\ exact \in [Scopes \X Queries -> Items \cup {None}]
  /\ \A s \in Scopes :
       \A i \in 1..Len(buckets[s]) : buckets[s][i] \in Entries
  /\ worker \in [Workers -> [pc: Pcs, query: Queries \cup {None},
                             scope: Scopes \cup {None},
                             item: Items \cup {None},
                             value: Answers \cup {None}]]
  /\ clock \in 1..MaxClock /\ answers \in 0..MaxAnswers

(* A reply from either cache was generated for the caller's ACL scope, and *)
(* for the query asked or one at least Threshold close to it: a false      *)
(* positive "returns the answer to a different question" (caching.md,      *)
(* semantic.py:28-31).                                                     *)
HitsFit ==
  \A w \in Workers :
    worker[w].pc = "hit" =>
      LET v == worker[w].value
      IN /\ v.scope = worker[w].scope
         /\ \/ v.query = worker[w].query
            \/ Score[worker[w].query, v.query] >= Threshold

(* Threads that append at once evict once each: a bucket is never longer   *)
(* than its limit by more than the evictions still to come, so a hot       *)
(* tenant cannot exhaust memory (semantic.py:59-61).                       *)
BucketBounded ==
  \A s \in Scopes :
    Len(buckets[s]) <= MaxEntries
      + Cardinality({w \in Workers : worker[w].pc = "evict"
                                     /\ Bucket(worker[w].scope) = s})

(* docs/caching.md:66: the cache "must never be able to fail a request".   *)
NeverFails == \A w \in Workers : worker[w].pc # "failed"
=============================================================================
