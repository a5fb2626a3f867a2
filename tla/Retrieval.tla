----------------------------- MODULE Retrieval -----------------------------
(***************************************************************************)
(* HybridRetriever.retrieve_multi and the reranker behind it, over stores  *)
(* that are being written.  A request searches the vector store and the    *)
(* lexical index once per query variant, in threads, fuses the ranked      *)
(* lists by reciprocal rank, rechecks access and reranks.                  *)
(*                                                                         *)
(* In the memory profile indexing and answering share one process and take *)
(* turns; in the remote profile (Qdrant, OpenSearch) a job indexes while   *)
(* requests run, the vectors of a batch in one step and its documents one  *)
(* by one.  Chunk ids depend on the index version, so an id keeps its      *)
(* version; its text and its tags change when it is indexed again.         *)
(*                                                                         *)
(* A search returns its matches in an order that depends on cosines or     *)
(* BM25 scores: any order is allowed, and so is either copy of a chunk     *)
(* that two searches returned, since fusion keeps the one with the higher  *)
(* of two scores on different scales.                                      *)
(***************************************************************************)
EXTENDS LexicalIndex

CONSTANTS
  Profiles,        (* of the deployment: memory, remote                    *)
  Batches,         (* what a job may index                                 *)
  Callers,         (* the principals that ask                              *)
  Live,            (* the index version requests resolve                   *)
  Query,           (* the terms of the question                            *)
  MaxVariants,     (* bound: query variants of a request                   *)
  TopK,            (* settings.top_k                                       *)
  RerankTopK,      (* settings.rerank_top_k                                *)
  RrfK,            (* settings.rrf_k                                       *)
  DenseWeight, LexicalWeight,
  Scale,           (* scores are multiples of 1 / Scale                    *)
  Rerankers,       (* identity, cross_encoder                              *)
  MaxCalls         (* bound: calls that write the stores                   *)

ASSUME ProfileAssumption == Profiles \subseteq {"memory", "remote"}
ASSUME RerankerAssumption == Rerankers \subseteq {"identity", "cross_encoder"}
ASSUME CallerAssumption == Callers \subseteq Principals /\ Callers # {}
ASSUME LiveAssumption == Live \in Versions
ASSUME BatchAssumption == Batches \subseteq Seq(Entries)
ASSUME LimitAssumption == {TopK, RerankTopK, MaxVariants} \subseteq Nat \ {0}
ASSUME ScaleAssumption ==
  /\ {RrfK, DenseWeight, LexicalWeight, Scale} \subseteq Nat
  /\ \A rank \in 1..TopK : Scale % (RrfK + rank) = 0

VARIABLES
  profile, reranker,   (* the configuration                                *)
  vectors,         (* the vector store                                     *)
  calls,           (* write calls made                                     *)
  pc,              (* the request                                          *)
  principal,       (* who asks                                             *)
  legs,            (* its searches: the dense ones, then the lexical ones  *)
  todo,            (* searches that have not returned                      *)
  hits,            (* what each returned                                   *)
  fused,           (* the fused list                                       *)
  results,         (* what the request retrieved                           *)
  visible,         (* history: ids it might read in a store since it began *)
  steady           (* history: ids it might read in the vector store all   *)
                   (* that time                                            *)

config == <<profile, reranker>>
written == <<lexicalVars, vectors, calls>>
request == <<pc, principal, legs, todo, hits, fused, results>>
history == <<visible, steady>>
retrievalVars == <<config, written, request, history>>

Smaller(a, b) == IF a < b THEN a ELSE b

(* The sequences that list Smaller(n, |S|) members of S, none twice.       *)
Rankings(S, n) ==
  {s \in [1..Smaller(n, Cardinality(S)) -> S] :
     \A a, b \in DOMAIN s : s[a] = s[b] => a = b}

Scored == [id: Ids, chunk: Chunks, score: Nat]

(***************************************************************************)
(* Mutated forms of definitions below.                                     *)
(***************************************************************************)
(* the dense search limited before it is filtered *)
DenseLimitedFirst(store) ==
  {i \in Ids : /\ store[i] # NoChunk
               /\ Cardinality({j \in Ids : store[j] # NoChunk}) <= TopK
               /\ is_allowed(principal, store[i])}
(* the fused list in ascending order *)
WorstFirst(score, place, a, b) ==
  score[a] < score[b] \/ (score[a] = score[b] /\ place[a] < place[b])

(***************************************************************************)
(* Writing the stores.                                                     *)
(***************************************************************************)
Readable(store, p) ==
  {i \in Ids : /\ store[i] # NoChunk
               /\ store[i].index_version = Live /\ MayRead(p, store[i])}

Observe ==
  IF pc = "search"
  THEN /\ visible' = visible \cup Readable(vectors', principal)
                             \cup Readable(chunks', principal)
       /\ steady' = steady \cap Readable(vectors', principal)
  ELSE UNCHANGED history

(* Indexing and answering take turns in the memory profile.                *)
MayWrite == profile = "memory" => pc = "idle"

(* The last entry of a batch wins.                                         *)
Written(store, entries) ==
  [i \in Ids |->
     LET at == {n \in DOMAIN entries : entries[n].id = i}
     IN IF at = {} THEN store[i] ELSE entries[Max(at)].chunk]

(* A job: vector_store.upsert, then lexical_index.upsert.                  *)
Index(entries) ==
  /\ MayWrite /\ calls < MaxCalls
  /\ BeginUpsert(entries)
  /\ vectors' = Written(vectors, entries)
  /\ calls' = calls + 1
  /\ Observe
  /\ UNCHANGED <<config, request>>

IndexChunk ==
  /\ UpsertChunk
  /\ UNCHANGED <<config, vectors, calls, request>>
  /\ Observe

(* vector_store.delete, then lexical_index.delete.                         *)
Delete(ids) ==
  /\ profile = "memory" /\ MayWrite /\ calls < MaxCalls
  /\ BeginDelete(ids)
  /\ vectors' = [i \in Ids |-> IF \E n \in DOMAIN ids : ids[n] = i
                               THEN NoChunk ELSE vectors[i]]
  /\ calls' = calls + 1
  /\ Observe
  /\ UNCHANGED <<config, request>>

DropChunk ==
  /\ DeleteChunk
  /\ UNCHANGED <<config, vectors, calls, request>>
  /\ Observe

CallReturns ==
  /\ EndCall
  /\ UNCHANGED <<config, vectors, calls, request, history>>

(***************************************************************************)
(* A request.  With n variants there are n dense and n lexical searches,   *)
(* in the order retrieve_multi submits them.                               *)
(***************************************************************************)
Ask(p, n) ==
  /\ pc = "idle"
  /\ profile = "memory" => call = "none"
  /\ pc' = "search" /\ principal' = p
  /\ legs' = [l \in 1..2 * n |-> IF l <= n THEN "dense" ELSE "lexical"]
  /\ todo' = 1..2 * n
  /\ hits' = [l \in 1..2 * n |-> <<>>]
  /\ visible' = Readable(vectors, p) \cup Readable(chunks, p)
  /\ steady' = Readable(vectors, p)
  /\ UNCHANGED <<config, written, fused, results>>

DenseMatches(store) ==
  {i \in Ids : /\ store[i] # NoChunk
               /\ IF profile = "memory"
                  THEN MemoryAdmits(principal, Live, store[i])
                  ELSE QdrantAdmits(principal, Live, to_payload(store[i]))}

(* Only chunks that share a term with the query score above 0.             *)
LexicalMatches(store) ==
  {i \in Ids : /\ store[i] # NoChunk
               /\ \E t \in Query : CountOf[store[i].text][t] > 0
               /\ IF profile = "memory"
                  THEN MemoryAdmits(principal, Live, store[i])
                  ELSE OpenSearchAdmits(principal, Live, to_source(store[i]))}

(* The chunk of a hit, as it is read back from the store.                  *)
DenseCopy(chunk) == IF profile = "memory" THEN chunk
                    ELSE from_payload(to_payload(chunk))
LexicalCopy(chunk) == IF profile = "memory" THEN chunk
                      ELSE from_source(to_source(chunk))

Returns(l, ranked) ==
  /\ hits' = [hits EXCEPT ![l] = ranked]
  /\ todo' = todo \ {l}
  /\ UNCHANGED <<config, written, pc, principal, legs,
                 fused, results, history>>

SearchDense(l) ==
  /\ pc = "search" /\ l \in todo /\ legs[l] = "dense"
  /\ \E s \in Rankings(DenseMatches(vectors), TopK) :
       Returns(l, [n \in DOMAIN s |->
                     [id |-> s[n], chunk |-> DenseCopy(vectors[s[n]])]])

SearchLexical(l) ==
  /\ pc = "search" /\ l \in todo /\ legs[l] = "lexical"
  /\ \E s \in Rankings(LexicalMatches(chunks), TopK) :
       Returns(l, [n \in DOMAIN s |->
                     [id |-> s[n], chunk |-> LexicalCopy(chunks[s[n]])]])

(* The exception of one search is the request's; what the others return    *)
(* while the pool shuts down is dropped.                                   *)
SearchFails(l) ==
  /\ profile = "remote"
  /\ pc = "search" /\ l \in todo
  /\ pc' = "failed" /\ todo' = {}
  /\ UNCHANGED <<config, written, principal, legs, hits,
                 fused, results, history>>

(***************************************************************************)
(* reciprocal_rank_fusion                                                  *)
(***************************************************************************)
Weight(l) == IF legs[l] = "dense" THEN DenseWeight ELSE LexicalWeight

(* Where list l ranks chunk i, 0 if it does not.                           *)
RankIn(l, i) ==
  IF \E n \in DOMAIN hits[l] : hits[l][n].id = i
  THEN CHOOSE n \in DOMAIN hits[l] : hits[l][n].id = i
  ELSE 0

Share(l, i) == IF RankIn(l, i) = 0 THEN 0
               ELSE Weight(l) * (Scale \div (RrfK + RankIn(l, i)))

FusedScore(i) == MapThenSumSet(LAMBDA l : Share(l, i), DOMAIN legs)

Found == {i \in Ids : \E l \in DOMAIN legs : RankIn(l, i) # 0}

(* When a chunk enters the dictionary of scores: equal scores keep that    *)
(* order.                                                                  *)
Place(i) ==
  Min({l * (TopK + 1) + RankIn(l, i) : l \in {k \in DOMAIN legs : RankIn(k, i) # 0}})

Ahead(score, place, a, b) ==
  score[a] > score[b] \/ (score[a] = score[b] /\ place[a] < place[b])

CopiesOf(i) ==
  {hits[l][RankIn(l, i)].chunk : l \in {k \in DOMAIN legs : RankIn(k, i) # 0}}

Fuse ==
  /\ pc = "search" /\ todo = {}
  /\ pc' = "fused"
  /\ LET score == [i \in Found |-> FusedScore(i)]
         place == [i \in Found |-> Place(i)]
     IN \E s \in Rankings(Found, Cardinality(Found)) :
          /\ \A a, b \in DOMAIN s :
               a < b => Ahead(score, place, s[a], s[b])
          /\ \E best \in [Found -> UNION {CopiesOf(i) : i \in Found}] :
               /\ \A i \in Found : best[i] \in CopiesOf(i)
               /\ fused' = [n \in DOMAIN s |->
                              [id |-> s[n], chunk |-> best[s[n]],
                               score |-> score[s[n]]]]
  /\ UNCHANGED <<config, written, principal, legs, todo,
                 hits, results, history>>

(* The increasing sequence of the n smallest members of S, in a set.       *)
Smallest(S, n) ==
  {s \in Rankings(S, n) :
     /\ \A a, b \in DOMAIN s : a < b => s[a] < s[b]
     /\ \A x \in S, a \in DOMAIN s :
          (\A b \in DOMAIN s : s[b] # x) => s[a] < x}

(* The fused chunks that pass the recheck, and what retrieve_multi returns.*)
Kept == {n \in DOMAIN fused : is_allowed(principal, fused[n].chunk)}

Candidates == {[k \in DOMAIN s |-> fused[s[k]]] : s \in Smallest(Kept, TopK)}

(* The identity reranker keeps order and score; the cross-encoder gives    *)
(* each candidate a new score, here one far below or far above any         *)
(* threshold.                                                              *)
Reranked(candidates) ==
  LET n == Smaller(RerankTopK, Len(candidates))
  IN IF reranker = "identity" THEN {SubSeq(candidates, 1, n)}
     ELSE {[k \in 1..n |-> [candidates[s[k]] EXCEPT !.score = score[k]]] :
             s \in Rankings(DOMAIN candidates, n),
             score \in {f \in [1..n -> {0, Scale}] :
                          \A a, b \in 1..n : a < b => f[a] >= f[b]}}

Rerank ==
  /\ pc = "fused"
  /\ pc' = "retrieved"
  /\ \E candidates \in Candidates : results' \in Reranked(candidates)
  /\ legs' = <<>> /\ hits' = <<>> /\ fused' = <<>> /\ steady' = {}
  /\ UNCHANGED <<config, written, principal, todo, visible>>

RetrievalInit ==
  /\ LexicalInit
  /\ profile \in Profiles /\ reranker \in Rerankers
  /\ vectors = chunks
  /\ calls = 0
  /\ pc = "idle" /\ principal = CHOOSE p \in Callers : TRUE
  /\ legs = <<>> /\ todo = {} /\ hits = <<>> /\ fused = <<>> /\ results = <<>>
  /\ visible = {} /\ steady = {}

WriteStores ==
  \/ \E entries \in Batches : Index(entries)
  \/ IndexChunk
  \/ \E i \in Ids : Delete(<<i>>)
  \/ DropChunk
  \/ CallReturns

Retrieve ==
  \/ \E l \in todo : SearchDense(l) \/ SearchLexical(l) \/ SearchFails(l)
  \/ Fuse
  \/ Rerank

RetrievalNext ==
  \/ WriteStores
  \/ \E p \in Callers, n \in 1..MaxVariants : Ask(p, n)
  \/ Retrieve

(***************************************************************************)
(* Properties.                                                             *)
(***************************************************************************)

(* Whatever is retrieved was, at some moment since the request began, in a *)
(* store with tags that let the caller read it: the filters of the two     *)
(* stores, the conversions to and from them, fusion over copies of         *)
(* different age and the recheck together never hand over anything else.   *)
RetrievedWasVisible ==
  /\ \A n \in DOMAIN fused : fused[n].id \in visible
  /\ \A n \in DOMAIN results : results[n].id \in visible
                               /\ MayRead(principal, results[n].chunk)

(* docs/retrieval.md: a non-zero acl_post_filtered means a backend filter  *)
(* is wrong.  Tags that change between two searches must not raise it.     *)
RecheckDropsNothing == Kept = DOMAIN fused

(* Filters are pushed down: a caller who may read n chunks of the vector   *)
(* store all along is offered n of them, or top_k, however many others     *)
(* the store holds and even if a search or a write failed on the way.      *)
NotStarved ==
  pc = "fused" => \A candidates \in Candidates :
                    Len(candidates) >= Smaller(TopK, Cardinality(steady))

(* Rank fusion agrees with the lists it fuses: a chunk that is ahead of    *)
(* another in every list that has the other is ahead of it in the end.     *)
FusionRespectsLists ==
  pc = "fused" =>
    \A a, b \in DOMAIN fused :
      (\A l \in DOMAIN legs :
         LET ra == RankIn(l, fused[a].id)
             rb == RankIn(l, fused[b].id)
         IN rb # 0 => ra # 0 /\ ra <= rb)
      => a <= b
=============================================================================
