# TLA+ verification of the RAG service

This directory models the retrieval-augmented generation service of this
repository (`src/src/rag`): a replica from its settings to its replies, its agent
runtime, the route and the caches in front of it, the retrieval and answer path
behind it, the retry wrappers under it, and the index jobs, from the files they
read to the version they publish.  The
models are checked by TLC on small instances and the central theorems about
them are proved by TLAPS for every value of the constants.  `PROJECT.json`
maps each definition to the lines it models and lists the runs, the mutated
definitions that show a property has teeth, the hazards and the theorems.

## 1. The system

`POST /query` (`api/routes/query.py`) takes a question and a principal.  With
`mode=agent` it looks in the answer cache, waits for a permit of its tenant's
semaphore and runs an **agent turn**: a loop in which a planner model either
calls tools (retrieval over the index) or drafts an answer, and a critic model
judges drafts.  Whatever goes wrong, the turn is meant to step aside for the
**online pipeline**, the single-pass `OnlinePipeline.answer`, which other
requests use directly.  The pipeline resolves the live **index version**
through an alias, looks in the caches, retrieves from a vector store and a
lexical store in parallel, fuses, generates and checks citations.  Offline,
**jobs** build index versions, record them in a registry file and move the
alias.  All model calls go through **retry wrappers**.

### Components

| Component | State | Operations | Hard behaviour | Correct when |
|---|---|---|---|---|
| Agent runtime (`agent/runtime.py`, `budget.py`, `evidence.py`, `critic.py`) | one turn's budget counters, evidence ledger, draft, verdict, message history | run, clamp, charge, critique, finalize, fall back | four awaits under a deadline, model and tool failures, a second fallback after a cut first one, cancellation | spending stays under the ceiling, the history sent to the model is well formed, an own answer is grounded and not rejected, an answer's fields agree, a turn ends |
| Query route and serving (`api/`) | per-tenant semaphores, open requests | cache lookup, acquire, run, reply, 504 | handlers and pipeline threads that outlive their request, cancellation while waiting or holding | permits are conserved, callers get their own and current answers |
| Answer and tool caches (`cache/`, `agent/tools/cache.py`) | exact entries with a TTL; per-scope buckets of embedded queries; tool results | get, set | threads without a lock, keys that must tell callers and versions apart, version read early and used late | a hit fits the caller, the query and the version |
| Online pipeline (`pipelines/online.py`) | none of its own | answer, retrieve_only, active_index_version | runs in worker threads beside promotions; the alias may not resolve | an answer comes from one whole, published version |
| Index jobs, registry, alias (`pipelines/offline.py`, `jobs/`, `index_registry.py`) | registry YAML file, alias, two stores | reindex, ingest, activate, versions | crashes between writes, concurrent jobs, a truncate-then-write file, read-only registry | the live version is whole; the registry does not lie about it |
| Stores (`vectordb/`, `lexical/`) | chunks per version, alias, BM25 statistics | upsert, delete, search, set_alias, resolve_alias | partial writes across two stores, statistics kept incrementally | re-indexing is idempotent, statistics are exact |
| Retry wrappers (`llm/resilient.py`, `resilient_chat.py`, `policy.py`) | position in the chain, backoff | complete, chat | timeouts racing answers, threads that cannot be stopped, cancellation | models in order, one call in flight, no late answers, bounded time |
| Hybrid retrieval, fusion, reranking (`retrieval/`, `rerank/`) | one request's lists | retrieve, fuse, recheck, rerank | concurrent searches over stores being written | callers get what they may read and no less; fusion respects its lists |
| Access control (`security/`) | none | is_allowed, filters, fingerprint | three implementations of one rule, two encodings of tags | they agree |
| Generation, citations, refusal (`generation/`) | none | generate, cite, refuse | markers resolved by resemblance, one threshold for two scales of scores | only what was retrieved is cited, refusals have their reasons |
| Ingestion, parsing, chunking (`ingestion/`, `parsing/`, `chunking/`) | the documents and chunks of one run | fetch, parse, redact, chunk | size and overlap arithmetic, spans found by searching, ids derived from file names, redaction that must come after parsing | nothing is lost, a chunk is what its span says, nothing personal is stored |
| Configuration and wiring (`settings.py`, `backends.py`, `api/deps.py`) | what one process is made of | validate, build | a dozen settings that are validated and consumed apart | production serves only callers it has authenticated, with real backends |
| Query understanding, embedding, evaluation, observability | none, or write-only | | | |

### Interactions

* The route *calls* the agent runtime in the event loop and the pipeline in a
  worker thread (`asyncio.to_thread`), so a pipeline call goes on when the
  request that waits for it is gone.
* Agent route, pipeline and tools *share* one cache object; keys keep them
  apart (kind, ACL scope, index version).
* Jobs and the serving process share the stores, the alias and the registry
  file, and nothing else: there is no lock between them.
* The agent's deadline (`asyncio.timeout`) *cancels* whatever it awaits: a
  planner or critic call in `ResilientChatLLM.chat`, tools, or a rescue.
* The planner and the critic reach providers through the retry wrappers; the
  turn only sees an answer or one exception.

## 2. The modules

| Module | Models | Extended by |
|---|---|---|
| `AgentContract` | what a turn promises the request that waits for it | instantiated by `AgentTurn` |
| `AgentTurn` | one turn of the agent | `MCAgentTurn`, `AgentTurnProofs` |
| `QueryRoute` | concurrent requests, semaphores, shared caches, timeouts, promotions | `MCQueryRoute`, `Serving` |
| `IndexLifecycle` | jobs, registry, alias, stores, readers | `MCIndexLifecycle`, `IndexLifecycleProofs` |
| `ResilientLLM` | one call through either retry wrapper | `ResilientLLMProofs` |
| `AnswerCache` | the two in-memory caches under threads | `MCAnswerCache`, `AnswerCacheProofs` |
| `Access` | the access rule, the stores' filters, tags on their way into and out of a store | `LexicalIndex` |
| `LexicalIndex` | BM25 statistics under upserts and deletes | `Retrieval` |
| `Retrieval` | searches of one request over stores being written, fusion, recheck, reranking | `Grounding` |
| `Grounding` | the pipeline behind its caches: routing, generation, citation, refusal | `AgentEvidence` |
| `AgentEvidence` | the evidence of a turn: searches, ledger, prompt, citations; then the pipeline | `MCGrounding`, `EvidenceProofs` |
| `Wiring` | settings: what is refused, and what the rest makes of a process | `Offline` |
| `Chunking` | the four chunkers, as functions of a text | `Offline`, `ChunkingProofs` |
| `Offline` | one command after another: files, documents, chunks, the two stores, the alias | `Serving`, `MCOffline` |
| `Serving` | a replica: start, authentication, requests, readiness, beside the jobs | `MCServing`, `ServingProofs` |
| `FoldLemmas` | nothing: facts about the folds of the community modules | `ChunkingProofs`, `EvidenceProofs` |

`QueryRoute` composes what the others model one at a time.  It keeps of a turn
what the caches and semaphores see (`AgentTurn` has its inside, and shows the
termination that `QueryRoute`'s fairness uses), of an index only its version
(`IndexLifecycle` shows that a published one is whole), and of a cache entry
only what it was made from (`AnswerCache` has the inside of the caches).
`Serving` composes further: its requests go through the actions of `QueryRoute`
once they are authenticated and routed, and its index versions are built and
published by the actions of `Offline`.  `AgentEvidence` composes the inside of an
agent's search with `Retrieval` and `Grounding`.

Every module has a block of *mutated forms*: definitions with a plausible bug
(a dropped guard, a swapped order, a key component forgotten).  Nothing in the
specifications uses them.  Substituting one for the definition it mutates makes
TLC report the property it is paired with in `PROJECT.json`.

### AgentTurn

A turn is one asyncio task, so what lies between two awaits is one action and
`pc` names the await: `plan`, `tools`, `critique`, `rescue` (the pipeline called
from the planner's `except`, inside the deadline) and `fallback` (called by
`_finalize`, outside it).  `loop` and `finalize` are the points between.  The
action names follow the branches of `AgentRuntime.run`: `StopExhausted`,
`AskPlanner`, `PlannerFails`, `PlannerCallsTools`, `ToolsReturn`,
`PlannerReturnsNothing`, `PlannerDrafts`, `CriticApproves`, `CriticRejects`,
`CriticRaises`; then `DeadlineFires`, `RequestCancelled`, `FinalizeOwn`,
`StepAside`, `PipelineAnswers` and `PipelineFails`.  `ClockPasses` is the wall
clock.

`AgentTurn` implements `AgentContract`, an abstract specification of a turn as
its caller sees it: work within the ceiling, evidence that is never lost, at
most two requests to the pipeline, and one reply, cited from the evidence if it
is the agent's own, with a reason if it is not.  The refinement mapping reads the
contract's state off the turn's (`Contract == INSTANCE AgentContract WITH ...`):
tools are counted when they are dispatched, and the reply is by the agent, the
pipeline or nobody according to the fields of the answer.  Most steps of a turn
map to `Work`, `Learn` or a stutter.

Abstractions: a source is its ref; a draft is the refs it cites and the step
that wrote it; tokens and dollars, charged and tested side by side, are one
counter; prompt text is left out.  `dispatched`, `rejected` and `fallbacks` are
history variables.

### QueryRoute

Each request has a handler (`pc`) and, when it uses the pipeline, a worker
thread (`thread`) that outlives it.  `AgentArrives` resolves the alias for the
route's cache key and looks up; `TurnStarts` takes the permit in queue order
(`asyncio.Semaphore` is first come, first served); `CallTool` and `ToolReturns`
are `ToolRegistry.execute` and `retrieve_only`, which resolves the alias a
second time; `TurnAnswers`, `TurnStepsAside`, `TurnRaises` end the turn;
`PipelineStarts`, `PipelineEnds` are the thread; `RequestTimesOut` is the 504
of `TimeoutMiddleware`.  Whether that 504 cancels the handler depends on the
web framework, so both outcomes are allowed.

Abstractions: everybody asks one question and a turn repeats one search, so a
key is (kind, scope, version); an entry is (maker, scope, versions).  A turn's
tool calls run one at a time, and a turn starts at most one pipeline call (the
double fallback is in `AgentTurn`).  `Expire` stands for the TTL and for a
Redis outage, which `RedisCache` turns into a miss.  The code's keys also tell
apart retrieval parameters, budgets and tool sets; here those are all the same.

### IndexLifecycle

A `plan`, chosen at the start, says which jobs operators run: a job is a process
running one command (`Command`), started when the operator has seen others
succeed (`Needs`) or end somehow (`Follows`).  Its steps are its
writes: registry load, truncate and write (`Path.write_text` empties the file
before it fills it), vector upsert, lexical upsert, alias.  `Crash` ends a job
between any two.  `SaveFails` is the read-only registry, which is logged and
survived.  A reader resolves the alias (`Resolve`, or `ResolveFails` when the
store cannot answer, which leaves the configured version), consults the cache,
searches the two stores in either order and replies.

Content is a function from chunk ids to revisions, so that half-written,
stale and fresh chunks can be told apart.  One upsert of one store is one step:
a batch that fails halfway is a coarser crash than the model's, and a later
refinement of it.

### ResilientLLM

`async` says which wrapper a behaviour is about.  The loop's position is
`model` and `attempt`; `phase` is where it is; `running` is the provider calls in
flight.  `TimesOut` cancels the call in the asyncio wrapper; in the threaded
one, leaving `with ThreadPoolExecutor` waits for the thread, so the attempt is
`blocked` until the provider returns (`Unblocks`).  A backoff takes any length
`RetryPolicy.delay_for` can produce with its jitter.

### AnswerCache

Threads of the pipeline pass through `MemoryCache.get`, `SemanticCache.get`,
generation, `MemoryCache.set` and `SemanticCache.set`.  No method has a lock;
a step is what runs between two points where another thread's write matters:
the read of an item and its check, its deletion, the scan of a bucket, the
append and the eviction.  One scan of a bucket is one step.  Embeddings are
the similarity function `Score` in hundredths.  Semantic entries have no TTL,
as in the code.

### Access, LexicalIndex, Retrieval, Grounding

Each module extends the one before; together they are `OnlinePipeline.answer`
behind its caches, over the stores as a job writes them.  A behaviour is either
of the memory profile, where indexing and answering share a process and take
turns, or of the remote one (Qdrant and OpenSearch), where a job writes while
requests search; profiles that mix the two kinds of store are left out.

`Ask` begins `HybridRetriever.retrieve_multi`: a dense and a lexical search per
query variant, each a step of its own (`SearchDense`, `SearchLexical`, or
`SearchFails`), in any order, as the threads of its pool run them.  `Fuse` is
`reciprocal_rank_fusion`, with ties kept in order of first appearance as the
stable sort over the dictionary keeps them; `Rerank` is the recheck, `top_k` and
either reranker.  `RefuseEarly`, `CallModel`, `ModelFails` and `Cite` are
`generate_grounded` and the `except` around it, `AnswerAtOnce` the routes that
retrieve nothing.  `Index`, `IndexChunk`, `Delete`, `DropChunk` and
`CallReturns` write the stores: the vectors of a batch in one step, its
documents one by one.  `delete` is part of the stores though the program never
calls it, and is exercised in the memory profile only.

Abstractions: a chunk is its tags, its version and its text, a text the counts
of its terms.  Cosines and BM25 scores are left out, so a search may rank its
matches in any order, fusion may keep either copy of a chunk, and a
cross-encoder may give any scores, here 0 or 1.  Variants of a question share
its terms.  Fused scores are exact: `Scale` is a common multiple of the
denominators `rrf_k + rank`.  Of the model's text only its bracketed markers
matter; `Loose` says which ids a marker resembles (prefixes in either
direction).

`AgentEvidence` adds the agent's use of the same stores.  A turn searches
(`CallSearch`, then the actions of `Retrieval`), the retrieval tool returns
passages (`SearchReturns`: `top_k`, the tool's recheck, the runtime's recheck, the
ledger) or raises (`SearchRaises`), and after some searches the planner drafts
(`Draft`).  `FinalizeOwn` cites from the ledger; `StepAside` hands the question to
the pipeline without it.  A search of a turn has one query variant.  The other
gates of the registry make a result without sources, like `SearchRaises`.
`render_sources` keeps of a line its length; where a header leaves less than no
room for its quote, the slice counts from the back, as Python's does.  Only the
critic is shown the ledger (`CriticPrompt`): the planner gets it once, while it is
empty, and is told of every later search by a message that has each passage whole,
whose quotes `told` adds up.

`visible` and `steady` are history variables: the ids the caller might read in
some store at some moment since the request began, and in the vector store all
that time.

### Wiring, Chunking, Offline

`Wiring` and `Chunking` are operators without state.  `Wiring` has the settings
that decide what runs, `HasProblems` and `Accepted` (the validator), the three
authenticators, one `build_` operator for each factory of `backends.py`, and
`should_use_agent`.  `Chunking` has the chunkers character by character, because
what could go wrong is where a piece starts and ends: a text is a sequence over an
alphabet of the characters the chunkers tell apart.  `split_text` is the
recursion over five separators written out; the semantic chunker, which is never
given an embedder, is its fallback.

`Offline` runs the commands of a plan, one process after another.  `IngestStage`,
`ParseStage`, `ChunkStage`, `EmbedAndUpsert`, `UpsertLexical` and `Publish` are
the stages of `OfflinePipeline.run`, each of which may fail and end the process;
`Refused` is a process whose settings are not accepted.  A file has a directory, a
stem, a suffix and a body; its document is named after the stem.  A chunk in a
store has its id, its file, its tags, its text and its span.  The registry file
and concurrent jobs are in `IndexLifecycle`, which in turn knows nothing of files.
Checksums and chunk ids are assumed not to collide.

### Serving

`Boot` validates the settings and wires `AppState`, or refuses.  A request comes
with credentials (`Query`); `get_principal` rejects it or admits it as a
principal, `should_use_agent` sends it to the agent or to the pipeline, and from
there on its steps are those of `QueryRoute` (`Handle`).  `ProbeResolves` and
`ProbeCounts` are the two calls of `GET /ready`.  `Job` is a step of `Offline` in
another process; when it moves the alias, the alias `QueryRoute` reads moves.
A `deployment`, chosen at the start, says which settings, requests, credentials,
files and commands a behaviour is about.

## 3. What is checked

All runs are exhaustive within the bounds below.

| Run | Module, instance | Shows |
|---|---|---|
| `agent_turn` | 3 refs, one hidden from the principal; ceiling of 3 steps, 2 tool calls, 2 critiques, 4 tokens; three requested budgets, above and below it; up to 3 calls per reply | safety of a turn and `TurnEnds` |
| `critic_fails` | smaller ceiling | *violated*: a critic that raises makes the request fail, docs promise a fallback |
| `index_lifecycle` | two plans over 3 versions: two builds at once with two activations and a read-only registry; a build, the same build over a changed corpus, then a rollback. 1 reader, 1 crash, alias outages | the live version, every reply and every version called built stay whole; any crash is repaired by the next command |
| `mixed_corpus` | two runs into one version, over directories with a file of the same name | *violated*: the second run overwrites what the first indexed |
| `query_route` | 3 requests of 2 callers of one tenant, 1 permit, 504s; 2 requests of one caller with a promotion and a rollback at any moment besides | permits, isolation between callers, what is replayed; currency of replies and of caches, but for what a promotion overtook |
| `stale_replies` | 2 requests, a promotion and a rollback | *violated*: an answer of a retired version is replayed after a rollback |
| `serving` | four families of deployments: every setting, with every authenticator under any credentials and 3 requests of 2 tenants with a limit of 0 (clamped to 1); pairs of jobs under a probe, over 2 versions; every text of up to 5 characters through every chunker; two corpora one after the other | safety of production, readiness, chunks, redaction; `EveryRequestEnds` |
| `model_retries` | 3 models, 3 attempts, timeout 3, delays 1 to 3 | both wrappers |
| `answer_cache` | 2 threads, 3 queries of which 2 are close, 2 scopes, buckets of 1, TTL 1 | fit of hits and size of buckets |
| `cache_race` | 2 threads, 2 queries | *violated*: two threads delete one expired item and one raises |
| `answer_path` | both profiles and rerankers; 4 ids, 2 batches (the second gives chunks to another group and another tenant and names one id twice), 2 callers, 2 variants, `top_k` 2, `rrf_k` 60, texts of 2 markers; agents that search twice, with a prompt that has room for two sources, for one, or for less than a header | retrieval, fusion, citation and refusal over changing stores; BM25 statistics; the agent's evidence |
| `planner_prompt` | the sizes of `agent/evidence.py`, 2 long chunks, 7 searches of one turn | *violated*: the evidence in the planner's messages exceeds the ledger's budget |

### The properties

*AgentTurn.* `SpendWithinCeiling` counts tool calls when they are started, so
it also covers those the deadline cut and nobody charged.
`TokenOvershootBounded` is the exact slack of testing tokens between iterations
only.  `HistoryPaired`: truncating a reply's calls leaves dangling calls in the
history; it is safe only because it also exhausts the tool budget, which ends
the loop before the planner is asked again.  `OwnAnswerStands` relates the
answer to the verdict, the draft and the evidence the verdict was given over.
`AnswerContract` relates the fields of `AgentAnswer`.  `UsageCoversSpend` has one
exception, the planner failure, explained below.  `ContractKept` is the
refinement.  `FallbackRunsBounded`, the one way to run the pipeline twice, is
proved and not run.

*QueryRoute.* `PermitsConserved` accounts for each permit across returns,
exceptions, cancelled waits and cancelled turns.  `ReplayIsOwn`: a degraded
answer is never replayed.  `RepliesForCaller`: no cache crosses ACL scopes.
The rest is about versions, with promotions and rollbacks at any moment.  The
documents promise `RepliesCurrent`: an answer comes from versions published while
its request was open.  That does not hold: a turn resolves the versions in its cache
keys first and retrieves later.  What the code does keep is stated by two
properties.  `CurrentUnlessOvertaken`: only an answer that is replayed from, or
rests on, an entry of a turn that a promotion overtook can be stale; an overtaken
turn's own answer is not.  `CachesFaithful`: the pipeline, which resolves the alias
once, files nothing wrongly at all, and what turns and tools misfile is from
overtaken turns.  `overtaken` and `took` are the history variables that say so.

*IndexLifecycle.* `DisciplineKeepsLiveWhole` and `RepliesWhole` are the "build,
then swap" promise under the discipline of the operator's guide (`Disciplined`):
no plan writes a version twice, nor the one that was live at the start, and an
activation names that one or a version it has seen built.  The guide's own exception,
mixed corpora that several runs write into one version (`docs/operations.md:100`),
is outside this premise; it is what `Offline` and the run `mixed_corpus` are about.
`LiveIsWhole` is the
promise without that condition, which the program does not keep (section 5).
`BuiltIsWhole` holds even though concurrent jobs overwrite each other's records,
because every lost update leaves an *earlier* status.  `RerunRecovers` is the
operator's remedy: of commands run one at a time (`Serial`) the last repairs what
the others left.

*ResilientLLM.* `ChainInOrder`, `OneCallInFlight`, `AnswerIsLast`,
`TimeWithinPolicy` (the asyncio wrapper takes no more than the sum of all timeouts
and backoffs; a policy without a timeout waits for as long as the provider likes),
`ChatEnds`.

*AnswerCache.* `HitsFit` (scope, and similarity at least the threshold),
`BucketBounded` (the limit plus what threads between append and evict can add).

*LexicalIndex.* `StatisticsExact`: what is kept by adding and subtracting equals
what a recount of the indexed chunks gives.

*Retrieval.* `RetrievedWasVisible` and `RecheckDropsNothing` are about tags that
change between the searches of one request: copies of different age meet in one
fusion, and what comes out is still something the caller might read when it was
read.  `NotStarved` is why filters are pushed down.  `FusionRespectsLists` is
dominance: ahead in every list, ahead in the end.

*Grounding.* `CitesRetrieved` and `ExactMarkerCited` (a full id is not shadowed
by one that resembles it).

*AgentEvidence.* `CriticSeesStrongest`: what the critic is shown of the evidence
fits the budget, except where the header of the strongest source alone does not,
and whatever it leaves out is no stronger, by the best observation any
tool made of it, than what it shows; so it relates the order sources came in, the
ledger's replacements, the sort and the cut.  It is not a property of the planner's
prompt, of which `PlannerWithinBudget` states the documents' claim and fails
(section 5).  `AgentCitesEvidence`: an own answer
cites what a search of this turn found for this caller and a marker points at.

*Serving.* `ProductionIsSafe` follows a caller from the settings through the
authenticator and the caches to the reply: it was made for the tenant and groups
that the tokens file gives the token he presented.  `ReadyIsQueryable` holds
although a probe's two calls may straddle a promotion.  `EveryRequestEnds` is
liveness of the whole: authenticated, routed, queued for a permit, answered.

*Offline.* `EveryLetterIndexed`: after a run that ended well every letter of every
document it parsed is inside the span of a chunk of that document, under the
run's tags, in both stores.  `EveryRunIsIndexed` is the same without the premise
that no other document has its name.  `ChunksAreExcerpts`: span and text agree, and
sizes hold.  `NothingPersonalLeaves`: neither chunks nor stores hold what
redaction finds, whichever parser made the text.

### Bounds

A turn's behaviour depends on which budget dimension runs out first and on
whether a critique, a correction and a truncation fit before it; the ceiling has
room for each and the requested budgets reach each limit.  Three requests are
enough for a holder, a waiter and a replay, with one of another scope.  Two
promotions over two versions give a rollback.  Once the alias has moved only the two
requests of one caller take part (`OneCallerAfterPromotion`, a constraint): one makes
what the other takes over or replays.  Isolation between callers under promotions
is left to the theorems of section 4, which have no such bound.  Four
jobs give two concurrent writers of the registry and a promotion and a rollback
after them.  One crash suffices because a crash only stops a job; the next
command runs from whatever it left.  Two cache threads suffice for each pairwise
race; a bucket limit of one makes every second append evict.  Two batches give
ids a first and a later state, two of them one that the callers may not read; two
variants give four concurrent lists, and `top_k` 2 is below the number of ids a
search matches.  Two searches of a turn observe a chunk with two scores and two
sets of tags; the prompt's lengths are scaled so that it has room for two sources
or one, or for less than the header of one.  Texts of 5 characters over five kinds, at size 2, reach each separator,
repeated words, pieces too long for one chunk and windows that end with the text;
the corpus has a file of every kind, two of one name, one that is no document and
one that ends the run.  Two commands give every order of build and publication.
Settings are enumerated in full, environments by one of each kind.
The named bounds are `MaxCallUsage`,
`MaxCallsPerReply`, `MaxCalls`, `MaxPromotions`, `MaxRev`, `MaxCrashes`, `MaxHang`, `MaxAnswers`, `MaxClock`, `MaxVariants`, `MaxMarkers`, `MaxSearches` and the `Deployments`
(`Retrieval` has a `MaxCalls` too, of writes).

Deadlock is checked for `AgentTurn` (an ended turn idles explicitly) and for
`AgentEvidence` (one request follows another).  The other
specifications stop when all requests, jobs or calls have ended and their
bounds are used up, so their configurations switch the check off; what must not
get stuck there is stated as liveness.

### Fairness

* `AgentTurn`: the event loop runs what is ready, time passes, the deadline is
  delivered, and the pipeline returns.  The last is an assumption about code
  with its own timeouts and retries.  Nothing is assumed of the planner, the
  tools and the critic: they may hang, and the deadline ends them.
* `QueryRoute`: waiters are served, a turn ends (shown by `AgentTurn`), a
  pipeline call returns.  A retrieval in a tool needs no fairness: the deadline
  cuts it (`TurnStepsAside`).  `Serving` assumes the same of the same actions and
  nothing of jobs, probes or the arrival of requests.
* `ResilientLLM`: time passes and the loop runs; providers may never answer.
  `ChatEnds` is about the asyncio wrapper: the threaded one waits for them.

## 4. What is proved

TLAPS checks the following for every value of the constants that meets the
named assumptions.

`AgentTurnProofs` (every budget, every set of refs, every bound on what one
call spends).  `TypeCorrect` is inductive as it stands and includes that the
ledger only holds what the principal may see.  The others need strengthenings:

* `SpendIsWithinCeiling`: each counter against the clamped budget, with what is
  charged plus the batch in flight equal to what was dispatched while tools run.
  Truncation to the *remaining* calls closes the step.
* `TokenOvershootIsBounded`: tokens are under the cap whenever the planner is
  asked, under the cap plus one call when the critic is.
* `HistoryIsPaired`: dangling calls imply that the tool calls charged have
  reached the budget, so the guard of `AskPlanner` is false.
* `OwnAnswerIsSound`: what the stop reason claims is a fact about the verdict,
  the draft and the ledger at that point, and rejected drafts are those of
  earlier steps.
* `AnswerIsConsistent`, `UsageIsCovered`, `FallbackRunsAreBounded`: the pair (reason, stop) passed to the fallback is one of
  three while the fallback runs, and the number of fallbacks is determined by `pc`
  and the stop reason.
* `TurnKeepsContract`: initial states map to initial states and every step to a
  step of `AgentContract` or a stutter, given the invariants above and
  `ReplyInvariant`, by which the mapped reply is nobody's until the turn has ended.

`ResilientLLMProofs` (every chain, number of attempts, timeout and backoff).
The invariant `CallInv` is `TypeOK`, `Progress` (the attempts made are determined
by the position and the phase), `Flight` (so is the call in flight) and
`Patience` (a call still waited for has not outlived its timeout).  `ChainIsInOrder`,
`OneCallIsInFlight` and `AnswerIsTheLast` follow from it.  The property
`ChainInOrder` alone is not inductive: it says nothing of the attempts of the
current model, on which the step to the next one depends.
`TimeIsWithinPolicy` adds `Punctual`: at each point of the loop, the clock is at most
what the models before this one and the attempts made of this one can have used.
`BackoffsAdd` and `BackoffsGrow` are about the sum of the delays, a recursive
function over the attempts.

`IndexLifecycleProofs` (any plan, corpora, versions, number of jobs, readers and
crashes).

* `DisciplineProtectsLive` and `RegistryTellsTruth`: the invariant `DisciplineInv` is,
  under a disciplined plan, `StoresInv` (each store holds of a version what the one
  job that builds it has written by now, and of the live one what it held) and
  `PublicationInv` (what the alias names is whole, and so is every version that the
  registry file, *or what a job has read of it and not written back*, calls built
  or active).  The italics are what makes it inductive: an update that is lost
  writes back what another job had read.
* `RequestsReadWhole`: of a search half done, what has been read is what the store
  still holds, and cache entries are whole.  It assumes that some version is live at
  the start and, where the alias may fail to answer, that it is the configured one;
  section 5 has what the code does otherwise.
* `RerunsRecover`: `SerialInv` follows the job that started last.  `Provenance` says
  where every chunk in a store comes from, so that an upsert that covers them
  leaves exactly its corpus.

`EvidenceProofs`, first half (every corpus, every batch, any number of ids, groups,
variants and callers).

* `FiltersAgree`: for every chunk and principal, the three filters and the two
  round trips of tags.
* `StatisticsStayExact`: the invariant `StoresInv` says that the term counts and
  lengths kept are those of the chunks indexed; then each subtraction and addition
  changes the cardinality of one set of ids by one.
* `RecheckNeverDrops` and `RetrievedIsVisible`: the invariant `RequestInv` says
  that every hit at any stage is *fit* (its id was seen in a store, its copy is
  one the caller may read) and that `visible` covers what he may read now while
  he searches.  `FiltersAgree` gives that a search returns fit hits; fusion
  takes copies from them and never makes one.

`ServingProofs`, about the route (any requests, callers and tenants, any versions,
limit, number of tool calls and number of promotions).  The invariant `RouteInv` has three parts
besides the types.  `CacheFits`: an entry has the scope of its key, the route's is an
agent's, the pipeline's comes from the version in its key, and so do all that no
promotion overtook.  `TurnFits`: until a request is over, its window holds the
alias and the versions its key and its turn resolved, and those behind its evidence
unless it took over what a promotion had overtaken.  `ThreadFits`: a worker thread, which may outlive the handler that
started it, holds an answer of its own caller, from the window while the handler
still waits.  None of the properties is inductive without all three: a replay is
right only if what was stored was, and that depends on what the turn or thread that
stored it had seen.

* `AnswersStayInScope`, `RouteReplaysAgents`, `CachedUnderTheirVersion` and
  `OthersAreCurrent` hold for promotions, rollbacks and timeouts at any moment, and
  without an assumption on them.  The key's version is in the window, so an entry
  that is not overtaken was made within a window of that one version; that is why
  such an entry is right for whoever finds it under a key that names the alias.
* `PermitsComeBack`: `PermitInv` counts holders and waiters of each tenant, and the
  queue names each waiter once.  `RemoveFirst`, what a cancelled waiter does to the
  queue, is shown to keep it so.

`ServingProofs`, about a replica (any deployments, settings, tokens, credentials,
plans).  `ServingInv` is `RouteInv` and `PermitInv` with `ReplicaInv`: a replica that is up passed
validation and runs what it was wired to, and a request in progress was admitted by
its authenticator as the scope it runs under.

* `RoutePromisesHold`: every step of a replica is a step of `QueryRoute`, or leaves it
  alone, or moves the alias as `Promote` does, so what the route promises holds in it.
* `ProductionStaysSafe`: `AcceptedIsSafe` goes through the validator and the
  factories.  `RefusalAssumption` says that no principal is the value that stands
  for a refusal.

`FoldLemmas` and `ChunkingProofs` (any text, size, overlap and configuration that is not
refused).  The folds of the community modules are functions chosen by an equation;
`FoldLemmas` shows that the equation has a solution (`FoldExists`), by induction
stated over a set of numbers instead of a predicate, and that a fold over a sequence
is the end of a *walk*, one step per element (`FoldWalks`).  What holds along a walk
can then be proved from step to step.

* `ChunkersFit`: each chunker makes chunks whose text is what their span says, no
  longer than the size, made of characters of the text, and every letter is within
  the span of one.  For the fixed chunker that is arithmetic: windows a step apart
  and no longer apart than they are long, the last of which reaches the end.  For the others the
  invariant is `Fills`: pieces *stand* one after another in a stretch of the text,
  with no letter outside them.  `str.split` yields such pieces with the separator
  between any two, hard cuts do, merging keeps it (`Merges`: what is being merged
  stands where its first part does, separators included), and so it holds through the five
  levels of `split_text`.  `text.find` looks for a piece from a cursor, and a piece may
  occur more than once: `Finding` says that the cursor is not past the place where the
  next piece stands and that there is no letter between the two, so that a
  piece with a letter is found exactly there.  Markdown sections are split by the
  same cuts, with separators of width 0, and stripping a chunk drops white space only.

`ServingProofs`, about jobs, stores and probes (any files, configurations of chunking,
tags, plans and failures).  The invariant `CorpusInv` is `PlanInv` with

* `JobInv`: at each stage, what the documents are (fetched, parsed and redacted, fit to be
  chunked), and that the chunks about to be written are *all* those of the documents.
  `ChunksStayExcerpts` follows with `ChunkersFit`.
* `StoreInv`: what the stores hold is redacted, if the plan's documents are.  With `JobInv` it
  gives `NothingPersonalIsStored`.
* `RanInv`: of every run that wrote a store, the chunks of each document that has no
  namesake in its version are all there still; and while a run is between its two
  upserts, the vector store's half counts already.  `EveryLetterIndexed` is not inductive
  without the second, since a later batch must be shown to overwrite none of an earlier
  run's chunks: ids are equal only for documents of one name (`IdsDiffer`), and of
  a name that is its own, equal ids are equal chunks (`WroteHas`).  `LettersStayIndexed`
  follows with `ChunkersFit`.
* `ProbeInv`: a probe under way has resolved a version that was published since it began, and
  a ready replica that probes no more has found chunks of such a version.  Upserts empty no
  version (`UpsertOnly`), so jobs keep it, wherever they come between the two calls.
  `ReadyStaysQueryable` follows with `ReplicaInv`, by which the store's width and the
  embedder's come from the same settings.

`CorpusAssumption` says that files hold characters, that sizes and overlaps are
natural numbers (section 5) and that what was indexed before the plan was redacted like
the plan's documents.

`EvidenceProofs`, second half (any corpus, batches, callers, weights, texts and
searches).  `AgentEvidence` lets searches of turns and requests of the pipeline follow
one another, so `RetrievalHoldsForAgents` takes the invariants of the first half there.
Sums and sorts are shown to exist like folds are (`CollectionExists`, `SumExists`,
`SortExists`).

* `NobodyIsStarved`: the first search of a request is dense; what it returns, and what
  is fused from it, has `top_k` different ids or all of `steady`.
* `CitationsAreRetrieved` and `FullMarkersAreCited`: `CiteKeeps` is one step of the loop
  over markers; each id is cited once, and one named in full is tried before those
  that resemble it.
* `FusionIsRespectful`: a better rank has no smaller share (`ShareGrows`), a score is the
  sum of the shares, sums are monotone, and the sort keeps ties in order of first
  appearance; a chunk that is ahead in each list also appears first.
* `AgentCitesItsEvidence`: `Gathers` says that the ledger has one source for each ref
  observed, an observed one, the best; `LedgerInv` that everything observed was
  found by a search of this turn and may be read by its caller.
* `PromptIsStrongest`: `Rendered` is the invariant of `render_sources` along the sorted
  ledger: entries are a prefix of it, the rest is counted as omitted, and the
  budget is kept, or a single entry, whose header alone exceeds it, is all there is
  (`Overruns`).

`AnswerCacheProofs` (any threads, queries, similarities, threshold, limit and TTL).
The similarity is a cosine, so at most 1; that there are finitely many threads is
`WorkersAssumption`.

* `HitsAlwaysFit`: items and entries answer their keys, and a thread between two
  steps holds nothing that does not.  `BestIsThere` shows that the scan of a
  bucket ends at one of its entries.
* `BucketsStayBounded`: each append adds its thread to those about to evict, each
  eviction takes one out, whatever other threads did to the bucket in between.

Every safety invariant and the one refinement that a passing run checks are stated by
a theorem.  Only model-checked is what is beyond the prover: liveness (`TurnEnds`,
`EveryRequestEnds`, `ChatEnds`), and what the `violation` runs show.  `CorpusInv`
and `ServingInv` were themselves evaluated by TLC as invariants, over some of the
deployments of `MCServing` with jobs and probes.

## 5. Where code and documentation disagree

Five disagreements have a run that shows them (`findings` in `PROJECT.json`):

* `critic_fails`: the critic is outside any `except`.
* `mixed_corpus`: two runs into one version overwrite each other.
* `stale_replies`: `api/routes/query.py:125` resolves the version in the route's cache
  key before the wait for a permit and the turn, `agent/runtime.py:75` that of the tool
  cache's keys at the start of the turn, and every retrieval resolves the alias anew
  (`pipelines/online.py:133`).  A promotion in between files a result or an answer
  under a version it was not made from, and a rollback brings it back, though
  `docs/caching.md:42` says "no stale answers from a retired corpus".
* `planner_prompt`: `agent/runtime.py:88` renders the ledger for the planner while it is
  empty, and `agent/runtime.py:158` appends tool results whole.  The budget that
  `agent/evidence.py:11` says keeps "the planner prompt" small bounds only the critic's.
* `cache_race`: of two deletions of an expired item one raises.

Others were met while modelling and shape how the properties are worded:

* `agent/runtime.py:113`: after a planner failure the answer carries neither the
  usage charged so far nor an earlier verdict, though `docs/observability.md:115`
  says cost travels on the answer.  Hence the exception in `UsageCoversSpend`.
* `pipelines/online.py:139`: before the first promotion no alias resolves, so what is
  read is the version the first build is writing.  Hence every instance starts with a
  published version.
* `pipelines/online.py:139` and `vectordb/qdrant.py:206`: while the store does not
  answer for its aliases the configured version is read, too, although another is live,
  and a job may be between its two upserts of it; ADR 0004:38 says "Readers never see
  a half-built index".  With `Fallback = v2` in `MCIndexLifecycle.cfg` TLC finds such a
  reply.  Hence the configured version is the live one in that run, and in
  `RequestsReadWhole` where the alias may fail.
* `llm/resilient.py:73`: `future.result` gives up in time, but leaving the
  `ThreadPoolExecutor` block waits for the abandoned call, so a threaded attempt lasts
  as long as its provider takes, though `docs/configuration.md:117` speaks of a
  "per-attempt timeout".  Hence `async` in `TimeWithinPolicy` and `ChatEnds`.
* `index_registry.py:81`: `activate` marks every other version `retired`, one
  whose build died in `building` included, which then looks like a rollback
  target.
* `index_registry.py:89`: a crash between truncating and writing the registry
  loses every record; activating an older version then moves the alias and
  raises `KeyError` in the registry, which is logged.  Hence the two cases of
  `RerunRecovers`.
* `pipelines/offline.py:149`: a rebuild only upserts; chunks of documents that
  are gone stay searchable, though `docs/operations.md:88` says a version is
  rebuilt wholesale.  Hence corpora that never shrink in the plans.
* `generation/citations.py:32`: a text without any marker that resolves cites the
  first chunk, so `zero_resolvable_citations` is never the reason of a pipeline
  answer, though `docs/online-pipeline.md:116` has the pipeline "Refuse if
  nothing resolved".
* `generation/refusal.py:15`: with the default weights every fused list starts at
  1/61 or more, above the default threshold of 0.01; `low_confidence_score`
  arises with a cross-encoder only.

* `jobs/cli.py:111`: without `--index-version` a job writes the configured version
  in place, live or not, though ADR 0004:38 says "Readers never see a half-built
  index".  Hence `Disciplined`.
* `parsing/pdf.py:19`: a PDF that cannot be read, or a missing extra, raises what
  `parse_document` does not catch, and ends the run, though
  `docs/offline-pipeline.md:80` calls a malformed document "skipped, not fatal".
  An overlap that is not below the size ends it, too.  Hence "a run that ended
  well".
* `chunking/recursive.py:45`: the overlap never moves the cursor back, so recursive
  chunks do not overlap; markdown and recursive chunkers keep pieces of white space
  only, which the fixed one drops; and a full stop with its space is dropped where
  a sentence is split.  Hence letters in `EveryLetterIndexed`.
* `chunking/registry.py:62`: an overlap that is not below the size is refused, a negative one
  is not, and would move the cursor of `recursive.py:45` past text to come, so that
  spans are guessed.  Hence natural overlaps in `CorpusAssumption`.
* `ingestion/base.py:19`: the connector's default tags name the tenant `default`,
  whatever `settings.default_tenant` is.
* `settings.py:196`: the validator lets a production replica run on in-memory
  stores, which no job fills; it is never ready.  Readiness does not look at the
  lexical store.
* `agent/evidence.py:93`: the note that sources were omitted is not counted in the
  budget.

## 6. Not modelled

Model providers and embedders (numeric functions and network adapters), the
patterns of PII, file I/O, query rewriting heuristics, the semantic chunker with an
embedder (nothing constructs it), the measurements of the evaluation commands, and
observability.  Names of tenants and groups are taken as free of the separators that
keys join them with.  The component list in `PROJECT.json` gives the reason for each.

## 7. Plan

Done: every component with state is modelled, the turn as an implementation of its
contract; every safety property that a passing run checks is proved for every value of
the constants.

Left:

1. The turn of `QueryRoute` shown to be an instance of `AgentContract`; batches
   within an upsert in `IndexLifecycle`.
2. An abstract specification of a store under jobs, which `Offline` and `IndexLifecycle` both
   implement, in place of the shared notion that a published version is whole.
