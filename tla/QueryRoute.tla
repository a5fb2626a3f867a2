----------------------------- MODULE QueryRoute -----------------------------
(***************************************************************************)
(* POST /query under concurrency: requests of several callers, the         *)
(* per-tenant semaphore, the agent turns and pipeline threads behind it,   *)
(* the caches they share, the request timeout, and promotions of the index *)
(* between any two steps.                                                  *)
(*                                                                         *)
(* All requests ask the same question and a turn repeats the same search,  *)
(* so a cache key is told apart by what is asking (the route, the pipeline *)
(* or a tool), the caller's ACL scope and the index version.  An entry is  *)
(* what it was made from: who made it, for which scope, from which index   *)
(* versions, and whether a promotion overtook the turn that made it (a     *)
(* history the code does not keep).  A turn is reduced to what the caches  *)
(* and the semaphore see of it; AgentTurn models its inside.  Its tool     *)
(* calls run one at a time.                                                *)
(***************************************************************************)
EXTENDS Integers, FiniteSets, Sequences, SequencesExt

CONSTANTS
  Requests,
  Scopes,            (* ACL fingerprints of callers                        *)
  Tenants,
  Scope, Tenant,     (* of each request                                    *)
  Versions,          (* index versions, all built                          *)
  FirstVersion,      (* the one published at the start                     *)
  NoVersion,
  Limit,             (* settings.agent_max_concurrent_per_tenant           *)
  TimeoutOn,         (* settings.request_timeout_seconds > 0               *)
  MaxCalls,          (* bound: tool calls of a turn                        *)
  MaxPromotions      (* bound: promotions, at any moment                   *)

ASSUME RequestAssumption == /\ Scope \in [Requests -> Scopes]
                            /\ Tenant \in [Requests -> Tenants]
ASSUME VersionAssumption == /\ FirstVersion \in Versions
                            /\ NoVersion \notin Versions
ASSUME BoundAssumption == /\ Limit \in Int /\ MaxCalls \in Nat
                          /\ MaxPromotions \in Nat /\ TimeoutOn \in BOOLEAN

VARIABLES
  alias,       (* the published index version                              *)
  promotions,  (* how often it has moved                                   *)
  cache,       (* the shared Cache                                         *)
  permits,     (* free permits of each tenant's semaphore                  *)
  queue,       (* its waiters, first come first served                     *)
  pc,          (* where each request's handler is                          *)
  key,         (* the version in the route's cache key                     *)
  turn,        (* the version the agent turn resolved                      *)
  evidence,    (* the versions behind the turn's evidence                  *)
  calls,       (* its tool calls                                           *)
  took,        (* history: some of its evidence is from an overtaken entry *)
  thread,      (* each request's OnlinePipeline.answer worker thread       *)
  reply,       (* what the client got                                      *)
  window       (* history: versions published while the request was open   *)

semaphore == <<permits, queue>>
agent == <<turn, evidence, calls, took>>
index == <<alias, promotions>>
vars == <<index, cache, semaphore, pc, key, agent, thread, reply, window>>

Kinds == {"route", "pipeline", "tool"}
Makers == {"agent", "degraded", "pipeline", "tool"}
Entries == [by: Makers, scope: Scopes, versions: SUBSET Versions,
            overtaken: BOOLEAN]
NoEntry == [by |-> "nobody"]
Keys == Kinds \X Scopes \X Versions

Outcomes == {"answered", "refused", "failed", "timeout"}
NoReply == [is |-> "none", cached |-> "no"]
Reply(is, entry, cached) == [is |-> is, entry |-> entry, cached |-> cached]
Replies == [is: Outcomes, entry: Entries \cup {NoEntry},
            cached: {"fresh", "route", "pipeline"}]   \* which cache it is from
           \cup {NoReply}
IdleThread == [at |-> "idle", version |-> NoVersion, out |-> NoReply]

Holding == {"turn", "retrieving", "fallback"}
Pcs == Holding \cup {"new", "waiting", "fast", "over"}

(***************************************************************************)
(* Mutated forms of definitions below: plausible bugs that the properties  *)
(* must catch.                                                             *)
(***************************************************************************)
(* a cache key without its index version *)
KeyWithoutVersion(kind, s, v) == <<kind, s, FirstVersion>>
(* a cache key without the caller's ACL *)
KeyWithoutScope(kind, s, v) == <<kind, CHOOSE x \in Scopes : TRUE, v>>
(* acquire() and release() instead of async with *)
HandlerStopsKeepingPermit(r) ==
  /\ pc' = [pc EXCEPT ![r] = "over"]
  /\ queue' = [queue EXCEPT ![Tenant[r]] = RemoveFirst(@, r)]
  /\ UNCHANGED <<permits, agent>>
(* the pipeline labelling its answer with the alias when it is done *)
ResolvedAgain(r) == alias
(* a degraded turn kept like a clean one *)
KeptWhenDegraded(r, clean) == TRUE

(***************************************************************************)
(* cache_key and tool_result_cache_key.                                    *)
(***************************************************************************)
CacheKey(kind, s, v) == <<kind, s, v>>

Cached(kind, r, v) == cache[CacheKey(kind, Scope[r], v)]
Store(kind, r, v, entry) ==
  cache' = [cache EXCEPT ![CacheKey(kind, Scope[r], v)] = entry]

Made(by, r, versions, overtaken) ==
  [by |-> by, scope |-> Scope[r], versions |-> versions, overtaken |-> overtaken]

(* A promotion came since the request resolved the version in its key.     *)
Overtaken(r) == window[r] # {key[r]}

MaxConcurrent == IF Limit < 1 THEN 1 ELSE Limit

(* The handler ends: leaving "async with" gives the permit back, a waiter  *)
(* that is cancelled leaves the queue, and the turn's locals are gone.     *)
HandlerStops(r) ==
  /\ pc' = [pc EXCEPT ![r] = "over"]
  /\ queue' = [queue EXCEPT ![Tenant[r]] = RemoveFirst(@, r)]
  /\ permits' = IF pc[r] \in Holding
                THEN [permits EXCEPT ![Tenant[r]] = @ + 1] ELSE permits
  /\ turn' = [turn EXCEPT ![r] = NoVersion]
  /\ evidence' = [evidence EXCEPT ![r] = {}]
  /\ calls' = [calls EXCEPT ![r] = 0]
  /\ took' = [took EXCEPT ![r] = FALSE]

(* A client that has had its 504 gets nothing more.                        *)
Respond(r, answer) ==
  reply' = IF reply[r] = NoReply THEN [reply EXCEPT ![r] = answer] ELSE reply

(***************************************************************************)
(* Initially nobody has asked anything.                                    *)
(***************************************************************************)
Init ==
  /\ alias = FirstVersion
  /\ promotions = 0
  /\ cache = [k \in Keys |-> NoEntry]
  /\ permits = [t \in Tenants |-> MaxConcurrent]
  /\ queue = [t \in Tenants |-> <<>>]
  /\ pc = [r \in Requests |-> "new"]
  /\ key = [r \in Requests |-> NoVersion]
  /\ turn = [r \in Requests |-> NoVersion]
  /\ evidence = [r \in Requests |-> {}]
  /\ calls = [r \in Requests |-> 0]
  /\ took = [r \in Requests |-> FALSE]
  /\ thread = [r \in Requests |-> IdleThread]
  /\ reply = [r \in Requests |-> NoReply]
  /\ window = [r \in Requests |-> {}]

(***************************************************************************)
(* The route.                                                              *)
(***************************************************************************)
StartThread(r) == thread' = [thread EXCEPT ![r].at = "queued"]

(* An agent request resolves the alias for its cache key, and returns a    *)
(* hit or queues for a permit.                                             *)
AgentArrives(r) ==
  LET hit == Cached("route", r, alias)
  IN /\ pc[r] = "new"
     /\ key' = [key EXCEPT ![r] = alias]
     /\ window' = [window EXCEPT ![r] = {alias}]
     /\ \/ /\ hit # NoEntry
           /\ Respond(r, Reply("answered", hit, "route"))
           /\ pc' = [pc EXCEPT ![r] = "over"]
           /\ UNCHANGED queue
        \/ /\ hit = NoEntry
           /\ pc' = [pc EXCEPT ![r] = "waiting"]
           /\ queue' = [queue EXCEPT ![Tenant[r]] = Append(@, r)]
           /\ UNCHANGED reply
     /\ UNCHANGED <<index, cache, permits, agent, thread>>

(* Any other request goes straight to the pipeline, in a thread.           *)
FastArrives(r) ==
  /\ pc[r] = "new"
  /\ pc' = [pc EXCEPT ![r] = "fast"]
  /\ window' = [window EXCEPT ![r] = {alias}]
  /\ StartThread(r)
  /\ UNCHANGED <<index, cache, semaphore, key, agent, reply>>

(* The first waiter gets a permit and its turn resolves the alias.         *)
TurnStarts(r) ==
  LET t == Tenant[r]
  IN /\ pc[r] = "waiting" /\ Head(queue[t]) = r /\ permits[t] > 0
     /\ permits' = [permits EXCEPT ![t] = @ - 1]
     /\ queue' = [queue EXCEPT ![t] = Tail(@)]
     /\ pc' = [pc EXCEPT ![r] = "turn"]
     /\ turn' = [turn EXCEPT ![r] = alias]
     /\ UNCHANGED <<index, cache, key, evidence, calls, took, thread, reply,
                    window>>

(***************************************************************************)
(* The turn.                                                               *)
(***************************************************************************)
(* ToolRegistry.execute looks its cache up under the turn's version.       *)
CallTool(r) ==
  LET hit == Cached("tool", r, turn[r])
  IN /\ pc[r] = "turn" /\ calls[r] < MaxCalls
     /\ calls' = [calls EXCEPT ![r] = @ + 1]
     /\ \/ /\ hit # NoEntry
           /\ evidence' = [evidence EXCEPT ![r] = @ \cup hit.versions]
           /\ took' = [took EXCEPT ![r] = @ \/ hit.overtaken]
           /\ UNCHANGED pc
        \/ /\ hit = NoEntry
           /\ pc' = [pc EXCEPT ![r] = "retrieving"]
           /\ UNCHANGED <<evidence, took>>
     /\ UNCHANGED <<index, cache, semaphore, key, turn, thread, reply, window>>

(* retrieve_only resolves the alias again, in its thread; the result is    *)
(* kept under the turn's version.  A failed call keeps nothing.            *)
ToolReturns(r) ==
  /\ pc[r] = "retrieving"
  /\ pc' = [pc EXCEPT ![r] = "turn"]
  /\ \/ /\ evidence' = [evidence EXCEPT ![r] = @ \cup {alias}]
        /\ Store("tool", r, turn[r], Made("tool", r, {alias}, Overtaken(r)))
     \/ UNCHANGED <<evidence, cache>>
  /\ UNCHANGED <<index, semaphore, key, turn, calls, took, thread, reply,
                 window>>

(* What the route keeps: the answer of a turn that stopped cleanly.        *)
Kept(r, clean) == clean

(* The turn answers from its evidence, cleanly or with its budget spent.   *)
TurnAnswers(r, clean) ==
  LET by == IF clean THEN "agent" ELSE "degraded"
      answer == Made(by, r, evidence[r], took[r])
  IN /\ pc[r] = "turn" /\ evidence[r] # {}
     /\ Respond(r, Reply("answered", answer, "fresh"))
     /\ IF Kept(r, clean)
        THEN Store("route", r, key[r],
                   Made(by, r, evidence[r], took[r] \/ Overtaken(r)))
        ELSE UNCHANGED cache
     /\ HandlerStops(r)
     /\ UNCHANGED <<index, key, thread, window>>

(* The turn gives way to the pipeline; its deadline may cut a retrieval.   *)
TurnStepsAside(r) ==
  /\ pc[r] \in {"turn", "retrieving"}
  /\ pc' = [pc EXCEPT ![r] = "fallback"]
  /\ StartThread(r)
  /\ UNCHANGED <<index, cache, semaphore, key, agent, reply, window>>

(* An exception no handler of the turn catches: a 500.                     *)
TurnRaises(r) ==
  /\ pc[r] = "turn"
  /\ Respond(r, Reply("failed", NoEntry, "fresh"))
  /\ HandlerStops(r)
  /\ UNCHANGED <<index, cache, key, thread, window>>

(***************************************************************************)
(* OnlinePipeline.answer in its thread.  It resolves the alias once, keys  *)
(* its cache and reads the index with that version, and goes on when the   *)
(* handler that waits for it is gone.                                      *)
(***************************************************************************)
ThreadIs(r, at, v, out) ==
  thread' = [thread EXCEPT ![r] = [at |-> at, version |-> v, out |-> out]]

ResolvedOnce(r) == thread[r].version

PipelineStarts(r) ==
  LET hit == Cached("pipeline", r, alias)
  IN /\ thread[r].at = "queued"
     /\ IF hit # NoEntry
        THEN ThreadIs(r, "done", alias, Reply("answered", hit, "pipeline"))
        ELSE ThreadIs(r, "working", alias, NoReply)
     /\ UNCHANGED <<index, cache, semaphore, pc, key, agent, reply, window>>

(* It answers and keeps the answer, refuses, or raises.                    *)
PipelineEnds(r) ==
  LET v == thread[r].version
      answer == Made("pipeline", r, {v}, FALSE)
  IN /\ thread[r].at = "working"
     /\ \/ /\ ThreadIs(r, "done", v, Reply("answered", answer, "fresh"))
           /\ Store("pipeline", r, ResolvedOnce(r), answer)
        \/ /\ \E is \in {"refused", "failed"} :
                ThreadIs(r, "done", v, Reply(is, NoEntry, "fresh"))
           /\ UNCHANGED cache
     /\ UNCHANGED <<index, semaphore, pc, key, agent, reply, window>>

(* The handler gets the thread's result.  _fallback_or_refuse turns an     *)
(* exception into a refusal; in the plain route it is a 500.               *)
ThreadReturns(r) ==
  LET out == thread[r].out
  IN /\ pc[r] \in {"fast", "fallback"} /\ thread[r].at = "done"
     /\ Respond(r, IF out.is = "failed" /\ pc[r] = "fallback"
                   THEN [out EXCEPT !.is = "refused"] ELSE out)
     /\ HandlerStops(r)
     /\ thread' = [thread EXCEPT ![r] = IdleThread]
     /\ UNCHANGED <<index, cache, key, window>>

(***************************************************************************)
(* TimeoutMiddleware answers 504.  Whether that cancels the handler or     *)
(* leaves it running is up to the framework.                               *)
(***************************************************************************)
RequestTimesOut(r) ==
  /\ TimeoutOn
  /\ pc[r] \notin {"new", "over"} /\ reply[r] = NoReply
  /\ Respond(r, Reply("timeout", NoEntry, "fresh"))
  /\ HandlerStops(r) \/ UNCHANGED <<pc, semaphore, agent>>
  /\ UNCHANGED <<index, cache, key, thread, window>>

(***************************************************************************)
(* The environment: a promotion or a rollback, and the end of an entry's   *)
(* TTL (or a Redis outage, which reads as a miss).                         *)
(***************************************************************************)
Open(r) == pc[r] \notin {"new", "over"}

Promote(v) ==
  /\ v # alias /\ promotions < MaxPromotions
  /\ alias' = v
  /\ promotions' = promotions + 1
  /\ window' = [r \in Requests |-> IF Open(r) THEN window[r] \cup {v}
                                              ELSE window[r]]
  /\ UNCHANGED <<cache, semaphore, pc, key, agent, thread, reply>>

Expire(k) ==
  /\ cache[k] # NoEntry
  /\ cache' = [cache EXCEPT ![k] = NoEntry]
  /\ UNCHANGED <<index, semaphore, pc, key, agent, thread, reply, window>>

Step(r) ==
  \/ AgentArrives(r) \/ FastArrives(r) \/ TurnStarts(r)
  \/ CallTool(r) \/ ToolReturns(r)
  \/ \E clean \in BOOLEAN : TurnAnswers(r, clean)
  \/ TurnStepsAside(r) \/ TurnRaises(r)
  \/ PipelineStarts(r) \/ PipelineEnds(r) \/ ThreadReturns(r)
  \/ RequestTimesOut(r)

Next == \/ \E r \in Requests : Step(r)
        \/ \E v \in Versions : Promote(v)
        \/ \E k \in Keys : Expire(k)

Spec == Init /\ [][Next]_vars

(* The event loop serves waiters, a turn ends within its budget (AgentTurn *)
(* shows it), a retrieval answers or is cut by the deadline, and a         *)
(* pipeline call, whose backends time out, returns.                        *)
TurnEnds(r) == \/ \E clean \in BOOLEAN : TurnAnswers(r, clean)
               \/ TurnStepsAside(r) \/ TurnRaises(r)

Fairness ==
  \A r \in Requests :
    /\ WF_vars(TurnStarts(r))
    /\ WF_vars(TurnEnds(r))
    /\ WF_vars(PipelineStarts(r))
    /\ WF_vars(PipelineEnds(r))
    /\ WF_vars(ThreadReturns(r))

FairSpec == Spec /\ Fairness

-----------------------------------------------------------------------------
(***************************************************************************)
(* Properties.                                                             *)
(***************************************************************************)
(* Every variable keeps its type; a semaphore never has more permits than  *)
(* settings.agent_max_concurrent_per_tenant (api/deps.py:30).              *)
TypeOK ==
  /\ alias \in Versions /\ promotions \in 0..MaxPromotions
  /\ cache \in [Keys -> Entries \cup {NoEntry}]
  /\ permits \in [Tenants -> 0..MaxConcurrent]
  /\ queue \in [Tenants -> Seq(Requests)]
  /\ pc \in [Requests -> Pcs]
  /\ key \in [Requests -> Versions \cup {NoVersion}]
  /\ turn \in [Requests -> Versions \cup {NoVersion}]
  /\ evidence \in [Requests -> SUBSET Versions]
  /\ calls \in [Requests -> 0..MaxCalls]
  /\ took \in [Requests -> BOOLEAN]
  /\ thread \in [Requests -> [at: {"idle", "queued", "working", "done"},
                              version: Versions \cup {NoVersion},
                              out: Replies]]
  /\ reply \in [Requests -> Replies]
  /\ window \in [Requests -> SUBSET Versions]

(* Whatever ends a request, a return, an exception, a timeout while it     *)
(* waits or runs, its permit comes back exactly once, and nobody waits     *)
(* twice (query.py:146, agent_semaphore_for).                              *)
PermitsConserved ==
  \A t \in Tenants :
    LET mine == {r \in Requests : Tenant[r] = t}
    IN /\ permits[t] + Cardinality({r \in mine : pc[r] \in Holding})
            = MaxConcurrent
       /\ ToSet(queue[t]) = {r \in mine : pc[r] = "waiting"}
       /\ Len(queue[t]) = Cardinality(ToSet(queue[t]))

(* The route replays only what an agent turn answered under its own power: *)
(* never a degraded turn, and never an entry of the pipeline, whose cache  *)
(* it shares (query.py:149-158 and 122-124).                               *)
ReplayIsOwn ==
  \A r \in Requests :
    reply[r].cached = "route" => reply[r].entry.by = "agent"

(* Nobody is answered from what another ACL scope retrieved, by whichever  *)
(* of the three caches the answer went (cache/keys.py, tools/cache.py).    *)
RepliesForCaller ==
  /\ \A r \in Requests :
       reply[r].is = "answered" => reply[r].entry.scope = Scope[r]
  /\ \A k \in Keys : cache[k] # NoEntry => cache[k].scope = k[2]

(* Entries that were made from another version than the one in their key.  *)
(* Keys invalidate by version, so such an entry outlives the promotion     *)
(* that should retire it.                                                  *)
Misfiled(kind) ==
  {k \in {kind} \X Scopes \X Versions :
     cache[k] # NoEntry /\ cache[k].versions # {k[3]}}

(* tools/cache.py:28: "retrieval results are only valid for the corpus     *)
(* that produced them".  What the pipeline keeps is under the version it   *)
(* was made from, whatever is promoted while it works (online.py:139-163). *)
(* What a turn and its tools keep is, unless a promotion came since the    *)
(* version in the key was resolved, in this turn or in one whose tool      *)
(* results it took over (query.py:125, runtime.py:75).                     *)
CachesFaithful ==
  /\ Misfiled("pipeline") = {}
  /\ \A kind \in {"tool", "route"} : \A k \in Misfiled(kind) : cache[k].overtaken

(* docs/caching.md:42: when a version is published, "every key changes; no *)
(* stale answers from a retired corpus".  An answer, replayed or new,      *)
(* comes from versions published while its request was open.               *)
RepliesCurrent ==
  \A r \in Requests :
    reply[r].is = "answered" => reply[r].entry.versions \subseteq window[r]

(* What the code keeps of it.  An answer of a retired corpus is one that   *)
(* is replayed from, or rests on, an entry of a turn that a promotion      *)
(* overtook; every other answer, of the agent or of the pipeline, replayed *)
(* or new, its evidence cached or fresh, its own turn overtaken or not,    *)
(* comes from versions published while its request was open.               *)
CurrentUnlessOvertaken ==
  \A r \in Requests :
    (reply[r].is = "answered" /\ ~reply[r].entry.overtaken) =>
      reply[r].entry.versions \subseteq window[r]

(* Nobody queues for ever behind a tenant's stampede: every request ends,  *)
(* the request timeout aside.                                              *)
EveryRequestEnds ==
  \A r \in Requests : Open(r) ~> pc[r] = "over"
=============================================================================
