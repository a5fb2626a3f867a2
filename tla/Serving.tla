------------------------------ MODULE Serving ------------------------------
(***************************************************************************)
(* A replica of the API from its start to its last reply: the settings are *)
(* validated and wired, callers are authenticated, requests are handed to  *)
(* the route (QueryRoute, whose actions are the second half of this        *)
(* module's), and a probe asks whether the replica is ready while index    *)
(* jobs in other processes build versions and move the alias.              *)
(*                                                                         *)
(* A request of QueryRoute is one whose caller was authenticated as its    *)
(* Scope; here its scope is that principal.                                *)
(***************************************************************************)
EXTENDS QueryRoute, Offline

CONSTANT Deployments   (* those of Offline, with the requests they meet,   *)
                       (* the credentials these come with, and (a bound)   *)
                       (* whether anybody probes                           *)

ASSUME DeploymentAssumption ==
  /\ \A d \in Deployments :
       /\ d.settings \in Settings /\ d.traffic \subseteq Requests
       /\ d.credentials \subseteq Credentials
       /\ d.live \in Versions \cup {NoVersion} /\ d.probed \in BOOLEAN
       /\ d.plan \in Seq(ToSet(d.plan))
       /\ \A command \in ToSet(d.plan) : command.version \in Versions
  /\ Targets = Versions /\ Configured = FirstVersion /\ Absent = NoVersion
  /\ Scopes = Principals
  /\ \A r \in Requests : Tenant[r] = Scope[r].tenant

(* What files hold are characters, sizes and overlaps count them, and what *)
(* is indexed before the plan was redacted as the plan's documents are.    *)
ASSUME CorpusAssumption ==
  \A d \in Deployments :
    /\ \A mime \in Mimes : d.chunking[mime].size \in Nat /\ d.chunking[mime].overlap \in Nat
    /\ \A command \in ToSet(d.plan) :
         /\ command.source \in Seq(ToSet(command.source))
         /\ \A f \in ToSet(command.source) :
              /\ f.body.is = "text" => f.body.text \in Seq(STRING)
              /\ f.body.is = "pages" => f.body.pages \in Seq(Seq(STRING))
    /\ d.redact => \A chunk \in d.indexed : Personal \notin ToSet(chunk.text)

VARIABLES
  phase,       (* "starting", "up", or "refused" by the validator          *)
  wiring,      (* AppState: the backends and the authenticator             *)
  presented,   (* the credentials each request came with                   *)
  probe,       (* GET /ready: where it is and what it resolved             *)
  report,      (* what the last probe said                                 *)
  seen         (* history: versions published since the last probe began   *)

NotWired == [wired |-> FALSE]
Nothing == [nothing |-> TRUE]
IdleProbe == [at |-> "idle", version |-> NoVersion]

health == <<probe, report, seen>>
replica == <<phase, wiring, presented>>
own == <<offlineVars, replica, health>>
serving == <<vars, own>>

traffic == deployment.traffic
populated == {v \in Versions : dense[v] # {}}

(* A store in memory is the process's own, which no job ever fills.        *)
InMemory == wiring.pipeline.vector.store = "memory"

(***************************************************************************)
(* Mutated forms.                                                          *)
(***************************************************************************)
(* readiness counting what the process was built with *)
CountedOwn(v) == IF InMemory THEN 0
                 ELSE IF FirstVersion \in populated THEN 1 ELSE 0

(***************************************************************************)
(* Start.                                                                  *)
(***************************************************************************)
ServingInit ==
  /\ Init
  /\ deployment \in Deployments
  /\ OfflineInit
  /\ phase = "starting" /\ wiring = NotWired
  /\ presented = [r \in Requests |-> Nothing]
  /\ probe = IdleProbe /\ report = "none" /\ seen = {}

(* create_app reads the settings, which raises; the lifespan wires them.   *)
Boot ==
  /\ phase = "starting"
  /\ IF Accepted(settings)
     THEN phase' = "up" /\ wiring' = build_state(settings)
     ELSE phase' = "refused" /\ UNCHANGED wiring
  /\ UNCHANGED <<vars, offlineVars, presented, health>>

(***************************************************************************)
(* Requests.                                                               *)
(***************************************************************************)
Presents(r, cred) ==
  /\ phase = "up" /\ r \in traffic /\ cred \in deployment.credentials
  /\ presented[r] = Nothing
  /\ presented' = [presented EXCEPT ![r] = cred]
  /\ UNCHANGED <<offlineVars, phase, wiring, health>>

(* get_principal fails the request before its handler runs.                *)
Unauthorized(r, cred) ==
  /\ authenticate(wiring.authenticator, cred) = Unauthenticated
  /\ pc[r] = "new"
  /\ pc' = [pc EXCEPT ![r] = "over"]
  /\ UNCHANGED <<index, cache, semaphore, key, agent, thread, reply, window>>

Admitted(r, cred) == authenticate(wiring.authenticator, cred) = Scope[r]

Query(r, cred) ==
  /\ Presents(r, cred)
  /\ \/ Unauthorized(r, cred)
     \/ /\ Admitted(r, cred)
        /\ \E mode \in Modes, route \in Routes :
             IF should_use_agent(route, mode, wiring.agent.chat # "none")
             THEN AgentArrives(r) ELSE FastArrives(r)

(***************************************************************************)
(* GET /ready.  The alias and the count are two calls to the store.        *)
(***************************************************************************)
Resolvable == IF InMemory THEN NoVersion ELSE published

Counted(v) ==
  LET version == IF v = NoVersion THEN FirstVersion ELSE v
  IN IF ~InMemory /\ version \in populated THEN 1 ELSE 0

ProbeResolves ==
  /\ phase = "up" /\ deployment.probed /\ probe.at = "idle"
  /\ \/ probe' = [at |-> "resolved", version |-> Resolvable]
     \/ /\ ~InMemory             \* the store cannot be read
        /\ probe' = [at |-> "resolved", version |-> NoVersion]
  /\ seen' = {published}
  /\ UNCHANGED <<vars, offlineVars, replica, report>>

(* The count may raise, and a Redis cache must answer its ping.            *)
ProbeCounts ==
  /\ probe.at = "resolved"
  /\ \E counts \in BOOLEAN, ping \in BOOLEAN :
       report' = IF /\ probe.version # NoVersion
                    /\ counts /\ Counted(probe.version) > 0
                    /\ wiring.pipeline.cache = "redis" => ping
                 THEN "ready" ELSE "not_ready"
  /\ probe' = IdleProbe
  /\ UNCHANGED <<vars, offlineVars, replica, seen>>

(***************************************************************************)
(* Index jobs, in processes of their own.  Nothing makes an activation     *)
(* wait for a build.  The alias of QueryRoute follows the published one.   *)
(***************************************************************************)
Job ==
  /\ OfflineNext
  /\ IF published' \in {published, alias} THEN UNCHANGED vars
                                         ELSE Promote(published')
  /\ seen' = seen \cup {published'}
  /\ UNCHANGED <<replica, probe, report>>

(* What QueryRoute does with a request once it has arrived.                *)
Handle(r) ==
  /\ pc[r] # "new"
  /\ Step(r)
  /\ UNCHANGED own

ServingNext ==
  \/ Boot
  \/ \E r \in Requests :
       \/ \E cred \in Credentials : Query(r, cred)
       \/ Handle(r)
  \/ ProbeResolves \/ ProbeCounts
  \/ Job
  \/ \E k \in Keys : Expire(k) /\ UNCHANGED own

(* The fairness of QueryRoute, whose actions these are.                    *)
ServingFairness ==
  \A r \in Requests :
    /\ WF_serving(TurnStarts(r) /\ UNCHANGED own)
    /\ WF_serving(TurnEnds(r) /\ UNCHANGED own)
    /\ WF_serving(PipelineStarts(r) /\ UNCHANGED own)
    /\ WF_serving(PipelineEnds(r) /\ UNCHANGED own)
    /\ WF_serving(ThreadReturns(r) /\ UNCHANGED own)

ServingSpec == ServingInit /\ [][ServingNext]_serving /\ ServingFairness

-----------------------------------------------------------------------------
(***************************************************************************)
(* Properties.                                                             *)
(***************************************************************************)
(* Outside dev a replica runs no stub and no egress, and whoever it serves *)
(* presented a token of the file: what they are answered was made for the  *)
(* tenant and groups the file gives that token, whatever their headers     *)
(* said (settings.py _reject_unsafe_production_config, security/auth.py).  *)
ProductionIsSafe ==
  (phase = "up" /\ is_production(settings)) =>
    /\ wiring.pipeline.embedder.client # "hash" /\ wiring.pipeline.llm # "echo"
    /\ wiring.agent.chat # "echo" /\ ~wiring.agent.egress
    /\ \A r \in Requests :
         LET token == presented[r].token
         IN (presented[r] # Nothing /\ window[r] # {}) =>    \* admitted
              /\ settings.auth_tokens_file /\ token \in DOMAIN Tokens
              /\ reply[r].is = "answered" =>
                   reply[r].entry.scope = Tokens[token]

(* A replica says it is ready only if its store holds chunks of a version  *)
(* that was published during the probe, of the width its queries have,     *)
(* although the alias may move, even to a version nobody has built,        *)
(* between the two calls of the probe (online.py readiness, offline.py:109,*)
(* backends.py _vector_dimensions).                                        *)
ReadyIsQueryable ==
  (report = "ready" /\ probe.at = "idle") =>
    /\ seen \cap populated # {}
    /\ wiring.pipeline.vector.dimensions = wiring.pipeline.embedder.dimensions
=============================================================================
