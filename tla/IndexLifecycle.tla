--------------------------- MODULE IndexLifecycle ---------------------------
(***************************************************************************)
(* Index versions: the jobs that build, publish and roll them back, the    *)
(* registry file they keep, the alias that decides what users see, and the *)
(* online requests that read through it.                                   *)
(*                                                                         *)
(* A job is a process of its own (rag reindex, rag ingest, rag activate),  *)
(* so jobs interleave with each other and with the readers, and a job may  *)
(* die between any two of its steps.  Its steps are its writes: the two    *)
(* stores, the alias, and the registry file, which is read, truncated and  *)
(* rewritten (Path.write_text) in three.  One upsert of one store is one   *)
(* step.                                                                   *)
(*                                                                         *)
(* The content of a version in a store is a function from chunk ids to     *)
(* revisions of their text, 0 for a chunk that is not there; chunk ids are *)
(* deterministic in the version, so indexing again overwrites by id.       *)
(***************************************************************************)
EXTENDS Integers, FiniteSets

CONSTANTS
  Versions,      (* index versions                                         *)
  None,          (* no version                                             *)
  Fallback,      (* settings.index_version, used when no alias resolves    *)
  Chunks,        (* chunk ids                                              *)
  MaxRev,        (* bound: revisions of a chunk                            *)
  Plans,         (* what operators may set out to do                       *)
  Readers,       (* concurrent online requests                             *)
  Live,          (* the version published at the start, or None            *)
  LiveContent,   (* its content                                            *)
  MaxCrashes,    (* bound: jobs that die                                   *)
  AliasOutage    (* whether reading the alias may fail                     *)

Content == [Chunks -> 0..MaxRev]
Nothing == [c \in Chunks |-> 0]
Commands == [op: {"reindex", "activate"}, version: Versions,
             source: Content, publish: BOOLEAN]
Statuses == {"absent", "building", "built", "active", "retired"}
File == [active: Versions \cup {None}, status: [Versions -> Statuses]]
EmptyFile == [active |-> None, status |-> [v \in Versions |-> "absent"]]

ASSUME VersionAssumption == None \notin Versions /\ Fallback \in Versions
(* A plan starts some jobs, one process each: command is their command     *)
(* line, needs the jobs the operator sees succeed before starting one,     *)
(* follows those seen to end, well or not; read_only says that the         *)
(* registry file may be impossible to write.                               *)
ASSUME PlanAssumption ==
  \A p \in Plans :
    /\ DOMAIN p.needs = DOMAIN p.command /\ DOMAIN p.follows = DOMAIN p.command
    /\ p.read_only \in BOOLEAN
    /\ \A j \in DOMAIN p.command :
         /\ p.command[j] \in Commands
         /\ p.needs[j] \cup p.follows[j] \subseteq DOMAIN p.command
ASSUME StartAssumption == /\ Live \in Versions \cup {None}
                          /\ LiveContent \in Content
ASSUME BoundAssumption == /\ MaxRev \in Nat /\ MaxCrashes \in Nat
                          /\ AliasOutage \in BOOLEAN

VARIABLES
  plan,              (* the plan operators follow                          *)
  vectors, lexical,  (* content of each version in the two stores          *)
  alias,             (* what docs_live points at                           *)
  file,              (* configs/index_versions.yaml                        *)
  phase,             (* where each job is                                  *)
  io,                (* its position in a registry update                  *)
  data,              (* the registry data it loaded                        *)
  reader,            (* each online request                                *)
  cache,             (* answer cache: what the entry of a version was      *)
                     (* generated from                                     *)
  crashes            (* jobs that died                                     *)

Jobs == DOMAIN plan.command
Command == plan.command
Needs == plan.needs
Follows == plan.follows

stores == <<vectors, lexical>>
jobVars == <<phase, io, data, crashes>>
online == <<reader, cache>>
vars == <<plan, stores, alias, file, jobVars, online>>

(* What a request saw of an index: its dense leg and its lexical leg.      *)
Seen == [dense: Content, lexical: Content]
NotSeen == [dense |-> Nothing, lexical |-> Nothing]
IdleReader == [pc |-> "idle", version |-> None,
               seen |-> NotSeen, todo |-> {}]

Updates == {"building", "built", "activating"}   \* phases that rewrite the file
Phases == Updates \cup {"idle", "vector", "lexical", "publish", "done", "crashed"}
Over == {"done", "crashed"}

(***************************************************************************)
(* Mutated forms of definitions below: plausible bugs that the properties  *)
(* must catch.                                                             *)
(***************************************************************************)
(* the alias flipped before the stores are written *)
AfterBuildingPublishFirst(j) == "publish"
(* the cache keyed without the index version *)
CacheKeyUnversioned(v) == Fallback
(* built recorded together with building *)
RecordedEarly(d, v, status) == [d EXCEPT !.status[v] = "built"]
(* an upsert that skips the ids already there *)
UpsertNewOnly(old, source) ==
  [c \in Chunks |-> IF old[c] = 0 THEN source[c] ELSE old[c]]

(***************************************************************************)
(* The registry: IndexRegistry.record and activate on loaded data.         *)
(***************************************************************************)
Recorded(d, v, status) == [d EXCEPT !.status[v] = status]

Activated(d, v) ==
  [active |-> v,
   status |-> [w \in Versions |-> IF d.status[w] = "absent" THEN "absent"
                                  ELSE IF w = v THEN "active" ELSE "retired"]]

Known(d, v) == d.status[v] # "absent"

Modified(j) ==
  LET v == Command[j].version
  IN CASE phase[j] = "building" -> Recorded(data[j], v, "building")
       [] phase[j] = "built" -> Recorded(data[j], v, "built")
       [] phase[j] = "activating" -> Activated(data[j], v)

(* Where a job goes once a registry update is over.  An empty corpus is    *)
(* neither indexed nor published.                                          *)
AfterBuilding(j) == IF Command[j].source = Nothing THEN "built" ELSE "vector"
AfterBuilt(j) == IF Command[j].publish /\ Command[j].source # Nothing
                 THEN "publish" ELSE "done"

Proceed(j) ==
  /\ phase' = [phase EXCEPT ![j] =
       CASE phase[j] = "building" -> AfterBuilding(j)
         [] phase[j] = "built" -> AfterBuilt(j)
         [] phase[j] = "activating" -> "done"]
  /\ io' = [io EXCEPT ![j] = "load"]

(***************************************************************************)
(* Initially version Live, if any, is built, published and active.         *)
(***************************************************************************)
Init ==
  /\ plan \in Plans
  /\ vectors = [v \in Versions |-> IF v = Live THEN LiveContent ELSE Nothing]
  /\ lexical = vectors
  /\ alias = Live
  /\ file = [active |-> Live,
             status |-> [v \in Versions |->
                           IF v = Live THEN "active" ELSE "absent"]]
  /\ phase = [j \in Jobs |-> "idle"]
  /\ io = [j \in Jobs |-> "load"]
  /\ data = [j \in Jobs |-> EmptyFile]
  /\ reader = [r \in Readers |-> IdleReader]
  /\ cache = [v \in Versions |-> NotSeen]
  /\ crashes = 0

(***************************************************************************)
(* Jobs.                                                                   *)
(***************************************************************************)
Start(j) ==
  /\ phase[j] = "idle"
  /\ \A k \in Needs[j] : phase[k] = "done"
  /\ \A k \in Follows[j] : phase[k] \in Over
  /\ phase' = [phase EXCEPT ![j] =
                 IF Command[j].op = "reindex" THEN "building" ELSE "publish"]
  /\ UNCHANGED <<plan, stores, alias, file, io, data, crashes, online>>

(* _load; activating a version the file does not know is a KeyError, which *)
(* the pipeline logs: the alias is flipped already.                        *)
LoadRegistry(j) ==
  /\ phase[j] \in Updates /\ io[j] = "load"
  /\ IF phase[j] = "activating" /\ ~Known(file, Command[j].version)
     THEN /\ phase' = [phase EXCEPT ![j] = "done"]
          /\ UNCHANGED <<io, data>>
     ELSE /\ data' = [data EXCEPT ![j] = file]
          /\ io' = [io EXCEPT ![j] = "open"]
          /\ UNCHANGED phase
  /\ UNCHANGED <<plan, stores, alias, file, crashes, online>>

(* _save opens the file for writing, which empties it ...                  *)
TruncateRegistry(j) ==
  /\ phase[j] \in Updates /\ io[j] = "open"
  /\ file' = EmptyFile
  /\ io' = [io EXCEPT ![j] = "write"]
  /\ UNCHANGED <<plan, stores, alias, phase, data, crashes, online>>

(* ... and writes the data that was loaded, with the job's change in it.   *)
WriteRegistry(j) ==
  /\ phase[j] \in Updates /\ io[j] = "write"
  /\ file' = Modified(j)
  /\ Proceed(j)
  /\ UNCHANGED <<plan, stores, alias, data, crashes, online>>

(* A registry that cannot be written is logged, not fatal.                 *)
SaveFails(j) ==
  /\ plan.read_only
  /\ phase[j] \in Updates /\ io[j] = "open"
  /\ Proceed(j)
  /\ UNCHANGED <<plan, stores, alias, file, data, crashes, online>>

Upserted(old, source) ==
  [c \in Chunks |-> IF source[c] = 0 THEN old[c] ELSE source[c]]

UpsertVectors(j) ==
  /\ phase[j] = "vector"
  /\ vectors' = [vectors EXCEPT ![Command[j].version] =
                   Upserted(@, Command[j].source)]
  /\ phase' = [phase EXCEPT ![j] = "lexical"]
  /\ UNCHANGED <<plan, lexical, alias, file, io, data, crashes, online>>

UpsertLexical(j) ==
  /\ phase[j] = "lexical"
  /\ lexical' = [lexical EXCEPT ![Command[j].version] =
                   Upserted(@, Command[j].source)]
  /\ phase' = [phase EXCEPT ![j] = "built"]
  /\ UNCHANGED <<plan, vectors, alias, file, io, data, crashes, online>>

(* OfflinePipeline.activate flips the alias first, then the registry.      *)
SetAlias(j) ==
  /\ phase[j] = "publish"
  /\ alias' = Command[j].version
  /\ phase' = [phase EXCEPT ![j] = "activating"]
  /\ UNCHANGED <<plan, stores, file, io, data, crashes, online>>

(* The process dies, or an exception nothing catches ends it.              *)
Crash(j) ==
  /\ phase[j] \notin Over \cup {"idle"}
  /\ crashes < MaxCrashes
  /\ crashes' = crashes + 1
  /\ phase' = [phase EXCEPT ![j] = "crashed"]
  /\ UNCHANGED <<plan, stores, alias, file, io, data, online>>

(***************************************************************************)
(* Online requests: OnlinePipeline.answer for one query and one principal, *)
(* so an entry of the answer cache is keyed by the index version alone.    *)
(***************************************************************************)
CacheKey(v) == v

Resolved(a) == IF a = None THEN Fallback ELSE a

(* active_index_version, then the cache: a hit replies at once.            *)
Serve(r, version) ==
  /\ reader[r].pc \in {"idle", "replied"}
  /\ reader' = [reader EXCEPT ![r] =
       IF cache[CacheKey(version)] # NotSeen
       THEN [pc |-> "replied", version |-> version,
             seen |-> cache[CacheKey(version)], todo |-> {}]
       ELSE [pc |-> "search", version |-> version,
             seen |-> NotSeen, todo |-> {"dense", "lexical"}]]
  /\ UNCHANGED <<plan, stores, alias, file, jobVars, cache>>

Resolve(r) == Serve(r, Resolved(alias))

(* The store cannot be asked: its own record of the alias, empty in a      *)
(* process that never published, leaves the configured version.            *)
ResolveFails(r) == AliasOutage /\ Serve(r, Fallback)

SearchDense(r) ==
  /\ reader[r].pc = "search" /\ "dense" \in reader[r].todo
  /\ reader' = [reader EXCEPT ![r].seen.dense = vectors[reader[r].version],
                              ![r].todo = @ \ {"dense"}]
  /\ UNCHANGED <<plan, stores, alias, file, jobVars, cache>>

SearchLexical(r) ==
  /\ reader[r].pc = "search" /\ "lexical" \in reader[r].todo
  /\ reader' = [reader EXCEPT ![r].seen.lexical = lexical[reader[r].version],
                              ![r].todo = @ \ {"lexical"}]
  /\ UNCHANGED <<plan, stores, alias, file, jobVars, cache>>

(* With nothing retrieved the request is refused, which is not cached.     *)
Reply(r) ==
  /\ reader[r].pc = "search" /\ reader[r].todo = {}
  /\ reader' = [reader EXCEPT ![r].pc = "replied"]
  /\ cache' = [cache EXCEPT ![CacheKey(reader[r].version)] =
                 IF reader[r].seen = NotSeen THEN @ ELSE reader[r].seen]
  /\ UNCHANGED <<plan, stores, alias, file, jobVars>>

Expire(v) ==
  /\ cache[v] # NotSeen
  /\ cache' = [cache EXCEPT ![v] = NotSeen]
  /\ UNCHANGED <<plan, stores, alias, file, jobVars, reader>>

Next ==
  \/ \E j \in Jobs :
       \/ Start(j) \/ LoadRegistry(j) \/ TruncateRegistry(j)
       \/ WriteRegistry(j) \/ SaveFails(j)
       \/ UpsertVectors(j) \/ UpsertLexical(j) \/ SetAlias(j) \/ Crash(j)
  \/ \E r \in Readers :
       \/ Resolve(r) \/ ResolveFails(r)
       \/ SearchDense(r) \/ SearchLexical(r) \/ Reply(r)
  \/ \E v \in Versions : Expire(v)

Spec == Init /\ [][Next]_vars

(***************************************************************************)
(* Properties.                                                             *)
(***************************************************************************)

(* Every variable has its type.                                            *)
TypeOK ==
  /\ plan \in Plans
  /\ vectors \in [Versions -> Content] /\ lexical \in [Versions -> Content]
  /\ alias \in Versions \cup {None} /\ file \in File
  /\ phase \in [Jobs -> Phases] /\ io \in [Jobs -> {"load", "open", "write"}]
  /\ data \in [Jobs -> File] /\ cache \in [Versions -> Seen]
  /\ crashes \in 0..MaxCrashes
  /\ reader \in [Readers -> [pc: {"idle", "search", "replied"},
                             version: Versions \cup {None},
                             seen: Seen,
                             todo: SUBSET {"dense", "lexical"}]]

Builds(j, v) == Command[j].op = "reindex" /\ Command[j].version = v

(* The corpora a version is meant to hold.                                 *)
Corpora(v) ==
  {Command[j].source : j \in {k \in Jobs : Builds(k, v)}}
  \cup (IF v = Live THEN {LiveContent} ELSE {})

Whole(seen, v) == seen.dense = seen.lexical /\ seen.dense \in Corpora(v)

(* A plan is disciplined if it writes no version twice, nor the live one,  *)
(* and promotes only what it saw built, or the version it began with: the  *)
(* guide has every build write a version of its own, to be promoted when   *)
(* it is done.  Its mixed corpora, several builds into one version         *)
(* (operations.md:100), are not disciplined in this sense: Offline and its *)
(* EveryRunIsIndexed are about them.                                       *)
Disciplined ==
  \A j \in Jobs :
    LET v == Command[j].version
    IN /\ Command[j].op = "reindex" =>
            /\ v # Live
            /\ \A k \in Jobs \ {j} : ~Builds(k, v)
       /\ Command[j].op = "activate" =>
            v = Live \/ \E k \in Needs[j] : Builds(k, v)

(* The published version is wholly written in both stores: a failed job is *)
(* a no-op for users.                                                      *)
LiveIsWhole ==
  alias # None => Whole([dense |-> vectors[alias], lexical |-> lexical[alias]],
                        alias)

(* So it is under a disciplined plan, whatever jobs run at once and        *)
(* wherever they die.                                                      *)
DisciplineKeepsLiveWhole == Disciplined => LiveIsWhole

(* And no request, whichever way its two searches interleave with the jobs *)
(* and whether it is served from the cache, answers from a half-built      *)
(* index.                                                                  *)
RepliesWhole ==
  Disciplined => \A r \in Readers :
    (reader[r].pc = "replied" /\ reader[r].seen # NotSeen) =>
      Whole(reader[r].seen, reader[r].version)

(* A version the registry calls built or active is wholly written, even    *)
(* when updates of the file overwrite one another.                         *)
BuiltIsWhole ==
  Disciplined => \A v \in Versions : file.status[v] \in {"built", "active"} =>
    Whole([dense |-> vectors[v], lexical |-> lexical[v]], v)

(* A plan is serial if operators run one command at a time, on corpora     *)
(* that lose no chunk, and publish none that is empty.                     *)
Covers(new, old) == \A c \in Chunks : new[c] = 0 => old[c] = 0

Serial ==
  /\ ~plan.read_only
  /\ \A j, k \in Jobs : j = k \/ j \in Follows[k] \/ k \in Follows[j]
  /\ \A j \in Jobs : Command[j].op = "reindex" =>
       LET new == Command[j].source
       IN /\ Command[j].publish => new # Nothing
          /\ Command[j].version = Live => Covers(new, LiveContent)
          /\ \A k \in Follows[j] :
               Builds(k, Command[j].version) => Covers(new, Command[k].source)

(* However jobs died, running the next command, the same or another, to    *)
(* its end brings everything to where a clean run would have: the stores   *)
(* hold exactly what it wrote, and if it publishes, the alias names its    *)
(* version and the registry calls that one active and no other.  A crash   *)
(* that left the file empty has lost the records of the versions before    *)
(* it, so activating one of those does not repair the registry.            *)
Latest(j) == /\ phase[j] # "idle"
             /\ \A k \in Jobs : j \in Follows[k] => phase[k] = "idle"

RerunRecovers ==
  Serial => \A j \in Jobs : (Latest(j) /\ phase[j] = "done") =>
    LET v == Command[j].version
    IN /\ Command[j].op = "reindex" => /\ vectors[v] = Command[j].source
                                       /\ lexical[v] = Command[j].source
                                       /\ Known(file, v)
       /\ Command[j].publish => alias = v
       /\ (Command[j].publish /\ Known(file, v)) =>
            /\ file.active = v
            /\ \A w \in Versions : file.status[w] = "active" <=> w = v
=============================================================================
