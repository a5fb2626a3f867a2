------------------------ MODULE IndexLifecycleProofs ------------------------
(***************************************************************************)
(* Proofs about IndexLifecycle, for any plans, any number of jobs and      *)
(* readers, any versions, corpora and number of crashes.                   *)
(***************************************************************************)
EXTENDS IndexLifecycle, TLAPS

USE VersionAssumption, StartAssumption, BoundAssumption

(***************************************************************************)
(* Types.                                                                  *)
(***************************************************************************)

(* What a plan of Plans looks like, in terms of the jobs it runs.          *)
LEMMA PlanFits ==
  ASSUME plan \in Plans, NEW j \in Jobs
  PROVE  /\ Command[j] \in Commands
         /\ Command[j].version \in Versions
         /\ Command[j].source \in Content
         /\ Command[j].op \in {"reindex", "activate"}
         /\ Command[j].publish \in BOOLEAN
         /\ Needs[j] \subseteq Jobs /\ Follows[j] \subseteq Jobs
<1>1. Command[j] \in Commands /\ Needs[j] \cup Follows[j] \subseteq Jobs
  BY PlanAssumption DEF Jobs, Command, Needs, Follows
<1>2. QED
  BY <1>1 DEF Commands

LEMMA NothingFits == Nothing \in Content /\ NotSeen \in Seen /\ EmptyFile \in File
  BY DEF Nothing, Content, NotSeen, Seen, EmptyFile, File, Statuses

(* An upsert yields content.                                               *)
LEMMA UpsertFits ==
  ASSUME NEW old \in Content, NEW source \in Content
  PROVE  Upserted(old, source) \in Content
  BY DEF Upserted, Content

(* Written over what it covers, new content is all there is.               *)
LEMMA UpsertCovering ==
  ASSUME NEW old \in Content, NEW source \in Content, Covers(source, old)
  PROVE  /\ Upserted(old, source) = source
         /\ source = Nothing => old = Nothing
<1>1. \A c \in Chunks : Upserted(old, source)[c] = source[c]
  BY DEF Upserted, Covers
<1>2. Upserted(old, source) \in Content
  BY UpsertFits
<1>3. source = Nothing => \A c \in Chunks : old[c] = Nothing[c]
  BY DEF Covers, Nothing
<1>4. QED
  BY <1>1, <1>2, <1>3, NothingFits DEF Content

LEMMA UpsertIntoNothing ==
  ASSUME NEW source \in Content
  PROVE  Upserted(Nothing, source) = source
  BY NothingFits, UpsertCovering DEF Covers, Nothing

(* A registry update yields registry data.                                 *)
LEMMA RecordFits ==
  ASSUME NEW d \in File, NEW v \in Versions, NEW s \in Statuses
  PROVE  Recorded(d, v, s) \in File
  BY DEF Recorded, File

LEMMA ActivateFits ==
  ASSUME NEW d \in File, NEW v \in Versions
  PROVE  Activated(d, v) \in File
  BY DEF Activated, File, Statuses

(* What each update writes.                                                *)
LEMMA UpdateIs ==
  ASSUME NEW j \in Jobs
  PROVE  /\ phase[j] = "building" =>
              Modified(j) = Recorded(data[j], Command[j].version, "building")
         /\ phase[j] = "built" =>
              Modified(j) = Recorded(data[j], Command[j].version, "built")
         /\ phase[j] = "activating" =>
              Modified(j) = Activated(data[j], Command[j].version)
  BY DEF Modified

LEMMA UpdateFits ==
  ASSUME TypeOK, NEW j \in Jobs, phase[j] \in Updates
  PROVE  Modified(j) \in File
<1>1. data[j] \in File /\ Command[j].version \in Versions
  BY PlanFits DEF TypeOK
<1>2. \A s \in {"building", "built"} :
        Recorded(data[j], Command[j].version, s) \in File
  BY <1>1, RecordFits DEF Statuses
<1>3. Activated(data[j], Command[j].version) \in File
  BY <1>1, ActivateFits
<1>4. QED
  BY <1>2, <1>3, UpdateIs DEF Updates

LEMMA UpdateStatus ==
  ASSUME TypeOK, NEW j \in Jobs, NEW w \in Versions
  PROVE  /\ phase[j] \in {"building", "built"} =>
              Modified(j).status[w] = IF w = Command[j].version THEN phase[j]
                                      ELSE data[j].status[w]
         /\ phase[j] = "activating" =>
              /\ Modified(j).active = Command[j].version
              /\ Modified(j).status[w] =
                   IF data[j].status[w] = "absent" THEN "absent"
                   ELSE IF w = Command[j].version THEN "active" ELSE "retired"
<1> DEFINE d == data[j]
           v == Command[j].version
<1>1. d \in File /\ v \in Versions
  BY PlanFits DEF TypeOK
<1> HIDE DEF d, v
<1>2. \A s \in {"building", "built"} :
        Recorded(d, v, s).status[w] = IF w = v THEN s ELSE d.status[w]
  BY <1>1 DEF Recorded, File
<1>3. /\ Activated(d, v).active = v
      /\ Activated(d, v).status[w] =
           IF d.status[w] = "absent" THEN "absent"
           ELSE IF w = v THEN "active" ELSE "retired"
  BY <1>1 DEF Activated
<1>4. QED
  BY <1>2, <1>3, UpdateIs DEF d, v

(* Where a job is once its update is over.                                 *)
LEMMA ProceedFits ==
  ASSUME TypeOK, NEW j \in Jobs, phase[j] \in Updates, Proceed(j)
  PROVE  /\ phase' \in [Jobs -> Phases]
         /\ io' \in [Jobs -> {"load", "open", "write"}]
         /\ \A k \in Jobs \ {j} : phase'[k] = phase[k] /\ io'[k] = io[k]
         /\ io'[j] = "load"
         /\ phase[j] = "building" =>
              phase'[j] = IF Command[j].source = Nothing THEN "built" ELSE "vector"
         /\ phase[j] = "built" =>
              phase'[j] = IF Command[j].publish /\ Command[j].source # Nothing
                          THEN "publish" ELSE "done"
         /\ phase[j] = "activating" => phase'[j] = "done"
<1>1. phase \in [Jobs -> Phases] /\ io \in [Jobs -> {"load", "open", "write"}]
  BY DEF TypeOK
<1>2. CASE phase[j] = "building"
  BY <1>1, <1>2 DEF Proceed, AfterBuilding, Phases, Updates
<1>3. CASE phase[j] = "built"
  BY <1>1, <1>3 DEF Proceed, AfterBuilt, Phases, Updates
<1>4. CASE phase[j] = "activating"
  BY <1>1, <1>4 DEF Proceed, Phases, Updates
<1>5. QED
  BY <1>2, <1>3, <1>4 DEF Updates

(* The plan never changes.                                                 *)
LEMMA PlanStays ==
  ASSUME [Next]_vars
  PROVE  plan' = plan
  BY DEF Next, vars, Start, LoadRegistry, TruncateRegistry, WriteRegistry,
     SaveFails, UpsertVectors, UpsertLexical, SetAlias, Crash, Resolve,
     ResolveFails, Serve, SearchDense, SearchLexical, Reply, Expire

LEMMA InitTypes == Init => TypeOK
<1> SUFFICES ASSUME Init PROVE TypeOK
  OBVIOUS
<1>1. vectors \in [Versions -> Content] /\ lexical \in [Versions -> Content]
  BY NothingFits DEF Init
<1>2. file \in File
  BY DEF Init, File, Statuses
<1>3. reader \in [Readers -> [pc: {"idle", "search", "replied"},
                              version: Versions \cup {None},
                              seen: Seen,
                              todo: SUBSET {"dense", "lexical"}]]
  BY NothingFits DEF Init, IdleReader
<1>4. QED
  BY <1>1, <1>2, <1>3, NothingFits DEF Init, TypeOK, Phases, Updates

LEMMA NextTypes == TypeOK /\ [Next]_vars => TypeOK'
<1> SUFFICES ASSUME TypeOK, [Next]_vars PROVE TypeOK'
  OBVIOUS
<1>a. plan' = plan /\ Jobs' = Jobs
  BY PlanStays DEF Jobs, Command
<1>b. plan \in Plans
  BY DEF TypeOK
<1>1. ASSUME NEW j \in Jobs, Start(j) PROVE TypeOK'
  BY <1>1, <1>a DEF Start, TypeOK, Phases, Updates, stores, online
<1>2. ASSUME NEW j \in Jobs, LoadRegistry(j) PROVE TypeOK'
  BY <1>2, <1>a DEF LoadRegistry, TypeOK, Phases, stores, online
<1>3. ASSUME NEW j \in Jobs, TruncateRegistry(j) PROVE TypeOK'
  BY <1>3, <1>a, NothingFits DEF TruncateRegistry, TypeOK, stores, online
<1>4. ASSUME NEW j \in Jobs, WriteRegistry(j) PROVE TypeOK'
  BY <1>4, <1>a, UpdateFits, ProceedFits
     DEF WriteRegistry, TypeOK, stores, online
<1>5. ASSUME NEW j \in Jobs, SaveFails(j) PROVE TypeOK'
  BY <1>5, <1>a, ProceedFits DEF SaveFails, TypeOK, stores, online
<1>6. ASSUME NEW j \in Jobs, UpsertVectors(j) PROVE TypeOK'
  <2>1. Upserted(vectors[Command[j].version], Command[j].source) \in Content
    BY <1>b, PlanFits, UpsertFits DEF TypeOK
  <2>2. vectors' \in [Versions -> Content]
    BY <1>6, <2>1 DEF UpsertVectors, TypeOK
  <2>3. QED
    BY <1>6, <1>a, <2>2 DEF UpsertVectors, TypeOK, Phases, online
<1>7. ASSUME NEW j \in Jobs, UpsertLexical(j) PROVE TypeOK'
  <2>1. Upserted(lexical[Command[j].version], Command[j].source) \in Content
    BY <1>b, PlanFits, UpsertFits DEF TypeOK
  <2>2. lexical' \in [Versions -> Content]
    BY <1>7, <2>1 DEF UpsertLexical, TypeOK
  <2>3. QED
    BY <1>7, <1>a, <2>2 DEF UpsertLexical, TypeOK, Phases, Updates, online
<1>8. ASSUME NEW j \in Jobs, SetAlias(j) PROVE TypeOK'
  BY <1>8, <1>a, <1>b, PlanFits
     DEF SetAlias, TypeOK, Phases, Updates, stores, online
<1>9. ASSUME NEW j \in Jobs, Crash(j) PROVE TypeOK'
  BY <1>9, <1>a DEF Crash, TypeOK, Phases, stores, online
<1>10. ASSUME NEW r \in Readers, NEW v \in Versions, Serve(r, v) PROVE TypeOK'
  BY <1>10, <1>a, NothingFits
     DEF Serve, CacheKey, TypeOK, stores, jobVars
<1>11. ASSUME NEW r \in Readers, Resolve(r) PROVE TypeOK'
  BY <1>10, <1>11 DEF Resolve, Resolved, TypeOK
<1>12. ASSUME NEW r \in Readers, ResolveFails(r) PROVE TypeOK'
  BY <1>10, <1>12 DEF ResolveFails
<1>13. ASSUME NEW r \in Readers, SearchDense(r) PROVE TypeOK'
  BY <1>13, <1>a DEF SearchDense, TypeOK, stores, jobVars
<1>14. ASSUME NEW r \in Readers, SearchLexical(r) PROVE TypeOK'
  BY <1>14, <1>a DEF SearchLexical, TypeOK, stores, jobVars
<1>15. ASSUME NEW r \in Readers, Reply(r) PROVE TypeOK'
  <2>1. /\ reader' = [reader EXCEPT ![r].pc = "replied"]
        /\ cache' = [cache EXCEPT ![CacheKey(reader[r].version)] =
                       IF reader[r].seen = NotSeen THEN @ ELSE reader[r].seen]
        /\ UNCHANGED <<plan, vectors, lexical, alias, file, phase, io, data, crashes>>
    BY <1>15 DEF Reply, stores, jobVars
  <2>2. reader' \in [Readers -> [pc: {"idle", "search", "replied"},
                                version: Versions \cup {None}, seen: Seen,
                                todo: SUBSET {"dense", "lexical"}]]
    BY <2>1 DEF TypeOK
  <2>3. cache' \in [Versions -> Seen]
    <3>1. cache \in [Versions -> Seen] /\ reader[r].seen \in Seen
      BY DEF TypeOK
    <3>2. QED
      BY <2>1, <3>1
  <2>4. QED
    BY <1>a, <2>1, <2>2, <2>3 DEF TypeOK
<1>16. ASSUME NEW v \in Versions, Expire(v) PROVE TypeOK'
  BY <1>16, <1>a, NothingFits DEF Expire, TypeOK, stores, jobVars
<1>17. ASSUME UNCHANGED vars PROVE TypeOK'
  BY <1>17, <1>a DEF vars, TypeOK, stores, jobVars, online
<1>18. QED
  BY <1>1, <1>2, <1>3, <1>4, <1>5, <1>6, <1>7, <1>8, <1>9, <1>11, <1>12,
     <1>13, <1>14, <1>15, <1>16, <1>17 DEF Next

(***************************************************************************)
(* The inductive invariant of disciplined plans: the stores.               *)
(***************************************************************************)
Stocked(v) == Whole([dense |-> vectors[v], lexical |-> lexical[v]], v)

(* A job that builds a version alone: both stores are empty until it has   *)
(* written them, and hold its corpus from then on.                         *)
BuildStage(j) ==
  LET v == Command[j].version
      source == Command[j].source
  IN /\ phase[j] \in {"idle", "building", "vector"} =>
          vectors[v] = Nothing /\ lexical[v] = Nothing
     /\ phase[j] \in {"vector", "lexical"} => source # Nothing
     /\ phase[j] = "lexical" => vectors[v] = source /\ lexical[v] = Nothing
     /\ phase[j] \in {"built", "publish", "activating", "done"} =>
          vectors[v] = source /\ lexical[v] = source

ActivationStage(j) ==
  phase[j] \in {"idle", "publish", "activating", "done", "crashed"}

JobFits(j) == IF Command[j].op = "reindex" THEN BuildStage(j)
              ELSE ActivationStage(j)

LiveKept ==
  Live # None => vectors[Live] = LiveContent /\ lexical[Live] = LiveContent

StoresInv == LiveKept /\ \A j \in Jobs : JobFits(j)

(* A version is published only when it is whole, and so is what the alias  *)
(* names, and what the registry, or data read from it, calls built.        *)
PublishesWhole(j) ==
  phase[j] \in {"publish", "activating"} => Stocked(Command[j].version)

RecordsWhole(d) ==
  \A v \in Versions : d.status[v] \in {"built", "active"} => Stocked(v)

PublicationInv ==
  /\ LiveIsWhole
  /\ RecordsWhole(file)
  /\ \A j \in Jobs : PublishesWhole(j) /\ RecordsWhole(data[j])

(* A search reads a whole version, and what it has read of it is still     *)
(* there; replies and cache entries are whole.                             *)
SearchesWhole(r) ==
  LET me == reader[r]
  IN /\ me.pc = "search" =>
          /\ me.version \in Versions /\ Stocked(me.version)
          /\ "dense" \notin me.todo => me.seen.dense = vectors[me.version]
          /\ "lexical" \notin me.todo => me.seen.lexical = lexical[me.version]
     /\ (me.pc = "replied" /\ me.seen # NotSeen) => Whole(me.seen, me.version)

CachesWhole == \A v \in Versions : cache[v] # NotSeen => Whole(cache[v], v)

OnlineInv ==
  /\ alias # None
  /\ CachesWhole
  /\ \A r \in Readers : SearchesWhole(r)

(***************************************************************************)
(* What single steps leave alone.                                          *)
(***************************************************************************)
JobStep(j) == \/ Start(j) \/ LoadRegistry(j) \/ TruncateRegistry(j)
              \/ WriteRegistry(j) \/ SaveFails(j)
              \/ UpsertVectors(j) \/ UpsertLexical(j) \/ SetAlias(j) \/ Crash(j)

(* A step is a job's, or leaves all that jobs keep as it is.               *)
LEMMA WhoSteps ==
  ASSUME [Next]_vars
  PROVE  \/ \E j \in Jobs : JobStep(j)
         \/ UNCHANGED <<plan, vectors, lexical, alias, file,
                        phase, io, data, crashes>>
<1>1. ASSUME NEW r \in Readers,
             Resolve(r) \/ ResolveFails(r) \/ SearchDense(r)
               \/ SearchLexical(r) \/ Reply(r)
      PROVE  UNCHANGED <<plan, vectors, lexical, alias, file,
                         phase, io, data, crashes>>
  BY <1>1 DEF Resolve, ResolveFails, Serve, SearchDense, SearchLexical, Reply,
     stores, jobVars
<1>2. ASSUME NEW v \in Versions, Expire(v)
      PROVE  UNCHANGED <<plan, vectors, lexical, alias, file,
                         phase, io, data, crashes>>
  BY <1>2 DEF Expire, stores, jobVars
<1>3. ASSUME UNCHANGED vars
      PROVE  UNCHANGED <<plan, vectors, lexical, alias, file,
                         phase, io, data, crashes>>
  BY <1>3 DEF vars, stores, jobVars
<1>4. QED
  BY <1>1, <1>2, <1>3 DEF Next, JobStep

(* A job's step moves no other job, and leaves requests alone.             *)
LEMMA OthersWait ==
  ASSUME TypeOK, NEW j \in Jobs, JobStep(j)
  PROVE  /\ \A k \in Jobs \ {j} : /\ phase'[k] = phase[k]
                                  /\ io'[k] = io[k] /\ data'[k] = data[k]
         /\ UNCHANGED <<plan, reader, cache>>
<1>1. CASE WriteRegistry(j) \/ SaveFails(j)
  <2>1. phase[j] \in Updates /\ Proceed(j) /\ UNCHANGED <<plan, data, reader, cache>>
    BY <1>1 DEF WriteRegistry, SaveFails, online
  <2>2. QED
    BY <2>1, ProceedFits
<1>2. CASE ~(WriteRegistry(j) \/ SaveFails(j))
  BY <1>2 DEF JobStep, TypeOK, Start, LoadRegistry, TruncateRegistry,
     UpsertVectors, UpsertLexical, SetAlias, Crash, online
<1>3. QED
  BY <1>1, <1>2

(***************************************************************************)
(* The stores, under a disciplined plan.                                   *)
(***************************************************************************)

(* No two jobs build a version, and none the live one.                     *)
LEMMA BuildsAlone ==
  ASSUME Disciplined, NEW j \in Jobs, Command[j].op = "reindex"
  PROVE  /\ Command[j].version # Live
         /\ \A k \in Jobs : (Command[k].op = "reindex" /\ k # j)
                              => Command[k].version # Command[j].version
  BY DEF Disciplined, Builds

(* A job may move when the stores stay and it fits where it goes.          *)
LEMMA JobMoves ==
  ASSUME TypeOK, StoresInv, NEW j \in Jobs, UNCHANGED <<plan, vectors, lexical>>,
         \A k \in Jobs \ {j} : phase'[k] = phase[k],
         JobFits(j)'
  PROVE  StoresInv'
<1>1. Jobs' = Jobs /\ LiveKept'
  BY DEF Jobs, Command, StoresInv, LiveKept
<1>2. ASSUME NEW k \in Jobs, k # j PROVE JobFits(k)'
  BY <1>2 DEF StoresInv, JobFits, BuildStage, ActivationStage, Command
<1>3. QED
  BY <1>1, <1>2 DEF StoresInv

(* Content written to the version of a build disturbs no other job.        *)
LEMMA JobWrites ==
  ASSUME TypeOK, Disciplined, StoresInv, NEW j \in Jobs,
         Command[j].op = "reindex", plan' = plan,
         \A v \in Versions \ {Command[j].version} :
           vectors'[v] = vectors[v] /\ lexical'[v] = lexical[v],
         \A k \in Jobs \ {j} : phase'[k] = phase[k],
         JobFits(j)'
  PROVE  StoresInv'
<1>1. Jobs' = Jobs
  BY DEF Jobs, Command
<1>2. LiveKept'
  BY BuildsAlone DEF StoresInv, LiveKept
<1>3. ASSUME NEW k \in Jobs, k # j PROVE JobFits(k)'
  <2>1. phase'[k] = phase[k] /\ Command' = Command /\ JobFits(k)
    BY <1>3 DEF StoresInv, Command
  <2>2. CASE Command[k].op = "reindex"
    <3>1. Command[k].version \in Versions \ {Command[j].version}
      BY <1>3, <2>2, BuildsAlone, PlanFits DEF TypeOK
    <3>2. QED
      BY <2>1, <2>2, <3>1 DEF JobFits, BuildStage
  <2>3. CASE Command[k].op # "reindex"
    BY <2>1, <2>3 DEF JobFits, ActivationStage
  <2>4. QED
    BY <2>2, <2>3
<1>4. QED
  BY <1>1, <1>2, <1>3 DEF StoresInv

LEMMA StoresStart == Init /\ Disciplined => StoresInv
<1> SUFFICES ASSUME Init, Disciplined PROVE StoresInv
  OBVIOUS
<1>1. LiveKept
  BY DEF Init, LiveKept
<1>2. ASSUME NEW j \in Jobs PROVE JobFits(j)
  <2>1. phase[j] = "idle" /\ Command[j].version \in Versions
    BY PlanFits DEF Init
  <2>2. CASE Command[j].op = "reindex"
    <3>1. vectors[Command[j].version] = Nothing
      BY <2>1, <2>2, BuildsAlone DEF Init
    <3>2. QED
      BY <2>1, <2>2, <3>1 DEF Init, JobFits, BuildStage
  <2>3. CASE Command[j].op # "reindex"
    BY <2>1, <2>3 DEF JobFits, ActivationStage
  <2>4. QED
    BY <2>2, <2>3
<1>3. QED
  BY <1>1, <1>2 DEF StoresInv

LEMMA StoresKept ==
  ASSUME TypeOK, Disciplined, StoresInv, [Next]_vars
  PROVE  StoresInv'
<1>1. CASE UNCHANGED <<plan, vectors, lexical, alias, file,
                       phase, io, data, crashes>>
  BY <1>1 DEF StoresInv, LiveKept, JobFits, BuildStage, ActivationStage,
     Jobs, Command
<1>2. ASSUME NEW j \in Jobs, JobStep(j) PROVE StoresInv'
  <2>1. /\ \A k \in Jobs \ {j} : phase'[k] = phase[k]
        /\ plan' = plan /\ Command' = Command
        /\ phase \in [Jobs -> Phases] /\ plan \in Plans
    BY <1>2, OthersWait DEF TypeOK, Command
  <2>2. JobFits(j) /\ Command[j].op \in {"reindex", "activate"}
    BY <2>1, PlanFits DEF StoresInv
  <2>3. CASE Start(j)
    <3>1. UNCHANGED <<vectors, lexical>> /\ phase[j] = "idle"
          /\ phase'[j] = IF Command[j].op = "reindex" THEN "building" ELSE "publish"
      BY <2>1, <2>3 DEF Start, stores
    <3>2. JobFits(j)'
      BY <2>1, <2>2, <3>1 DEF JobFits, BuildStage, ActivationStage
    <3>3. QED
      BY <2>1, <3>1, <3>2, JobMoves
  <2>4. CASE LoadRegistry(j) \/ TruncateRegistry(j)
    <3>1. /\ UNCHANGED <<vectors, lexical>>
          /\ phase'[j] = phase[j]
               \/ (phase[j] = "activating" /\ phase'[j] = "done")
      BY <2>1, <2>4 DEF LoadRegistry, TruncateRegistry, stores
    <3>2. JobFits(j)'
      BY <2>1, <2>2, <3>1 DEF JobFits, BuildStage, ActivationStage
    <3>3. QED
      BY <2>1, <3>1, <3>2, JobMoves
  <2>5. CASE WriteRegistry(j) \/ SaveFails(j)
    <3>1. UNCHANGED <<vectors, lexical>> /\ phase[j] \in Updates /\ Proceed(j)
      BY <2>5 DEF WriteRegistry, SaveFails, stores
    <3>2. JobFits(j)'
      BY <2>1, <2>2, <3>1, ProceedFits
         DEF JobFits, BuildStage, ActivationStage, Updates
    <3>3. QED
      BY <2>1, <3>1, <3>2, JobMoves
  <2>6. CASE UpsertVectors(j)
    <3> DEFINE v == Command[j].version
               source == Command[j].source
    <3>1. /\ phase[j] = "vector" /\ phase'[j] = "lexical" /\ lexical' = lexical
          /\ vectors' = [vectors EXCEPT ![v] = Upserted(vectors[v], source)]
          /\ vectors \in [Versions -> Content]
      BY <2>1, <2>6 DEF UpsertVectors, TypeOK
    <3>2. Command[j].op = "reindex"
      BY <2>2, <3>1 DEF JobFits, ActivationStage
    <3>3. v \in Versions /\ source \in Content
          /\ vectors[v] = Nothing /\ lexical[v] = Nothing /\ source # Nothing
      BY <2>1, <2>2, <3>1, <3>2, PlanFits DEF JobFits, BuildStage
    <3>4. vectors'[v] = source
      BY <3>1, <3>3, UpsertIntoNothing
    <3>5. JobFits(j)'
      BY <2>1, <3>1, <3>2, <3>3, <3>4 DEF JobFits, BuildStage
    <3>6. QED
      BY <2>1, <3>1, <3>2, <3>5, JobWrites
  <2>7. CASE UpsertLexical(j)
    <3> DEFINE v == Command[j].version
               source == Command[j].source
    <3>1. /\ phase[j] = "lexical" /\ phase'[j] = "built" /\ vectors' = vectors
          /\ lexical' = [lexical EXCEPT ![v] = Upserted(lexical[v], source)]
          /\ lexical \in [Versions -> Content]
      BY <2>1, <2>7 DEF UpsertLexical, TypeOK
    <3>2. Command[j].op = "reindex"
      BY <2>2, <3>1 DEF JobFits, ActivationStage
    <3>3. v \in Versions /\ source \in Content
          /\ vectors[v] = source /\ lexical[v] = Nothing
      BY <2>1, <2>2, <3>1, <3>2, PlanFits DEF JobFits, BuildStage
    <3>4. lexical'[v] = source
      BY <3>1, <3>3, UpsertIntoNothing
    <3>5. JobFits(j)'
      BY <2>1, <3>1, <3>2, <3>3, <3>4 DEF JobFits, BuildStage
    <3>6. QED
      BY <2>1, <3>1, <3>2, <3>5, JobWrites
  <2>8. CASE SetAlias(j)
    <3>1. UNCHANGED <<vectors, lexical>> /\ phase[j] = "publish"
          /\ phase'[j] = "activating"
      BY <2>1, <2>8 DEF SetAlias, stores
    <3>2. JobFits(j)'
      BY <2>1, <2>2, <3>1 DEF JobFits, BuildStage, ActivationStage
    <3>3. QED
      BY <2>1, <3>1, <3>2, JobMoves
  <2>9. CASE Crash(j)
    <3>1. UNCHANGED <<vectors, lexical>> /\ phase'[j] = "crashed"
      BY <2>1, <2>9 DEF Crash, stores
    <3>2. JobFits(j)'
      BY <2>1, <2>2, <3>1 DEF JobFits, BuildStage, ActivationStage
    <3>3. QED
      BY <2>1, <3>1, <3>2, JobMoves
  <2>10. QED
    BY <1>2, <2>3, <2>4, <2>5, <2>6, <2>7, <2>8, <2>9 DEF JobStep
<1>3. QED
  BY <1>1, <1>2, WhoSteps

(***************************************************************************)
(* Whole versions stay as they are.                                        *)
(***************************************************************************)

(* The only corpus of a version someone builds is that job's.              *)
LEMMA OneCorpus ==
  ASSUME Disciplined, NEW j \in Jobs, Command[j].op = "reindex"
  PROVE  Corpora(Command[j].version) = {Command[j].source}
<1> DEFINE v == Command[j].version
<1>1. v # Live /\ {k \in Jobs : Builds(k, v)} = {j}
  BY BuildsAlone DEF Builds
<1>2. QED
  BY <1>1 DEF Corpora

(* A built version, and the live one, are whole.                           *)
LEMMA BuiltVersions ==
  ASSUME TypeOK, Disciplined, StoresInv, NEW j \in Jobs,
         Command[j].op = "reindex",
         phase[j] \in {"built", "publish", "activating", "done"}
  PROVE  Stocked(Command[j].version)
<1>1. /\ vectors[Command[j].version] = Command[j].source
      /\ lexical[Command[j].version] = Command[j].source
  BY DEF StoresInv, JobFits, BuildStage
<1>2. QED
  BY <1>1, OneCorpus DEF Stocked, Whole

LEMMA LiveStocked ==
  ASSUME StoresInv, Live # None
  PROVE  Stocked(Live)
  BY DEF StoresInv, LiveKept, Stocked, Whole, Corpora

(* No step writes to a whole version.                                      *)
LEMMA WholeStays ==
  ASSUME TypeOK, Disciplined, StoresInv, [Next]_vars,
         NEW v \in Versions, Stocked(v)
  PROVE  vectors'[v] = vectors[v] /\ lexical'[v] = lexical[v] /\ Stocked(v)'
<1>1. ASSUME NEW j \in Jobs, JobStep(j), Command[j].version = v,
             UpsertVectors(j) \/ UpsertLexical(j)
      PROVE  FALSE
  <2>1. phase[j] \in {"vector", "lexical"}
    BY <1>1 DEF UpsertVectors, UpsertLexical
  <2>2. Command[j].op = "reindex"
    BY <2>1 DEF StoresInv, JobFits, ActivationStage
  <2>3. vectors[v] = Nothing \/ lexical[v] = Nothing
    BY <1>1, <2>1, <2>2 DEF StoresInv, JobFits, BuildStage
  <2>4. Command[j].source # Nothing
    BY <2>1, <2>2 DEF StoresInv, JobFits, BuildStage
  <2>5. vectors[v] = lexical[v] /\ vectors[v] = Command[j].source
    BY <1>1, <2>2, OneCorpus DEF Stocked, Whole
  <2>6. QED
    BY <2>3, <2>4, <2>5
<1>2. vectors'[v] = vectors[v] /\ lexical'[v] = lexical[v]
  <2>1. ASSUME NEW j \in Jobs, JobStep(j)
        PROVE  vectors'[v] = vectors[v] /\ lexical'[v] = lexical[v]
    <3>1. CASE UpsertVectors(j) \/ UpsertLexical(j)
      <4>1. Command[j].version # v
        BY <1>1, <2>1, <3>1
      <4>2. QED
        BY <3>1, <4>1 DEF UpsertVectors, UpsertLexical, TypeOK
    <3>2. CASE ~(UpsertVectors(j) \/ UpsertLexical(j))
      BY <2>1, <3>2 DEF JobStep, Start, LoadRegistry, TruncateRegistry,
         WriteRegistry, SaveFails, SetAlias, Crash, stores
    <3>3. QED
      BY <3>1, <3>2
  <2>2. QED
    BY <2>1, WhoSteps
<1>3. Corpora(v)' = Corpora(v)
  BY PlanStays DEF Corpora, Builds, Jobs, Command
<1>4. QED
  BY <1>2, <1>3 DEF Stocked, Whole

(***************************************************************************)
(* What is published, and what the registry says, is whole.                *)
(***************************************************************************)
LEMMA PublicationStart == Init /\ Disciplined => PublicationInv
<1> SUFFICES ASSUME Init, Disciplined PROVE PublicationInv
  OBVIOUS
<1>1. TypeOK /\ StoresInv
  BY InitTypes, StoresStart
<1>2. Live # None => Stocked(Live)
  BY <1>1, LiveStocked
<1>3. LiveIsWhole
  BY <1>2 DEF Init, LiveIsWhole, Stocked
<1>4. RecordsWhole(file)
  BY <1>2 DEF Init, RecordsWhole
<1>5. \A j \in Jobs : PublishesWhole(j) /\ RecordsWhole(data[j])
  BY DEF Init, PublishesWhole, RecordsWhole, EmptyFile
<1>6. QED
  BY <1>3, <1>4, <1>5 DEF PublicationInv

(* What an update writes calls built only what is whole.                   *)
LEMMA UpdatesWhole ==
  ASSUME TypeOK, Disciplined, StoresInv, PublicationInv,
         NEW j \in Jobs, phase[j] \in Updates
  PROVE  RecordsWhole(Modified(j))
<1> DEFINE v == Command[j].version
<1>1. /\ data[j] \in File /\ v \in Versions /\ RecordsWhole(data[j])
      /\ Command[j].op \in {"reindex", "activate"}
  BY PlanFits DEF TypeOK, PublicationInv
<1>2. CASE phase[j] = "building"
  BY <1>1, <1>2, UpdateStatus DEF RecordsWhole
<1>3. CASE phase[j] = "built"
  <2>1. Command[j].op = "reindex"
    BY <1>1, <1>3 DEF StoresInv, JobFits, ActivationStage
  <2>2. Stocked(v)
    BY <1>3, <2>1, BuiltVersions
  <2>3. QED
    BY <1>1, <1>3, <2>2, UpdateStatus DEF RecordsWhole
<1>4. CASE phase[j] = "activating"
  <2>1. Stocked(v)
    BY <1>4 DEF PublicationInv, PublishesWhole
  <2>2. QED
    BY <1>1, <1>4, <2>1, UpdateStatus DEF RecordsWhole
<1>5. QED
  BY <1>2, <1>3, <1>4 DEF Updates

LEMMA PublicationKept ==
  ASSUME TypeOK, Disciplined, StoresInv, PublicationInv, [Next]_vars
  PROVE  PublicationInv'
<1>1. Jobs' = Jobs /\ Command' = Command /\ plan \in Plans
  BY PlanStays DEF Jobs, Command, TypeOK
<1>2. \A v \in Versions : Stocked(v) => Stocked(v)'
  BY WholeStays
<1>3. (alias' = alias \/ (alias' \in Versions /\ Stocked(alias'))) => LiveIsWhole'
  <2> SUFFICES ASSUME alias' = alias \/ (alias' \in Versions /\ Stocked(alias')),
                      alias' # None
               PROVE  Stocked(alias)'
    BY DEF LiveIsWhole, Stocked
  <2>1. alias' \in Versions /\ Stocked(alias')
    BY DEF PublicationInv, LiveIsWhole, Stocked, TypeOK
  <2> DEFINE a == alias'
  <2> HIDE DEF a
  <2>2. vectors'[a] = vectors[a] /\ lexical'[a] = lexical[a] /\ a \in Versions
    BY <2>1, WholeStays DEF a
  <2>3. Corpora(a) = {Command[j].source : j \in {k \in Jobs : Builds(k, a)}}
                     \cup (IF a = Live THEN {LiveContent} ELSE {})
    BY DEF Corpora
  <2>4. QED
    BY <1>1, <2>1, <2>2, <2>3 DEF Stocked, Whole, Corpora, Builds, a
<1>4. ASSUME UNCHANGED <<plan, vectors, lexical, alias, file,
                         phase, io, data, crashes>>
      PROVE  PublicationInv'
  BY <1>4 DEF PublicationInv, LiveIsWhole, RecordsWhole, PublishesWhole,
     Stocked, Whole, Corpora, Builds, Jobs, Command
<1>5. ASSUME NEW j \in Jobs, JobStep(j) PROVE PublicationInv'
  <2>1. \A k \in Jobs \ {j} : phase'[k] = phase[k] /\ data'[k] = data[k]
    BY <1>5, OthersWait
  <2>2. LiveIsWhole'
    <3>1. CASE SetAlias(j)
      <4>1. alias' = Command[j].version /\ Stocked(Command[j].version)
        BY <3>1 DEF SetAlias, PublicationInv, PublishesWhole
      <4>2. QED
        BY <1>1, <1>3, <4>1, PlanFits
    <3>2. CASE ~SetAlias(j)
      <4>1. alias' = alias
        BY <1>5, <3>2 DEF JobStep, Start, LoadRegistry, TruncateRegistry,
           WriteRegistry, SaveFails, UpsertVectors, UpsertLexical, Crash
      <4>2. QED
        BY <1>3, <4>1
    <3>3. QED
      BY <3>1, <3>2
  <2>3. /\ \A v \in Versions : file'.status[v] \in {"built", "active"} => Stocked(v)
        /\ \A v \in Versions : data'[j].status[v] \in {"built", "active"} => Stocked(v)
    <3>1. RecordsWhole(file) /\ RecordsWhole(data[j])
      BY DEF PublicationInv
    <3>2. CASE WriteRegistry(j)
      <4>1. file' = Modified(j) /\ data' = data /\ phase[j] \in Updates
        BY <3>2 DEF WriteRegistry
      <4>2. QED
        BY <3>1, <4>1, UpdatesWhole DEF RecordsWhole
    <3>3. CASE TruncateRegistry(j)
      BY <3>1, <3>3 DEF TruncateRegistry, RecordsWhole, EmptyFile
    <3>4. CASE LoadRegistry(j)
      BY <3>1, <3>4 DEF LoadRegistry, RecordsWhole, TypeOK
    <3>5. CASE ~(WriteRegistry(j) \/ TruncateRegistry(j) \/ LoadRegistry(j))
      <4>1. file' = file /\ data' = data
        BY <1>5, <3>5 DEF JobStep, Start, SaveFails, UpsertVectors,
           UpsertLexical, SetAlias, Crash
      <4>2. QED
        BY <3>1, <4>1 DEF RecordsWhole
    <3>6. QED
      BY <3>2, <3>3, <3>4, <3>5
  <2>4. RecordsWhole(file)' /\ RecordsWhole(data[j])'
    BY <1>2, <2>3 DEF RecordsWhole
  <2>5. ASSUME NEW k \in Jobs, k # j PROVE RecordsWhole(data[k])'
    <3>1. RecordsWhole(data[k]) /\ data'[k] = data[k]
      BY <2>1, <2>5 DEF PublicationInv
    <3>2. QED
      BY <1>2, <3>1 DEF RecordsWhole
  <2>6. phase'[j] \in {"publish", "activating"} => Stocked(Command[j].version)
    <3> DEFINE v == Command[j].version
    <3>1. SUFFICES ASSUME phase'[j] \in {"publish", "activating"}
                   PROVE  Stocked(v)
      OBVIOUS
    <3>2. v \in Versions /\ Command[j].op \in {"reindex", "activate"}
          /\ Needs[j] \subseteq Jobs /\ phase \in [Jobs -> Phases]
      BY <1>1, PlanFits DEF TypeOK
    <3>3. CASE phase[j] \in {"publish", "activating"}
      BY <3>3 DEF PublicationInv, PublishesWhole
    <3>4. CASE phase[j] = "built"
      <4>1. Command[j].op = "reindex"
        BY <3>2, <3>4 DEF StoresInv, JobFits, ActivationStage
      <4>2. QED
        BY <3>4, <4>1, BuiltVersions
    <3>5. CASE Start(j)
      <4>1. Command[j].op = "activate"
        BY <3>1, <3>2, <3>5 DEF Start
      <4>2. v = Live \/ \E k \in Needs[j] : Builds(k, v)
        BY <4>1 DEF Disciplined
      <4>3. CASE v = Live
        BY <3>2, <4>3, LiveStocked
      <4>4. CASE v # Live
        <5>1. PICK k \in Needs[j] : Command[k].op = "reindex" /\ Command[k].version = v
          BY <4>2, <4>4 DEF Builds
        <5>2. k \in Jobs /\ phase[k] = "done"
          BY <3>2, <3>5 DEF Start
        <5>3. QED
          BY <5>1, <5>2, BuiltVersions
      <4>5. QED
        BY <4>3, <4>4
    <3>6. CASE ~Start(j) /\ phase[j] \notin {"built", "publish", "activating"}
      <4>1. CASE WriteRegistry(j) \/ SaveFails(j)
        <5>1. phase[j] = "building" /\ Proceed(j) /\ phase[j] \in Updates
          BY <3>6, <4>1 DEF WriteRegistry, SaveFails, Updates
        <5>2. QED
          BY <3>1, <5>1, ProceedFits
      <4>2. CASE ~(WriteRegistry(j) \/ SaveFails(j))
        BY <1>5, <3>1, <3>2, <3>6, <4>2 DEF JobStep, LoadRegistry, TruncateRegistry,
           UpsertVectors, UpsertLexical, SetAlias, Crash
      <4>3. QED
        BY <4>1, <4>2
    <3>7. QED
      BY <3>3, <3>4, <3>5, <3>6
  <2>7. ASSUME NEW k \in Jobs PROVE PublishesWhole(k)'
    <3>1. phase'[k] \in {"publish", "activating"} => Stocked(Command[k].version)
      BY <2>1, <2>6 DEF PublicationInv, PublishesWhole
    <3>2. Command[k].version \in Versions
      BY <1>1, PlanFits
    <3> DEFINE v == Command[k].version
    <3>3. Stocked(v) => vectors'[v] = vectors[v] /\ lexical'[v] = lexical[v]
      BY <3>2, WholeStays
    <3>4. QED
      BY <1>1, <3>1, <3>3
         DEF PublishesWhole, Stocked, Whole, Corpora, Builds
  <2>8. QED
    BY <1>1, <2>2, <2>4, <2>5, <2>7 DEF PublicationInv
<1>6. QED
  BY <1>4, <1>5, WhoSteps

(***************************************************************************)
(* What requests read.                                                     *)
(***************************************************************************)
LEMMA OnlineStart ==
  ASSUME Init, Live # None
  PROVE  OnlineInv
  BY DEF Init, OnlineInv, CachesWhole, SearchesWhole, IdleReader

(* An alias that is set is never unset.                                    *)
LEMMA AliasStays ==
  ASSUME TypeOK, alias # None, [Next]_vars
  PROVE  alias' # None
<1>1. ASSUME NEW j \in Jobs, JobStep(j) PROVE alias' # None
  <2>1. Command[j].version # None
    BY PlanFits DEF TypeOK
  <2>2. QED
    BY <1>1, <2>1 DEF JobStep, Start, LoadRegistry, TruncateRegistry,
       WriteRegistry, SaveFails, UpsertVectors, UpsertLexical, SetAlias, Crash
<1>2. QED
  BY <1>1, WhoSteps

(* A request that starts a search of a whole version, or is served from    *)
(* its cache entry, searches whole versions.                               *)
LEMMA ServesWhole ==
  ASSUME TypeOK, OnlineInv, NEW r \in Readers, NEW v \in Versions,
         Stocked(v), Serve(r, v), Stocked(v)', UNCHANGED plan
  PROVE  SearchesWhole(r)'
<1>1. /\ reader \in [Readers -> [pc: {"idle", "search", "replied"},
                                 version: Versions \cup {None},
                                 seen: Seen, todo: SUBSET {"dense", "lexical"}]]
      /\ cache[v] # NotSeen => Whole(cache[v], v)
  BY DEF TypeOK, OnlineInv, CachesWhole
<1>2. CASE cache[v] # NotSeen
  <2>1. reader'[r] = [pc |-> "replied", version |-> v,
                      seen |-> cache[v], todo |-> {}]
    BY <1>1, <1>2 DEF Serve, CacheKey
  <2>2. Whole(cache[v], v)'
    BY <1>1, <1>2 DEF Serve, Whole, Corpora, Builds, Jobs, Command
  <2>3. cache' = cache
    BY DEF Serve
  <2>4. QED
    BY <2>1, <2>2, <2>3 DEF SearchesWhole
<1>3. CASE cache[v] = NotSeen
  <2>1. reader'[r] = [pc |-> "search", version |-> v,
                      seen |-> NotSeen, todo |-> {"dense", "lexical"}]
    BY <1>1, <1>3 DEF Serve, CacheKey
  <2>2. QED
    BY <2>1 DEF SearchesWhole
<1>4. QED
  BY <1>2, <1>3

LEMMA OnlineKept ==
  ASSUME Live # None, AliasOutage => Fallback = Live,
         TypeOK, Disciplined, StoresInv, PublicationInv, OnlineInv, [Next]_vars
  PROVE  OnlineInv'
<1>1. alias # None /\ alias' # None
  BY AliasStays DEF OnlineInv
<1>2. plan' = plan /\ Jobs' = Jobs /\ Command' = Command
  BY PlanStays DEF Jobs, Command
<1>3. \A v \in Versions : Corpora(v)' = Corpora(v)
  BY <1>2 DEF Corpora, Builds
<1>4. ASSUME NEW r \in Readers, reader'[r] = reader[r] PROVE SearchesWhole(r)'
  <2> DEFINE me == reader[r]
  <2>1. SearchesWhole(r)
    BY DEF OnlineInv
  <2>2. CASE me.pc = "search"
    <3>1. me.version \in Versions /\ Stocked(me.version)
      BY <2>1, <2>2 DEF SearchesWhole
    <3> DEFINE v == me.version
    <3>2. vectors'[v] = vectors[v] /\ lexical'[v] = lexical[v]
      BY <3>1, WholeStays
    <3>3. QED
      BY <1>3, <1>4, <2>1, <2>2, <3>1, <3>2 DEF SearchesWhole, Stocked, Whole
  <2>3. CASE me.pc # "search"
    BY <1>2, <1>4, <2>1, <2>3 DEF SearchesWhole, Whole, Corpora, Builds
  <2>4. QED
    BY <2>2, <2>3
<1>5. cache' = cache => CachesWhole'
  BY <1>3 DEF OnlineInv, CachesWhole, Whole
<1>6. ASSUME NEW j \in Jobs, JobStep(j) PROVE OnlineInv'
  BY <1>1, <1>4, <1>5, <1>6, OthersWait DEF OnlineInv
<1>7. ASSUME NEW r \in Readers, NEW v \in Versions, Stocked(v), Serve(r, v)
      PROVE  OnlineInv'
  <2>1. SearchesWhole(r)'
    <3>1. Stocked(v)'
      BY <1>7, WholeStays
    <3>2. QED
      BY <1>2, <1>7, <3>1, ServesWhole
  <2>2. \A o \in Readers \ {r} : reader'[o] = reader[o]
    BY <1>7 DEF Serve, TypeOK
  <2>3. cache' = cache
    BY <1>7 DEF Serve
  <2>4. QED
    BY <1>1, <1>4, <1>5, <2>1, <2>2, <2>3 DEF OnlineInv
<1>8. ASSUME NEW r \in Readers, Resolve(r) PROVE OnlineInv'
  <2>1. alias \in Versions /\ Stocked(alias) /\ Serve(r, alias)
    BY <1>1, <1>8 DEF Resolve, Resolved, PublicationInv, LiveIsWhole,
       Stocked, TypeOK
  <2>2. QED
    BY <1>7, <2>1
<1>9. ASSUME NEW r \in Readers, ResolveFails(r) PROVE OnlineInv'
  <2>1. Live \in Versions /\ Stocked(Live) /\ Serve(r, Live)
    BY <1>9, LiveStocked DEF ResolveFails
  <2>2. QED
    BY <1>7, <2>1
<1>10. ASSUME NEW r \in Readers, SearchDense(r) \/ SearchLexical(r)
       PROVE  OnlineInv'
  <2> DEFINE v == reader[r].version
  <2>1. /\ reader[r].pc = "search" /\ v \in Versions /\ Stocked(v)
        /\ "dense" \notin reader[r].todo => reader[r].seen.dense = vectors[v]
        /\ "lexical" \notin reader[r].todo => reader[r].seen.lexical = lexical[v]
    BY <1>10 DEF SearchDense, SearchLexical, OnlineInv, SearchesWhole
  <2>2. vectors'[v] = vectors[v] /\ lexical'[v] = lexical[v]
    BY <2>1, WholeStays
  <2>3. \A o \in Readers \ {r} : reader'[o] = reader[o]
    BY <1>10 DEF SearchDense, SearchLexical, TypeOK
  <2>4. reader[r] \in [pc: {"idle", "search", "replied"},
                       version: Versions \cup {None},
                       seen: Seen, todo: SUBSET {"dense", "lexical"}]
    BY DEF TypeOK
  <2>5. /\ reader'[r].pc = "search" /\ reader'[r].version = v
        /\ "dense" \notin reader'[r].todo => reader'[r].seen.dense = vectors[v]
        /\ "lexical" \notin reader'[r].todo => reader'[r].seen.lexical = lexical[v]
    <3>1. CASE SearchDense(r)
      <4>1. reader'[r] = [reader[r] EXCEPT !.seen.dense = vectors[v],
                                           !.todo = @ \ {"dense"}]
        BY <3>1 DEF SearchDense, TypeOK
      <4>2. QED
        BY <2>1, <2>4, <4>1 DEF Seen
    <3>2. CASE SearchLexical(r)
      <4>1. reader'[r] = [reader[r] EXCEPT !.seen.lexical = lexical[v],
                                           !.todo = @ \ {"lexical"}]
        BY <3>2 DEF SearchLexical, TypeOK
      <4>2. QED
        BY <2>1, <2>4, <4>1 DEF Seen
    <3>3. QED
      BY <1>10, <3>1, <3>2
  <2>6. SearchesWhole(r)'
    BY <1>3, <2>1, <2>2, <2>5 DEF SearchesWhole, Stocked, Whole
  <2>7. cache' = cache
    BY <1>10 DEF SearchDense, SearchLexical
  <2>8. QED
    BY <1>1, <1>4, <1>5, <2>3, <2>6, <2>7 DEF OnlineInv
<1>11. ASSUME NEW r \in Readers, Reply(r) PROVE OnlineInv'
  <2> DEFINE v == reader[r].version
             seen == reader[r].seen
  <2>1. /\ v \in Versions /\ Stocked(v)
        /\ seen.dense = vectors[v] /\ seen.lexical = lexical[v]
    BY <1>11 DEF Reply, OnlineInv, SearchesWhole
  <2>2. Whole(seen, v)
    BY <2>1 DEF Stocked, Whole
  <2>3. /\ \A o \in Readers \ {r} : reader'[o] = reader[o]
        /\ reader'[r].pc = "replied"
        /\ reader'[r].seen = seen /\ reader'[r].version = v
    BY <1>11 DEF Reply, TypeOK
  <2>4. SearchesWhole(r)'
    BY <1>3, <2>1, <2>2, <2>3 DEF SearchesWhole, Whole
  <2>5. \A w \in Versions : cache'[w] = cache[w] \/ (w = v /\ cache'[w] = seen)
    BY <1>11, <2>1 DEF Reply, CacheKey, TypeOK
  <2>6. CachesWhole'
    BY <1>3, <2>2, <2>5 DEF OnlineInv, CachesWhole, Whole
  <2>7. QED
    BY <1>1, <1>4, <2>3, <2>4, <2>6 DEF OnlineInv
<1>12. ASSUME NEW v \in Versions, Expire(v) PROVE OnlineInv'
  <2>1. reader' = reader
        /\ \A w \in Versions : cache'[w] = cache[w] \/ cache'[w] = NotSeen
    BY <1>12 DEF Expire, TypeOK
  <2>2. CachesWhole'
    BY <1>3, <2>1 DEF OnlineInv, CachesWhole, Whole
  <2>3. QED
    BY <1>1, <1>4, <2>1, <2>2 DEF OnlineInv
<1>13. ASSUME UNCHANGED vars PROVE OnlineInv'
  BY <1>1, <1>4, <1>5, <1>13 DEF OnlineInv, vars, online
<1>14. QED
  BY <1>6, <1>8, <1>9, <1>10, <1>11, <1>12, <1>13 DEF Next, JobStep

(***************************************************************************)
(* The inductive invariant of serial plans.                                *)
(***************************************************************************)

(* Any job: between registry updates it is about to load; an activation    *)
(* writes no store; it started when all before it were over.               *)
JobInOrder(j) ==
  /\ phase[j] \notin Updates \cup {"crashed"} => io[j] = "load"
  /\ Command[j].op # "reindex" => ActivationStage(j)
  /\ phase[j] # "idle" => \A k \in Follows[j] : phase[k] \in Over

(* A chunk in a store was live from the start or comes from a build that   *)
(* has started.                                                            *)
Provenance ==
  \A v \in Versions, c \in Chunks :
    (vectors[v][c] # 0 \/ lexical[v][c] # 0) =>
      \/ v = Live /\ LiveContent[c] # 0
      \/ \E k \in Jobs : /\ phase[k] # "idle" /\ Builds(k, v)
                         /\ Command[k].source[c] # 0

(* The latest job: each store holds exactly what it wrote there; the       *)
(* registry knows what it recorded; what it published is what is active.   *)
StoresClean(j) ==
  LET v == Command[j].version
      source == Command[j].source
  IN Command[j].op = "reindex" =>
       /\ phase[j] = "lexical" => vectors[v] = source
       /\ phase[j] \in {"built", "publish", "activating", "done"} =>
            vectors[v] = source /\ lexical[v] = source

RecordClean(j) ==
  LET v == Command[j].version
  IN /\ Command[j].op = "reindex" =>
          /\ phase[j] \in {"publish", "done"} => Known(file, v)
          /\ phase[j] = "activating" /\ io[j] = "load" => Known(file, v)
     /\ phase[j] = "activating" /\ io[j] # "load" => Known(data[j], v)

OnlyActive(d, v) ==
  d.active = v /\ \A w \in Versions : d.status[w] = "active" <=> w = v

PublishedClean(j) ==
  LET v == Command[j].version
  IN /\ phase[j] = "activating" => alias = v
     /\ (phase[j] = "done" /\ Command[j].publish) =>
          alias = v /\ (Known(file, v) => OnlyActive(file, v))

SerialInv ==
  /\ Provenance
  /\ \A j \in Jobs : JobInOrder(j)
  /\ \A j \in Jobs : Latest(j) =>
       StoresClean(j) /\ RecordClean(j) /\ PublishedClean(j)

LEMMA SerialStart == Init => SerialInv
<1> SUFFICES ASSUME Init PROVE SerialInv
  OBVIOUS
<1>1. Provenance
  BY DEF Init, Provenance, Nothing
<1>2. QED
  BY <1>1 DEF Init, SerialInv, JobInOrder, ActivationStage, Latest

(* A job that takes a step is, or becomes, the latest, and no other is.    *)
LEMMA OneLatest ==
  ASSUME TypeOK, Serial, SerialInv, NEW j \in Jobs, JobStep(j)
  PROVE  /\ phase[j] \notin Over /\ phase'[j] # "idle"
         /\ \A k \in Jobs \ {j} : ~Latest(k)'
         /\ Latest(j)' => phase[j] = "idle" \/ Latest(j)
<1>1. /\ \A k \in Jobs \ {j} : phase'[k] = phase[k]
      /\ Jobs' = Jobs /\ Follows' = Follows /\ Follows[j] \subseteq Jobs
  BY OthersWait, PlanFits DEF Jobs, Command, Follows, TypeOK
<1>2. phase[j] \notin Over /\ phase'[j] # "idle"
  <2>1. CASE WriteRegistry(j) \/ SaveFails(j)
    <3>1. phase[j] \in Updates /\ Proceed(j)
      BY <2>1 DEF WriteRegistry, SaveFails
    <3>2. QED
      BY <3>1, ProceedFits DEF Updates, Over
  <2>2. CASE ~(WriteRegistry(j) \/ SaveFails(j))
    BY <2>2 DEF JobStep, TypeOK, Updates, Over, Start, LoadRegistry,
       TruncateRegistry, UpsertVectors, UpsertLexical, SetAlias, Crash
  <2>3. QED
    BY <2>1, <2>2
<1>3. ASSUME NEW k \in Jobs, k # j, Latest(k)' PROVE FALSE
  <2>1. phase[k] # "idle" /\ k \notin Follows[j]
    BY <1>1, <1>2, <1>3 DEF Latest
  <2>2. j \in Follows[k]
    BY <1>3, <2>1 DEF Serial
  <2>3. phase[j] \in Over
    BY <2>1, <2>2 DEF SerialInv, JobInOrder
  <2>4. QED
    BY <1>2, <2>3
<1>4. Latest(j)' => phase[j] = "idle" \/ Latest(j)
  BY <1>1, <1>2 DEF Latest
<1>5. QED
  BY <1>2, <1>3, <1>4

(* The corpus of the latest build covers all that its version holds.       *)
LEMMA LatestCovers ==
  ASSUME TypeOK, Serial, SerialInv, NEW j \in Jobs, Latest(j),
         Command[j].op = "reindex"
  PROVE  /\ Covers(Command[j].source, vectors[Command[j].version])
         /\ Covers(Command[j].source, lexical[Command[j].version])
<1> DEFINE v == Command[j].version
           source == Command[j].source
<1>1. v \in Versions
  BY PlanFits DEF TypeOK
<1>2. ASSUME NEW c \in Chunks, vectors[v][c] # 0 \/ lexical[v][c] # 0
      PROVE  source[c] # 0
  <2>1. CASE v = Live /\ LiveContent[c] # 0
    BY <2>1 DEF Serial, Covers
  <2>2. CASE \E k \in Jobs : /\ phase[k] # "idle" /\ Builds(k, v)
                             /\ Command[k].source[c] # 0
    <3>1. PICK k \in Jobs : /\ phase[k] # "idle" /\ Builds(k, v)
                            /\ Command[k].source[c] # 0
      BY <2>2
    <3>2. j = k \/ k \in Follows[j]
      BY <3>1 DEF Serial, Latest
    <3>3. QED
      BY <3>1, <3>2 DEF Serial, Covers
  <2>3. QED
    BY <1>1, <1>2, <2>1, <2>2 DEF SerialInv, Provenance
<1>3. QED
  BY <1>2 DEF Covers

LEMMA OrderKept ==
  ASSUME TypeOK, SerialInv, NEW j \in Jobs, JobStep(j)
  PROVE  \A k \in Jobs : JobInOrder(k)'
<1>1. /\ \A k \in Jobs \ {j} : phase'[k] = phase[k] /\ io'[k] = io[k]
      /\ Command' = Command /\ Follows' = Follows
      /\ phase \in [Jobs -> Phases]
      /\ io \in [Jobs -> {"load", "open", "write"}]
  BY OthersWait DEF Command, Follows, TypeOK
<1>2. JobInOrder(j) /\ Command[j].op \in {"reindex", "activate"}
  BY PlanFits DEF SerialInv, TypeOK
<1>3. phase[j] \notin Over
  <2>1. CASE WriteRegistry(j) \/ SaveFails(j)
    BY <2>1 DEF WriteRegistry, SaveFails, Updates, Over
  <2>2. CASE ~(WriteRegistry(j) \/ SaveFails(j))
    BY <2>2 DEF JobStep, Updates, Over, Start, LoadRegistry, TruncateRegistry,
       UpsertVectors, UpsertLexical, SetAlias, Crash
  <2>3. QED
    BY <2>1, <2>2
<1>4. \A k \in Jobs : phase[k] \in Over => phase'[k] \in Over
  BY <1>1, <1>3
<1>5. /\ phase'[j] \notin Updates \cup {"crashed"} => io'[j] = "load"
      /\ Command[j].op # "reindex" =>
           phase'[j] \in {"idle", "publish", "activating", "done", "crashed"}
  <2>1. CASE WriteRegistry(j) \/ SaveFails(j)
    <3>1. phase[j] \in Updates /\ Proceed(j)
      BY <2>1 DEF WriteRegistry, SaveFails
    <3>2. QED
      BY <1>2, <3>1, ProceedFits DEF JobInOrder, ActivationStage, Updates
  <2>2. CASE ~(WriteRegistry(j) \/ SaveFails(j))
    <3>1. CASE Start(j)
      BY <1>1, <1>2, <3>1 DEF Start, JobInOrder, ActivationStage, Updates
    <3>2. CASE LoadRegistry(j) \/ TruncateRegistry(j)
      BY <1>1, <1>2, <3>2 DEF LoadRegistry, TruncateRegistry, JobInOrder,
         ActivationStage, Updates
    <3>3. CASE UpsertVectors(j) \/ UpsertLexical(j) \/ SetAlias(j) \/ Crash(j)
      BY <1>1, <1>2, <3>3 DEF UpsertVectors, UpsertLexical, SetAlias, Crash,
         JobInOrder, ActivationStage, Updates
    <3>4. QED
      BY <2>2, <3>1, <3>2, <3>3 DEF JobStep
  <2>3. QED
    BY <2>1, <2>2
<1>6. phase'[j] # "idle" => \A k \in Follows[j] : phase[k] \in Over
  <2>1. CASE Start(j)
    BY <2>1 DEF Start
  <2>2. CASE ~Start(j)
    <3>1. phase[j] # "idle"
      BY <2>2 DEF JobStep, LoadRegistry, TruncateRegistry, WriteRegistry,
         SaveFails, UpsertVectors, UpsertLexical, SetAlias, Crash, Updates
    <3>2. QED
      BY <1>2, <3>1 DEF JobInOrder
  <2>3. QED
    BY <2>1, <2>2
<1>7. ASSUME NEW k \in Jobs PROVE JobInOrder(k)'
  <2>1. Follows[k] \subseteq Jobs
    BY PlanFits DEF TypeOK
  <2>2. CASE k = j
    BY <1>1, <1>4, <1>5, <1>6, <2>1, <2>2 DEF JobInOrder, ActivationStage
  <2>3. CASE k # j
    <3>1. JobInOrder(k) /\ phase'[k] = phase[k] /\ io'[k] = io[k]
      BY <1>1, <2>3 DEF SerialInv
    <3>2. QED
      BY <1>1, <1>4, <2>1, <3>1 DEF JobInOrder, ActivationStage
  <2>4. QED
    BY <2>2, <2>3
<1>8. QED
  BY <1>7

LEMMA ProvenanceKept ==
  ASSUME TypeOK, Serial, SerialInv, NEW j \in Jobs, JobStep(j)
  PROVE  Provenance'
<1> DEFINE u == Command[j].version
           source == Command[j].source
           From(v, c) == \/ v = Live /\ LiveContent[c] # 0
                         \/ \E k \in Jobs : /\ phase[k] # "idle" /\ Builds(k, v)
                                            /\ Command[k].source[c] # 0
<1>1. /\ \A k \in Jobs : phase[k] # "idle" => phase'[k] # "idle"
      /\ Jobs' = Jobs /\ Command' = Command
  BY OthersWait, OneLatest DEF Jobs, Command
<1>2. u \in Versions /\ source \in Content
  BY PlanFits DEF TypeOK
<1>3. \A v \in Versions, c \in Chunks :
        vectors'[v][c] # 0 => vectors[v][c] # 0 \/ From(v, c)
  <2>1. CASE UpsertVectors(j)
    <3>1. /\ phase[j] = "vector"
          /\ vectors' = [vectors EXCEPT ![u] = Upserted(vectors[u], source)]
          /\ vectors \in [Versions -> Content]
      BY <2>1 DEF UpsertVectors, TypeOK
    <3>2. Command[j].op = "reindex"
      BY <3>1 DEF SerialInv, JobInOrder, ActivationStage
    <3>3. \A c \in Chunks : source[c] # 0 => From(u, c)
      BY <3>1, <3>2 DEF Builds
    <3> HIDE DEF From
    <3>4. \A c \in Chunks : vectors'[u][c] # 0 => vectors[u][c] # 0 \/ From(u, c)
      BY <1>2, <3>1, <3>3 DEF Upserted
    <3>5. QED
      BY <3>1, <3>4
  <2>2. CASE ~UpsertVectors(j)
    BY <2>2 DEF JobStep, Start, LoadRegistry, TruncateRegistry, WriteRegistry,
       SaveFails, UpsertLexical, SetAlias, Crash, stores
  <2>3. QED
    BY <2>1, <2>2
<1>4. \A v \in Versions, c \in Chunks :
        lexical'[v][c] # 0 => lexical[v][c] # 0 \/ From(v, c)
  <2>1. CASE UpsertLexical(j)
    <3>1. /\ phase[j] = "lexical"
          /\ lexical' = [lexical EXCEPT ![u] = Upserted(lexical[u], source)]
          /\ lexical \in [Versions -> Content]
      BY <2>1 DEF UpsertLexical, TypeOK
    <3>2. Command[j].op = "reindex"
      BY <3>1 DEF SerialInv, JobInOrder, ActivationStage
    <3>3. \A c \in Chunks : source[c] # 0 => From(u, c)
      BY <3>1, <3>2 DEF Builds
    <3> HIDE DEF From
    <3>4. \A c \in Chunks : lexical'[u][c] # 0 => lexical[u][c] # 0 \/ From(u, c)
      BY <1>2, <3>1, <3>3 DEF Upserted
    <3>5. QED
      BY <3>1, <3>4
  <2>2. CASE ~UpsertLexical(j)
    BY <2>2 DEF JobStep, Start, LoadRegistry, TruncateRegistry, WriteRegistry,
       SaveFails, UpsertVectors, SetAlias, Crash, stores
  <2>3. QED
    BY <2>1, <2>2
<1>5. \A v \in Versions, c \in Chunks :
        vectors[v][c] # 0 \/ lexical[v][c] # 0 => From(v, c)
  BY DEF SerialInv, Provenance
<1>6. \A v \in Versions, c \in Chunks :
        vectors'[v][c] # 0 \/ lexical'[v][c] # 0 => From(v, c)
  <2> HIDE DEF From
  <2>1. QED
    BY <1>3, <1>4, <1>5
<1>7. QED
  BY <1>1, <1>6 DEF Provenance, Builds

(* The latest job leaves what it wrote, recorded and published.            *)
LEMMA LatestKept ==
  ASSUME TypeOK, Serial, SerialInv, NEW j \in Jobs, JobStep(j), Latest(j)'
  PROVE  StoresClean(j)' /\ RecordClean(j)' /\ PublishedClean(j)'
<1> DEFINE v == Command[j].version
           source == Command[j].source
<1>1. /\ Command' = Command
      /\ v \in Versions /\ source \in Content
      /\ Command[j].op \in {"reindex", "activate"}
      /\ phase \in [Jobs -> Phases]
      /\ io \in [Jobs -> {"load", "open", "write"}]
      /\ JobInOrder(j)
  BY OthersWait, PlanFits DEF Command, TypeOK, SerialInv
<1>2. CASE Start(j)
  <2>1. /\ phase'[j] = IF Command[j].op = "reindex" THEN "building" ELSE "publish"
        /\ io' = io
    BY <1>1, <1>2 DEF Start
  <2>2. QED
    BY <1>1, <2>1 DEF StoresClean, RecordClean, PublishedClean
<1>3. CASE ~Start(j)
  <2>1. Latest(j)
    <3>1. phase[j] # "idle"
      BY <1>3 DEF JobStep, LoadRegistry, TruncateRegistry, WriteRegistry,
         SaveFails, UpsertVectors, UpsertLexical, SetAlias, Crash, Updates
    <3>2. QED
      BY <3>1, OneLatest
  <2>2. StoresClean(j) /\ RecordClean(j) /\ PublishedClean(j)
    BY <2>1 DEF SerialInv
  <2>3. CASE LoadRegistry(j)
    <3>1. /\ UNCHANGED <<vectors, lexical, alias, file>>
          /\ \/ /\ phase[j] = "activating" /\ ~Known(file, v) /\ io[j] = "load"
                /\ phase'[j] = "done"
             \/ /\ phase[j] = "activating" => Known(file, v)
                /\ phase[j] \in Updates
                /\ phase' = phase /\ data'[j] = file /\ io'[j] = "open"
      BY <1>1, <2>3 DEF LoadRegistry, stores, TypeOK
    <3>2. QED
      BY <1>1, <2>2, <3>1 DEF StoresClean, RecordClean, PublishedClean, Updates,
         Known
  <2>4. CASE TruncateRegistry(j)
    <3>1. /\ UNCHANGED <<vectors, lexical, alias, phase, data>>
          /\ phase[j] \in Updates /\ io[j] = "open" /\ io'[j] = "write"
      BY <1>1, <2>4 DEF TruncateRegistry, stores
    <3>2. QED
      BY <1>1, <2>2, <3>1 DEF StoresClean, RecordClean, PublishedClean, Updates,
         Known
  <2>5. CASE WriteRegistry(j)
    <3>1. /\ UNCHANGED <<vectors, lexical, alias, data>>
          /\ phase[j] \in Updates /\ io[j] = "write" /\ Proceed(j)
          /\ file' = Modified(j) /\ data[j] \in File
      BY <2>5 DEF WriteRegistry, stores, TypeOK
    <3>2. CASE phase[j] = "building"
      <4>1. phase'[j] = IF source = Nothing THEN "built" ELSE "vector"
        BY <3>1, <3>2, ProceedFits
      <4>2. Command[j].op = "reindex"
        BY <1>1, <3>2 DEF JobInOrder, ActivationStage
      <4>3. source = Nothing => vectors[v] = source /\ lexical[v] = source
        BY <1>1, <2>1, <4>2, LatestCovers, UpsertCovering DEF TypeOK
      <4>4. QED
        BY <1>1, <3>1, <4>1, <4>3
           DEF StoresClean, RecordClean, PublishedClean
    <3>3. CASE phase[j] = "built"
      <4>1. phase'[j] = IF Command[j].publish /\ source # Nothing
                        THEN "publish" ELSE "done"
        BY <3>1, <3>3, ProceedFits
      <4>2. Command[j].op = "reindex"
        BY <1>1, <3>3 DEF JobInOrder, ActivationStage
      <4>3. Command[j].publish => source # Nothing
        BY <4>2 DEF Serial
      <4>4. Known(file', v)
        BY <1>1, <3>1, <3>3, UpdateStatus DEF Known
      <4>5. QED
        BY <1>1, <2>2, <3>1, <3>3, <4>1, <4>2, <4>3, <4>4
           DEF StoresClean, RecordClean, PublishedClean, Known
    <3>4. CASE phase[j] = "activating"
      <4>1. phase'[j] = "done"
        BY <3>1, <3>4, ProceedFits
      <4>2. Known(data[j], v)
        BY <2>2, <3>1, <3>4 DEF RecordClean
      <4>3. OnlyActive(file', v) /\ Known(file', v)
        BY <1>1, <3>1, <3>4, <4>2, UpdateStatus DEF OnlyActive, Known
      <4>4. QED
        BY <1>1, <2>2, <3>1, <3>4, <4>1, <4>3
           DEF StoresClean, RecordClean, PublishedClean, OnlyActive, Known
    <3>5. QED
      BY <3>1, <3>2, <3>3, <3>4 DEF Updates
  <2>6. CASE SaveFails(j)
    BY <2>6 DEF SaveFails, Serial
  <2>7. CASE UpsertVectors(j)
    <3>1. /\ phase[j] = "vector" /\ phase'[j] = "lexical"
          /\ vectors' = [vectors EXCEPT ![v] = Upserted(vectors[v], source)]
          /\ vectors \in [Versions -> Content]
      BY <1>1, <2>7 DEF UpsertVectors, TypeOK
    <3>2. Command[j].op = "reindex"
      BY <1>1, <3>1 DEF JobInOrder, ActivationStage
    <3>3. vectors'[v] = source
      BY <1>1, <2>1, <3>1, <3>2, LatestCovers, UpsertCovering
    <3>4. QED
      BY <1>1, <3>1, <3>3 DEF StoresClean, RecordClean, PublishedClean
  <2>8. CASE UpsertLexical(j)
    <3>1. /\ phase[j] = "lexical" /\ phase'[j] = "built" /\ vectors' = vectors
          /\ lexical' = [lexical EXCEPT ![v] = Upserted(lexical[v], source)]
          /\ lexical \in [Versions -> Content]
      BY <1>1, <2>8 DEF UpsertLexical, TypeOK
    <3>2. Command[j].op = "reindex"
      BY <1>1, <3>1 DEF JobInOrder, ActivationStage
    <3>3. lexical'[v] = source /\ vectors'[v] = source
      BY <1>1, <2>1, <2>2, <3>1, <3>2, LatestCovers, UpsertCovering
         DEF StoresClean
    <3>4. QED
      BY <1>1, <3>1, <3>3 DEF StoresClean, RecordClean, PublishedClean
  <2>9. CASE SetAlias(j)
    <3>1. /\ phase[j] = "publish" /\ phase'[j] = "activating" /\ alias' = v
          /\ UNCHANGED <<vectors, lexical, file, io, data>>
      BY <1>1, <2>9 DEF SetAlias, stores
    <3>2. io[j] = "load"
      BY <1>1, <3>1 DEF JobInOrder, Updates
    <3>3. QED
      BY <1>1, <2>2, <3>1, <3>2
         DEF StoresClean, RecordClean, PublishedClean, Known
  <2>10. CASE Crash(j)
    <3>1. phase'[j] = "crashed"
      BY <1>1, <2>10 DEF Crash
    <3>2. QED
      BY <3>1 DEF StoresClean, RecordClean, PublishedClean
  <2>11. QED
    BY <1>3, <2>3, <2>4, <2>5, <2>6, <2>7, <2>8, <2>9, <2>10 DEF JobStep
<1>4. QED
  BY <1>2, <1>3

(***************************************************************************)
(* Theorems.                                                               *)
(***************************************************************************)

(* Every step keeps the types (Init and each action, the readers' included). *)
THEOREM TypesHold == Spec => []TypeOK
<1>1. Init => TypeOK
  BY InitTypes
<1>2. TypeOK /\ [Next]_vars => TypeOK'
  BY NextTypes
<1>3. QED
  BY <1>1, <1>2, PTL DEF Spec

DisciplineInv == TypeOK /\ (Disciplined => StoresInv /\ PublicationInv)

(* The inductive invariant of a disciplined plan: builds own the versions  *)
(* they write, and only what is whole is published or called built.        *)
THEOREM DisciplineHolds == Spec => []DisciplineInv
<1>1. Init => DisciplineInv
  BY InitTypes, StoresStart, PublicationStart DEF DisciplineInv
<1>2. DisciplineInv /\ [Next]_vars => DisciplineInv'
  <2> SUFFICES ASSUME DisciplineInv, [Next]_vars PROVE DisciplineInv'
    OBVIOUS
  <2>1. Disciplined' = Disciplined
    BY PlanStays DEF Disciplined, Builds, Jobs, Command, Needs
  <2>2. QED
    BY <2>1, NextTypes, StoresKept, PublicationKept DEF DisciplineInv
<1>3. QED
  BY <1>1, <1>2, PTL DEF Spec

(* Under a disciplined plan the alias names a version that both stores     *)
(* hold wholly and alike (OfflinePipeline.reindex and activate), whichever *)
(* jobs run at once, wherever they die, whatever becomes of the registry.  *)
THEOREM DisciplineProtectsLive == Spec => []DisciplineKeepsLiveWhole
<1>1. DisciplineInv => DisciplineKeepsLiveWhole
  BY DEF DisciplineInv, PublicationInv, DisciplineKeepsLiveWhole
<1>2. QED
  BY <1>1, DisciplineHolds, PTL

(* And a version the registry file calls built or active is whole, though  *)
(* IndexRegistry's updates of it interleave and overwrite one another.     *)
THEOREM RegistryTellsTruth == Spec => []BuiltIsWhole
<1>1. DisciplineInv => BuiltIsWhole
  BY DEF DisciplineInv, PublicationInv, RecordsWhole, Stocked, BuiltIsWhole
<1>2. QED
  BY <1>1, DisciplineHolds, PTL

(* Where a version is live from the start, and the configured version is   *)
(* that one if reading the alias may fail, no reply of                     *)
(* OnlinePipeline.answer, searched for or cached, comes from a half-built  *)
(* index.                                                                  *)
THEOREM RequestsReadWhole ==
  ASSUME Live # None, AliasOutage => Fallback = Live
  PROVE  Spec => []RepliesWhole
<1>1. Init => (Disciplined => OnlineInv)
  BY OnlineStart
<1>2. DisciplineInv /\ (Disciplined => OnlineInv) /\ [Next]_vars
        => (Disciplined => OnlineInv)'
  <2> SUFFICES ASSUME DisciplineInv, Disciplined => OnlineInv, [Next]_vars,
                      Disciplined'
               PROVE  OnlineInv'
    OBVIOUS
  <2>1. Disciplined
    BY PlanStays DEF Disciplined, Builds, Jobs, Command, Needs
  <2>2. QED
    BY <2>1, OnlineKept DEF DisciplineInv
<1>3. (Disciplined => OnlineInv) => RepliesWhole
  BY DEF OnlineInv, SearchesWhole, RepliesWhole
<1>4. QED
  BY <1>1, <1>2, <1>3, DisciplineHolds, PTL DEF Spec

(* Commands run one at a time, on corpora that lose no chunk, repair what  *)
(* earlier ones that died had left: the stores hold what the last one      *)
(* wrote, its version is what the alias names and the registry calls       *)
(* active (OfflinePipeline.reindex and activate).                          *)
THEOREM RerunsRecover == Spec => []RerunRecovers
<1> DEFINE Inv == TypeOK /\ (Serial => SerialInv)
<1>1. Init => Inv
  BY InitTypes, SerialStart
<1>2. Inv /\ [Next]_vars => Inv'
  <2> SUFFICES ASSUME TypeOK, Serial => SerialInv, [Next]_vars PROVE Inv'
    OBVIOUS
  <2>1. TypeOK' /\ Serial' = Serial
    BY NextTypes, PlanStays DEF Serial, Builds, Jobs, Command, Follows
  <2>2. SUFFICES ASSUME Serial PROVE SerialInv'
    BY <2>1
  <2>3. CASE UNCHANGED <<plan, vectors, lexical, alias, file,
                         phase, io, data, crashes>>
    BY <2>2, <2>3 DEF SerialInv, Provenance, JobInOrder, ActivationStage, Latest,
       StoresClean, RecordClean, PublishedClean, OnlyActive, Known, Builds,
       Jobs, Command, Follows
  <2>4. ASSUME NEW j \in Jobs, JobStep(j) PROVE SerialInv'
    <3>1. SerialInv /\ Jobs' = Jobs
      BY <2>2, PlanStays DEF Jobs, Command
    <3>2. Provenance' /\ \A k \in Jobs : JobInOrder(k)'
      BY <2>2, <2>4, <3>1, ProvenanceKept, OrderKept
    <3>3. ASSUME NEW k \in Jobs, Latest(k)'
          PROVE  StoresClean(k)' /\ RecordClean(k)' /\ PublishedClean(k)'
      <4>1. k = j
        BY <2>2, <2>4, <3>1, <3>3, OneLatest
      <4>2. QED
        BY <2>2, <2>4, <3>1, <3>3, <4>1, LatestKept
    <3>4. QED
      BY <3>1, <3>2, <3>3 DEF SerialInv
  <2>5. QED
    BY <2>3, <2>4, WhoSteps
<1>3. Inv => RerunRecovers
  <2> SUFFICES ASSUME TypeOK, Serial, SerialInv,
                      NEW j \in Jobs, Latest(j), phase[j] = "done"
               PROVE  LET v == Command[j].version
                      IN /\ Command[j].op = "reindex" =>
                              /\ vectors[v] = Command[j].source
                              /\ lexical[v] = Command[j].source
                              /\ Known(file, v)
                         /\ Command[j].publish => alias = v
                         /\ (Command[j].publish /\ Known(file, v)) =>
                              /\ file.active = v
                              /\ \A w \in Versions :
                                   file.status[w] = "active" <=> w = v
    BY DEF RerunRecovers
  <2>1. StoresClean(j) /\ RecordClean(j) /\ PublishedClean(j)
    BY DEF SerialInv
  <2>2. QED
    BY <2>1 DEF StoresClean, RecordClean, PublishedClean, OnlyActive
<1>4. QED
  BY <1>1, <1>2, <1>3, PTL DEF Spec
=============================================================================
