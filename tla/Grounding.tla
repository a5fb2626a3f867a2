----------------------------- MODULE Grounding -----------------------------
(***************************************************************************)
(* OnlinePipeline.answer behind its caches: routing, retrieval, grounded   *)
(* generation, citations and refusal.                                      *)
(*                                                                         *)
(* The model may write anything.  Of its text, after redaction, only the   *)
(* bracketed markers matter, in their order.  A marker is a chunk id or    *)
(* something shorter or longer; Loose gives the ids it resolves to when no *)
(* retrieved id equals it, those that start with the marker and those      *)
(* whose first twelve characters the marker starts with.                   *)
(***************************************************************************)
EXTENDS Retrieval, SequencesExt

CONSTANTS
  Markers,         (* what brackets may hold                               *)
  Loose,           (* the ids a marker resembles                           *)
  MaxMarkers,      (* bound: markers in a text                             *)
  ThresholdPercent (* settings.refusal_score_threshold, in hundredths      *)

ASSUME MarkerAssumption ==
  /\ Ids \subseteq Markers
  /\ Loose \in [Markers -> SUBSET Ids]
  /\ \A i \in Ids : i \in Loose[i]
ASSUME TextAssumption == MaxMarkers \in Nat /\ ThresholdPercent \in Nat

VARIABLES
  text,            (* the markers the model wrote                          *)
  answer           (* the answer                                           *)

vars == <<retrievalVars, text, answer>>

NoAnswer == [refused |-> FALSE, reason |-> "none", citations |-> <<>>]
MarkerTexts == UNION {[1..n -> Markers] : n \in 0..MaxMarkers}
Retrieved == {results[n].id : n \in DOMAIN results}

(***************************************************************************)
(* Mutated forms of definitions below.                                     *)
(***************************************************************************)
(* markers resolved by resemblance alone *)
LooseFirst(m) ==
  LET alike == {n \in DOMAIN results : results[n].id \in Loose[m]}
  IN IF alike = {} THEN {} ELSE {results[Min(alike)].id}
(* citations looked up in the whole index *)
CitesUnretrieved(m) == IF m \in Ids THEN {m} ELSE {}

(***************************************************************************)
(* generation/citations.py and refusal.py                                  *)
(***************************************************************************)
(* The chunk marker m points at, if any.                                   *)
Resolved(m) ==
  LET alike == {n \in DOMAIN results : results[n].id \in Loose[m]}
  IN IF m \in Retrieved THEN {m}
     ELSE IF alike = {} THEN {} ELSE {results[Min(alike)].id}

Marked ==
  FoldLeft(LAMBDA cited, m :
             IF Resolved(m) \subseteq ToSet(cited) THEN cited
             ELSE cited \o SetToSeq(Resolved(m)),
           <<>>, text)

resolve_citations ==
  IF Marked = <<>> /\ results # <<>> THEN <<results[1].id>> ELSE Marked

LowScore == results[1].score * 100 < ThresholdPercent * Scale

should_refuse(citations) ==
  IF results = <<>> THEN "no_retrieved_context"
  ELSE IF LowScore THEN "low_confidence_score"
  ELSE IF citations = <<>> THEN "zero_resolvable_citations"
  ELSE "none"

Answer(reason, citations) ==
  [refused |-> reason # "none", reason |-> reason,
   citations |-> IF reason = "none" THEN citations ELSE <<>>]

(***************************************************************************)
(* OnlinePipeline.answer                                                   *)
(***************************************************************************)
Init == RetrievalInit /\ text = <<>> /\ answer = NoAnswer

(* An empty question is refused, a greeting answered, without retrieval.   *)
AnswerAtOnce(reason) ==
  /\ pc = "idle"
  /\ pc' = "answered"
  /\ answer' = Answer(reason, <<>>)
  /\ UNCHANGED <<config, written, principal, legs, todo, hits, fused, results,
                 history, text>>

(* Nothing usable was retrieved: the model is not called.                  *)
RefuseEarly ==
  /\ pc = "retrieved"
  /\ should_refuse(<<>>) \in {"no_retrieved_context", "low_confidence_score"}
  /\ pc' = "answered"
  /\ answer' = Answer(should_refuse(<<>>), <<>>)
  /\ UNCHANGED <<config, written, principal, legs, todo, hits, fused, results,
                 history, text>>

CallModel(t) ==
  /\ pc = "retrieved"
  /\ should_refuse(<<>>) = "zero_resolvable_citations"
  /\ pc' = "drafted"
  /\ text' = t
  /\ UNCHANGED <<config, written, principal, legs, todo, hits, fused, results,
                 history, answer>>

ModelFails ==
  /\ pc = "retrieved"
  /\ should_refuse(<<>>) = "zero_resolvable_citations"
  /\ pc' = "answered"
  /\ answer' = Answer("llm_unavailable", <<>>)
  /\ UNCHANGED <<config, written, principal, legs, todo, hits, fused, results,
                 history, text>>

Cite ==
  /\ pc = "drafted"
  /\ pc' = "answered"
  /\ answer' = Answer(should_refuse(resolve_citations), resolve_citations)
  /\ UNCHANGED <<config, written, principal, legs, todo, hits, fused, results,
                 history, text>>

(* The request is over, and the next may come.                             *)
Done ==
  /\ pc \in {"answered", "failed"}
  /\ pc' = "idle"
  /\ legs' = <<>> /\ hits' = <<>> /\ results' = <<>>
  /\ visible' = {} /\ steady' = {}
  /\ text' = <<>> /\ answer' = NoAnswer
  /\ UNCHANGED <<config, written, principal, todo, fused>>

Next ==
  \/ RetrievalNext /\ UNCHANGED <<text, answer>>
  \/ \E reason \in {"empty_query", "none"} : AnswerAtOnce(reason)
  \/ RefuseEarly
  \/ \E t \in MarkerTexts : CallModel(t)
  \/ ModelFails
  \/ Cite
  \/ Done

Spec == Init /\ [][Next]_vars

(***************************************************************************)
(* Properties.                                                             *)
(***************************************************************************)
Reasons == {"none", "empty_query", "no_retrieved_context",
            "low_confidence_score", "zero_resolvable_citations",
            "llm_unavailable"}

(* Every variable has its type.                                            *)
TypeOK ==
  /\ chunks \in [Ids -> Chunks \cup {NoChunk}]
  /\ vectors \in [Ids -> Chunks \cup {NoChunk}]
  /\ tf \in [Ids -> [Terms -> Nat]] /\ df \in [Terms -> Nat]
  /\ docLen \in [Indexed -> Nat] /\ avgdl \in [total: Nat, docs: Nat]
  /\ call \in {"none", "upsert", "delete"}
  /\ profile \in Profiles /\ reranker \in Rerankers /\ calls \in 0..MaxCalls
  /\ pc \in {"idle", "search", "fused", "retrieved", "drafted", "answered",
             "failed"}
  /\ principal \in Callers
  /\ legs \in Seq({"dense", "lexical"}) /\ todo \subseteq DOMAIN legs
  /\ hits \in Seq(Seq([id: Ids, chunk: Chunks])) /\ DOMAIN hits = DOMAIN legs
  /\ fused \in Seq(Scored) /\ results \in Seq(Scored)
  /\ visible \subseteq Ids /\ steady \subseteq Ids
  /\ text \in Seq(Markers)
  /\ answer \in [refused: BOOLEAN, reason: Reasons, citations: Seq(Ids)]

(* A citation is no invention: an answer cites chunks that were retrieved  *)
(* for its caller, each once, whatever the model wrote.                    *)
CitesRetrieved ==
  LET cited == answer.citations
  IN /\ ToSet(cited) \subseteq Retrieved \cap visible
     /\ Cardinality(ToSet(cited)) = Len(cited)

(* A marker that names a retrieved chunk in full cites it, whichever other *)
(* retrieved ids resemble it.                                              *)
ExactMarkerCited ==
  (pc = "answered" /\ ~answer.refused) =>
    Retrieved \cap ToSet(text) \subseteq ToSet(answer.citations)
=============================================================================
