--------------------------- MODULE AgentEvidence ---------------------------
(***************************************************************************)
(* The evidence of an agent turn: searches as tool calls, what their       *)
(* results tell the planner, the ledger that gathers their sources, the    *)
(* prompt it is rendered into for the critic and the citations of the      *)
(* draft.  A turn that cannot cite steps aside to the pipeline.            *)
(*                                                                         *)
(* AgentTurn is about the turn's control and keeps of a source its ref     *)
(* only; here the searches are those of Retrieval, over stores that are    *)
(* written between two of them, and a source keeps its score and its tags. *)
(* Tool calls of one reply return in the order they were asked for, so     *)
(* they are one after the other here.  A quote and a prompt line are their *)
(* lengths.                                                                *)
(***************************************************************************)
EXTENDS Grounding

CONSTANTS
  AgentRerankers,  (* of deployments that run agents                       *)
  ToolTopK,        (* what a planner may pass as top_k, 0 for none         *)
  MaxSearches,     (* bound: searches of a turn                            *)
  HeaderChars,     (* the length of a source's header line                 *)
  TextChars,       (* the length of a chunk's text                         *)
  MAX_CHARS, MAX_QUOTE_CHARS, MIN_QUOTE_CHARS

ASSUME AgentAssumption ==
  /\ AgentRerankers \subseteq Rerankers
  /\ ToolTopK \subseteq Int /\ MaxSearches \in Nat
ASSUME LengthAssumption ==
  /\ HeaderChars \in [Ids -> Nat] /\ TextChars \in [Texts -> Nat]
  /\ {MAX_CHARS, MAX_QUOTE_CHARS, MIN_QUOTE_CHARS} \subseteq Nat

VARIABLES
  mode,            (* what answers: the agent, or the pipeline             *)
  ledger,          (* the sources, in the order they were first seen       *)
  told,            (* the length of the quotes in the planner's messages   *)
  searches,        (* tool calls that searched                             *)
  cited,           (* the citations of the agent's own answer              *)
  seen,            (* history: ids the turn's searches might return        *)
  observed         (* history: every source a tool returned                *)

turnVars == <<ledger, told, searches, cited, seen, observed>>
evidenceVars == <<vars, mode, turnVars>>

(***************************************************************************)
(* Mutated forms of definitions below.                                     *)
(***************************************************************************)
(* the first observation of a ref kept *)
AddedFirst(sources, source) ==
  IF \E n \in DOMAIN sources : sources[n].ref = source.ref THEN sources
  ELSE Append(sources, source)
(* the pipeline's permissive resolution *)
ResolvedOrTop(t, sources) ==
  IF sources = <<>> THEN <<>>
  ELSE IF t = <<>> THEN <<sources[1].ref>>
  ELSE SelectSeq(t, LAMBDA m : \E n \in DOMAIN sources : sources[n].ref = m)

(***************************************************************************)
(* agent/tools/retrieval.py, agent/evidence.py                             *)
(***************************************************************************)
(* A top_k of 0 is falsy: it means the default.                            *)
PassageLimit(k) ==
  LET wanted == IF k = 0 THEN TopK ELSE k
  IN IF wanted < 1 THEN 1 ELSE Smaller(wanted, 20)

source_from_scored(scored) ==
  [ref |-> scored.id, chunk |-> scored.chunk, score |-> scored.score]

(* Those of a list that pass the recheck, which the tool, the runtime and  *)
(* _finalize each make.                                                    *)
Authorised(list) ==
  LET keep(kept, s) == IF is_allowed(principal, s.chunk) THEN Append(kept, s)
                       ELSE kept
  IN FoldLeft(keep, <<>>, list)

Passages(k) ==
  LET shown == SubSeq(results, 1, Smaller(PassageLimit(k), Len(results)))
      allowed == Authorised(shown)
  IN [n \in DOMAIN allowed |-> source_from_scored(allowed[n])]

(* The quotes of a tool message, which has every passage whole.            *)
QuoteChars(passages) ==
  LET quote(source) == Smaller(TextChars[source.chunk.text], MAX_QUOTE_CHARS)
  IN FoldLeft(LAMBDA sum, source : sum + quote(source), 0, passages)

(* One entry for each ref, replaced by a stronger observation in place.    *)
Added(sources, source) ==
  IF \A n \in DOMAIN sources : sources[n].ref # source.ref
  THEN Append(sources, source)
  ELSE [n \in DOMAIN sources |->
          IF sources[n].ref = source.ref /\ source.score > sources[n].score
          THEN source ELSE sources[n]]

Merged(sources, found) == FoldLeft(Added, sources, found)

(* Strongest first, equals in the order they were first seen.              *)
Sources ==
  LET ahead(a, b) == \/ ledger[a].score > ledger[b].score
                     \/ ledger[a].score = ledger[b].score /\ a < b
      order == CHOOSE s \in Rankings(DOMAIN ledger, Len(ledger)) :
                 \A a, b \in DOMAIN s : a < b => ahead(s[a], s[b])
  IN [n \in DOMAIN ledger |-> ledger[order[n]]]

(* The length of text[:end], where a negative end counts from the back.    *)
Sliced(length, end) == IF end >= 0 THEN Smaller(length, end)
                       ELSE Max({0, length + end})

Entry(source, left) ==
  [ref |-> source.ref,
   chars |-> HeaderChars[source.ref] + 1
             + Sliced(TextChars[source.chunk.text],
                      Smaller(MAX_QUOTE_CHARS, left))]

(* Entries until one has no room for a useful quote.                       *)
render_sources(sources) ==
  LET line(prompt, source) ==
        LET left == MAX_CHARS - prompt.used - HeaderChars[source.ref] - 1
            entry == Entry(source, left)
        IN IF prompt.omitted > 0 \/ (left < MIN_QUOTE_CHARS /\ prompt.entries # <<>>)
           THEN [prompt EXCEPT !.omitted = @ + 1]
           ELSE [prompt EXCEPT !.entries = Append(@, entry),
                               !.used = @ + entry.chars + 2]
  IN FoldLeft(line, [entries |-> <<>>, used |-> 0, omitted |-> 0], sources)

(* What the critic is shown of the evidence; the planner was shown the     *)
(* ledger once, before the first search.                                   *)
CriticPrompt == render_sources(Sources)

(***************************************************************************)
(* generation/citations.py, for drafts of the agent                        *)
(***************************************************************************)
(* The refs a text cites: a marker points at the source it names, or the   *)
(* first it resembles; nothing is cited that no marker points at.          *)
resolve_source_citations(t, sources) ==
  LET refs == {sources[n].ref : n \in DOMAIN sources}
      alike(m) == {n \in DOMAIN sources : sources[n].ref \in Loose[m]}
      hit(m) == IF m \in refs THEN <<m>>
                ELSE IF alike(m) = {} THEN <<>>
                ELSE <<sources[Min(alike(m))].ref>>
      cite(citations, m) == IF ToSet(hit(m)) \subseteq ToSet(citations)
                            THEN citations ELSE citations \o hit(m)
  IN FoldLeft(cite, <<>>, t)

(***************************************************************************)
(* A turn.  It is at "idle" while the planner is asked.                    *)
(***************************************************************************)
(* retrieve_only.  Bound: one query variant, where the pipeline's requests *)
(* have up to MaxVariants.                                                 *)
CallSearch(p) ==
  /\ mode = "agent" /\ searches < MaxSearches
  /\ searches > 0 => p = principal
  /\ Ask(p, 1)
  /\ searches' = searches + 1
  /\ UNCHANGED <<text, answer, mode, ledger, told, cited, seen, observed>>

SearchReturns(k) ==
  /\ mode = "agent" /\ pc = "retrieved"
  /\ pc' = "idle" /\ results' = <<>> /\ visible' = {}
  /\ ledger' = Merged(ledger, Authorised(Passages(k)))
  /\ told' = told + QuoteChars(Passages(k))
  /\ seen' = seen \cup visible
  /\ observed' = observed \cup ToSet(Passages(k))
  /\ UNCHANGED <<config, written, principal, legs, todo, hits, fused, steady,
                 text, answer, mode, searches, cited>>

(* What the search raises is a result without sources.                     *)
SearchRaises ==
  /\ mode = "agent" /\ pc = "failed"
  /\ pc' = "idle" /\ legs' = <<>> /\ hits' = <<>>
  /\ visible' = {} /\ steady' = {}
  /\ UNCHANGED <<config, written, principal, todo, fused, results, text,
                 answer, mode, turnVars>>

Draft(t) ==
  /\ mode = "agent" /\ pc = "idle" /\ searches > 0
  /\ pc' = "drafted" /\ text' = t
  /\ UNCHANGED <<config, written, principal, legs, todo, hits, fused, results,
                 history, answer, mode, turnVars>>

Citations == resolve_source_citations(text, Authorised(Sources))

FinalizeOwn ==
  /\ mode = "agent" /\ pc = "drafted" /\ Citations # <<>>
  /\ pc' = "answered" /\ cited' = Citations
  /\ UNCHANGED <<config, written, principal, legs, todo, hits, fused, results,
                 history, text, answer, mode, ledger, told, searches, seen,
                 observed>>

Forget ==
  /\ ledger' = <<>> /\ told' = 0 /\ searches' = 0 /\ cited' = <<>>
  /\ seen' = {} /\ observed' = {}

(* The pipeline answers from the start, without the turn's evidence.       *)
StepAside ==
  /\ mode = "agent" /\ pc = "drafted" /\ Citations = <<>>
  /\ mode' = "pipeline" /\ pc' = "idle" /\ text' = <<>>
  /\ Forget
  /\ UNCHANGED <<config, written, principal, legs, todo, hits, fused, results,
                 history, answer>>

NextQuestion ==
  /\ mode = "agent" /\ pc = "answered"
  /\ Done /\ Forget
  /\ UNCHANGED mode

(* An agent deployment runs over the remote stores.                        *)
EvidenceInit ==
  /\ Init
  /\ mode \in {"pipeline", "agent"}
  /\ mode = "agent" => profile = "remote" /\ reranker \in AgentRerankers
  /\ ledger = <<>> /\ told = 0 /\ searches = 0 /\ cited = <<>>
  /\ seen = {} /\ observed = {}

EvidenceNext ==
  \/ mode = "pipeline" /\ Next /\ UNCHANGED <<mode, turnVars>>
  \/ mode = "agent" /\ (WriteStores \/ Retrieve)
                    /\ UNCHANGED <<text, answer, mode, turnVars>>
  \/ \E p \in Callers : CallSearch(p)
  \/ \E k \in ToolTopK : SearchReturns(k)
  \/ SearchRaises
  \/ \E t \in MarkerTexts : Draft(t)
  \/ FinalizeOwn
  \/ StepAside
  \/ NextQuestion

EvidenceSpec == EvidenceInit /\ [][EvidenceNext]_evidenceVars

(***************************************************************************)
(* Properties.                                                             *)
(***************************************************************************)
(* What the critic is shown of the evidence, the sources it may judge a    *)
(* draft by, leaves out nothing stronger than what it shows, by the best   *)
(* any tool call of the turn observed, counts what it leaves out, and      *)
(* stays within the budget.  It overruns it only where the header of the   *)
(* strongest source alone does: the room left is negative then, which cuts *)
(* the quote from the back, and that source is all there is.  The line     *)
(* that counts the omitted is not in the budget (agent/critic.py evaluate, *)
(* agent/evidence.py add, render_sources).                                 *)
CriticSeesStrongest ==
  LET entries == CriticPrompt.entries
      shown == {entries[n].ref : n \in DOMAIN entries}
      refs == {o.ref : o \in observed}
      best(r) == Max({o.score : o \in {s \in observed : s.ref = r}})
      chars == FoldLeft(LAMBDA sum, entry : sum + entry.chars, 0, entries)
  IN /\ \/ chars + 2 * (Len(entries) - 1) <= MAX_CHARS
        \/ Len(entries) = 1 /\ HeaderChars[entries[1].ref] + 1 > MAX_CHARS
     /\ (shown = {}) = (refs = {})
     /\ shown \subseteq refs
     /\ Cardinality(refs) = Len(entries) + CriticPrompt.omitted
     /\ \A r \in shown, q \in refs \ shown : best(q) <= best(r)

(* agent/evidence.py:11: the ledger "renders under a character budget so a *)
(* wide `top_k` cannot push the planner prompt past the model's context    *)
(* window".  What the planner is shown of the evidence is within that      *)
(* budget, its quotes alone at least.                                      *)
PlannerWithinBudget == told <= MAX_CHARS

(* The agent's own answer cites, each once, sources that a search of the   *)
(* turn found while its caller might read them and that a marker of the    *)
(* draft points at; a source named in full is cited (generation/           *)
(* citations.py resolve_source_citations, agent/runtime.py _finalize).     *)
AgentCitesEvidence ==
  cited # <<>> =>
    /\ ToSet(cited) \subseteq seen
    /\ Cardinality(ToSet(cited)) = Len(cited)
    /\ \A r \in ToSet(cited) :
         /\ \E o \in observed : o.ref = r /\ MayRead(principal, o.chunk)
         /\ \E m \in ToSet(text) : r \in Loose[m]
    /\ {o.ref : o \in observed} \cap ToSet(text) \subseteq ToSet(cited)
=============================================================================
