---------------------------- MODULE LexicalIndex ----------------------------
(***************************************************************************)
(* BM25MemoryIndex: chunks with their term statistics.  Scores divide by   *)
(* document frequencies and by the average length, which upsert and delete *)
(* maintain incrementally; a chunk may be upserted again with other text,  *)
(* and one call may name a chunk twice.                                    *)
(*                                                                         *)
(* The loops of upsert and delete are unrolled, one chunk a step; nothing  *)
(* reads the index before the call is over.  A chunk's text is the count   *)
(* of each of its terms, what Counter(tokenize(text)) returns.             *)
(***************************************************************************)
EXTENDS Access, Integers, Sequences, FiniteSetsExt

CONSTANTS
  Ids,            (* chunk ids                                             *)
  NoChunk,        (* an id that is not indexed                             *)
  Terms,          (* terms                                                 *)
  CountOf         (* the terms of each text                                *)

ASSUME TermAssumption == CountOf \in [Texts -> [Terms -> Nat]]
ASSUME NoChunkAssumption == NoChunk \notin Chunks
ASSUME FiniteAssumption == IsFiniteSet(Ids) /\ IsFiniteSet(Terms)

VARIABLES
  chunks,         (* _chunks                                               *)
  tf,             (* _tf, no terms for an id that is not indexed           *)
  df,             (* _df, 0 for a term that is not in it                   *)
  docLen,         (* _doc_len, a function on the ids that are indexed      *)
  avgdl,          (* _avgdl, a sum and the number it is divided by         *)
  call,           (* the call in progress                                  *)
  batch           (* what its loop has left                                *)

stats == <<tf, df, docLen, avgdl>>
lexicalVars == <<chunks, stats, call, batch>>

NoTerms == [t \in Terms |-> 0]
Indexed == {i \in Ids : chunks[i] # NoChunk}
Entries == [id: Ids, chunk: Chunks]

(***************************************************************************)
(* Mutated forms of definitions below.                                     *)
(***************************************************************************)
(* an upsert that forgets the chunk was indexed before *)
NothingRemoved(i) == df

Length(c) == MapThenSumSet(LAMBDA t : CountOf[c.text][t], Terms)

(* The average of some lengths, as a sum and the number to divide it by.   *)
Average(lengths) ==
  [total |-> MapThenSumSet(LAMBDA i : lengths[i], DOMAIN lengths),
   docs |-> Cardinality(DOMAIN lengths)]

LexicalInit ==
  /\ chunks = [i \in Ids |-> NoChunk]
  /\ tf = [i \in Ids |-> NoTerms]
  /\ df = NoTerms
  /\ docLen = <<>>
  /\ avgdl = Average(docLen)
  /\ call = "none" /\ batch = <<>>

(* _remove_stats: the document frequencies without chunk i.                *)
Removed(i) ==
  [t \in Terms |-> IF tf[i][t] > 0
                   THEN (IF df[t] - 1 <= 0 THEN 0 ELSE df[t] - 1)
                   ELSE df[t]]

Counted(d, c) == [t \in Terms |-> IF CountOf[c.text][t] > 0 THEN d[t] + 1 ELSE d[t]]

(* upsert(entries)                                                         *)
BeginUpsert(entries) ==
  /\ call = "none"
  /\ call' = "upsert" /\ batch' = entries
  /\ UNCHANGED <<chunks, stats>>

UpsertChunk ==
  /\ call = "upsert" /\ batch # <<>>
  /\ LET i == Head(batch).id
         c == Head(batch).chunk
     IN /\ df' = Counted(IF i \in Indexed THEN Removed(i) ELSE df, c)
        /\ chunks' = [chunks EXCEPT ![i] = c]
        /\ tf' = [tf EXCEPT ![i] = CountOf[c.text]]
        /\ docLen' = [j \in DOMAIN docLen \cup {i} |->
                        IF j = i THEN Length(c) ELSE docLen[j]]
  /\ batch' = Tail(batch)
  /\ UNCHANGED <<avgdl, call>>

(* delete(chunk_ids): ids that are not indexed are skipped.                *)
BeginDelete(ids) ==
  /\ call = "none"
  /\ call' = "delete" /\ batch' = ids
  /\ UNCHANGED <<chunks, stats>>

DeleteChunk ==
  /\ call = "delete" /\ batch # <<>>
  /\ LET i == Head(batch)
     IN IF i \in Indexed
        THEN /\ df' = Removed(i)
             /\ chunks' = [chunks EXCEPT ![i] = NoChunk]
             /\ tf' = [tf EXCEPT ![i] = NoTerms]
             /\ docLen' = [j \in DOMAIN docLen \ {i} |-> docLen[j]]
        ELSE UNCHANGED <<df, chunks, tf, docLen>>
  /\ batch' = Tail(batch)
  /\ UNCHANGED <<avgdl, call>>

(* _recompute_avgdl ends either call.                                      *)
EndCall ==
  /\ call # "none" /\ batch = <<>>
  /\ avgdl' = Average(docLen)
  /\ call' = "none"
  /\ UNCHANGED <<chunks, tf, df, docLen, batch>>

(***************************************************************************)
(* Properties.                                                             *)
(***************************************************************************)

(* BM25 scores with statistics that a recount would give, after any calls: *)
(* the frequency of a term, which upsert and delete keep by adding and     *)
(* subtracting, is the number of indexed chunks that have it, and between  *)
(* calls the average length is that of the indexed chunks.                 *)
StatisticsExact ==
  /\ \A t \in Terms :
       df[t] = Cardinality({i \in Indexed : CountOf[chunks[i].text][t] > 0})
  /\ call = "none" => avgdl = Average([i \in Indexed |-> Length(chunks[i])])
=============================================================================
