---------------------------- MODULE ServingProofs ----------------------------
(***************************************************************************)
(* Proofs about Serving and the two halves it is made of, for any          *)
(* deployments, files, principals, tokens, requests and index versions.    *)
(*                                                                         *)
(*   - Offline: what jobs make of files.  Chunks are excerpts of their     *)
(*     documents, nothing personal is stored, and after a run every letter *)
(*     of a document whose name is its own is in both stores.              *)
(*   - QueryRoute: replies are for their callers, what is cached or        *)
(*     answered is of its own version unless a promotion overtook the turn *)
(*     it is from, and permits come back.                                  *)
(*   - Serving: what the route promises survives in a replica that starts, *)
(*     authenticates and is promoted under, in production whoever is       *)
(*     served showed a token of the file, and a replica that says it is    *)
(*     ready can be queried.                                               *)
(***************************************************************************)
EXTENDS Serving, ChunkingProofs, SequenceTheorems

(***************************************************************************)
(* What jobs make of files.                                                *)
(***************************************************************************)
(* A sequence, whatever it is of.                                          *)
IsList(s) == s \in Seq(ToSet(s))

(* A function on 1..n is a list of n elements.                             *)
LEMMA ListIs ==
  ASSUME NEW s, NEW n \in Nat, s = [k \in 1..n |-> s[k]]
  PROVE  /\ IsList(s) /\ Len(s) = n /\ DOMAIN s = 1..n
         /\ \A x : x \in ToSet(s) <=> \E k \in 1..n : x = s[k]
<1> DEFINE V == ToSet(s)
<1>1. DOMAIN s = 1..n
  OBVIOUS
<1>2. \A k \in 1..n : s[k] \in V
  BY <1>1 DEF ToSet
<1>3. \A x : x \in V <=> \E k \in 1..n : x = s[k]
  BY <1>1 DEF ToSet
<1> HIDE DEF V
<1>4. s \in [1..n -> V]
  BY <1>2
<1>5. s \in Seq(V) /\ Len(s) = n
  BY <1>4
<1>6. QED
  BY <1>1, <1>3, <1>5 DEF IsList, V

(* The domain and the elements of a list.                                  *)
LEMMA ListDomain ==
  ASSUME NEW s, IsList(s)
  PROVE  /\ Len(s) \in Nat /\ DOMAIN s = 1..Len(s) /\ s = [k \in 1..Len(s) |-> s[k]]
         /\ \A x : x \in ToSet(s) <=> \E k \in 1..Len(s) : x = s[k]
<1> DEFINE V == ToSet(s)
<1>1. s \in Seq(V)
  BY DEF IsList
<1> HIDE DEF V
<1>2. Len(s) \in Nat /\ DOMAIN s = 1..Len(s) /\ s = [k \in 1..Len(s) |-> s[k]]
  BY <1>1
<1>3. QED
  BY <1>2 DEF ToSet

(* What is picked from a list is a list of its elements.                   *)
LEMMA PickedList ==
  ASSUME NEW s, IsList(s), NEW at
  PROVE  /\ IsList(Picked(s, at))
         /\ \A k \in 1..Len(Picked(s, at)) : \E n \in 1..Len(s) : n \in at /\ Picked(s, at)[k] = s[n]
<1> DEFINE V == ToSet(s)
           p == Picked(s, at)
<1>1. s \in Seq(V)
  BY DEF IsList
<1> HIDE DEF V
<1>2. p \in Seq(V) /\ \A k \in 1..Len(p) : \E n \in 1..Len(s) : n \in at /\ p[k] = s[n]
  BY <1>1, PickedIs
<1> HIDE DEF p
<1>3. IsList(p)
  <2>1. Len(p) \in Nat /\ p = [k \in 1..Len(p) |-> p[k]]
    BY <1>2
  <2>2. QED
    BY <2>1, ListIs
<1>4. QED
  BY <1>2, <1>3 DEF p

(* Files hold strings, which are texts.                                    *)
LEMMA StringsAreTexts ==
  /\ \A t : t \in Seq(STRING) => t \in Texts
  /\ \A ts : ts \in Seq(Seq(STRING)) => ts \in Seq(Texts)
<1>1. ASSUME NEW t \in Seq(STRING) PROVE t \in Texts
  <2> DEFINE S == STRING
             n == Len(t)
  <2>1. t \in Seq(S)
    OBVIOUS
  <2>2. \A c \in S : c \in Chars
    BY DEF Chars
  <2> HIDE DEF S
  <2>3. n \in Nat /\ t = [k \in 1..n |-> t[k]] /\ \A k \in 1..n : t[k] \in S
    BY <2>1
  <2> HIDE DEF n
  <2>4. t \in [1..n -> Chars]
    BY <2>2, <2>3
  <2>5. QED
    BY <2>3, <2>4 DEF Texts
<1>2. ASSUME NEW ts \in Seq(Seq(STRING)) PROVE ts \in Seq(Texts)
  <2> DEFINE S == Seq(STRING)
             n == Len(ts)
  <2>1. ts \in Seq(S)
    OBVIOUS
  <2>2. \A t \in S : t \in Texts
    BY <1>1
  <2> HIDE DEF S
  <2>3. n \in Nat /\ ts = [k \in 1..n |-> ts[k]] /\ \A k \in 1..n : ts[k] \in S
    BY <2>1
  <2> HIDE DEF n
  <2>4. ts \in [1..n -> Texts]
    BY <2>2, <2>3
  <2>5. QED
    BY <2>3, <2>4
<1>3. QED
  BY <1>1, <1>2

(***************************************************************************)
(* Parsing.                                                                *)
(***************************************************************************)
LEMMA PickedText ==
  ASSUME NEW text \in Texts, NEW at PROVE Picked(text, at) \in Texts
<1>1. text \in Seq(Chars)
  BY DEF Texts
<1>2. Picked(text, at) \in Seq(Chars)
  BY <1>1, PickedIs
<1>3. QED
  BY <1>2 DEF Texts

(* StripMarkup makes texts of texts.                                       *)
LEMMA StripMarkupText ==
  ASSUME NEW text \in Texts PROVE StripMarkup(text) \in Texts
<1> DEFINE gap(c) == White(c) \/ c = Tag
           plain == [n \in DOMAIN text |-> IF gap(text[n]) THEN Space ELSE text[n]]
           at == {n \in DOMAIN text : ~(n > 1 /\ gap(text[n]) /\ gap(text[n - 1]))}
<1>1. StripMarkup(text) = Strip(Picked(plain, at))
  BY DEF StripMarkup
<1>2. plain \in Texts
  <2> DEFINE n == Len(text)
  <2>1. n \in Nat /\ DOMAIN text = 1..n /\ \A k \in 1..n : text[k] \in Chars
    BY DEF Texts
  <2>2. Space \in Chars
    BY DEF Chars
  <2>3. plain \in [1..n -> Chars]
    BY <2>1, <2>2
  <2> HIDE DEF plain, n
  <2>4. QED
    BY <2>1, <2>3 DEF Texts
<1> HIDE DEF plain, at
<1>3. QED
  BY <1>1, <1>2, PickedText, StripIs

(* JoinPages makes a text of the pages of a PDF.                           *)
LEMMA JoinPagesText ==
  ASSUME NEW pages \in Seq(Texts) PROVE JoinPages(pages) \in Texts
<1> DEFINE stripped == [n \in DOMAIN pages |-> Strip(pages[n])]
           kept == Picked(stripped, {n \in DOMAIN pages : stripped[n] # <<>>})
           spaced == [n \in DOMAIN kept |-> IF n = 1 THEN kept[n]
                                            ELSE <<Newline, Newline>> \o kept[n]]
<1>1. JoinPages(pages) = FlattenSeq(spaced)
  BY DEF JoinPages
<1>2. stripped \in Seq(Texts)
  <2> DEFINE n == Len(pages)
  <2>1. n \in Nat /\ DOMAIN pages = 1..n /\ \A k \in 1..n : pages[k] \in Texts
    OBVIOUS
  <2>2. \A k \in 1..n : Strip(pages[k]) \in Texts
    BY <2>1, StripIs
  <2>3. stripped \in [1..n -> Texts]
    BY <2>1, <2>2
  <2> HIDE DEF stripped, n
  <2>4. QED
    BY <2>1, <2>3
<1> HIDE DEF stripped
<1>3. kept \in Seq(Texts)
  BY <1>2, PickedIs
<1> HIDE DEF kept
<1>4. spaced \in Seq(Texts)
  <2> DEFINE n == Len(kept)
             gap == <<Newline, Newline>>
  <2>1. n \in Nat /\ DOMAIN kept = 1..n /\ \A k \in 1..n : kept[k] \in Texts
    BY <1>3
  <2>2. gap \in Texts
    BY SeparatorsAreNoLetters
  <2> HIDE DEF gap
  <2>3. \A k \in 1..n : gap \o kept[k] \in Texts
    BY <2>1, <2>2 DEF Texts
  <2>4. spaced \in [1..n -> Texts]
    BY <2>1, <2>3 DEF gap
  <2> HIDE DEF spaced, n
  <2>5. QED
    BY <2>1, <2>4
<1> HIDE DEF spaced
<1>5. FlattenSeq(spaced) \in Seq(Chars)
  <2>1. spaced \in Seq(Seq(Chars))
    BY <1>4 DEF Texts
  <2>2. QED
    BY <2>1, FlattenIs DEF FlatFrom
<1>6. QED
  BY <1>1, <1>5 DEF Texts

(* A document as it was fetched, and as it goes on from the parser.        *)
Shaped(doc) ==
  doc = [doc_id |-> doc.doc_id, file |-> doc.file, mime |-> doc.mime, acl |-> doc.acl,
         decoded |-> doc.decoded, text |-> doc.text]

(* A document as it was fetched: characters, or the pages of a PDF.        *)
Fetched(doc) ==
  /\ Shaped(doc)
  /\ doc.mime \in Mimes \cup {"application/octet-stream"} /\ doc.text \in Texts
  /\ doc.file.body.is = "pages" => doc.file.body.pages \in Seq(Texts)

(* Where PII is redacted, text without any.                                *)
Clean(text) == deployment.redact => Personal \notin ToSet(text)

(* A document as it was parsed.                                            *)
Usable(doc) == doc.mime \in Mimes /\ doc.text \in Texts /\ Clean(doc.text)

(* A file read is a document that may be parsed.                           *)
LEMMA FetchedFits ==
  ASSUME NEW f, NEW acl,
         f.body.is = "text" => f.body.text \in Seq(STRING),
         f.body.is = "pages" => f.body.pages \in Seq(Seq(STRING))
  PROVE  Fetched(fetch(f, acl))
<1> DEFINE doc == fetch(f, acl)
<1>1. doc = [doc_id |-> f.stem, file |-> f, mime |-> guess_mime(f.suffix), acl |-> acl,
             decoded |-> f.body.is = "text",
             text |-> IF f.body.is = "text" THEN f.body.text ELSE <<>>]
  BY DEF fetch
<1> HIDE DEF doc
<1>2. /\ doc.file = f /\ doc.mime = guess_mime(f.suffix)
      /\ doc.text = IF f.body.is = "text" THEN f.body.text ELSE <<>>
  BY <1>1
<1>3. Shaped(doc)
  BY <1>1 DEF Shaped
<1>4. guess_mime(f.suffix) \in Mimes \cup {"application/octet-stream"}
  BY DEF guess_mime, Mimes
<1>5. doc.text \in Texts
  <2>1. <<>> \in Texts
    BY DEF Texts
  <2>2. QED
    BY <1>2, <2>1, StringsAreTexts
<1>6. f.body.is = "pages" => f.body.pages \in Seq(Texts)
  BY StringsAreTexts
<1>7. QED
  BY <1>2, <1>3, <1>4, <1>5, <1>6 DEF Fetched, doc

(* What the parsers leave, redacted.                                       *)
LEMMA ParsedFits ==
  ASSUME NEW doc, Fetched(doc), ~Aborts(doc), ~Skips(doc)
  PROVE  Usable(ParsedAndRedacted(doc))
<1> DEFINE text == Parsed(doc)
           new == IF deployment.redact THEN redact_pii(text) ELSE text
           to == ParsedAndRedacted(doc)
<1>1. doc.mime \in Mimes /\ doc.text \in Texts
  BY DEF Fetched, Skips
<1>2. text \in Texts
  <2>1. Strip(doc.text) \in Texts
    BY <1>1, StripIs
  <2>2. CollapseBlankLines(Strip(doc.text)) \in Texts
    BY <2>1, PickedText DEF CollapseBlankLines
  <2>3. StripMarkup(doc.text) \in Texts
    BY <1>1, StripMarkupText
  <2>4. doc.mime = "application/pdf" => JoinPages(doc.file.body.pages) \in Texts
    BY JoinPagesText DEF Fetched, Aborts
  <2>5. QED
    BY <2>1, <2>2, <2>3, <2>4 DEF Parsed
<1>3. to.mime = doc.mime /\ to.text = new
  <2>1. to = [doc EXCEPT !.text = new]
    BY DEF ParsedAndRedacted
  <2>2. Shaped(doc)
    BY DEF Fetched
  <2> HIDE DEF to, new
  <2>3. QED
    BY <2>1, <2>2 DEF Shaped
<1> HIDE DEF text, to
<1>4. redact_pii(text) \in Texts /\ Personal \notin ToSet(redact_pii(text))
  <2> DEFINE n == Len(text)
             red == redact_pii(text)
  <2>1. n \in Nat /\ DOMAIN text = 1..n /\ \A k \in 1..n : text[k] \in Chars
    BY <1>2 DEF Texts
  <2>2. Hidden \in Chars /\ Hidden # Personal
    BY DEF Chars, Hidden, Personal
  <2>3. red = [k \in 1..n |-> IF text[k] = Personal THEN Hidden ELSE text[k]]
    BY <2>1 DEF redact_pii
  <2> HIDE DEF red, n
  <2>4. red \in [1..n -> Chars] /\ \A k \in 1..n : red[k] # Personal
    BY <2>1, <2>2, <2>3
  <2>5. red \in Texts
    BY <2>1, <2>4 DEF Texts
  <2>6. Personal \notin ToSet(red)
    BY <2>4 DEF ToSet
  <2>7. QED
    BY <2>5, <2>6 DEF red
<1>5. new \in Texts /\ Clean(new)
  BY <1>2, <1>4 DEF Clean
<1>6. QED
  BY <1>1, <1>3, <1>5 DEF Usable, to

(***************************************************************************)
(* Chunks.                                                                 *)
(***************************************************************************)
(* A document that may be chunked: what the configuration says of its type *)
(* is not refused.                                                         *)
Chunkable(doc) ==
  /\ Usable(doc)
  /\ deployment.chunking[doc.mime].size \in Nat
  /\ deployment.chunking[doc.mime].overlap \in Nat
  /\ ~Rejected(deployment.chunking[doc.mime])

(* A chunk is the m-th of a document.                                      *)
ChunkOf(c, doc, version, m) ==
  /\ c.id = derive_chunk_id(doc.doc_id, m - 1, version)
  /\ c.file = doc.file /\ c.acl = doc.acl
  /\ Len(c.text) <= deployment.chunking[doc.mime].size
  /\ c.end <= Len(doc.text)
  /\ Strip(Slice(doc.text, c.start, c.end)) = Strip(c.text)
  /\ Clean(c.text)

(* The chunks of a document: each an excerpt, every letter in one.         *)
LEMMA ChunkedFits ==
  ASSUME NEW doc, NEW version, Chunkable(doc)
  PROVE  /\ IsList(Chunked(doc, version))
         /\ \A m \in 1..Len(Chunked(doc, version)) :
              ChunkOf(Chunked(doc, version)[m], doc, version, m)
         /\ \A n \in Letters(doc.text) : \E m \in 1..Len(Chunked(doc, version)) :
              Covers(Chunked(doc, version)[m], doc, n)
<1> DEFINE config == deployment.chunking[doc.mime]
           size == config.size
           text == doc.text
           pieces == chunk_document(text, doc.mime, config)
           chunks == Chunked(doc, version)
           l == Len(pieces)
<1>1. /\ text \in Texts /\ Clean(text) /\ size \in Nat
      /\ config.overlap \in Nat /\ ~Rejected(config)
  BY DEF Chunkable, Usable
<1>2. chunks = [n \in DOMAIN pieces |->
                  [id |-> derive_chunk_id(doc.doc_id, n - 1, version),
                   file |-> doc.file, acl |-> doc.acl, text |-> pieces[n].text,
                   start |-> pieces[n].start, end |-> pieces[n].end]]
  BY DEF Chunked
<1>3. Excerpts(text, size, pieces)
  <2> HIDE DEF config, text
  <2>1. QED
    BY <1>1, ChunkersFit
<1> HIDE DEF chunks, pieces
<1>4. l \in Nat /\ DOMAIN pieces = 1..l
  BY <1>3 DEF Excerpts
<1>5. \A m \in 1..l :
        /\ chunks[m].id = derive_chunk_id(doc.doc_id, m - 1, version)
        /\ chunks[m].file = doc.file /\ chunks[m].acl = doc.acl
        /\ chunks[m].text = pieces[m].text
        /\ chunks[m].start = pieces[m].start /\ chunks[m].end = pieces[m].end
  BY <1>2, <1>4
<1>6. chunks = [m \in 1..l |-> chunks[m]]
  BY <1>2, <1>4
<1>7. IsList(chunks) /\ Len(chunks) = l
  <2> HIDE DEF l
  <2>1. QED
    BY <1>4, <1>6, ListIs
<1>8. ASSUME NEW m \in 1..l PROVE ChunkOf(chunks[m], doc, version, m)
  <2>1. Excerpt(text, size, pieces[m])
    BY <1>3 DEF Excerpts
  <2>2. /\ pieces[m].end <= Len(text) /\ Len(pieces[m].text) <= size
        /\ Strip(Slice(text, pieces[m].start, pieces[m].end)) = Strip(pieces[m].text)
        /\ Within(pieces[m].text, text)
    BY <2>1 DEF Excerpt
  <2>3. Clean(pieces[m].text)
    BY <1>1, <2>2 DEF Clean, Within, ToSet
  <2>4. QED
    BY <1>5, <2>2, <2>3 DEF ChunkOf
<1>9. ASSUME NEW n \in Letters(text)
      PROVE  \E m \in 1..l : Covers(chunks[m], doc, n)
  <2>1. PICK m \in 1..l : pieces[m].start < n /\ n <= pieces[m].end
    BY <1>3 DEF Excerpts
  <2>2. Covers(chunks[m], doc, n)
    BY <1>5, <2>1 DEF Covers
  <2>3. QED
    BY <2>2
<1>10. QED
  BY <1>7, <1>8, <1>9 DEF chunks

(* Chunk ids are equal only for the same name and ordinal.                 *)
LEMMA IdsDiffer ==
  ASSUME NEW a, NEW b, NEW i, NEW j, NEW v,
         derive_chunk_id(a, i, v) = derive_chunk_id(b, j, v)
  PROVE  a = b /\ i = j
BY DEF derive_chunk_id

(* All chunks of the documents of a run.                                   *)
AllChunked(list, version) ==
  FlattenSeq([n \in DOMAIN list |-> Chunked(list[n], version)])

AllOf(all, list, version) ==
  /\ IsList(all)
  /\ \A k \in 1..Len(all) : \E j \in 1..Len(list) :
       \E m \in 1..Len(Chunked(list[j], version)) :
         all[k] = Chunked(list[j], version)[m]
  /\ \A j \in 1..Len(list) : \A m \in 1..Len(Chunked(list[j], version)) :
       \E k \in 1..Len(all) : all[k] = Chunked(list[j], version)[m]

(* The chunks of all documents are those of each, no others.               *)
LEMMA AllChunkedIs ==
  ASSUME NEW list, NEW version, IsList(list),
         \A n \in 1..Len(list) : Chunkable(list[n])
  PROVE  AllOf(AllChunked(list, version), list, version)
<1> DEFINE n == Len(list)
           seqs == [k \in DOMAIN list |-> Chunked(list[k], version)]
           V == UNION {ToSet(Chunked(list[k], version)) : k \in 1..n}
           all == FlattenSeq(seqs)
<1>1. n \in Nat /\ DOMAIN list = 1..n
  BY ListDomain
<1>2. \A k \in 1..n : seqs[k] = Chunked(list[k], version) /\ IsList(seqs[k])
  BY <1>1, ChunkedFits
<1>3. \A k \in 1..n : \A x \in ToSet(seqs[k]) : x \in V
  BY <1>2
<1>4. seqs = [k \in 1..n |-> seqs[k]]
  BY <1>1
<1> HIDE DEF V, n, seqs
<1>5. ASSUME NEW k \in 1..n PROVE seqs[k] \in Seq(V)
  <2> DEFINE s == seqs[k]
             m == Len(s)
  <2>1. IsList(s)
    BY <1>2
  <2>2. m \in Nat /\ s = [i \in 1..m |-> s[i]] /\ \A i \in 1..m : s[i] \in ToSet(s)
    <3> HIDE DEF s
    <3>1. QED
      BY <2>1, ListDomain
  <2>3. \A i \in 1..m : s[i] \in V
    BY <1>3, <2>2
  <2> HIDE DEF s, m
  <2>4. s \in [1..m -> V]
    BY <2>2, <2>3
  <2>5. s \in Seq(V)
    BY <2>2, <2>4
  <2>6. QED
    BY <2>5 DEF s
<1>6. seqs \in Seq(Seq(V)) /\ Len(seqs) = n
  <2> DEFINE W == Seq(V)
  <2>1. \A k \in 1..n : seqs[k] \in W
    BY <1>5
  <2> HIDE DEF W
  <2>2. seqs \in [1..n -> W]
    BY <1>4, <2>1
  <2>3. seqs \in Seq(W) /\ Len(seqs) = n
    BY <1>1, <2>2
  <2>4. QED
    BY <2>3 DEF W
<1>7. FlatFrom(all, V, seqs, n)
  BY <1>6, FlattenIs
<1>8. all = AllChunked(list, version)
  BY DEF AllChunked, seqs
<1> HIDE DEF all
<1>9. IsList(all)
  <2>1. all \in Seq(V)
    BY <1>7 DEF FlatFrom
  <2>2. Len(all) \in Nat /\ all = [k \in 1..Len(all) |-> all[k]]
    BY <2>1
  <2>3. QED
    BY <2>2, ListIs
<1>10. \A k \in 1..Len(all) : \E j \in 1..n : \E m \in 1..Len(Chunked(list[j], version)) :
         all[k] = Chunked(list[j], version)[m]
  BY <1>2, <1>7 DEF FlatFrom
<1>11. \A j \in 1..n : \A m \in 1..Len(Chunked(list[j], version)) :
         \E k \in 1..Len(all) : all[k] = Chunked(list[j], version)[m]
  BY <1>2, <1>7 DEF FlatFrom
<1>12. QED
  BY <1>8, <1>9, <1>10, <1>11 DEF n, AllOf

(***************************************************************************)
(* Upserts.                                                                *)
(***************************************************************************)
(* A chunk that is stored or in the batch is stored after it, if all of    *)
(* the batch with its id are the same chunk.                               *)
LEMMA UpsertHas ==
  ASSUME NEW store, NEW chunks, IsList(chunks), NEW c,
         c \in store \/ \E k \in 1..Len(chunks) : chunks[k] = c,
         \A k \in 1..Len(chunks) : chunks[k].id = c.id => chunks[k] = c
  PROVE  c \in Upserted(store, chunks)
<1> DEFINE n == Len(chunks)
           same == {k \in 1..n : chunks[k].id = c.id}
<1>1. n \in Nat /\ DOMAIN chunks = 1..n
  BY ListDomain
<1>2. CASE same = {}
  <2>1. \A k \in DOMAIN chunks : chunks[k].id # c.id
    BY <1>1, <1>2
  <2>2. c \in store
    BY <1>1, <2>1
  <2>3. QED
    BY <2>1, <2>2 DEF Upserted
<1>3. CASE same # {}
  <2> DEFINE last == Max(same)
  <2>1. same \in SUBSET (1..n)
    OBVIOUS
  <2>2. last \in same /\ \A k \in same : k <= last
    <3> HIDE DEF same
    <3>1. QED
      BY <1>1, <1>3, <2>1, LastPosition
  <2> HIDE DEF last
  <2>3. last \in 1..n /\ chunks[last].id = c.id /\ chunks[last] = c
    BY <2>2
  <2>4. \A later \in DOMAIN chunks : later > last => chunks[later].id # chunks[last].id
    <3>1. ASSUME NEW later \in 1..n, later > last, chunks[later].id = c.id PROVE FALSE
      <4>1. later \in same
        BY <3>1
      <4>2. later <= last /\ later \in Nat /\ last \in Nat
        BY <1>1, <2>2, <2>3, <4>1
      <4>3. QED
        BY <3>1, <4>2
    <3>2. QED
      BY <1>1, <2>3, <3>1
  <2>5. QED
    BY <1>1, <2>3, <2>4 DEF Upserted
<1>4. QED
  BY <1>2, <1>3

(* Nothing else is stored, and what held chunks still does.                *)
LEMMA UpsertOnly ==
  ASSUME NEW store, NEW chunks, IsList(chunks)
  PROVE  /\ \A c \in Upserted(store, chunks) :
              c \in store \/ \E k \in 1..Len(chunks) : chunks[k] = c
         /\ store # {} => Upserted(store, chunks) # {}
<1> DEFINE n == Len(chunks)
<1>1. n \in Nat /\ DOMAIN chunks = 1..n
  BY ListDomain
<1>2. \A c \in Upserted(store, chunks) : c \in store \/ \E k \in 1..n : chunks[k] = c
  BY <1>1 DEF Upserted
<1>3. ASSUME store # {} PROVE Upserted(store, chunks) # {}
  <2>1. CASE n = 0
    BY <1>1, <1>3, <2>1 DEF Upserted
  <2>2. CASE n # 0
    <3>1. n \in DOMAIN chunks /\ \A later \in DOMAIN chunks : ~(later > n)
      BY <1>1, <2>2
    <3>2. chunks[n] \in Upserted(store, chunks)
      BY <3>1 DEF Upserted
    <3>3. QED
      BY <3>2
  <2>3. QED
    BY <2>1, <2>2
<1>4. QED
  BY <1>2, <1>3

(***************************************************************************)
(* The jobs.                                                               *)
(***************************************************************************)
(* What is left of a plan is of the plan, and a running command is in it.  *)
PlanInv ==
  /\ deployment \in Deployments
  /\ plan \in Seq(ToSet(deployment.plan))
  /\ stage # "idle" => plan # <<>>

(* The documents of a running command, as far as it has come, and its      *)
(* chunks, which are all those of its documents.                           *)
JobInv ==
  /\ stage \in Stages /\ IsList(docs)
  /\ stage = "idle" => docs = <<>>
  /\ stage \in {"idle", "parse", "chunk"} => made = <<>>
  /\ stage = "parse" => \A n \in 1..Len(docs) : Fetched(docs[n])
  /\ stage = "chunk" => \A n \in 1..Len(docs) : Usable(docs[n])
  /\ stage \in {"embed", "lexical", "publish"} =>
       /\ \A n \in 1..Len(docs) : Chunkable(docs[n])
       /\ made = AllChunked(docs, task.version)

(* A command that runs, or is next, is one of the plan.                    *)
LEMMA TaskFits ==
  ASSUME PlanInv, plan # <<>>
  PROVE  /\ task.version \in Versions /\ IsList(task.source)
         /\ \A n \in 1..Len(task.source) :
              LET f == task.source[n]
              IN /\ f.body.is = "text" => f.body.text \in Seq(STRING)
                 /\ f.body.is = "pages" => f.body.pages \in Seq(Seq(STRING))
<1> DEFINE commands == ToSet(deployment.plan)
<1>1. plan \in Seq(commands) /\ deployment \in Deployments
  BY DEF PlanInv
<1>2. task \in commands
  <2> HIDE DEF commands
  <2>1. QED
    BY <1>1 DEF task
<1>3. /\ task.version \in Versions /\ task.source \in Seq(ToSet(task.source))
      /\ \A f \in ToSet(task.source) :
           /\ f.body.is = "text" => f.body.text \in Seq(STRING)
           /\ f.body.is = "pages" => f.body.pages \in Seq(Seq(STRING))
  <2>1. task.version \in Versions
    BY <1>1, <1>2, DeploymentAssumption
  <2> DEFINE s == task.source
  <2>2. /\ s \in Seq(ToSet(s))
        /\ \A f \in ToSet(s) :
             /\ f.body.is = "text" => f.body.text \in Seq(STRING)
             /\ f.body.is = "pages" => f.body.pages \in Seq(Seq(STRING))
    BY <1>1, <1>2, CorpusAssumption, Zenon
  <2>3. QED
    BY <2>1, <2>2
<1>4. IsList(task.source)
  BY <1>3 DEF IsList
<1>5. \A n \in 1..Len(task.source) : task.source[n] \in ToSet(task.source)
  <2> DEFINE s == task.source
  <2>1. IsList(s)
    BY <1>4
  <2> HIDE DEF s
  <2>2. \A n \in 1..Len(s) : s[n] \in ToSet(s)
    BY <2>1, ListDomain
  <2>3. QED
    BY <2>2 DEF s
<1>6. QED
  BY <1>3, <1>4, <1>5

(* A run begins and ends without documents.                                *)
LEMMA EmptyList == IsList(<<>>) /\ Len(<<>>) = 0
BY DEF IsList

(* What the ingest stage fetches may be parsed.                            *)
LEMMA IngestFits ==
  ASSUME PlanInv, JobInv, plan # <<>>
  PROVE  LET new == [n \in DOMAIN Listed(task.source) |->
                       fetch(Listed(task.source)[n], Acl(task))]
         IN IsList(new) /\ \A n \in 1..Len(new) : Fetched(new[n])
<1> DEFINE source == task.source
           at == {n \in DOMAIN source :
                    <<source[n].stem, source[n].suffix>> \notin
                      {<<"README", ".md">>, <<".gitkeep", "">>}}
           files == Listed(source)
           acl == Acl(task)
           new == [n \in DOMAIN files |-> fetch(files[n], acl)]
<1>1. IsList(source)
  BY TaskFits
<1>2. \A n \in 1..Len(source) : Fetched(fetch(source[n], acl))
  <2> DEFINE f(n) == source[n]
  <2>1. ASSUME NEW n \in 1..Len(source) PROVE Fetched(fetch(f(n), acl))
    <3>1. /\ f(n).body.is = "text" => f(n).body.text \in Seq(STRING)
          /\ f(n).body.is = "pages" => f(n).body.pages \in Seq(Seq(STRING))
      BY TaskFits
    <3> HIDE DEF f, acl
    <3>2. QED
      BY <3>1, FetchedFits
  <2>2. QED
    BY <2>1
<1>3. files = Picked(source, at)
  BY DEF Listed
<1> HIDE DEF source, at, files, acl
<1>4. IsList(files) /\ \A k \in 1..Len(files) : \E n \in 1..Len(source) : files[k] = source[n]
  BY <1>1, <1>3, PickedList
<1>5. Len(files) \in Nat /\ DOMAIN files = 1..Len(files)
  BY <1>4, ListDomain
<1>6. new = [n \in 1..Len(files) |-> new[n]]
      /\ \A n \in 1..Len(files) : new[n] = fetch(files[n], acl)
  BY <1>5
<1> HIDE DEF new
<1>7. IsList(new) /\ Len(new) = Len(files)
  BY <1>5, <1>6, ListIs
<1>8. QED
  BY <1>2, <1>4, <1>6, <1>7 DEF new, files, source, acl

(* What the parse stage leaves may be chunked, redacted.                   *)
LEMMA ParseFits ==
  ASSUME JobInv, stage = "parse", \A n \in DOMAIN docs : ~Aborts(docs[n])
  PROVE  LET usable == Picked(docs, {n \in DOMAIN docs : ~Skips(docs[n])})
             new == [n \in DOMAIN usable |-> ParsedAndRedacted(usable[n])]
         IN IsList(new) /\ \A n \in 1..Len(new) : Usable(new[n])
<1> DEFINE at == {n \in DOMAIN docs : ~Skips(docs[n])}
           usable == Picked(docs, at)
           new == [n \in DOMAIN usable |-> ParsedAndRedacted(usable[n])]
<1>1. /\ IsList(docs) /\ DOMAIN docs = 1..Len(docs)
      /\ \A n \in 1..Len(docs) : Fetched(docs[n]) /\ ~Aborts(docs[n])
  BY ListDomain DEF JobInv
<1>2. \A n \in at : ~Skips(docs[n])
  OBVIOUS
<1> HIDE DEF at, usable
<1>3. IsList(usable)
      /\ \A k \in 1..Len(usable) : \E n \in 1..Len(docs) : n \in at /\ usable[k] = docs[n]
  BY <1>1, PickedList DEF usable
<1>4. \A k \in 1..Len(usable) : Usable(ParsedAndRedacted(usable[k]))
  BY <1>1, <1>2, <1>3, ParsedFits
<1>5. Len(usable) \in Nat /\ DOMAIN usable = 1..Len(usable)
  BY <1>3, ListDomain
<1>6. new = [n \in 1..Len(usable) |-> new[n]]
      /\ \A n \in 1..Len(usable) : new[n] = ParsedAndRedacted(usable[n])
  BY <1>5
<1> HIDE DEF new
<1>7. IsList(new) /\ Len(new) = Len(usable)
  BY <1>5, <1>6, ListIs
<1>8. QED
  BY <1>4, <1>6, <1>7 DEF new, usable, at

(* A job leaves the deployment alone, and its plan shrinks by a command.   *)
LEMMA JobKeepsPlan ==
  ASSUME PlanInv, OfflineNext
  PROVE  PlanInv' /\ UNCHANGED deployment
<1>1. Refused \/ IngestStage \/ ParseStage \/ ChunkStage \/ EmbedAndUpsert
      \/ UpsertLexical \/ Publish
  BY DEF OfflineNext
<1>2. UNCHANGED deployment
  BY <1>1 DEF Refused, IngestStage, ParseStage, ChunkStage, EmbedAndUpsert,
              UpsertLexical, Publish, Fails
<1>3. plan # <<>>
  BY <1>1 DEF Refused, IngestStage, ParseStage, ChunkStage, EmbedAndUpsert,
              UpsertLexical, Publish, Idle, PlanInv
<1>4. (plan' = Tail(plan) /\ stage' = "idle") \/ plan' = plan
  BY <1>1 DEF Refused, IngestStage, ParseStage, ChunkStage, EmbedAndUpsert,
              UpsertLexical, Publish, Fails, Ends
<1>5. plan \in Seq(ToSet(deployment.plan)) /\ deployment \in Deployments
  BY DEF PlanInv
<1>6. plan' \in Seq(ToSet(deployment.plan))
  <2> DEFINE commands == ToSet(deployment.plan)
  <2>1. plan \in Seq(commands)
    BY <1>5
  <2> HIDE DEF commands
  <2>2. Tail(plan) \in Seq(commands)
    BY <1>3, <2>1
  <2>3. QED
    BY <1>4, <2>1, <2>2 DEF commands
<1>7. QED
  BY <1>2, <1>3, <1>4, <1>5, <1>6 DEF PlanInv

(* What a job publishes is a version.                                      *)
LEMMA JobPublishesVersion ==
  ASSUME PlanInv, OfflineNext, published' # published
  PROVE  published' \in Versions
<1>1. Publish /\ published' = task.version
  BY DEF OfflineNext, Refused, IngestStage, ParseStage, ChunkStage,
         EmbedAndUpsert, UpsertLexical, Publish, Fails
<1>2. plan # <<>>
  BY <1>1 DEF Publish, Idle, PlanInv
<1>3. task \in ToSet(deployment.plan)
  <2> DEFINE commands == ToSet(deployment.plan)
  <2>1. plan \in Seq(commands)
    BY DEF PlanInv
  <2> HIDE DEF commands
  <2>2. Head(plan) \in commands
    BY <1>2, <2>1
  <2>3. QED
    BY <2>2 DEF commands, task
<1>4. \A command \in ToSet(deployment.plan) : command.version \in Versions
  BY DeploymentAssumption DEF PlanInv
<1>5. QED
  BY <1>1, <1>3, <1>4

(* A job keeps its own account of its documents and chunks.                *)
LEMMA JobKept ==
  ASSUME PlanInv, JobInv, OfflineNext
  PROVE  JobInv'
<1>1. UNCHANGED deployment
  BY DEF OfflineNext, Refused, IngestStage, ParseStage, ChunkStage,
         EmbedAndUpsert, UpsertLexical, Publish, Fails
<1>2. ASSUME Ends PROVE JobInv'
  <2>1. stage' = "idle" /\ docs' = <<>> /\ made' = <<>>
    BY <1>2 DEF Ends
  <2>2. IsList(docs')
    BY <2>1, EmptyList
  <2>3. QED
    BY <2>1, <2>2 DEF JobInv, Stages, IsList
<1>3. ASSUME stage' \in {"embed", "lexical", "publish"},
             stage \in {"embed", "lexical", "publish"}, UNCHANGED <<plan, docs, made>>
      PROVE  JobInv'
  <2>1. /\ IsList(docs) /\ \A n \in 1..Len(docs) : Chunkable(docs[n])
        /\ made = AllChunked(docs, task.version)
    BY <1>3 DEF JobInv
  <2>2. (IsList(docs))' /\ (\A n \in 1..Len(docs) : Chunkable(docs[n]))'
    BY <1>1, <1>3, <2>1 DEF IsList, Chunkable, Usable, Clean
  <2>3. (made = AllChunked(docs, task.version))'
    BY <1>1, <1>3, <2>1 DEF AllChunked, Chunked, task
  <2>4. stage' \in Stages
    BY <1>3 DEF Stages
  <2>5. QED
    BY <1>3, <2>2, <2>3, <2>4 DEF JobInv
<1>4. ASSUME IngestStage, ~Ends PROVE JobInv'
  <2>1. /\ stage = "idle" /\ plan # <<>> /\ stage' = "parse" /\ made' = made
        /\ docs' = [n \in DOMAIN Listed(task.source) |->
                      fetch(Listed(task.source)[n], Acl(task))]
    BY <1>4 DEF IngestStage, Fails, Idle
  <2>2. IsList(docs') /\ \A n \in 1..Len(docs') : Fetched(docs'[n])
    BY <2>1, IngestFits
  <2>3. (IsList(docs))' /\ (\A n \in 1..Len(docs) : Fetched(docs[n]))'
    BY <2>2 DEF IsList, Fetched, Shaped
  <2>4. made' = <<>> /\ stage' \in Stages
    BY <2>1 DEF JobInv, Stages
  <2>5. QED
    BY <2>1, <2>3, <2>4 DEF JobInv
<1>5. ASSUME ParseStage, ~Ends PROVE JobInv'
  <2>1. /\ stage = "parse" /\ stage' = "chunk" /\ made' = made
        /\ \A n \in DOMAIN docs : ~Aborts(docs[n])
        /\ LET usable == Picked(docs, {n \in DOMAIN docs : ~Skips(docs[n])})
           IN docs' = [n \in DOMAIN usable |-> ParsedAndRedacted(usable[n])]
    BY <1>5 DEF ParseStage, Fails
  <2>2. IsList(docs') /\ \A n \in 1..Len(docs') : Usable(docs'[n])
    BY <2>1, ParseFits
  <2>3. (IsList(docs))' /\ (\A n \in 1..Len(docs) : Usable(docs[n]))'
    BY <1>1, <2>2 DEF IsList, Usable, Clean
  <2>4. made' = <<>> /\ stage' \in Stages
    BY <2>1 DEF JobInv, Stages
  <2>5. QED
    BY <2>1, <2>3, <2>4 DEF JobInv
<1>6. ASSUME ChunkStage, ~Ends PROVE JobInv'
  <2>1. /\ stage = "chunk" /\ stage' = "embed" /\ UNCHANGED <<plan, docs>>
        /\ \A n \in DOMAIN docs : ~Rejected(deployment.chunking[docs[n].mime])
        /\ made' = AllChunked(docs, task.version)
    BY <1>6 DEF ChunkStage, Fails, AllChunked
  <2>2. IsList(docs) /\ \A n \in 1..Len(docs) : Usable(docs[n])
    BY <2>1 DEF JobInv
  <2>3. DOMAIN docs = 1..Len(docs)
    BY <2>2, ListDomain
  <2>4. \A n \in 1..Len(docs) : Chunkable(docs[n])
    BY <2>1, <2>2, <2>3, CorpusAssumption DEF Chunkable, Usable, PlanInv
  <2>5. (IsList(docs))' /\ (\A n \in 1..Len(docs) : Chunkable(docs[n]))'
    BY <1>1, <2>1, <2>2, <2>4 DEF IsList, Chunkable, Usable, Clean
  <2>6. (made = AllChunked(docs, task.version))'
    BY <1>1, <2>1 DEF AllChunked, Chunked, task
  <2>7. stage' \in Stages
    BY <2>1 DEF Stages
  <2>8. QED
    BY <2>1, <2>5, <2>6, <2>7 DEF JobInv
<1>7. ASSUME EmbedAndUpsert \/ UpsertLexical, ~Ends PROVE JobInv'
  <2>1. /\ stage \in {"embed", "lexical"} /\ stage' \in {"lexical", "publish"}
        /\ UNCHANGED <<plan, docs, made>>
    BY <1>7 DEF EmbedAndUpsert, UpsertLexical, Fails
  <2>2. QED
    BY <1>3, <2>1
<1>8. Refused \/ Publish => Ends
  BY DEF Refused, Publish, Fails
<1>9. QED
  BY <1>2, <1>4, <1>5, <1>6, <1>7, <1>8 DEF OfflineNext

(* Every chunk of a running command is an excerpt of one of its documents. *)
LEMMA JobChunks ==
  ASSUME JobInv, made # <<>>
  PROVE  /\ IsList(made)
         /\ \A k \in 1..Len(made) : \E j \in 1..Len(docs) :
              \E m \in 1..Len(Chunked(docs[j], task.version)) :
                /\ made[k] = Chunked(docs[j], task.version)[m]
                /\ ChunkOf(made[k], docs[j], task.version, m)
<1>1. /\ IsList(docs) /\ \A n \in 1..Len(docs) : Chunkable(docs[n])
      /\ made = AllChunked(docs, task.version)
  BY DEF JobInv, Stages
<1>2. /\ IsList(made)
      /\ \A k \in 1..Len(made) : \E j \in 1..Len(docs) :
           \E m \in 1..Len(Chunked(docs[j], task.version)) :
             made[k] = Chunked(docs[j], task.version)[m]
  <2> DEFINE t == task.version
  <2>1. made = AllChunked(docs, t)
    BY <1>1
  <2> HIDE DEF t
  <2>2. AllOf(made, docs, t)
    BY <1>1, <2>1, AllChunkedIs
  <2>3. QED
    BY <2>2 DEF AllOf, t
<1>3. \A j \in 1..Len(docs) : \A m \in 1..Len(Chunked(docs[j], task.version)) :
        ChunkOf(Chunked(docs[j], task.version)[m], docs[j], task.version, m)
  BY <1>1, ChunkedFits
<1>4. QED
  BY <1>2, <1>3

(* So the chunks of a running command are excerpts.                        *)
LEMMA JobMakesExcerpts == JobInv => ChunksAreExcerpts
<1> SUFFICES ASSUME JobInv, NEW k \in DOMAIN made
             PROVE  \E j \in DOMAIN docs :
                      /\ docs[j].file = made[k].file
                      /\ Len(made[k].text) <= deployment.chunking[docs[j].mime].size
                      /\ made[k].end <= Len(docs[j].text)
                      /\ Strip(Slice(docs[j].text, made[k].start, made[k].end))
                           = Strip(made[k].text)
  BY DEF ChunksAreExcerpts
<1>1. made # <<>>
  OBVIOUS
<1>2. DOMAIN made = 1..Len(made) /\ DOMAIN docs = 1..Len(docs)
  BY <1>1, JobChunks, ListDomain DEF JobInv
<1>3. PICK j \in 1..Len(docs) : \E m \in 1..Len(Chunked(docs[j], task.version)) :
        ChunkOf(made[k], docs[j], task.version, m)
  BY <1>1, <1>2, JobChunks
<1>4. QED
  BY <1>2, <1>3 DEF ChunkOf

(***************************************************************************)
(* The stores.                                                             *)
(***************************************************************************)
(* Whatever is stored is redacted, if anything is.                         *)
StoreInv ==
  /\ DOMAIN dense = Versions /\ DOMAIN lexical = Versions
  /\ \A v \in Versions : \A c \in dense[v] \cup lexical[v] : Clean(c.text)

(* What a run stored of a document whose name is its own is still there.   *)
Stored(r, doc) ==
  \A m \in 1..Len(Chunked(doc, r.version)) :
    /\ settings.vector_backend # "memory" =>
         Chunked(doc, r.version)[m] \in dense[r.version]
    /\ (r.whole /\ settings.lexical_backend # "memory") =>
         Chunked(doc, r.version)[m] \in lexical[r.version]

RunFits(r) ==
  /\ r.version \in Versions /\ IsList(r.docs)
  /\ \A n \in 1..Len(r.docs) : Chunkable(r.docs[n])
  /\ \A n \in 1..Len(r.docs) :
       Namesakes(r.docs[n], r.version) = {} => Stored(r, r.docs[n])

(* While the lexical store is still to be written, the run counts already. *)
RanInv ==
  /\ stage = "lexical" => Run(FALSE) \in ran
  /\ \A r \in ran : RunFits(r)

(* A batch written adds its chunks alone and empties no version.           *)
LEMMA WroteOnly ==
  ASSUME NEW store, DOMAIN store = Versions, NEW backend, IsList(made)
  PROVE  /\ DOMAIN Wrote(store, backend) = Versions
         /\ \A v \in Versions :
              /\ \A c \in Wrote(store, backend)[v] :
                   c \in store[v] \/ \E k \in 1..Len(made) : made[k] = c
              /\ store[v] # {} => Wrote(store, backend)[v] # {}
<1>1. CASE backend = "memory"
  BY <1>1 DEF Wrote
<1>2. CASE backend # "memory"
  <2> DEFINE t == task.version
             new == [store EXCEPT ![t] = Upserted(@, made)]
  <2>1. Wrote(store, backend) = new
    BY <1>2 DEF Wrote
  <2>2. DOMAIN new = Versions
    OBVIOUS
  <2> HIDE DEF t
  <2>3. ASSUME NEW v \in Versions PROVE new[v] = IF v = t THEN Upserted(store[v], made) ELSE store[v]
    OBVIOUS
  <2> HIDE DEF new
  <2>4. QED
    BY <2>1, <2>2, <2>3, UpsertOnly
<1>3. QED
  BY <1>1, <1>2

(* A chunk of a document that shares its name with no other of the batch   *)
(* is in a store after the batch was written, if it is of the batch, and   *)
(* stays there, if not.                                                    *)
LEMMA WroteHas ==
  ASSUME JobInv, stage \in {"embed", "lexical"}, NEW store, DOMAIN store = Versions,
         NEW backend, backend # "memory", NEW v \in Versions, NEW doc, Chunkable(doc),
         NEW m \in 1..Len(Chunked(doc, v)),
         v = task.version =>
           \A n \in 1..Len(docs) : docs[n].doc_id = doc.doc_id => docs[n] = doc,
         \/ Chunked(doc, v)[m] \in store[v]
         \/ v = task.version /\ \E n \in 1..Len(docs) : docs[n] = doc
  PROVE  Chunked(doc, v)[m] \in Wrote(store, backend)[v]
<1> DEFINE t == task.version
           c == Chunked(doc, v)[m]
<1>1. /\ IsList(docs) /\ \A n \in 1..Len(docs) : Chunkable(docs[n])
      /\ made = AllChunked(docs, t)
  BY DEF JobInv
<1>2. Wrote(store, backend) = [store EXCEPT ![t] = Upserted(@, made)]
  BY DEF Wrote
<1>3. CASE v # t
  BY <1>2, <1>3
<1>4. CASE v = t
  <2>1. /\ IsList(made)
        /\ \A k \in 1..Len(made) : \E j \in 1..Len(docs) :
             \E i \in 1..Len(Chunked(docs[j], v)) : made[k] = Chunked(docs[j], v)[i]
        /\ \A j \in 1..Len(docs) : \A i \in 1..Len(Chunked(docs[j], v)) :
             \E k \in 1..Len(made) : made[k] = Chunked(docs[j], v)[i]
    <3>1. AllOf(made, docs, v)
      BY <1>1, <1>4, AllChunkedIs
    <3>2. QED
      BY <3>1 DEF AllOf
  <2>2. \A d, i : (Chunkable(d) /\ i \in 1..Len(Chunked(d, v))) =>
          Chunked(d, v)[i].id = derive_chunk_id(d.doc_id, i - 1, v) /\ i \in Nat
    <3>1. ASSUME NEW d, NEW i, Chunkable(d), i \in 1..Len(Chunked(d, v))
          PROVE  ChunkOf(Chunked(d, v)[i], d, v, i) /\ i \in Nat
      <4>1. IsList(Chunked(d, v)) /\ ChunkOf(Chunked(d, v)[i], d, v, i)
        BY <3>1, ChunkedFits
      <4>2. Len(Chunked(d, v)) \in Nat
        BY <4>1, ListDomain
      <4>3. QED
        BY <3>1, <4>1, <4>2
    <3>2. QED
      BY <3>1 DEF ChunkOf
  <2>3. ASSUME NEW k \in 1..Len(made), made[k].id = c.id PROVE made[k] = c
    <3>0. PICK j \in 1..Len(docs) : \E i \in 1..Len(Chunked(docs[j], v)) :
            made[k] = Chunked(docs[j], v)[i]
      BY <2>1
    <3>1. PICK i \in 1..Len(Chunked(docs[j], v)) : made[k] = Chunked(docs[j], v)[i]
      BY <3>0
    <3>2. /\ made[k].id = derive_chunk_id(docs[j].doc_id, i - 1, v) /\ i \in Nat
          /\ c.id = derive_chunk_id(doc.doc_id, m - 1, v) /\ m \in Nat
      BY <1>1, <2>2, <3>1
    <3>3. docs[j].doc_id = doc.doc_id /\ i - 1 = m - 1
      <4>1. derive_chunk_id(docs[j].doc_id, i - 1, v) = derive_chunk_id(doc.doc_id, m - 1, v)
        BY <2>3, <3>2
      <4>2. QED
        BY <4>1, IdsDiffer
    <3>4. docs[j] = doc /\ i = m
      BY <1>4, <3>2, <3>3
    <3>5. QED
      BY <3>1, <3>4
  <2>4. c \in store[v] \/ \E k \in 1..Len(made) : made[k] = c
    BY <2>1
  <2> HIDE DEF c
  <2>5. c \in Upserted(store[v], made)
    BY <2>1, <2>3, <2>4, UpsertHas
  <2>6. QED
    BY <1>2, <1>4, <2>5 DEF c
<1>5. QED
  BY <1>3, <1>4

(* The chunks of a command, if it has come so far, are a list.             *)
LEMMA MadeIsList == ASSUME JobInv PROVE IsList(made)
<1>1. made = <<>> => IsList(made)
  BY EmptyList
<1>2. QED
  BY <1>1, JobChunks

(* A job stores only what is redacted, and empties no version.             *)
LEMMA StoreKept ==
  ASSUME JobInv, StoreInv, OfflineNext
  PROVE  /\ StoreInv'
         /\ \A v \in Versions : dense[v] # {} => dense'[v] # {}
<1>1. /\ UNCHANGED deployment
      /\ dense' = dense \/ dense' = Wrote(dense, settings.vector_backend)
      /\ lexical' = lexical \/ lexical' = Wrote(lexical, settings.lexical_backend)
  BY DEF OfflineNext, Refused, IngestStage, ParseStage, ChunkStage,
         EmbedAndUpsert, UpsertLexical, Publish, Fails, stores
<1>2. ASSUME NEW k \in 1..Len(made) PROVE Clean(made[k].text)
  <2>1. made # <<>>
    OBVIOUS
  <2>2. QED
    BY <2>1, JobChunks DEF ChunkOf
<1>3. ASSUME NEW store, NEW backend, DOMAIN store = Versions,
             \A v \in Versions : \A c \in store[v] : Clean(c.text)
      PROVE  /\ DOMAIN Wrote(store, backend) = Versions
             /\ \A v \in Versions :
                  /\ \A c \in Wrote(store, backend)[v] : Clean(c.text)
                  /\ store[v] # {} => Wrote(store, backend)[v] # {}
  <2>1. /\ DOMAIN Wrote(store, backend) = Versions
        /\ \A v \in Versions :
             /\ \A c \in Wrote(store, backend)[v] :
                  c \in store[v] \/ \E k \in 1..Len(made) : made[k] = c
             /\ store[v] # {} => Wrote(store, backend)[v] # {}
    BY <1>3, MadeIsList, WroteOnly
  <2>2. QED
    BY <1>2, <1>3, <2>1
<1>4. /\ DOMAIN dense' = Versions
      /\ \A v \in Versions : /\ \A c \in dense'[v] : Clean(c.text)
                             /\ dense[v] # {} => dense'[v] # {}
  <2>1. DOMAIN dense = Versions /\ \A v \in Versions : \A c \in dense[v] : Clean(c.text)
    BY DEF StoreInv
  <2>2. QED
    BY <1>1, <1>3, <2>1
<1>5. /\ DOMAIN lexical' = Versions
      /\ \A v \in Versions : \A c \in lexical'[v] : Clean(c.text)
  <2>1. DOMAIN lexical = Versions /\ \A v \in Versions : \A c \in lexical[v] : Clean(c.text)
    BY DEF StoreInv
  <2>2. QED
    BY <1>1, <1>3, <2>1
<1>6. QED
  BY <1>1, <1>4, <1>5 DEF StoreInv, Clean

(* A job that writes a store writes all of its documents whose names are   *)
(* their own, and takes away nothing of another run's.                     *)
LEMMA RunsKept ==
  ASSUME PlanInv, JobInv, StoreInv, RanInv, UNCHANGED deployment,
         stage \in {"embed", "lexical"}, NEW whole \in BOOLEAN,
         ran' = ran \cup {Run(whole)},
         whole => /\ Run(FALSE) \in ran /\ dense' = dense
                  /\ lexical' = Wrote(lexical, settings.lexical_backend),
         ~whole => /\ dense' = Wrote(dense, settings.vector_backend)
                   /\ lexical' = lexical
  PROVE  \A r \in ran' : RunFits(r)'
<1>1. /\ IsList(docs) /\ \A n \in 1..Len(docs) : Chunkable(docs[n])
      /\ task.version \in Versions /\ settings' = settings
  BY TaskFits DEF JobInv, PlanInv, settings
<1>2. \A b : Run(b).version = task.version /\ Run(b).docs = docs /\ Run(b).whole = b
  BY DEF Run
<1> SUFFICES ASSUME NEW r \in ran' PROVE RunFits(r)'
  OBVIOUS
<1>3. r \in ran \/ r = Run(whole)
  OBVIOUS
<1>4. /\ r.version \in Versions /\ IsList(r.docs)
      /\ \A n \in 1..Len(r.docs) : Chunkable(r.docs[n])
  <2>1. CASE r \in ran
    BY <2>1 DEF RanInv, RunFits
  <2>2. CASE r = Run(whole)
    BY <1>1, <1>2, <2>2
  <2>3. QED
    BY <1>3, <2>1, <2>2
<1> DEFINE v == r.version
<1>5. ASSUME NEW n \in 1..Len(r.docs), Namesakes(r.docs[n], v)' = {}
      PROVE  \A m \in 1..Len(Chunked(r.docs[n], v)) :
               /\ settings.vector_backend # "memory" =>
                    Chunked(r.docs[n], v)[m] \in dense'[v]
               /\ (r.whole /\ settings.lexical_backend # "memory") =>
                    Chunked(r.docs[n], v)[m] \in lexical'[v]
  <2> DEFINE doc == r.docs[n]
  <2>1. Chunkable(doc) /\ v \in Versions
    BY <1>4
  <2>2. \A q \in ran' : q.version = v =>
          \A other \in DocsOf(q) : other.doc_id = doc.doc_id => other = doc
    BY <1>5 DEF Namesakes, DocsOf
  <2>3. Namesakes(doc, v) = {}
    BY <2>2 DEF Namesakes
  <2>4. v = task.version =>
          \A k \in 1..Len(docs) : docs[k].doc_id = doc.doc_id => docs[k] = doc
    <3>1. Run(whole) \in ran' /\ DOMAIN docs = 1..Len(docs)
      BY <1>1, ListDomain
    <3>2. \A k \in 1..Len(docs) : docs[k] \in DocsOf(Run(whole))
      BY <1>2, <3>1 DEF DocsOf
    <3>3. QED
      BY <1>2, <2>2, <3>1, <3>2
  <2>5. CASE r \in ran
    <3>1. Stored(r, doc)
      BY <2>3, <2>5 DEF RanInv, RunFits
    <3>2. ASSUME NEW m \in 1..Len(Chunked(doc, v)), settings.vector_backend # "memory"
          PROVE  Chunked(doc, v)[m] \in dense'[v]
      <4>1. Chunked(doc, v)[m] \in dense[v]
        BY <3>1, <3>2 DEF Stored
      <4>2. CASE whole
        BY <4>1, <4>2
      <4>3. CASE ~whole
        <5>1. DOMAIN dense = Versions
          BY DEF StoreInv
        <5> HIDE DEF doc, v
        <5>2. Chunked(doc, v)[m] \in Wrote(dense, settings.vector_backend)[v]
          BY <2>1, <2>4, <3>2, <4>1, <5>1, WroteHas
        <5>3. QED
          BY <4>3, <5>2
      <4>4. QED
        BY <4>2, <4>3
    <3>3. ASSUME NEW m \in 1..Len(Chunked(doc, v)), r.whole,
                 settings.lexical_backend # "memory"
          PROVE  Chunked(doc, v)[m] \in lexical'[v]
      <4>1. Chunked(doc, v)[m] \in lexical[v]
        BY <3>1, <3>3 DEF Stored
      <4>2. CASE ~whole
        BY <4>1, <4>2
      <4>3. CASE whole
        <5>1. DOMAIN lexical = Versions
          BY DEF StoreInv
        <5> HIDE DEF doc, v
        <5>2. Chunked(doc, v)[m] \in Wrote(lexical, settings.lexical_backend)[v]
          BY <2>1, <2>4, <3>3, <4>1, <5>1, WroteHas
        <5>3. QED
          BY <4>3, <5>2
      <4>4. QED
        BY <4>2, <4>3
    <3>4. QED
      BY <3>2, <3>3
  <2>6. CASE r = Run(whole)
    <3>1. v = task.version /\ r.docs = docs /\ r.whole = whole /\ \E k \in 1..Len(docs) : docs[k] = doc
      BY <1>2, <2>6
    <3>2. ASSUME NEW m \in 1..Len(Chunked(doc, v)), settings.vector_backend # "memory"
          PROVE  Chunked(doc, v)[m] \in dense'[v]
      <4>1. CASE whole
        <5>1. Stored(Run(FALSE), doc)
          <6>1. RunFits(Run(FALSE)) /\ Run(FALSE).docs = docs /\ Run(FALSE).version = v
            BY <1>2, <3>1, <4>1 DEF RanInv
          <6>2. n \in 1..Len(docs) /\ doc = docs[n]
            BY <3>1
          <6>3. QED
            BY <2>3, <6>1, <6>2 DEF RunFits
        <5>2. Run(FALSE).version = v
          BY <1>2, <3>1
        <5>3. Chunked(doc, v)[m] \in dense[v]
          BY <3>2, <5>1, <5>2 DEF Stored
        <5>4. QED
          BY <4>1, <5>3
      <4>2. CASE ~whole
        <5>1. DOMAIN dense = Versions
          BY DEF StoreInv
        <5> HIDE DEF doc, v
        <5>2. Chunked(doc, v)[m] \in Wrote(dense, settings.vector_backend)[v]
          BY <2>1, <2>4, <3>1, <3>2, <5>1, WroteHas
        <5>3. QED
          BY <4>2, <5>2
      <4>3. QED
        BY <4>1, <4>2
    <3>3. ASSUME NEW m \in 1..Len(Chunked(doc, v)), whole,
                 settings.lexical_backend # "memory"
          PROVE  Chunked(doc, v)[m] \in lexical'[v]
      <4>1. DOMAIN lexical = Versions
        BY DEF StoreInv
      <4> HIDE DEF doc, v
      <4>2. Chunked(doc, v)[m] \in Wrote(lexical, settings.lexical_backend)[v]
        BY <2>1, <2>4, <3>1, <3>3, <4>1, WroteHas
      <4>3. QED
        BY <3>3, <4>2
    <3>4. QED
      BY <3>1, <3>2, <3>3
  <2>7. QED
    BY <1>3, <2>5, <2>6
<1>6. (\A n \in 1..Len(r.docs) : Chunkable(r.docs[n]))' /\ IsList(r.docs)'
  BY <1>4 DEF Chunkable, Usable, Clean, IsList
<1>7. ASSUME NEW doc PROVE Chunked(doc, v)' = Chunked(doc, v)
  BY DEF Chunked
<1>8. (\A n \in 1..Len(r.docs) : Namesakes(r.docs[n], r.version) = {} => Stored(r, r.docs[n]))'
  BY <1>1, <1>5, <1>7 DEF Stored
<1>9. QED
  BY <1>4, <1>6, <1>8 DEF RunFits

(* A step that leaves the stores and the runs alone.                       *)
LEMMA RunsFitStill ==
  ASSUME RanInv, UNCHANGED <<deployment, dense, lexical, ran>>
  PROVE  \A r \in ran : RunFits(r)'
<1>1. ASSUME NEW r \in ran PROVE RunFits(r)'
  <2>1. RunFits(r)
    BY DEF RanInv
  <2>2. ASSUME NEW doc, NEW v PROVE /\ Chunked(doc, v)' = Chunked(doc, v)
                                    /\ Namesakes(doc, v)' = Namesakes(doc, v)
                                    /\ Chunkable(doc)' = Chunkable(doc)
    BY DEF Chunked, Namesakes, DocsOf, Chunkable, Usable, Clean
  <2>3. settings' = settings
    BY DEF settings
  <2>4. \A n \in 1..Len(r.docs) : Stored(r, r.docs[n])' = Stored(r, r.docs[n])
    BY <2>2, <2>3 DEF Stored
  <2>5. QED
    BY <2>1, <2>2, <2>4 DEF RunFits, IsList
<1>2. QED
  BY <1>1

(* Nor does it begin to write the lexical store.                           *)
LEMMA RunsStay ==
  ASSUME RanInv, UNCHANGED <<deployment, dense, lexical, ran>>, stage' # "lexical"
  PROVE  RanInv'
BY RunsFitStill DEF RanInv

(* What runs that wrote a store made of their files stays findable.        *)
LEMMA RanKept ==
  ASSUME PlanInv, JobInv, StoreInv, RanInv, OfflineNext
  PROVE  RanInv'
<1>1. UNCHANGED deployment
  BY DEF OfflineNext, Refused, IngestStage, ParseStage, ChunkStage,
         EmbedAndUpsert, UpsertLexical, Publish, Fails
<1>2. ASSUME UNCHANGED <<dense, lexical, ran>>, stage' # "lexical" PROVE RanInv'
  BY <1>1, <1>2, RunsStay
<1>3. CASE Ends /\ UNCHANGED <<stores, ran>>
  BY <1>2, <1>3 DEF Ends, stores
<1>4. CASE Refused \/ IngestStage \/ ParseStage \/ ChunkStage \/ Publish
  <2>1. UNCHANGED <<dense, lexical, ran>> /\ stage' # "lexical"
    BY <1>4 DEF Refused, IngestStage, ParseStage, ChunkStage, Publish, Fails, Ends,
                stores
  <2>2. QED
    BY <1>2, <2>1
<1>5. CASE EmbedAndUpsert /\ ~Fails
  <2>1. /\ stage = "embed" /\ dense' = Wrote(dense, settings.vector_backend)
        /\ lexical' = lexical /\ ran' = ran \cup {Run(FALSE)}
        /\ UNCHANGED <<plan, docs>>
    BY <1>5 DEF EmbedAndUpsert
  <2>2. \A r \in ran' : RunFits(r)'
    BY <1>1, <2>1, RunsKept
  <2>3. Run(FALSE)' \in ran'
    BY <2>1 DEF Run, task
  <2>4. QED
    BY <2>2, <2>3 DEF RanInv
<1>6. CASE UpsertLexical /\ ~Fails
  <2>1. /\ stage = "lexical" /\ lexical' = Wrote(lexical, settings.lexical_backend)
        /\ dense' = dense /\ ran' = ran \cup {Run(TRUE)} /\ stage' # "lexical"
    BY <1>6 DEF UpsertLexical, Ends
  <2>2. Run(FALSE) \in ran
    BY <2>1 DEF RanInv
  <2>3. \A r \in ran' : RunFits(r)'
    BY <1>1, <2>1, <2>2, RunsKept
  <2>4. QED
    BY <2>1, <2>3 DEF RanInv
<1>7. Fails => Ends /\ UNCHANGED <<stores, ran>>
  BY DEF Fails
<1>8. QED
  BY <1>3, <1>4, <1>5, <1>6, <1>7 DEF OfflineNext

(* After a run that wrote both stores every letter of its documents is in  *)
(* a chunk of each.                                                        *)
LEMMA RunsAreIndexed == RanInv => EveryLetterIndexed
<1> SUFFICES ASSUME RanInv, NEW r \in ran, NEW doc \in DocsOf(r), r.whole,
                    Namesakes(doc, r.version) = {}, NEW n \in Letters(doc.text)
             PROVE  /\ settings.vector_backend # "memory" =>
                         \E c \in dense[r.version] : Covers(c, doc, n)
                    /\ settings.lexical_backend # "memory" =>
                         \E c \in lexical[r.version] : Covers(c, doc, n)
  BY DEF EveryLetterIndexed, Searchable
<1>1. RunFits(r)
  BY DEF RanInv
<1>2. PICK k \in 1..Len(r.docs) : doc = r.docs[k]
  <2>1. DOMAIN r.docs = 1..Len(r.docs)
    <3> DEFINE list == r.docs
    <3>1. IsList(list)
      BY <1>1 DEF RunFits
    <3> HIDE DEF list
    <3>2. DOMAIN list = 1..Len(list)
      BY <3>1, ListDomain
    <3>3. QED
      BY <3>2 DEF list
  <2>2. QED
    BY <2>1 DEF DocsOf
<1>3. Chunkable(doc) /\ Stored(r, doc)
  BY <1>1, <1>2 DEF RunFits
<1>4. PICK m \in 1..Len(Chunked(doc, r.version)) : Covers(Chunked(doc, r.version)[m], doc, n)
  <2> DEFINE v == r.version
  <2> HIDE DEF v
  <2>1. \E m \in 1..Len(Chunked(doc, v)) : Covers(Chunked(doc, v)[m], doc, n)
    BY <1>3, ChunkedFits
  <2>2. QED
    BY <2>1 DEF v
<1>5. QED
  BY <1>3, <1>4 DEF Stored

(* Nothing personal is about to be stored, or stored.                      *)
LEMMA CleanIsNotPersonal == JobInv /\ StoreInv => NothingPersonalLeaves
<1> SUFFICES ASSUME JobInv, StoreInv, deployment.redact,
                    NEW chunk \in {made[n] : n \in DOMAIN made} \cup
                                  UNION {dense[v] \cup lexical[v] : v \in Targets}
             PROVE  Personal \notin {chunk.text[n] : n \in DOMAIN chunk.text}
  BY DEF NothingPersonalLeaves
<1>1. Clean(chunk.text)
  <2>1. CASE chunk \in {made[n] : n \in DOMAIN made}
    <3>1. PICK k \in DOMAIN made : chunk = made[k]
      BY <2>1
    <3>2. made # <<>> /\ k \in 1..Len(made)
      BY <3>1, MadeIsList, ListDomain
    <3>3. QED
      BY <3>1, <3>2, JobChunks DEF ChunkOf
  <2>2. CASE chunk \in UNION {dense[v] \cup lexical[v] : v \in Targets}
    BY <2>2, DeploymentAssumption DEF StoreInv
  <2>3. QED
    BY <2>1, <2>2
<1>2. QED
  BY <1>1 DEF Clean, ToSet

(* Before the plan runs nothing is stored but what was there before it.    *)
LEMMA OfflineStarts ==
  ASSUME deployment \in Deployments, OfflineInit
  PROVE  PlanInv /\ JobInv /\ StoreInv /\ RanInv
<1>1. stage = "idle" /\ docs = <<>> /\ made = <<>> /\ ran = {} /\ plan = deployment.plan
  BY DEF OfflineInit
<1>2. PlanInv
  BY <1>1, DeploymentAssumption DEF PlanInv
<1>3. JobInv
  BY <1>1, EmptyList DEF JobInv, Stages
<1>4. StoreInv
  <2>1. /\ dense = [v \in Versions |-> IF v = deployment.live THEN deployment.indexed ELSE {}]
        /\ lexical = dense
    BY DeploymentAssumption DEF OfflineInit
  <2>2. \A chunk \in deployment.indexed : Clean(chunk.text)
    BY CorpusAssumption DEF Clean
  <2>3. QED
    BY <2>1, <2>2 DEF StoreInv
<1>5. RanInv
  BY <1>1 DEF RanInv
<1>6. QED
  BY <1>2, <1>3, <1>4, <1>5

-----------------------------------------------------------------------------
(***************************************************************************)
(* The route.                                                              *)
(***************************************************************************)
USE RequestAssumption, VersionAssumption

(***************************************************************************)
(* The route's inductive invariant.                                        *)
(***************************************************************************)
Threads == [at: {"idle", "queued", "working", "done"},
            version: Versions \cup {NoVersion}, out: Replies]

Shape ==
  /\ alias \in Versions
  /\ cache \in [Keys -> Entries \cup {NoEntry}]
  /\ pc \in [Requests -> Pcs]
  /\ key \in [Requests -> Versions \cup {NoVersion}]
  /\ turn \in [Requests -> Versions \cup {NoVersion}]
  /\ evidence \in [Requests -> SUBSET Versions]
  /\ took \in [Requests -> BOOLEAN]
  /\ thread \in [Requests -> Threads]
  /\ reply \in [Requests -> Replies]
  /\ window \in [Requests -> SUBSET Versions]

(* What may stand in the shared cache under a key: an entry for the scope  *)
(* in the key, the route's made by an agent, and made from the version in  *)
(* the key, the turn's and its tools' unless a promotion overtook them.    *)
Fits(kind, s, v, entry) ==
  /\ entry \in Entries
  /\ entry.scope = s
  /\ kind = "route" => entry.by = "agent"
  /\ kind = "pipeline" \/ ~entry.overtaken => entry.versions = {v}

CacheFits ==
  \A kind \in Kinds, s \in Scopes, v \in Versions :
    cache[CacheKey(kind, s, v)] # NoEntry
      => Fits(kind, s, v, cache[CacheKey(kind, s, v)])

(* A request whose handler has not begun has left no trace.                *)
Untouched(r) ==
  pc[r] = "new" => reply[r] = NoReply /\ thread[r] = IdleThread

(* The versions a request has resolved were published while it was open,   *)
(* and so were those behind its evidence, unless it took over what a       *)
(* promotion had overtaken.                                                *)
InTurn(r) == Open(r) /\ pc[r] # "fast"

TurnFits(r) ==
  /\ Open(r) => alias \in window[r]
  /\ evidence[r] # {} => pc[r] \in Holding
  /\ InTurn(r) => key[r] \in window[r]
  /\ pc[r] \in {"turn", "retrieving"} => turn[r] \in window[r]
  /\ ~took[r] => evidence[r] \subseteq window[r]

(* A worker thread holds an answer for its own caller, not from the cache  *)
(* of the route; while its handler waits, it is one from the window.       *)
ThreadFits(r) ==
  /\ thread[r].at = "working"
       => /\ thread[r].version \in Versions
          /\ Open(r) => thread[r].version \in window[r]
  /\ thread[r].out.is = "answered"
       => /\ thread[r].out.entry \in Entries
          /\ thread[r].out.entry.scope = Scope[r]
          /\ Open(r) => thread[r].out.entry.versions \subseteq window[r]
  /\ thread[r].out.cached # "route"

ReplyFits(r) ==
  /\ reply[r].is = "answered"
       => /\ reply[r].entry.scope = Scope[r]
          /\ ~reply[r].entry.overtaken
               => reply[r].entry.versions \subseteq window[r]
  /\ reply[r].cached = "route" => reply[r].entry.by = "agent"

RequestFits(r) ==
  Untouched(r) /\ TurnFits(r) /\ ThreadFits(r) /\ ReplyFits(r)

RouteInv == Shape /\ CacheFits /\ \A r \in Requests : RequestFits(r)

(***************************************************************************)
(* The cache.                                                              *)
(***************************************************************************)

(* A hit fits the key it was found under.                                  *)
LEMMA HitFits ==
  ASSUME Shape, CacheFits, NEW kind \in Kinds, NEW r \in Requests,
         NEW v \in Versions, Cached(kind, r, v) # NoEntry
  PROVE  Fits(kind, Scope[r], v, Cached(kind, r, v))
BY DEF CacheFits, Cached

(* Storing an entry under a key that it fits keeps the cache fitting.      *)
LEMMA StoreFits ==
  ASSUME Shape, CacheFits, NEW kind \in Kinds, NEW r \in Requests,
         NEW v \in Versions, NEW entry, Fits(kind, Scope[r], v, entry),
         Store(kind, r, v, entry)
  PROVE  /\ cache' \in [Keys -> Entries \cup {NoEntry}]
         /\ CacheFits'
<1>1. Scope[r] \in Scopes
  OBVIOUS
<1>2. CacheKey(kind, Scope[r], v) \in Keys
  BY <1>1 DEF CacheKey, Keys
<1>3. cache' = [cache EXCEPT ![CacheKey(kind, Scope[r], v)] = entry]
  BY DEF Store
<1>4. cache' \in [Keys -> Entries \cup {NoEntry}]
  BY <1>3 DEF Shape, Fits
<1>5. ASSUME NEW k \in Kinds, NEW s \in Scopes, NEW w \in Versions,
             cache'[CacheKey(k, s, w)] # NoEntry
      PROVE  Fits(k, s, w, cache'[CacheKey(k, s, w)])
  <2>1. CacheKey(k, s, w) \in Keys
    BY DEF CacheKey, Keys
  <2>2. CASE k = kind /\ s = Scope[r] /\ w = v
    BY <1>2, <1>3, <2>2 DEF Shape
  <2>3. CASE ~(k = kind /\ s = Scope[r] /\ w = v)
    <3>1. CacheKey(k, s, w) # CacheKey(kind, Scope[r], v)
      BY <2>3 DEF CacheKey
    <3>2. cache'[CacheKey(k, s, w)] = cache[CacheKey(k, s, w)]
      BY <1>3, <2>1, <3>1 DEF Shape
    <3>3. QED
      BY <1>5, <3>2 DEF CacheFits
  <2>4. QED
    BY <2>2, <2>3
<1>6. CacheFits'
  BY <1>5 DEF CacheFits, Fits, CacheKey
<1>7. QED
  BY <1>4, <1>6

(* A cache that is left alone keeps fitting.                               *)
LEMMA CacheKept ==
  ASSUME Shape, CacheFits, UNCHANGED cache
  PROVE  /\ cache' \in [Keys -> Entries \cup {NoEntry}]
         /\ CacheFits'
BY DEF Shape, CacheFits, Fits, CacheKey

(***************************************************************************)
(* The steps of a request.  Each has its shape and its cache first, then   *)
(* the request itself; the others stay as they are.                        *)
(***************************************************************************)

(* A request whose own state and whose alias a step leaves alone still     *)
(* fits.                                                                   *)
LEMMA OthersFit ==
  ASSUME NEW x \in Requests, RequestFits(x), UNCHANGED alias,
         pc'[x] = pc[x], key'[x] = key[x], turn'[x] = turn[x],
         evidence'[x] = evidence[x], took'[x] = took[x], thread'[x] = thread[x],
         reply'[x] = reply[x], window'[x] = window[x]
  PROVE  RequestFits(x)'
<1>1. Open(x)' <=> Open(x)
  BY DEF Open
<1>2. InTurn(x)' <=> InTurn(x)
  BY <1>1 DEF InTurn
<1>3. Untouched(x)'
  BY DEF RequestFits, Untouched
<1>4. TurnFits(x)'
  BY <1>1, <1>2 DEF RequestFits, TurnFits
<1>5. ThreadFits(x)'
  BY <1>1 DEF RequestFits, ThreadFits
<1>6. ReplyFits(x)'
  BY DEF RequestFits, ReplyFits
<1>7. QED
  BY <1>3, <1>4, <1>5, <1>6 DEF RequestFits

(* An agent request arrives: a hit of the route is an agent's answer.      *)
LEMMA AgentArrivesFits ==
  ASSUME RouteInv, NEW r \in Requests, AgentArrives(r)
  PROVE  RouteInv'
<1> DEFINE hit == Cached("route", r, alias)
<1>1. /\ pc[r] = "new" /\ reply[r] = NoReply /\ thread[r] = IdleThread
      /\ alias \in Versions
      /\ evidence[r] = {}
  BY DEF RouteInv, RequestFits, Untouched, TurnFits, AgentArrives, Shape, Holding
<1>2. hit # NoEntry => Fits("route", Scope[r], alias, hit)
  BY HitFits, <1>1 DEF RouteInv, Kinds
<1>3. hit # NoEntry => Reply("answered", hit, "route") \in Replies
  BY <1>2 DEF Reply, Replies, Outcomes, Fits
<1>4. Shape' /\ CacheFits'
  BY <1>1, <1>3, CacheKept DEF RouteInv, Shape, AgentArrives, Respond, Pcs, index, agent
<1>5. RequestFits(r)'
  <2>1. /\ key'[r] = alias /\ window'[r] = {alias} /\ alias' = alias
        /\ evidence'[r] = {} /\ thread'[r] = IdleThread
        /\ pc'[r] \in {"over", "waiting"}
    BY <1>1 DEF RouteInv, Shape, AgentArrives, index, agent
  <2>2. \/ reply'[r] = NoReply
        \/ /\ Fits("route", Scope[r], alias, hit)
           /\ reply'[r] = Reply("answered", hit, "route")
    BY <1>1, <1>2 DEF RouteInv, Shape, AgentArrives, Respond
  <2>3. Untouched(r)' /\ TurnFits(r)' /\ ThreadFits(r)'
    BY <1>1, <2>1 DEF Untouched, TurnFits, ThreadFits, IdleThread, NoReply,
                     Holding, Open, InTurn
  <2>4. ReplyFits(r)'
    BY <2>1, <2>2 DEF ReplyFits, Reply, NoReply, Fits
  <2>5. QED
    BY <2>3, <2>4 DEF RequestFits
<1>6. ASSUME NEW x \in Requests, x # r PROVE RequestFits(x)'
  BY <1>6, OthersFit DEF RouteInv, Shape, AgentArrives, Respond, index, agent
<1>7. QED
  BY <1>4, <1>5, <1>6 DEF RouteInv

(* A request for the pipeline arrives.                                     *)
LEMMA FastArrivesFits ==
  ASSUME RouteInv, NEW r \in Requests, FastArrives(r)
  PROVE  RouteInv'
<1>1. /\ pc[r] = "new" /\ reply[r] = NoReply /\ thread[r] = IdleThread
      /\ alias \in Versions
      /\ evidence[r] = {}
  BY DEF RouteInv, RequestFits, Untouched, TurnFits, FastArrives, Shape, Holding
<1>2. thread' = [thread EXCEPT ![r].at = "queued"]
  BY DEF FastArrives, StartThread
<1>3. Shape' /\ CacheFits'
  <2>1. thread' \in [Requests -> Threads]
    BY <1>1, <1>2 DEF RouteInv, Shape, Threads
  <2>2. QED
    BY <1>1, <2>1, CacheKept DEF RouteInv, Shape, FastArrives, Pcs, index, agent
<1>4. RequestFits(r)'
  <2>1. /\ window'[r] = {alias} /\ alias' = alias
        /\ evidence'[r] = {} /\ reply'[r] = NoReply
        /\ pc'[r] = "fast"
    BY <1>1 DEF RouteInv, Shape, FastArrives, index, agent
  <2>2. thread'[r].at = "queued" /\ thread'[r].out = NoReply
    BY <1>1, <1>2 DEF RouteInv, Shape, Threads, IdleThread
  <2>3. QED
    BY <1>1, <2>1, <2>2 DEF RequestFits, Untouched, TurnFits, ThreadFits,
                           ReplyFits, NoReply, Holding, Open, InTurn
<1>5. ASSUME NEW x \in Requests, x # r PROVE RequestFits(x)'
  BY <1>2, <1>5, OthersFit DEF RouteInv, Shape, FastArrives, index, agent
<1>6. QED
  BY <1>3, <1>4, <1>5 DEF RouteInv

(* A waiter gets its permit, and its turn resolves the alias.              *)
LEMMA TurnStartsFits ==
  ASSUME RouteInv, NEW r \in Requests, TurnStarts(r)
  PROVE  RouteInv'
<1>1. Shape' /\ CacheFits'
  BY CacheKept DEF RouteInv, Shape, TurnStarts, Pcs, Holding, index
<1>2. RequestFits(r)'
  <2>1. /\ pc[r] = "waiting" /\ pc'[r] = "turn" /\ turn'[r] = alias
        /\ alias' = alias /\ alias \in Versions
        /\ UNCHANGED <<key[r], evidence[r], took[r], thread[r], reply[r], window[r]>>
    BY DEF RouteInv, Shape, TurnStarts, index
  <2>2. Open(r) /\ Open(r)' /\ InTurn(r) /\ InTurn(r)'
    BY <2>1 DEF Open, InTurn
  <2>3. RequestFits(r)
    BY DEF RouteInv
  <2>4. Untouched(r)' /\ TurnFits(r)'
    BY <2>1, <2>2, <2>3 DEF RequestFits, Untouched, TurnFits, Holding
  <2>5. ThreadFits(r)' /\ ReplyFits(r)'
    BY <2>1, <2>2, <2>3 DEF RequestFits, ThreadFits, ReplyFits
  <2>6. QED
    BY <2>4, <2>5 DEF RequestFits
<1>3. ASSUME NEW x \in Requests, x # r PROVE RequestFits(x)'
  BY <1>3, OthersFit DEF RouteInv, Shape, TurnStarts, index
<1>4. QED
  BY <1>1, <1>2, <1>3 DEF RouteInv

(* A tool call finds its turn's evidence in the cache, or goes to retrieve *)
(* it.                                                                     *)
LEMMA CallToolFits ==
  ASSUME RouteInv, NEW r \in Requests, CallTool(r)
  PROVE  RouteInv'
<1> DEFINE hit == Cached("tool", r, turn[r])
<1>1. RequestFits(r) /\ pc[r] = "turn"
  BY DEF RouteInv, CallTool
<1>2. turn[r] \in Versions /\ turn[r] \in window[r]
  BY <1>1 DEF RouteInv, Shape, RequestFits, TurnFits
<1>3. hit # NoEntry => Fits("tool", Scope[r], turn[r], hit)
  BY HitFits, <1>2 DEF RouteInv, Kinds
<1>4. \/ /\ pc' = pc /\ hit # NoEntry
         /\ evidence' = [evidence EXCEPT ![r] = @ \cup hit.versions]
         /\ took' = [took EXCEPT ![r] = @ \/ hit.overtaken]
      \/ /\ pc' = [pc EXCEPT ![r] = "retrieving"]
         /\ evidence' = evidence /\ took' = took
  BY DEF CallTool
<1>5. Shape' /\ CacheFits'
  <2>1. evidence' \in [Requests -> SUBSET Versions]
    BY <1>3, <1>4 DEF RouteInv, Shape, Fits, Entries
  <2>2. pc' \in [Requests -> Pcs]
    BY <1>4 DEF RouteInv, Shape, Pcs, Holding
  <2>3. took' \in [Requests -> BOOLEAN]
    BY <1>3, <1>4 DEF RouteInv, Shape, Fits, Entries
  <2>4. QED
    BY <2>1, <2>2, <2>3, CacheKept DEF RouteInv, Shape, CallTool, index
<1>6. RequestFits(r)'
  <2>1. /\ alias' = alias
        /\ UNCHANGED <<key[r], turn[r], thread[r], reply[r], window[r]>>
    BY DEF CallTool, index
  <2>2. pc'[r] \in {"turn", "retrieving"}
    BY <1>1, <1>4 DEF RouteInv, Shape
  <2>3. \/ evidence'[r] = evidence[r] /\ took'[r] = took[r]
        \/ /\ evidence'[r] = evidence[r] \cup hit.versions
           /\ took'[r] = (took[r] \/ hit.overtaken)
           /\ ~hit.overtaken => hit.versions = {turn[r]}
    BY <1>3, <1>4 DEF RouteInv, Shape, Fits
  <2>4. Open(r) /\ Open(r)' /\ InTurn(r) /\ InTurn(r)'
    BY <1>1, <2>2 DEF Open, InTurn
  <2>5. Untouched(r)' /\ TurnFits(r)'
    BY <1>1, <1>2, <2>1, <2>2, <2>3, <2>4 DEF RequestFits, Untouched, TurnFits,
                                              Holding
  <2>6. ThreadFits(r)' /\ ReplyFits(r)'
    BY <1>1, <2>1, <2>4 DEF RequestFits, ThreadFits, ReplyFits
  <2>7. QED
    BY <2>5, <2>6 DEF RequestFits
<1>7. ASSUME NEW x \in Requests, x # r PROVE RequestFits(x)'
  BY <1>4, <1>7, OthersFit DEF RouteInv, Shape, CallTool, index
<1>8. QED
  BY <1>5, <1>6, <1>7 DEF RouteInv

(* A tool returns.  What it stores under the turn's version comes from the *)
(* alias: they are one when no promotion has overtaken the turn.           *)
LEMMA ToolReturnsFits ==
  ASSUME RouteInv, NEW r \in Requests, ToolReturns(r)
  PROVE  RouteInv'
<1> DEFINE entry == Made("tool", r, {alias}, Overtaken(r))
<1>1. RequestFits(r) /\ pc[r] = "retrieving" /\ alias \in Versions
  BY DEF RouteInv, ToolReturns, Shape
<1>2. /\ turn[r] \in Versions /\ turn[r] \in window[r]
      /\ alias \in window[r] /\ key[r] \in window[r]
  BY <1>1 DEF RouteInv, Shape, RequestFits, TurnFits, Open, InTurn
<1>3. Fits("tool", Scope[r], turn[r], entry)
  <2>1. Overtaken(r) \in BOOLEAN /\ (~Overtaken(r) => {alias} = {turn[r]})
    BY <1>2 DEF Overtaken
  <2>2. QED
    BY <1>1, <2>1 DEF Fits, Made, Entries, Makers
<1>4. \/ /\ evidence' = [evidence EXCEPT ![r] = @ \cup {alias}]
         /\ Store("tool", r, turn[r], entry)
      \/ evidence' = evidence /\ cache' = cache
  BY DEF ToolReturns
<1>5. Shape' /\ CacheFits'
  <2>1. cache' \in [Keys -> Entries \cup {NoEntry}] /\ CacheFits'
    BY <1>2, <1>3, <1>4, StoreFits, CacheKept DEF RouteInv, Kinds
  <2>2. QED
    BY <1>1, <1>4, <2>1 DEF RouteInv, Shape, ToolReturns, index, Pcs, Holding
<1>6. RequestFits(r)'
  <2>1. /\ alias' = alias /\ pc'[r] = "turn"
        /\ UNCHANGED <<key[r], turn[r], took[r], thread[r], reply[r], window[r]>>
        /\ evidence'[r] \in {evidence[r], evidence[r] \cup {alias}}
    BY <1>4 DEF RouteInv, Shape, ToolReturns, index
  <2>2. Open(r) /\ Open(r)' /\ InTurn(r) /\ InTurn(r)'
    BY <1>1, <2>1 DEF Open, InTurn
  <2>3. Untouched(r)' /\ TurnFits(r)'
    BY <1>1, <1>2, <2>1, <2>2 DEF RequestFits, Untouched, TurnFits, Holding
  <2>4. ThreadFits(r)' /\ ReplyFits(r)'
    BY <1>1, <2>1, <2>2 DEF RequestFits, ThreadFits, ReplyFits
  <2>5. QED
    BY <2>3, <2>4 DEF RequestFits
<1>7. ASSUME NEW x \in Requests, x # r PROVE RequestFits(x)'
  BY <1>4, <1>7, OthersFit DEF RouteInv, Shape, ToolReturns, index
<1>8. QED
  BY <1>5, <1>6, <1>7 DEF RouteInv

(* A turn gives way to the pipeline.                                       *)
LEMMA TurnStepsAsideFits ==
  ASSUME RouteInv, NEW r \in Requests, TurnStepsAside(r)
  PROVE  RouteInv'
<1>1. thread' = [thread EXCEPT ![r].at = "queued"]
  BY DEF TurnStepsAside, StartThread
<1>2. Shape' /\ CacheFits'
  <2>1. thread' \in [Requests -> Threads]
    BY <1>1 DEF RouteInv, Shape, Threads
  <2>2. QED
    BY <2>1, CacheKept DEF RouteInv, Shape, TurnStepsAside, Pcs, Holding, index,
                           agent
<1>3. RequestFits(r)'
  <2>1. RequestFits(r) /\ pc[r] \in {"turn", "retrieving"}
    BY DEF RouteInv, TurnStepsAside
  <2>2. /\ alias' = alias /\ pc'[r] = "fallback"
        /\ UNCHANGED <<key[r], turn[r], evidence[r], took[r], reply[r], window[r]>>
    BY DEF RouteInv, Shape, TurnStepsAside, index, agent
  <2>3. thread'[r].at = "queued" /\ thread'[r].out = thread[r].out
    BY <1>1 DEF RouteInv, Shape, Threads
  <2>4. Open(r) /\ Open(r)' /\ InTurn(r) /\ InTurn(r)'
    BY <2>1, <2>2 DEF Open, InTurn
  <2>5. Untouched(r)' /\ TurnFits(r)'
    BY <2>1, <2>2, <2>4 DEF RequestFits, Untouched, TurnFits, Holding
  <2>6. ThreadFits(r)' /\ ReplyFits(r)'
    BY <2>1, <2>2, <2>3, <2>4 DEF RequestFits, ThreadFits, ReplyFits
  <2>7. QED
    BY <2>5, <2>6 DEF RequestFits
<1>4. ASSUME NEW x \in Requests, x # r PROVE RequestFits(x)'
  BY <1>1, <1>4, OthersFit DEF RouteInv, Shape, TurnStepsAside, index, agent
<1>5. QED
  BY <1>2, <1>3, <1>4 DEF RouteInv

(***************************************************************************)
(* The ends of a request.                                                  *)
(***************************************************************************)

(* What may be told the client: an answer for its caller from the window,  *)
(* unless it is of an overtaken turn; from the route's cache, an agent's.  *)
MayTell(r, answer) ==
  /\ answer \in Replies
  /\ answer.is = "answered"
       => /\ answer.entry.scope = Scope[r]
          /\ ~answer.entry.overtaken => answer.entry.versions \subseteq window[r]
  /\ answer.cached = "route" => answer.entry.by = "agent"

(* Responding with such an answer keeps the request fitting, also if it is *)
(* late and is dropped.                                                    *)
LEMMA RespondFits ==
  ASSUME Shape, NEW r \in Requests, NEW answer, ReplyFits(r),
         MayTell(r, answer), Respond(r, answer), window' = window
  PROVE  /\ reply' \in [Requests -> Replies]
         /\ ReplyFits(r)'
         /\ \A x \in Requests : x # r => reply'[x] = reply[x]
<1>1. CASE reply[r] = NoReply
  <2>1. reply' = [reply EXCEPT ![r] = answer]
    BY <1>1 DEF Respond
  <2>2. QED
    BY <2>1 DEF Shape, MayTell, ReplyFits
<1>2. CASE reply[r] # NoReply
  <2>1. reply' = reply
    BY <1>2 DEF Respond
  <2>2. QED
    BY <2>1 DEF Shape, ReplyFits
<1>3. QED
  BY <1>1, <1>2

(* A handler that stops leaves its turn's locals empty, and the other      *)
(* requests alone.                                                         *)
LEMMA StopsFits ==
  ASSUME Shape, NEW r \in Requests, HandlerStops(r)
  PROVE  /\ pc' \in [Requests -> Pcs]
         /\ turn' \in [Requests -> Versions \cup {NoVersion}]
         /\ evidence' \in [Requests -> SUBSET Versions]
         /\ took' \in [Requests -> BOOLEAN]
         /\ pc'[r] = "over" /\ evidence'[r] = {}
         /\ \A x \in Requests :
              x # r => /\ pc'[x] = pc[x] /\ turn'[x] = turn[x]
                       /\ evidence'[x] = evidence[x] /\ took'[x] = took[x]
BY DEF Shape, HandlerStops, Pcs

(* A request that is over fits if its reply and its thread do.             *)
LEMMA OverFits ==
  ASSUME NEW r \in Requests, RequestFits(r), ReplyFits(r)',
         pc'[r] = "over", evidence'[r] = {},
         thread'[r] \in {thread[r], IdleThread}
  PROVE  RequestFits(r)'
<1>1. ~Open(r)' /\ ~InTurn(r)'
  BY DEF Open, InTurn
<1>2. Untouched(r)' /\ TurnFits(r)'
  BY <1>1 DEF Untouched, TurnFits
<1>3. ThreadFits(r)'
  BY <1>1 DEF RequestFits, ThreadFits, IdleThread, NoReply
<1>4. QED
  BY <1>2, <1>3 DEF RequestFits

(* A turn answers from its evidence, and the route may keep the answer.    *)
LEMMA TurnAnswersFits ==
  ASSUME RouteInv, NEW r \in Requests, NEW clean \in BOOLEAN,
         TurnAnswers(r, clean)
  PROVE  RouteInv'
<1> DEFINE by == IF clean THEN "agent" ELSE "degraded"
           answer == Made(by, r, evidence[r], took[r])
           entry == Made(by, r, evidence[r], took[r] \/ Overtaken(r))
           told == Reply("answered", answer, "fresh")
<1>1. /\ RequestFits(r) /\ pc[r] = "turn" /\ evidence[r] # {}
      /\ evidence[r] \subseteq Versions /\ window' = window
      /\ thread' = thread /\ key' = key /\ alias' = alias
      /\ HandlerStops(r) /\ Respond(r, told)
      /\ key[r] \in Versions /\ key[r] \in window[r]
      /\ took[r] \in BOOLEAN
      /\ ~took[r] => evidence[r] \subseteq window[r]
  BY DEF RouteInv, Shape, TurnAnswers, RequestFits, TurnFits, Open, InTurn, index
<1>2. /\ answer \in Entries /\ answer.scope = Scope[r]
      /\ answer.versions = evidence[r] /\ answer.overtaken = took[r]
  BY <1>1 DEF Made, Entries, Makers
<1>3. MayTell(r, told)
  BY <1>1, <1>2 DEF MayTell, Reply, Replies, Outcomes
<1>4. cache' \in [Keys -> Entries \cup {NoEntry}] /\ CacheFits'
  <2>1. CASE clean
    <3>1. Store("route", r, key[r], entry)
      BY <2>1 DEF TurnAnswers, Kept
    <3>2. /\ Overtaken(r) \in BOOLEAN
          /\ ~took[r] /\ ~Overtaken(r) => evidence[r] = {key[r]}
      BY <1>1 DEF Overtaken
    <3>3. /\ entry \in Entries /\ entry.scope = Scope[r] /\ entry.by = "agent"
          /\ entry.versions = evidence[r]
          /\ entry.overtaken = (took[r] \/ Overtaken(r))
      BY <1>1, <2>1, <3>2 DEF Made, Entries, Makers
    <3>4. Fits("route", Scope[r], key[r], entry)
      BY <3>2, <3>3 DEF Fits
    <3>5. QED
      BY <1>1, <3>1, <3>4, StoreFits DEF RouteInv, Kinds
  <2>2. CASE ~clean
    BY <2>2, CacheKept DEF RouteInv, TurnAnswers, Kept
  <2>3. QED
    BY <2>1, <2>2
<1>5. /\ reply' \in [Requests -> Replies] /\ ReplyFits(r)'
      /\ \A x \in Requests : x # r => reply'[x] = reply[x]
  BY <1>1, <1>3, RespondFits DEF RouteInv, RequestFits
<1>6. Shape' /\ CacheFits'
  BY <1>1, <1>4, <1>5, StopsFits DEF RouteInv, Shape
<1>7. RequestFits(r)'
  BY <1>1, <1>5, StopsFits, OverFits DEF RouteInv
<1>8. ASSUME NEW x \in Requests, x # r PROVE RequestFits(x)'
  BY <1>1, <1>5, <1>8, StopsFits, OthersFit DEF RouteInv
<1>9. QED
  BY <1>6, <1>7, <1>8 DEF RouteInv

(* A turn fails, or its client is told that it took too long.              *)
LEMMA UnansweredFits ==
  ASSUME RouteInv, NEW r \in Requests,
         TurnRaises(r) \/ RequestTimesOut(r)
  PROVE  RouteInv'
<1> DEFINE told(is) == Reply(is, NoEntry, "fresh")
<1>1. /\ RequestFits(r) /\ window' = window /\ thread' = thread
      /\ key' = key /\ alias' = alias /\ cache' = cache
  BY DEF RouteInv, TurnRaises, RequestTimesOut, index
<1>2. PICK is \in {"failed", "timeout"} : Respond(r, told(is))
  BY DEF TurnRaises, RequestTimesOut
<1>3. MayTell(r, told(is))
  BY DEF MayTell, Reply, Replies, Outcomes
<1>4. /\ reply' \in [Requests -> Replies] /\ ReplyFits(r)'
      /\ \A x \in Requests : x # r => reply'[x] = reply[x]
  BY <1>1, <1>2, <1>3, RespondFits DEF RouteInv, RequestFits
<1>5. CASE HandlerStops(r)
  <2>1. Shape' /\ CacheFits'
    BY <1>1, <1>4, <1>5, StopsFits, CacheKept DEF RouteInv, Shape
  <2>2. RequestFits(r)'
    BY <1>1, <1>4, <1>5, StopsFits, OverFits DEF RouteInv
  <2>3. ASSUME NEW x \in Requests, x # r PROVE RequestFits(x)'
    BY <1>1, <1>4, <1>5, <2>3, StopsFits, OthersFit DEF RouteInv
  <2>4. QED
    BY <2>1, <2>2, <2>3 DEF RouteInv
<1>6. CASE pc[r] # "new" /\ UNCHANGED <<pc, agent>>
  <2>1. UNCHANGED <<pc, turn, evidence, took>>
    BY <1>6 DEF agent
  <2>2. Shape' /\ CacheFits'
    BY <1>1, <1>4, <2>1, CacheKept DEF RouteInv, Shape
  <2>3. RequestFits(r)'
    <3>1. Open(r)' = Open(r) /\ InTurn(r)' = InTurn(r)
      BY <2>1 DEF Open, InTurn
    <3>2. Untouched(r)' /\ TurnFits(r)' /\ ThreadFits(r)'
      BY <1>1, <1>6, <2>1, <3>1 DEF RequestFits, Untouched, TurnFits, ThreadFits
    <3>3. QED
      BY <1>4, <3>2 DEF RequestFits
  <2>4. ASSUME NEW x \in Requests, x # r PROVE RequestFits(x)'
    BY <1>1, <1>4, <2>1, <2>4, OthersFit DEF RouteInv
  <2>5. QED
    BY <2>2, <2>3, <2>4 DEF RouteInv
<1>7. QED
  BY <1>5, <1>6 DEF TurnRaises, RequestTimesOut

(***************************************************************************)
(* The pipeline's thread.                                                  *)
(***************************************************************************)

(* A thread may hold such an outcome.                                      *)
MayHold(r, v, out) ==
  /\ out \in Replies
  /\ out.is = "answered"
       => /\ out.entry \in Entries
          /\ out.entry.scope = Scope[r]
          /\ out.entry.versions = {v}
  /\ out.cached # "route"

(* A thread that moves on with such an outcome, from a version that was    *)
(* published while its handler waits, keeps the invariant.                 *)
LEMMA ThreadIsFits ==
  ASSUME RouteInv, NEW r \in Requests, NEW at \in {"working", "done"},
         NEW v \in Versions, NEW out, ThreadIs(r, at, v, out),
         MayHold(r, v, out), Open(r) => v \in window[r],
         thread[r] # IdleThread,
         cache' \in [Keys -> Entries \cup {NoEntry}], CacheFits',
         UNCHANGED <<index, pc, key, agent, reply, window>>
  PROVE  RouteInv'
<1>1. /\ UNCHANGED <<alias, pc, key, turn, evidence, took, reply, window>>
      /\ thread' = [thread EXCEPT ![r] = [at |-> at, version |-> v,
                                          out |-> out]]
  BY DEF ThreadIs, index, agent
<1>2. Shape'
  <2>1. [at |-> at, version |-> v, out |-> out] \in Threads
    BY DEF Threads, MayHold
  <2>2. QED
    BY <1>1, <2>1 DEF RouteInv, Shape
<1>3. RequestFits(r)'
  <2>1. Open(r)' = Open(r) /\ InTurn(r)' = InTurn(r)
    BY <1>1 DEF Open, InTurn
  <2>2. RequestFits(r) /\ pc[r] # "new"
    BY DEF RouteInv, RequestFits, Untouched
  <2>3. Untouched(r)' /\ TurnFits(r)' /\ ReplyFits(r)'
    BY <1>1, <2>1, <2>2 DEF RequestFits, Untouched, TurnFits, ReplyFits
  <2>4. thread'[r] = [at |-> at, version |-> v, out |-> out]
    BY <1>1 DEF RouteInv, Shape
  <2>5. ThreadFits(r)'
    BY <1>1, <2>1, <2>4 DEF ThreadFits, MayHold
  <2>6. QED
    BY <2>3, <2>5 DEF RequestFits
<1>4. ASSUME NEW x \in Requests, x # r PROVE RequestFits(x)'
  BY <1>1, <1>4, OthersFit DEF RouteInv, Shape
<1>5. QED
  BY <1>2, <1>3, <1>4 DEF RouteInv

(* The pipeline resolves the alias, and finds its answer or sets to work.  *)
LEMMA PipelineStartsFits ==
  ASSUME RouteInv, NEW r \in Requests, PipelineStarts(r)
  PROVE  RouteInv'
<1> DEFINE hit == Cached("pipeline", r, alias)
           out == Reply("answered", hit, "pipeline")
<1>1. /\ alias \in Versions /\ thread[r] # IdleThread
      /\ Open(r) => alias \in window[r]
      /\ UNCHANGED <<index, pc, key, agent, reply, window>>
  BY DEF RouteInv, Shape, PipelineStarts, IdleThread, RequestFits, TurnFits
<1>2. cache' \in [Keys -> Entries \cup {NoEntry}] /\ CacheFits'
  BY CacheKept DEF RouteInv, PipelineStarts
<1>3. CASE hit # NoEntry
  <2>1. Fits("pipeline", Scope[r], alias, hit)
    BY <1>1, <1>3, HitFits DEF RouteInv, Kinds
  <2>2. MayHold(r, alias, out)
    BY <2>1 DEF MayHold, Reply, Replies, Outcomes, Fits
  <2>3. ThreadIs(r, "done", alias, out)
    BY <1>3 DEF PipelineStarts
  <2>4. QED
    BY <1>1, <1>2, <2>2, <2>3, ThreadIsFits
<1>4. CASE hit = NoEntry
  <2>1. MayHold(r, alias, NoReply)
    BY DEF MayHold, NoReply, Replies
  <2>2. ThreadIs(r, "working", alias, NoReply)
    BY <1>4 DEF PipelineStarts
  <2>3. QED
    BY <1>1, <1>2, <2>1, <2>2, ThreadIsFits
<1>5. QED
  BY <1>3, <1>4

(* The pipeline answers from the version in its cache key, or does not.    *)
LEMMA PipelineEndsFits ==
  ASSUME RouteInv, NEW r \in Requests, PipelineEnds(r)
  PROVE  RouteInv'
<1> DEFINE v == thread[r].version
           answer == Made("pipeline", r, {v}, FALSE)
           out == Reply("answered", answer, "fresh")
           none(is) == Reply(is, NoEntry, "fresh")
<1>1. /\ v \in Versions /\ thread[r] # IdleThread
      /\ Open(r) => v \in window[r]
      /\ UNCHANGED <<index, pc, key, agent, reply, window>>
  BY DEF RouteInv, PipelineEnds, IdleThread, RequestFits, ThreadFits
<1>2. CASE ThreadIs(r, "done", v, out) /\ Store("pipeline", r, v, answer)
  <2>1. /\ answer \in Entries /\ answer.scope = Scope[r]
        /\ answer.versions = {v}
    BY <1>1 DEF Made, Entries, Makers
  <2>2. Fits("pipeline", Scope[r], v, answer)
    BY <2>1 DEF Fits
  <2>3. MayHold(r, v, out)
    BY <2>1 DEF MayHold, Reply, Replies, Outcomes
  <2>4. cache' \in [Keys -> Entries \cup {NoEntry}] /\ CacheFits'
    BY <1>1, <1>2, <2>2, StoreFits DEF RouteInv, Kinds
  <2>5. QED
    BY <1>1, <1>2, <2>3, <2>4, ThreadIsFits
<1>3. ASSUME NEW is \in {"refused", "failed"}, ThreadIs(r, "done", v, none(is)),
             cache' = cache
      PROVE  RouteInv'
  <2>1. MayHold(r, v, none(is))
    BY DEF MayHold, Reply, Replies, Outcomes
  <2>2. cache' \in [Keys -> Entries \cup {NoEntry}] /\ CacheFits'
    BY <1>3, CacheKept DEF RouteInv
  <2>3. QED
    BY <1>1, <1>3, <2>1, <2>2, ThreadIsFits
<1>4. QED
  BY <1>2, <1>3 DEF PipelineEnds, ResolvedOnce

(* The handler that waits for the thread responds with its outcome.        *)
LEMMA ThreadReturnsFits ==
  ASSUME RouteInv, NEW r \in Requests, ThreadReturns(r)
  PROVE  RouteInv'
<1> DEFINE out == thread[r].out
           told == IF out.is = "failed" /\ pc[r] = "fallback"
                   THEN [out EXCEPT !.is = "refused"] ELSE out
<1>1. /\ RequestFits(r) /\ Open(r) /\ window' = window
      /\ key' = key /\ alias' = alias /\ cache' = cache
      /\ thread' = [thread EXCEPT ![r] = IdleThread]
      /\ HandlerStops(r) /\ Respond(r, told)
  BY DEF RouteInv, ThreadReturns, index, Open
<1>2. out \in Replies
  BY DEF RouteInv, Shape, Threads
<1>3. MayTell(r, out)
  BY <1>1, <1>2 DEF MayTell, RequestFits, ThreadFits
<1>4. MayTell(r, told)
  <2>1. CASE out.is = "failed"
    <3>1. /\ [out EXCEPT !.is = "refused"] \in Replies
          /\ [out EXCEPT !.is = "refused"].is = "refused"
          /\ [out EXCEPT !.is = "refused"].cached = out.cached
          /\ [out EXCEPT !.is = "refused"].entry = out.entry
      BY <1>2, <2>1 DEF Replies, Outcomes, NoReply
    <3>2. QED
      BY <1>3, <3>1 DEF MayTell
  <2>2. CASE out.is # "failed"
    BY <1>3, <2>2
  <2>3. QED
    BY <2>1, <2>2
<1>5. /\ reply' \in [Requests -> Replies] /\ ReplyFits(r)'
      /\ \A x \in Requests : x # r => reply'[x] = reply[x]
  BY <1>1, <1>4, RespondFits DEF RouteInv, RequestFits
<1>6. Shape' /\ CacheFits'
  <2>1. IdleThread \in Threads
    BY DEF IdleThread, Threads, Replies
  <2>2. QED
    BY <1>1, <1>5, <2>1, StopsFits, CacheKept DEF RouteInv, Shape
<1>7. RequestFits(r)'
  <2>1. thread'[r] = IdleThread
    BY <1>1 DEF RouteInv, Shape
  <2>2. QED
    BY <1>1, <1>5, <2>1, StopsFits, OverFits DEF RouteInv
<1>8. ASSUME NEW x \in Requests, x # r PROVE RequestFits(x)'
  BY <1>1, <1>5, <1>8, StopsFits, OthersFit DEF RouteInv, Shape
<1>9. QED
  BY <1>6, <1>7, <1>8 DEF RouteInv

(***************************************************************************)
(* The environment.                                                        *)
(***************************************************************************)

(* A promotion widens the window of every open request.                    *)
LEMMA PromoteFits ==
  ASSUME RouteInv, NEW v \in Versions, Promote(v)
  PROVE  RouteInv'
<1>1. /\ alias' = v
      /\ UNCHANGED <<cache, pc, key, turn, evidence, took, thread, reply>>
      /\ window' = [r \in Requests |-> IF Open(r) THEN window[r] \cup {v}
                                                  ELSE window[r]]
  BY DEF Promote, agent
<1>2. Shape' /\ CacheFits'
  BY <1>1, CacheKept DEF RouteInv, Shape
<1>3. ASSUME NEW r \in Requests PROVE RequestFits(r)'
  <2>1. /\ RequestFits(r)
        /\ Open(r)' = Open(r) /\ InTurn(r)' = InTurn(r)
        /\ window[r] \subseteq window'[r]
        /\ Open(r) => v \in window'[r]
    BY <1>1 DEF RouteInv, Open, InTurn
  <2>2. Untouched(r)' /\ TurnFits(r)'
    BY <1>1, <2>1 DEF RequestFits, Untouched, TurnFits
  <2>3. ThreadFits(r)' /\ ReplyFits(r)'
    BY <1>1, <2>1 DEF RequestFits, ThreadFits, ReplyFits
  <2>4. QED
    BY <2>2, <2>3 DEF RequestFits
<1>4. QED
  BY <1>2, <1>3 DEF RouteInv

(* An entry that expires disturbs nothing.                                 *)
LEMMA ExpireFits ==
  ASSUME RouteInv, NEW k \in Keys, Expire(k)
  PROVE  RouteInv'
<1>1. /\ cache' = [cache EXCEPT ![k] = NoEntry]
      /\ UNCHANGED <<alias, pc, key, turn, evidence, took, thread, reply, window>>
  BY DEF Expire, index, agent
<1>2. Shape'
  BY <1>1 DEF RouteInv, Shape
<1>3. CacheFits'
  <2>1. ASSUME NEW kind \in Kinds, NEW s \in Scopes, NEW v \in Versions
        PROVE  /\ CacheKey(kind, s, v) \in Keys
               /\ cache'[CacheKey(kind, s, v)]
                    \in {NoEntry, cache[CacheKey(kind, s, v)]}
    BY <1>1 DEF RouteInv, Shape, CacheKey, Keys
  <2>2. ASSUME NEW kind \in Kinds, NEW s \in Scopes, NEW v \in Versions,
               cache'[CacheKey(kind, s, v)] # NoEntry
        PROVE  Fits(kind, s, v, cache'[CacheKey(kind, s, v)])
    <3>1. cache'[CacheKey(kind, s, v)] = cache[CacheKey(kind, s, v)]
      BY <2>1, <2>2
    <3>2. QED
      BY <2>2, <3>1 DEF RouteInv, CacheFits
  <2>3. QED
    BY <2>2 DEF CacheFits, Fits, CacheKey
<1>4. ASSUME NEW r \in Requests PROVE RequestFits(r)'
  BY <1>1, OthersFit DEF RouteInv
<1>5. QED
  BY <1>2, <1>3, <1>4 DEF RouteInv

(***************************************************************************)
(* The invariant and what it says of every request.                        *)
(***************************************************************************)

(* Nobody has asked anything, and nothing is cached.                       *)
LEMMA InitFits == Init => RouteInv
<1> SUFFICES ASSUME Init PROVE RouteInv
  OBVIOUS
<1>1. IdleThread \in Threads /\ NoReply \in Replies
  BY DEF IdleThread, Threads, Replies
<1>2. Shape
  BY <1>1 DEF Init, Shape, Pcs
<1>3. CacheFits
  BY DEF Init, CacheFits, CacheKey, Keys
<1>4. ASSUME NEW r \in Requests PROVE RequestFits(r)
  <2>1. ~Open(r) /\ ~InTurn(r)
    BY DEF Init, Open, InTurn
  <2>2. QED
    BY <2>1 DEF Init, RequestFits, Untouched, TurnFits, ThreadFits, ReplyFits,
                IdleThread, NoReply
<1>5. QED
  BY <1>2, <1>3, <1>4 DEF RouteInv

(* Every step keeps it.                                                    *)
LEMMA NextFits == RouteInv /\ [Next]_vars => RouteInv'
<1> SUFFICES ASSUME RouteInv, [Next]_vars PROVE RouteInv'
  OBVIOUS
<1>1. ASSUME NEW r \in Requests, Step(r) PROVE RouteInv'
  <2>1. CASE AgentArrives(r)
    BY <2>1, AgentArrivesFits
  <2>2. CASE FastArrives(r)
    BY <2>2, FastArrivesFits
  <2>3. CASE TurnStarts(r)
    BY <2>3, TurnStartsFits
  <2>4. CASE CallTool(r)
    BY <2>4, CallToolFits
  <2>5. CASE ToolReturns(r)
    BY <2>5, ToolReturnsFits
  <2>6. CASE \E clean \in BOOLEAN : TurnAnswers(r, clean)
    BY <2>6, TurnAnswersFits
  <2>7. CASE TurnStepsAside(r)
    BY <2>7, TurnStepsAsideFits
  <2>8. CASE TurnRaises(r) \/ RequestTimesOut(r)
    BY <2>8, UnansweredFits
  <2>9. CASE PipelineStarts(r)
    BY <2>9, PipelineStartsFits
  <2>10. CASE PipelineEnds(r)
    BY <2>10, PipelineEndsFits
  <2>11. CASE ThreadReturns(r)
    BY <2>11, ThreadReturnsFits
  <2>12. QED
    BY <1>1, <2>1, <2>2, <2>3, <2>4, <2>5, <2>6, <2>7, <2>8, <2>9, <2>10,
       <2>11 DEF Step
<1>2. ASSUME NEW v \in Versions, Promote(v) PROVE RouteInv'
  BY <1>2, PromoteFits
<1>3. ASSUME NEW k \in Keys, Expire(k) PROVE RouteInv'
  BY <1>3, ExpireFits
<1>4. CASE UNCHANGED vars
  <2>1. UNCHANGED <<alias, cache, pc, key, turn, evidence, took, thread, reply,
                    window>>
    BY <1>4 DEF vars, index, agent
  <2>2. Shape' /\ CacheFits'
    BY <2>1, CacheKept DEF RouteInv, Shape
  <2>3. QED
    BY <2>1, <2>2, OthersFit DEF RouteInv
<1>5. QED
  BY <1>1, <1>2, <1>3, <1>4 DEF Next

(* The invariant holds of every behaviour of the route.                    *)
THEOREM RouteInvariant == Spec => []RouteInv
BY InitFits, NextFits, PTL DEF Spec

(* What the invariant says of the replies and the caches.                  *)
LEMMA FitIsInScope == RouteInv => RepliesForCaller
<1> SUFFICES ASSUME RouteInv PROVE RepliesForCaller
  OBVIOUS
<1>1. \A r \in Requests :
        reply[r].is = "answered" => reply[r].entry.scope = Scope[r]
  BY DEF RouteInv, RequestFits, ReplyFits
<1>2. ASSUME NEW k \in Keys, cache[k] # NoEntry
      PROVE  cache[k].scope = k[2]
  <2>1. PICK kind \in Kinds, s \in Scopes, v \in Versions :
          k = <<kind, s, v>>
    BY DEF Keys
  <2>2. QED
    BY <1>2, <2>1 DEF RouteInv, CacheFits, CacheKey, Fits
<1>3. QED
  BY <1>1, <1>2 DEF RepliesForCaller

(* What the invariant says of replays.                                     *)
LEMMA FitIsOwn == RouteInv => ReplayIsOwn
BY DEF RouteInv, RequestFits, ReplyFits, ReplayIsOwn

(* What it says of the caches.                                             *)
LEMMA FitIsFaithful == RouteInv => CachesFaithful
<1> SUFFICES ASSUME RouteInv PROVE CachesFaithful
  OBVIOUS
<1>1. ASSUME NEW kind \in Kinds, NEW k \in Misfiled(kind)
      PROVE  kind # "pipeline" /\ cache[k].overtaken
  <2>1. PICK s \in Scopes, v \in Versions : k = <<kind, s, v>>
    BY <1>1 DEF Misfiled
  <2>2. cache[k] # NoEntry /\ cache[k].versions # {v}
    BY <1>1, <2>1 DEF Misfiled
  <2>3. Fits(kind, s, v, cache[k]) /\ cache[k].overtaken \in BOOLEAN
    BY <2>1, <2>2 DEF RouteInv, CacheFits, CacheKey, Fits, Entries
  <2>4. QED
    BY <2>2, <2>3 DEF Fits
<1>2. QED
  BY <1>1 DEF CachesFaithful, Kinds

(* No answer crosses an ACL scope, through whichever cache it comes, and   *)
(* however requests, timeouts, threads left running and promotions         *)
(* interleave (cache/keys.py, tools/cache.py).                             *)
THEOREM AnswersStayInScope == Spec => []RepliesForCaller
BY FitIsInScope, RouteInvariant, PTL

(* The route replays agents' own answers only, though it shares its cache  *)
(* with the pipeline and the tools (query.py:149-158).                     *)
THEOREM RouteReplaysAgents == Spec => []ReplayIsOwn
BY FitIsOwn, RouteInvariant, PTL

(* What the pipeline keeps was read from the version in its key, whatever  *)
(* is promoted meanwhile; so is what turns and their tools keep, unless a  *)
(* promotion overtook them (online.py resolves the alias once,             *)
(* retrieve_only again).                                                   *)
THEOREM CachedUnderTheirVersion == Spec => []CachesFaithful
BY FitIsFaithful, RouteInvariant, PTL

(* Promotions and rollbacks come at any moment.  An answer that rests on   *)
(* no entry of a turn they overtook comes from versions that were          *)
(* published while its request was open (docs/caching.md:42).              *)
THEOREM OthersAreCurrent == Spec => []CurrentUnlessOvertaken
<1>1. RouteInv => CurrentUnlessOvertaken
  BY DEF RouteInv, RequestFits, ReplyFits, CurrentUnlessOvertaken
<1>2. QED
  BY <1>1, RouteInvariant, PTL

(***************************************************************************)
(* Queues without repetition.                                              *)
(***************************************************************************)
Distinct(s) == \A i, k \in 1..Len(s) : s[i] = s[k] => i = k

(* A queue that a newcomer joins has nobody twice.                         *)
LEMMA DistinctAppended ==
  ASSUME NEW S, NEW s \in Seq(S), NEW e \in S, Distinct(s), e \notin ToSet(s)
  PROVE  /\ Append(s, e) \in Seq(S) /\ Distinct(Append(s, e))
         /\ ToSet(Append(s, e)) = ToSet(s) \cup {e}
<1>1. /\ Append(s, e) \in Seq(S) /\ Len(Append(s, e)) = Len(s) + 1
      /\ \A i \in 1..Len(s) : Append(s, e)[i] = s[i]
      /\ Append(s, e)[Len(s) + 1] = e
  OBVIOUS
<1>2. \A i \in 1..Len(s) : s[i] # e
  BY DEF ToSet
<1>3. Distinct(Append(s, e))
  BY <1>1, <1>2 DEF Distinct
<1>4. ToSet(Append(s, e)) = ToSet(s) \cup {e}
  <2>1. DOMAIN s = 1..Len(s) /\ DOMAIN Append(s, e) = 1..Len(s) \cup {Len(s) + 1}
    BY <1>1
  <2>2. QED
    BY <1>1, <2>1 DEF ToSet
<1>5. QED
  BY <1>1, <1>3, <1>4

(* Nor has one that its first leaves.                                      *)
LEMMA DistinctTail ==
  ASSUME NEW S, NEW s \in Seq(S), Distinct(s), s # <<>>
  PROVE  /\ Tail(s) \in Seq(S) /\ Distinct(Tail(s))
         /\ ToSet(Tail(s)) = ToSet(s) \ {Head(s)}
<1>1. /\ Tail(s) \in Seq(S) /\ Len(Tail(s)) = Len(s) - 1 /\ Len(s) \in Nat \ {0}
      /\ \A i \in 1..(Len(s) - 1) : Tail(s)[i] = s[i + 1]
      /\ Head(s) = s[1]
      /\ DOMAIN Tail(s) = 1..(Len(s) - 1) /\ DOMAIN s = 1..Len(s)
  OBVIOUS
<1>2. Distinct(Tail(s))
  BY <1>1 DEF Distinct
<1>3. ToSet(Tail(s)) \subseteq ToSet(s) \ {Head(s)}
  BY <1>1 DEF ToSet, Distinct
<1>4. ASSUME NEW i \in 1..Len(s), s[i] # Head(s) PROVE s[i] \in ToSet(Tail(s))
  <2>1. i - 1 \in 1..(Len(s) - 1) /\ Tail(s)[i - 1] = s[i]
    BY <1>1, <1>4
  <2>2. QED
    BY <1>1, <2>1 DEF ToSet
<1>5. ToSet(s) \ {Head(s)} \subseteq ToSet(Tail(s))
  BY <1>1, <1>4 DEF ToSet
<1>6. QED
  BY <1>1, <1>2, <1>3, <1>5

(* A sequence without its i-th element.                                    *)
LEMMA WithoutIndex ==
  ASSUME NEW S, NEW s \in Seq(S), NEW i \in 1..Len(s)
  PROVE  LET t == RemoveAt(s, i)
         IN /\ t \in Seq(S) /\ Len(t) = Len(s) - 1
            /\ \A k \in 1..(Len(s) - 1) : t[k] = IF k < i THEN s[k] ELSE s[k + 1]
<1> DEFINE n == Len(s)
           a == SubSeq(s, 1, i - 1)
           b == SubSeq(s, i + 1, n)
<1>1. n \in Nat /\ i \in Int /\ 1 <= i /\ i <= n /\ \A k \in 1..n : s[k] \in S
  OBVIOUS
<1> HIDE DEF n
<1>2. /\ a \in Seq(S) /\ Len(a) = i - 1
      /\ \A k \in 1..(i - 1) : a[k] = s[k]
  <2>1. /\ a \in Seq(S) /\ Len(a) = IF 1 <= i - 1 THEN i - 1 - 1 + 1 ELSE 0
        /\ \A k \in 1..(i - 1 - 1 + 1) : a[k] = s[1 + k - 1]
    BY <1>1, SubSeqProperties
  <2>2. QED
    BY <1>1, <2>1
<1>3. /\ b \in Seq(S) /\ Len(b) = n - i
      /\ \A k \in 1..(n - i) : b[k] = s[i + k]
  <2>1. i + 1 \in Int /\ \A k \in (i + 1)..n : s[k] \in S
    BY <1>1
  <2>2. /\ b \in Seq(S) /\ Len(b) = IF i + 1 <= n THEN n - (i + 1) + 1 ELSE 0
        /\ \A k \in 1..(n - (i + 1) + 1) : b[k] = s[(i + 1) + k - 1]
    BY <1>1, <2>1, SubSeqProperties
  <2>3. Len(b) = n - i
    BY <1>1, <2>2
  <2>4. ASSUME NEW k \in 1..(n - i) PROVE b[k] = s[i + k]
    <3>1. k \in 1..(n - (i + 1) + 1) /\ (i + 1) + k - 1 = i + k
      BY <1>1
    <3>2. QED
      BY <2>2, <3>1
  <2>5. QED
    BY <2>2, <2>3, <2>4
<1> HIDE DEF a, b
<1>4. /\ a \o b \in Seq(S) /\ Len(a \o b) = Len(a) + Len(b)
      /\ \A k \in 1..(Len(a) + Len(b)) :
           (a \o b)[k] = IF k <= Len(a) THEN a[k] ELSE b[k - Len(a)]
  BY <1>2, <1>3, ConcatProperties
<1>5. ASSUME NEW k \in 1..(n - 1)
      PROVE  (a \o b)[k] = IF k < i THEN s[k] ELSE s[k + 1]
  <2>1. k \in 1..(Len(a) + Len(b)) /\ (k <= Len(a) <=> k < i)
    BY <1>1, <1>2, <1>3
  <2>2. CASE k < i
    BY <1>1, <1>2, <1>4, <2>1, <2>2
  <2>3. CASE ~(k < i)
    <3>1. k - Len(a) \in 1..(n - i) /\ i + (k - Len(a)) = k + 1
      BY <1>1, <1>2, <2>3
    <3>2. (a \o b)[k] = b[k - Len(a)]
      BY <1>4, <2>1, <2>3
    <3>3. b[k - Len(a)] = s[i + (k - Len(a))]
      BY <1>3, <3>1
    <3>4. QED
      BY <2>3, <3>1, <3>2, <3>3
  <2>4. QED
    BY <2>2, <2>3
<1>6. RemoveAt(s, i) = a \o b
  BY DEF RemoveAt, a, b, n
<1>7. Len(a \o b) = n - 1
  BY <1>1, <1>2, <1>3, <1>4
<1>8. QED
  BY <1>4, <1>5, <1>6, <1>7 DEF n

(* Removing the first occurrence of an element removes it.                 *)
LEMMA DistinctRemoved ==
  ASSUME NEW S, NEW s \in Seq(S), NEW e, Distinct(s)
  PROVE  /\ RemoveFirst(s, e) \in Seq(S) /\ Distinct(RemoveFirst(s, e))
         /\ ToSet(RemoveFirst(s, e)) = ToSet(s) \ {e}
<1>1. CASE ~\E i \in 1..Len(s) : s[i] = e
  <2>1. RemoveFirst(s, e) = s
    BY <1>1 DEF RemoveFirst
  <2>2. QED
    BY <1>1, <2>1 DEF ToSet
<1>2. CASE \E i \in 1..Len(s) : s[i] = e
  <2>1. PICK i \in 1..Len(s) : s[i] = e
    BY <1>2
  <2>2. {k \in 1..Len(s) : s[k] = e} = {i}
    BY <2>1 DEF Distinct
  <2>3. Min({i}) = i
    BY DEF Min
  <2>4. RemoveFirst(s, e) = RemoveAt(s, i)
    BY <1>2, <2>2, <2>3 DEF RemoveFirst, SelectInSeq
  <2> DEFINE t == RemoveAt(s, i)
  <2>5. /\ t \in Seq(S) /\ Len(t) = Len(s) - 1
        /\ \A k \in 1..(Len(s) - 1) : t[k] = IF k < i THEN s[k] ELSE s[k + 1]
        /\ DOMAIN t = 1..(Len(s) - 1) /\ DOMAIN s = 1..Len(s)
    BY WithoutIndex
  <2> HIDE DEF t
  <2>6. Distinct(t)
    BY <2>5 DEF Distinct
  <2>7. ToSet(t) \subseteq ToSet(s) \ {e}
    <3>1. ASSUME NEW k \in 1..(Len(s) - 1) PROVE t[k] \in ToSet(s) \ {e}
      <4>1. PICK n \in 1..Len(s) : t[k] = s[n] /\ n # i
        BY <2>5
      <4>2. QED
        BY <2>2, <2>5, <4>1 DEF ToSet
    <3>2. QED
      BY <2>5, <3>1 DEF ToSet
  <2>8. ASSUME NEW k \in 1..Len(s), s[k] # e PROVE s[k] \in ToSet(t)
    <3>1. CASE k < i
      BY <2>1, <2>5, <3>1 DEF ToSet
    <3>2. CASE k > i
      <4>1. k - 1 \in 1..(Len(s) - 1) /\ t[k - 1] = s[k]
        BY <2>1, <2>5, <3>2
      <4>2. QED
        BY <2>5, <4>1 DEF ToSet
    <3>3. QED
      BY <2>1, <2>8, <3>1, <3>2
  <2>9. ToSet(s) \ {e} \subseteq ToSet(t)
    BY <2>5, <2>8 DEF ToSet
  <2>10. QED
    BY <2>4, <2>5, <2>6, <2>7, <2>9 DEF t
<1>3. QED
  BY <1>1, <1>2

(* A queue without repetition is as long as its members are many.          *)
LEMMA DistinctCount ==
  ASSUME NEW S, NEW s \in Seq(S), Distinct(s)
  PROVE  Len(s) = Cardinality(ToSet(s))
<1>1. s \in [1..Len(s) -> ToSet(s)] /\ Len(s) \in Nat
  BY DEF ToSet
<1>2. s \in Bijection(1..Len(s), ToSet(s))
  BY <1>1 DEF Bijection, Injection, Surjection, IsInjective, Distinct, ToSet
<1>3. ExistsBijection(1..Len(s), ToSet(s))
  BY <1>2 DEF ExistsBijection
<1>4. IsFiniteSet(1..Len(s)) /\ Cardinality(1..Len(s)) = Len(s)
  <2>1. /\ IsFiniteSet(1..Len(s))
        /\ Cardinality(1..Len(s)) = IF 1 > Len(s) THEN 0 ELSE Len(s) - 1 + 1
    BY <1>1, FS_Interval
  <2>2. QED
    BY <1>1, <2>1
<1>5. QED
  BY <1>3, <1>4, FS_Bijection

(***************************************************************************)
(* The permits of each tenant.                                             *)
(***************************************************************************)
Holders(t) == {r \in Requests : Tenant[r] = t /\ pc[r] \in Holding}
Waiters(t) == {r \in Requests : Tenant[r] = t /\ pc[r] = "waiting"}

PermitsFit(t) ==
  /\ IsFiniteSet(Holders(t))
  /\ permits[t] + Cardinality(Holders(t)) = MaxConcurrent
  /\ Distinct(queue[t]) /\ ToSet(queue[t]) = Waiters(t)

PermitInv ==
  /\ permits \in [Tenants -> Nat] /\ queue \in [Tenants -> Seq(Requests)]
  /\ \A t \in Tenants : PermitsFit(t)

(* A step that moves nobody into or out of the queue or a turn.            *)
LEMMA PermitsAlone ==
  ASSUME PermitInv, UNCHANGED semaphore,
         \A x \in Requests : /\ pc'[x] \in Holding <=> pc[x] \in Holding
                             /\ pc'[x] = "waiting" <=> pc[x] = "waiting"
  PROVE  PermitInv'
<1>1. permits' = permits /\ queue' = queue
  BY DEF semaphore
<1>2. ASSUME NEW t \in Tenants PROVE PermitsFit(t)'
  <2>1. Holders(t)' = Holders(t) /\ Waiters(t)' = Waiters(t)
    BY DEF Holders, Waiters
  <2>2. QED
    BY <1>1, <2>1 DEF PermitInv, PermitsFit
<1>3. QED
  BY <1>1, <1>2 DEF PermitInv

(* A request joins the queue.                                              *)
LEMMA PermitsOnArrival ==
  ASSUME Shape, PermitInv, NEW r \in Requests, AgentArrives(r)
  PROVE  PermitInv'
<1>1. pc[r] = "new" /\ permits' = permits
  BY DEF AgentArrives
<1>2. CASE pc' = [pc EXCEPT ![r] = "over"] /\ queue' = queue
  <2>1. \A x \in Requests : /\ pc'[x] \in Holding <=> pc[x] \in Holding
                            /\ pc'[x] = "waiting" <=> pc[x] = "waiting"
    BY <1>1, <1>2 DEF Shape, Holding
  <2>2. QED
    BY <1>1, <1>2, <2>1, PermitsAlone DEF semaphore
<1>3. CASE /\ pc' = [pc EXCEPT ![r] = "waiting"]
           /\ queue' = [queue EXCEPT ![Tenant[r]] = Append(@, r)]
  <2> DEFINE tenant == Tenant[r]
  <2>1. tenant \in Tenants
    BY RequestAssumption
  <2>2. queue[tenant] \in Seq(Requests) /\ Distinct(queue[tenant])
        /\ ToSet(queue[tenant]) = Waiters(tenant)
    BY <2>1 DEF PermitInv, PermitsFit
  <2>3. r \notin ToSet(queue[tenant])
    BY <1>1, <2>2 DEF Waiters
  <2>4. /\ queue'[tenant] \in Seq(Requests) /\ Distinct(queue'[tenant])
        /\ ToSet(queue'[tenant]) = Waiters(tenant) \cup {r}
    <3>1. queue'[tenant] = Append(queue[tenant], r)
      BY <1>3, <2>1 DEF PermitInv
    <3>2. QED
      BY <2>2, <2>3, <3>1, DistinctAppended
  <2>5. \A t \in Tenants : t # tenant => queue'[t] = queue[t]
    BY <1>3 DEF PermitInv
  <2>6. queue' \in [Tenants -> Seq(Requests)]
    BY <1>3, <2>1, <2>2 DEF PermitInv
  <2>7. ASSUME NEW t \in Tenants PROVE PermitsFit(t)'
    <3>1. Holders(t)' = Holders(t)
      BY <1>1, <1>3 DEF Shape, Holders, Holding
    <3>2. Waiters(t)' = IF t = tenant THEN Waiters(t) \cup {r} ELSE Waiters(t)
      BY <1>1, <1>3 DEF Shape, Waiters
    <3>3. QED
      BY <1>1, <2>4, <2>5, <3>1, <3>2 DEF PermitInv, PermitsFit
  <2>8. QED
    BY <1>1, <2>6, <2>7 DEF PermitInv
<1>4. QED
  BY <1>2, <1>3 DEF AgentArrives

(* The first waiter takes a permit.                                        *)
LEMMA PermitsOnStart ==
  ASSUME Shape, PermitInv, NEW r \in Requests, TurnStarts(r)
  PROVE  PermitInv'
<1> DEFINE tenant == Tenant[r]
<1>1. /\ pc[r] = "waiting" /\ Head(queue[tenant]) = r /\ permits[tenant] > 0
      /\ permits' = [permits EXCEPT ![tenant] = permits[tenant] - 1]
      /\ queue' = [queue EXCEPT ![tenant] = Tail(queue[tenant])]
      /\ pc' = [pc EXCEPT ![r] = "turn"]
      /\ tenant \in Tenants
  BY RequestAssumption DEF TurnStarts
<1>2. queue[tenant] \in Seq(Requests) /\ Distinct(queue[tenant])
      /\ ToSet(queue[tenant]) = Waiters(tenant)
  BY <1>1 DEF PermitInv, PermitsFit
<1>3. queue[tenant] # <<>>
  BY <1>1, <1>2 DEF Waiters, ToSet
<1>4. /\ queue'[tenant] \in Seq(Requests) /\ Distinct(queue'[tenant])
      /\ ToSet(queue'[tenant]) = Waiters(tenant) \ {r}
  <2>1. queue'[tenant] = Tail(queue[tenant])
    BY <1>1 DEF PermitInv
  <2>2. QED
    BY <1>1, <1>2, <1>3, <2>1, DistinctTail
<1>5. \A t \in Tenants : t # tenant => queue'[t] = queue[t] /\ permits'[t] = permits[t]
  BY <1>1 DEF PermitInv
<1>6. queue' \in [Tenants -> Seq(Requests)] /\ permits' \in [Tenants -> Nat]
  <2>1. permits[tenant] - 1 \in Nat
    BY <1>1 DEF PermitInv
  <2>2. queue' \in [Tenants -> Seq(Requests)]
    BY <1>1, <1>2, <1>3 DEF PermitInv
  <2>3. QED
    BY <1>1, <2>1, <2>2 DEF PermitInv
<1>7. ASSUME NEW t \in Tenants PROVE PermitsFit(t)'
  <2>1. Holders(t)' = IF t = tenant THEN Holders(t) \cup {r} ELSE Holders(t)
    BY <1>1 DEF Shape, Holders, Holding
  <2>2. Waiters(t)' = IF t = tenant THEN Waiters(t) \ {r} ELSE Waiters(t)
    BY <1>1 DEF Shape, Waiters
  <2>3. CASE t = tenant
    <3>1. r \notin Holders(tenant) /\ IsFiniteSet(Holders(tenant))
          /\ permits[tenant] + Cardinality(Holders(tenant)) = MaxConcurrent
      BY <1>1 DEF Holders, Holding, PermitInv, PermitsFit
    <3>2. /\ IsFiniteSet(Holders(tenant) \cup {r})
          /\ Cardinality(Holders(tenant) \cup {r}) = Cardinality(Holders(tenant)) + 1
      BY <3>1, FS_AddElement
    <3>3. Cardinality(Holders(tenant)) \in Nat /\ permits[tenant] \in Nat
      BY <1>1, <3>1, FS_CardinalityType DEF PermitInv
    <3>4. permits'[tenant] = permits[tenant] - 1
      BY <1>1 DEF PermitInv
    <3>5. permits'[tenant] + (Cardinality(Holders(tenant)) + 1) = MaxConcurrent
      BY <3>1, <3>3, <3>4
    <3>6. QED
      BY <1>4, <2>1, <2>2, <2>3, <3>2, <3>5 DEF PermitsFit
  <2>4. CASE t # tenant
    BY <1>5, <2>1, <2>2, <2>4 DEF PermitInv, PermitsFit
  <2>5. QED
    BY <2>3, <2>4
<1>8. QED
  BY <1>6, <1>7 DEF PermitInv

(* Whatever stops a handler gives back its permit or its place.            *)
LEMMA PermitsOnStop ==
  ASSUME Shape, PermitInv, NEW r \in Requests, HandlerStops(r)
  PROVE  PermitInv'
<1> DEFINE tenant == Tenant[r]
<1>1. /\ tenant \in Tenants
      /\ pc' = [pc EXCEPT ![r] = "over"]
      /\ queue' = [queue EXCEPT ![tenant] = RemoveFirst(queue[tenant], r)]
      /\ permits' = IF pc[r] \in Holding
                    THEN [permits EXCEPT ![tenant] = permits[tenant] + 1] ELSE permits
  BY RequestAssumption DEF HandlerStops
<1>2. queue[tenant] \in Seq(Requests) /\ Distinct(queue[tenant])
      /\ ToSet(queue[tenant]) = Waiters(tenant)
  BY <1>1 DEF PermitInv, PermitsFit
<1>3. /\ queue'[tenant] \in Seq(Requests) /\ Distinct(queue'[tenant])
      /\ ToSet(queue'[tenant]) = Waiters(tenant) \ {r}
  <2>1. queue'[tenant] = RemoveFirst(queue[tenant], r)
    BY <1>1 DEF PermitInv
  <2>2. QED
    BY <1>2, <2>1, DistinctRemoved
<1>4. \A t \in Tenants : t # tenant => queue'[t] = queue[t] /\ permits'[t] = permits[t]
  BY <1>1 DEF PermitInv
<1>5. queue' \in [Tenants -> Seq(Requests)] /\ permits' \in [Tenants -> Nat]
  <2>1. permits[tenant] + 1 \in Nat
    BY <1>1 DEF PermitInv
  <2>2. permits' \in [Tenants -> Nat]
    BY <1>1, <2>1 DEF PermitInv
  <2>3. RemoveFirst(queue[tenant], r) \in Seq(Requests)
    BY <1>2, DistinctRemoved
  <2>4. queue' \in [Tenants -> Seq(Requests)]
    BY <1>1, <2>3 DEF PermitInv
  <2>5. QED
    BY <2>2, <2>4
<1>6. ASSUME NEW t \in Tenants PROVE PermitsFit(t)'
  <2>1. Holders(t)' = Holders(t) \ {r}
    BY <1>1 DEF Shape, Holders, Holding
  <2>2. Waiters(t)' = Waiters(t) \ {r}
    BY <1>1 DEF Shape, Waiters
  <2>3. CASE t = tenant
    <3>1. /\ IsFiniteSet(Holders(tenant))
          /\ permits[tenant] + Cardinality(Holders(tenant)) = MaxConcurrent
          /\ permits[tenant] \in Nat
      BY <1>1 DEF PermitInv, PermitsFit
    <3>2. Cardinality(Holders(tenant)) \in Nat
      BY <3>1, FS_CardinalityType
    <3>3. /\ IsFiniteSet(Holders(tenant) \ {r})
          /\ Cardinality(Holders(tenant) \ {r}) =
               IF r \in Holders(tenant) THEN Cardinality(Holders(tenant)) - 1
               ELSE Cardinality(Holders(tenant))
      BY <3>1, FS_RemoveElement
    <3>4. r \in Holders(tenant) <=> pc[r] \in Holding
      BY DEF Holders
    <3>5. permits'[tenant] = IF pc[r] \in Holding THEN permits[tenant] + 1
                          ELSE permits[tenant]
      BY <1>1 DEF PermitInv
    <3>6. permits'[tenant] + Cardinality(Holders(tenant) \ {r}) = MaxConcurrent
      BY <3>1, <3>2, <3>3, <3>4, <3>5
    <3>7. QED
      BY <1>3, <2>1, <2>2, <2>3, <3>3, <3>6 DEF PermitsFit
  <2>4. CASE t # tenant
    <3>1. Holders(t)' = Holders(t) /\ Waiters(t)' = Waiters(t)
      BY <2>1, <2>2, <2>4 DEF Holders, Waiters
    <3>2. QED
      BY <1>4, <2>4, <3>1 DEF PermitInv, PermitsFit
  <2>5. QED
    BY <2>3, <2>4
<1>7. QED
  BY <1>5, <1>6 DEF PermitInv

(* At the start all permits are there and nobody waits.                    *)
LEMMA PermitsStart == Init => PermitInv
<1> SUFFICES ASSUME Init PROVE PermitInv
  OBVIOUS
<1>1. MaxConcurrent \in Nat
  BY BoundAssumption DEF MaxConcurrent
<1>2. ASSUME NEW t \in Tenants PROVE PermitsFit(t)
  <2>1. Holders(t) = {} /\ Waiters(t) = {}
    BY DEF Init, Holders, Waiters, Holding
  <2>2. queue[t] = <<>> /\ permits[t] = MaxConcurrent
    BY DEF Init
  <2>3. Distinct(queue[t]) /\ ToSet(queue[t]) = {}
    BY <2>2 DEF Distinct, ToSet
  <2>4. QED
    BY <1>1, <2>1, <2>2, <2>3, FS_EmptySet DEF PermitsFit
<1>3. QED
  BY <1>1, <1>2 DEF Init, PermitInv

(* Every step of the route keeps the permits adding up.                    *)
LEMMA PermitsKept ==
  ASSUME Shape, PermitInv, [Next]_vars
  PROVE  PermitInv'
<1>1. ASSUME NEW r \in Requests, Step(r) PROVE PermitInv'
  <2>1. CASE AgentArrives(r)
    BY <2>1, PermitsOnArrival
  <2>2. CASE TurnStarts(r)
    BY <2>2, PermitsOnStart
  <2>3. CASE HandlerStops(r)
    BY <2>3, PermitsOnStop
  <2>4. CASE FastArrives(r) \/ CallTool(r) \/ ToolReturns(r) \/ TurnStepsAside(r)
    <3>1. /\ UNCHANGED semaphore
          /\ \A x \in Requests : /\ pc'[x] \in Holding <=> pc[x] \in Holding
                                 /\ pc'[x] = "waiting" <=> pc[x] = "waiting"
      BY <2>4 DEF FastArrives, CallTool, ToolReturns, TurnStepsAside,
         semaphore, Shape, Holding
    <3>2. QED
      BY <3>1, PermitsAlone
  <2>5. CASE PipelineStarts(r) \/ PipelineEnds(r)
             \/ (RequestTimesOut(r) /\ ~HandlerStops(r))
    <3>1. UNCHANGED <<semaphore, pc>>
      BY <2>5 DEF PipelineStarts, PipelineEnds, RequestTimesOut
    <3>2. QED
      BY <3>1, PermitsAlone
  <2>6. QED
    BY <1>1, <2>1, <2>2, <2>3, <2>4, <2>5
       DEF Step, TurnAnswers, TurnRaises, ThreadReturns
<1>2. CASE \/ \E v \in Versions : Promote(v)
           \/ \E k \in Keys : Expire(k)
           \/ UNCHANGED vars
  <2>1. UNCHANGED <<semaphore, pc>>
    BY <1>2 DEF Promote, Expire, vars
  <2>2. QED
    BY <2>1, PermitsAlone
<1>3. QED
  BY <1>1, <1>2 DEF Next

(* What it says of the permits.                                            *)
LEMMA PermitsAddUp == PermitInv => PermitsConserved
<1> SUFFICES ASSUME PermitInv, NEW t \in Tenants
             PROVE  LET mine == {r \in Requests : Tenant[r] = t}
                    IN /\ permits[t] + Cardinality({r \in mine : pc[r] \in Holding})
                            = MaxConcurrent
                       /\ ToSet(queue[t]) = {r \in mine : pc[r] = "waiting"}
                       /\ Len(queue[t]) = Cardinality(ToSet(queue[t]))
  BY DEF PermitsConserved
<1> DEFINE mine == {r \in Requests : Tenant[r] = t}
<1>1. /\ {r \in mine : pc[r] \in Holding} = Holders(t)
      /\ {r \in mine : pc[r] = "waiting"} = Waiters(t)
  BY DEF Holders, Waiters
<1>2. PermitsFit(t) /\ queue[t] \in Seq(Requests)
  BY DEF PermitInv
<1>3. Len(queue[t]) = Cardinality(ToSet(queue[t]))
  BY <1>2, DistinctCount DEF PermitsFit
<1>4. QED
  BY <1>1, <1>2, <1>3 DEF PermitsFit

(* Whatever ends a request and wherever it is then, its permit comes back  *)
(* exactly once and its place in the queue is given up (query.py:146,      *)
(* agent_semaphore_for in api/deps.py).                                    *)
THEOREM PermitsComeBack == Spec => []PermitsConserved
<1>1. RouteInv /\ PermitInv /\ [Next]_vars => PermitInv'
  BY PermitsKept DEF RouteInv
<1>2. QED
  BY <1>1, PermitsStart, PermitsAddUp, RouteInvariant, PTL DEF Spec

-----------------------------------------------------------------------------
(***************************************************************************)
(* The replica.                                                            *)
(***************************************************************************)
(***************************************************************************)
(* The inductive invariant, beside that of the route.                      *)
(***************************************************************************)
(* A replica that is up passed validation and runs what it was wired to.   *)
WiringInv ==
  phase = "up" => Accepted(settings) /\ wiring = build_state(settings)

(* A request whose window has opened was admitted by the authenticator the *)
(* replica runs, as its scope: what it presented stays what it presented.  *)
AdmissionFits(r) ==
  /\ pc[r] = "new" => window[r] = {}
  /\ window[r] # {} => /\ phase = "up"
                       /\ presented[r] \in Credentials
                       /\ Admitted(r, presented[r])

AdmissionInv ==
  /\ presented \in [Requests -> Credentials \cup {Nothing}]
  /\ \A r \in Requests : AdmissionFits(r)

ReplicaInv == PlanInv /\ WiringInv /\ AdmissionInv

ServingInv == RouteInv /\ PermitInv /\ ReplicaInv

(***************************************************************************)
(* The route within the replica.                                           *)
(***************************************************************************)

(* Every step of a replica is a step of the route, or none of it, or turns *)
(* a request away before its handler runs.                                 *)
LEMMA ReplicaStepsAreTheRoutes ==
  ASSUME PlanInv, [ServingNext]_serving
  PROVE  \/ [Next]_vars
         \/ \E r \in Requests, cred \in Credentials : Unauthorized(r, cred)
<1>1. CASE Boot \/ ProbeResolves \/ ProbeCounts \/ UNCHANGED serving
  BY <1>1 DEF Boot, ProbeResolves, ProbeCounts, serving
<1>2. ASSUME NEW r \in Requests, NEW cred \in Credentials, Query(r, cred)
      PROVE  Next \/ Unauthorized(r, cred)
  BY <1>2 DEF Query, Next, Step
<1>3. ASSUME NEW r \in Requests, Handle(r) PROVE Next
  BY <1>3 DEF Handle, Next
<1>4. CASE Job
  <2>1. CASE published' \in {published, alias}
    BY <1>4, <2>1 DEF Job
  <2>2. CASE published' \notin {published, alias}
    <3>1. published' \in Versions
      BY <1>4, <2>2, JobPublishesVersion DEF Job
    <3>2. Promote(published')
      BY <1>4, <2>2 DEF Job
    <3>3. QED
      BY <3>1, <3>2 DEF Next
  <2>3. QED
    BY <2>1, <2>2
<1>5. ASSUME NEW k \in Keys, Expire(k) PROVE Next
  BY <1>5 DEF Next
<1>6. QED
  BY <1>1, <1>2, <1>3, <1>4, <1>5 DEF ServingNext

(* Turning a request away keeps what the route promises.                   *)
LEMMA UnauthorizedFits ==
  ASSUME RouteInv, PermitInv, NEW r \in Requests, NEW cred,
         Unauthorized(r, cred)
  PROVE  RouteInv' /\ PermitInv'
<1>1. /\ pc[r] = "new" /\ pc' = [pc EXCEPT ![r] = "over"]
      /\ UNCHANGED <<index, cache, semaphore, key, agent, thread, reply, window>>
  BY DEF Unauthorized
<1>2. /\ UNCHANGED <<alias, turn, evidence, took>>
      /\ UNCHANGED <<cache, semaphore, key, thread, reply, window>>
  BY <1>1 DEF index, agent
<1>3. Shape' /\ CacheFits'
  BY <1>1, <1>2, CacheKept DEF RouteInv, Shape, Pcs
<1>4. RequestFits(r)'
  <2>1. RequestFits(r) /\ pc'[r] = "over" /\ evidence[r] = {}
    BY <1>1 DEF RouteInv, Shape, RequestFits, TurnFits, Holding
  <2>2. ReplyFits(r)'
    BY <1>2, <2>1 DEF RequestFits, ReplyFits
  <2>3. QED
    BY <1>2, <2>1, <2>2, OverFits
<1>5. ASSUME NEW x \in Requests, x # r PROVE RequestFits(x)'
  BY <1>1, <1>2, <1>5, OthersFit DEF RouteInv, Shape
<1>6. PermitInv'
  <2>1. \A x \in Requests : /\ pc'[x] \in Holding <=> pc[x] \in Holding
                            /\ pc'[x] = "waiting" <=> pc[x] = "waiting"
    BY <1>1 DEF RouteInv, Shape, Holding
  <2>2. QED
    BY <1>2, <2>1, PermitsAlone
<1>7. QED
  BY <1>3, <1>4, <1>5, <1>6 DEF RouteInv

(* So the route keeps its promises in every step of a replica.             *)
LEMMA RouteKept ==
  ASSUME RouteInv, PermitInv, PlanInv, [ServingNext]_serving
  PROVE  RouteInv' /\ PermitInv'
<1>1. CASE [Next]_vars
  BY <1>1, NextFits, PermitsKept DEF RouteInv
<1>2. CASE \E r \in Requests, cred \in Credentials : Unauthorized(r, cred)
  BY <1>2, UnauthorizedFits
<1>3. QED
  BY <1>1, <1>2, ReplicaStepsAreTheRoutes

(***************************************************************************)
(* Admission.                                                              *)
(***************************************************************************)

(* What a request presents is not nothing.                                 *)
LEMMA NothingIsNoCredential == Nothing \notin Credentials
<1> SUFFICES ASSUME Nothing \in Credentials PROVE FALSE
  OBVIOUS
<1>1. DOMAIN Nothing = {"nothing"}
  BY DEF Nothing
<1>2. "token" \in DOMAIN Nothing
  BY DEF Credentials
<1>3. QED
  BY <1>1, <1>2

(* A request that the route handles neither becomes new nor opens its      *)
(* window again.                                                           *)
LEMMA HandlingKeepsWindows ==
  ASSUME RouteInv, NEW r \in Requests, Step(r), pc[r] # "new"
  PROVE  /\ window' = window
         /\ \A x \in Requests : pc'[x] = "new" => pc[x] = "new"
<1>1. pc \in [Requests -> Pcs]
  BY DEF RouteInv, Shape
<1>2. ~AgentArrives(r) /\ ~FastArrives(r)
  BY DEF AgentArrives, FastArrives
<1>3. window' = window
  BY <1>2 DEF Step, TurnStarts, CallTool, ToolReturns, TurnAnswers,
              TurnStepsAside, TurnRaises, PipelineStarts, PipelineEnds,
              ThreadReturns, RequestTimesOut
<1>4. \/ pc' = pc
      \/ \E at \in {"turn", "retrieving", "over", "fallback"} :
           pc' = [pc EXCEPT ![r] = at]
  BY <1>2 DEF Step, TurnStarts, CallTool, ToolReturns, TurnAnswers,
              TurnStepsAside, TurnRaises, PipelineStarts, PipelineEnds,
              ThreadReturns, RequestTimesOut, HandlerStops
<1>5. QED
  BY <1>1, <1>3, <1>4

(* A query is somebody's whose credentials the authenticator takes for the *)
(* request's scope, or is over at once.                                    *)
LEMMA QueryAdmits ==
  ASSUME RouteInv, ReplicaInv, NEW r \in Requests, NEW cred \in Credentials,
         Query(r, cred)
  PROVE  ReplicaInv'
<1>1. /\ phase = "up" /\ presented[r] = Nothing
      /\ presented' = [presented EXCEPT ![r] = cred]
      /\ UNCHANGED <<deployment, plan, stage, phase, wiring>>
  BY DEF Query, Presents, offlineVars
<1>2. /\ presented \in [Requests -> Credentials \cup {Nothing}]
      /\ \A x \in Requests : AdmissionFits(x)
  BY DEF ReplicaInv, AdmissionInv
<1>3. PlanInv' /\ WiringInv'
  BY <1>1 DEF ReplicaInv, PlanInv, WiringInv, settings
<1>4. presented' \in [Requests -> Credentials \cup {Nothing}]
  BY <1>1, <1>2
<1>5. window[r] = {}
  BY <1>1, <1>2, NothingIsNoCredential DEF AdmissionFits
<1>6. AdmissionFits(r)'
  <2>1. presented'[r] = cred
    BY <1>1, <1>2
  <2>2. CASE Unauthorized(r, cred)
    <3>1. window'[r] = {}
      BY <1>5, <2>2 DEF Unauthorized
    <3>2. QED
      BY <3>1 DEF AdmissionFits
  <2>3. CASE Admitted(r, cred) /\ (AgentArrives(r) \/ FastArrives(r))
    <3>1. pc'[r] # "new"
      BY <2>3 DEF AgentArrives, FastArrives, RouteInv, Shape
    <3>2. QED
      BY <1>1, <2>1, <2>3, <3>1 DEF AdmissionFits, Admitted
  <2>4. QED
    BY <2>2, <2>3 DEF Query
<1>7. ASSUME NEW x \in Requests, x # r PROVE AdmissionFits(x)'
  <2>1. presented'[x] = presented[x]
    BY <1>1, <1>2, <1>7
  <2>2. window'[x] = window[x] /\ pc'[x] = pc[x]
    BY <1>7 DEF Query, Unauthorized, AgentArrives, FastArrives, RouteInv, Shape
  <2>3. QED
    BY <1>1, <1>2, <2>1, <2>2 DEF AdmissionFits, Admitted
<1>8. QED
  BY <1>3, <1>4, <1>6, <1>7 DEF ReplicaInv, AdmissionInv

(* A step that leaves the replica's own state and the deployment alone,    *)
(* opens no window that was empty, and makes no request new.               *)
LEMMA AdmissionKept ==
  ASSUME AdmissionInv, UNCHANGED replica,
         \A x \in Requests : /\ pc'[x] = "new" => pc[x] = "new"
                             /\ pc'[x] = "new" => window'[x] = window[x]
                             /\ window[x] = {} => window'[x] = {}
  PROVE  AdmissionInv'
<1>1. UNCHANGED <<phase, wiring, presented>>
  BY DEF replica
<1>2. ASSUME NEW x \in Requests PROVE AdmissionFits(x)'
  BY <1>1 DEF AdmissionInv, AdmissionFits, Admitted
<1>3. QED
  BY <1>1, <1>2 DEF AdmissionInv

(* Every step keeps the replica as it was wired and whoever it serves      *)
(* admitted.                                                               *)
LEMMA ReplicaKept ==
  ASSUME RouteInv, ReplicaInv, [ServingNext]_serving
  PROVE  ReplicaInv'
<1>1. PlanInv /\ WiringInv /\ AdmissionInv
  BY DEF ReplicaInv
<1>2. CASE Boot
  <2>1. /\ phase = "starting" /\ UNCHANGED <<deployment, plan, stage>>
        /\ UNCHANGED <<pc, window, presented>>
        /\ phase' = "up" => Accepted(settings) /\ wiring' = build_state(settings)
    BY <1>2 DEF Boot, vars, offlineVars
  <2>2. PlanInv' /\ WiringInv'
    BY <1>1, <2>1 DEF PlanInv, WiringInv, settings
  <2>3. ASSUME NEW x \in Requests PROVE AdmissionFits(x)'
    <3>1. window[x] = {}
      BY <1>1, <2>1 DEF AdmissionInv, AdmissionFits
    <3>2. QED
      BY <2>1, <3>1 DEF AdmissionFits
  <2>4. QED
    BY <1>1, <2>1, <2>2, <2>3 DEF ReplicaInv, AdmissionInv
<1>3. ASSUME NEW r \in Requests, NEW cred \in Credentials, Query(r, cred)
      PROVE  ReplicaInv'
  BY <1>3, QueryAdmits
<1>4. ASSUME UNCHANGED <<deployment, plan, stage, replica>>,
             \A x \in Requests : /\ pc'[x] = "new" => pc[x] = "new"
                                 /\ pc'[x] = "new" => window'[x] = window[x]
                                 /\ window[x] = {} => window'[x] = {}
      PROVE  ReplicaInv'
  <2>1. PlanInv' /\ WiringInv'
    BY <1>1, <1>4 DEF PlanInv, WiringInv, settings, replica
  <2>2. QED
    BY <1>1, <1>4, <2>1, AdmissionKept DEF ReplicaInv
<1>5. ASSUME NEW r \in Requests, Handle(r) PROVE ReplicaInv'
  <2>1. UNCHANGED <<deployment, plan, stage, replica>>
    BY <1>5 DEF Handle, own, offlineVars
  <2>2. QED
    BY <1>4, <1>5, <2>1, HandlingKeepsWindows DEF Handle
<1>6. CASE ProbeResolves \/ ProbeCounts \/ UNCHANGED serving
           \/ \E k \in Keys : Expire(k) /\ UNCHANGED own
  <2>1. UNCHANGED <<deployment, plan, stage, replica, pc, window>>
    BY <1>6 DEF ProbeResolves, ProbeCounts, serving, Expire, own, vars,
                offlineVars
  <2>2. QED
    BY <1>4, <2>1
<1>7. CASE Job
  <2>1. PlanInv' /\ UNCHANGED deployment /\ UNCHANGED replica
    BY <1>1, <1>7, JobKeepsPlan DEF Job
  <2>2. WiringInv'
    BY <1>1, <2>1 DEF WiringInv, settings, replica
  <2>3. \A x \in Requests : /\ pc'[x] = pc[x]
                            /\ ~Open(x) => window'[x] = window[x]
                            /\ window[x] = {} => window'[x] = {}
    <3>1. CASE UNCHANGED vars
      BY <3>1 DEF vars
    <3>2. CASE Promote(published')
      <4>1. pc' = pc
            /\ window' = [r \in Requests |->
                            IF Open(r) THEN window[r] \cup {published'}
                                       ELSE window[r]]
        BY <3>2 DEF Promote
      <4>2. \A x \in Requests : Open(x) => alias \in window[x]
        BY DEF RouteInv, RequestFits, TurnFits
      <4>3. QED
        BY <4>1, <4>2
    <3>3. QED
      BY <1>7, <3>1, <3>2 DEF Job
  <2>4. AdmissionInv'
    BY <1>1, <2>1, <2>3, AdmissionKept DEF Open
  <2>5. QED
    BY <2>1, <2>2, <2>4 DEF ReplicaInv
<1>8. QED
  BY <1>2, <1>3, <1>5, <1>6, <1>7 DEF ServingNext

(***************************************************************************)
(* The invariant.                                                          *)
(***************************************************************************)

(* Nobody has asked anything of a replica that starts.                     *)
LEMMA ReplicaStarts == ServingInit => ServingInv
<1> SUFFICES ASSUME ServingInit PROVE ServingInv
  OBVIOUS
<1>1. RouteInv /\ PermitInv
  BY InitFits, PermitsStart DEF ServingInit
<1>2. PlanInv
  BY DeploymentAssumption DEF ServingInit, OfflineInit, PlanInv
<1>3. WiringInv
  BY DEF ServingInit, WiringInv
<1>4. AdmissionInv
  BY DEF ServingInit, Init, AdmissionInv, AdmissionFits
<1>5. QED
  BY <1>1, <1>2, <1>3, <1>4 DEF ServingInv, ReplicaInv

(* Whatever happens to a replica, its requests keep fitting its route, its *)
(* permits keep adding up, and whoever was let in was admitted.            *)
THEOREM ServingInvariant == ServingSpec => []ServingInv
<1>1. ServingInv /\ [ServingNext]_serving => ServingInv'
  BY RouteKept, ReplicaKept DEF ServingInv, ReplicaInv
<1>2. QED
  BY <1>1, ReplicaStarts, PTL DEF ServingSpec

(* What the route promises of replies, caches and permits it keeps within  *)
(* a replica, where callers are turned away before their handlers run and  *)
(* index jobs move the alias.                                              *)
THEOREM RoutePromisesHold ==
  ServingSpec => [](/\ RepliesForCaller /\ ReplayIsOwn
                    /\ CachesFaithful /\ PermitsConserved)
<1>1. ServingInv => /\ RepliesForCaller /\ ReplayIsOwn
                    /\ CachesFaithful /\ PermitsConserved
  BY FitIsInScope, FitIsOwn, FitIsFaithful, PermitsAddUp DEF ServingInv
<1>2. QED
  BY <1>1, ServingInvariant, PTL

(***************************************************************************)
(* Production.                                                             *)
(***************************************************************************)

(* Outside dev, what the validator accepts is wired without a stub or      *)
(* egress, and takes a caller for a principal only by a token of the file. *)
LEMMA AcceptedIsSafe ==
  ASSUME NEW s \in Settings, is_production(s), Accepted(s)
  PROVE  /\ build_state(s).pipeline.embedder.client # "hash"
         /\ build_state(s).pipeline.llm # "echo"
         /\ build_state(s).agent.chat # "echo" /\ ~build_state(s).agent.egress
         /\ \A cred \in Credentials, p \in Principals :
              authenticate(build_state(s).authenticator, cred) = p =>
                /\ s.auth_tokens_file /\ cred.token \in DOMAIN Tokens
                /\ p = Tokens[cred.token]
<1>1. /\ ~s.auth_trust_headers /\ s.auth_required
      /\ s.embedding_backend # "hash" /\ s.llm_backend # "echo"
      /\ s.agent_enabled => s.chat_llm_backend # "echo"
      /\ ~s.agent_allow_egress
  BY DEF Accepted, HasProblems
<1>2. /\ build_state(s).pipeline.embedder.client # "hash"
      /\ build_state(s).pipeline.llm # "echo"
      /\ build_state(s).agent.chat # "echo" /\ ~build_state(s).agent.egress
  BY <1>1 DEF build_state, from_settings, build_embedder, build_llm,
              build_agent_runtime, build_chat_llm
<1>3. build_state(s).authenticator
        = IF s.auth_tokens_file THEN "static_token" ELSE "deny_all"
  BY <1>1 DEF build_state, build_authenticator
<1>4. ASSUME NEW cred \in Credentials, NEW p \in Principals,
             authenticate(build_state(s).authenticator, cred) = p
      PROVE  /\ s.auth_tokens_file /\ cred.token \in DOMAIN Tokens
             /\ p = Tokens[cred.token]
  <2>1. p # Unauthenticated
    BY RefusalAssumption
  <2>2. s.auth_tokens_file
    BY <1>3, <1>4, <2>1 DEF authenticate
  <2>3. p = StaticToken(cred)
    BY <1>3, <1>4, <2>2 DEF authenticate
  <2>4. QED
    BY <2>1, <2>2, <2>3 DEF StaticToken
<1>5. QED
  BY <1>2, <1>4

(* In production nobody is answered but on a token of the file, and then   *)
(* with what was made for the tenant and groups it stands for; no stub and *)
(* no egress runs (settings.py _reject_unsafe_production_config,           *)
(* security/auth.py).                                                      *)
THEOREM ProductionStaysSafe == ServingSpec => []ProductionIsSafe
<1>1. ServingInv => ProductionIsSafe
  <2> SUFFICES ASSUME ServingInv, phase = "up", is_production(settings)
               PROVE  /\ wiring.pipeline.embedder.client # "hash"
                      /\ wiring.pipeline.llm # "echo"
                      /\ wiring.agent.chat # "echo" /\ ~wiring.agent.egress
                      /\ \A r \in Requests :
                           (presented[r] # Nothing /\ window[r] # {}) =>
                             /\ settings.auth_tokens_file
                             /\ presented[r].token \in DOMAIN Tokens
                             /\ reply[r].is = "answered" =>
                                  reply[r].entry.scope = Tokens[presented[r].token]
    BY DEF ProductionIsSafe
  <2>1. settings \in Settings
    BY DeploymentAssumption DEF ServingInv, ReplicaInv, PlanInv, settings
  <2>2. Accepted(settings) /\ wiring = build_state(settings)
    BY DEF ServingInv, ReplicaInv, WiringInv
  <2>3. ASSUME NEW r \in Requests, window[r] # {}
        PROVE  /\ settings.auth_tokens_file
               /\ presented[r].token \in DOMAIN Tokens
               /\ reply[r].is = "answered" =>
                    reply[r].entry.scope = Tokens[presented[r].token]
    <3>1. /\ presented[r] \in Credentials
          /\ authenticate(wiring.authenticator, presented[r]) = Scope[r]
      BY <2>3 DEF ServingInv, ReplicaInv, AdmissionInv, AdmissionFits, Admitted
    <3>2. Scope[r] \in Principals
      BY DeploymentAssumption
    <3>3. /\ settings.auth_tokens_file
          /\ presented[r].token \in DOMAIN Tokens
          /\ Scope[r] = Tokens[presented[r].token]
      BY <2>1, <2>2, <3>1, <3>2, AcceptedIsSafe
    <3>4. reply[r].is = "answered" => reply[r].entry.scope = Scope[r]
      BY DEF ServingInv, RouteInv, RequestFits, ReplyFits
    <3>5. QED
      BY <3>3, <3>4
  <2>4. QED
    BY <2>1, <2>2, <2>3, AcceptedIsSafe
<1>2. QED
  BY <1>1, ServingInvariant, PTL

(***************************************************************************)
(* Jobs and probes within the replica.                                     *)
(***************************************************************************)
(* A probe resolves what was published while it ran, and what says ready   *)
(* has found chunks of it.                                                 *)
ProbeInv ==
  /\ probe.at = "resolved" =>
       /\ phase = "up"
       /\ probe.version # NoVersion => probe.version \in seen
  /\ report = "ready" => phase = "up" /\ ~InMemory
  /\ (report = "ready" /\ probe.at = "idle") => seen \cap populated # {}

CorpusInv == PlanInv /\ JobInv /\ StoreInv /\ RanInv /\ ProbeInv

(* Whatever is none of a job's business leaves jobs and stores as they are.*)
LEMMA CorpusStays ==
  ASSUME CorpusInv, UNCHANGED offlineVars
  PROVE  PlanInv' /\ JobInv' /\ StoreInv' /\ RanInv'
<1>1. UNCHANGED <<deployment, plan, stage, docs, made, dense, lexical, published, ran>>
  BY DEF offlineVars, stores
<1>2. PlanInv'
  BY <1>1 DEF CorpusInv, PlanInv
<1>3. JobInv'
  <2>1. JobInv
    BY DEF CorpusInv
  <2>2. \A n \in 1..Len(docs) :
          /\ Fetched(docs[n]) => Fetched(docs[n])'
          /\ Usable(docs[n]) => Usable(docs[n])'
          /\ Chunkable(docs[n]) => Chunkable(docs[n])'
    BY <1>1 DEF Fetched, Shaped, Usable, Clean, Chunkable
  <2>3. AllChunked(docs, task.version)' = AllChunked(docs, task.version)
    BY <1>1 DEF AllChunked, Chunked, task
  <2>4. QED
    BY <1>1, <2>1, <2>2, <2>3 DEF JobInv, IsList
<1>4. StoreInv'
  BY <1>1 DEF CorpusInv, StoreInv, Clean
<1>5. RanInv'
  <2>1. CASE stage = "lexical"
    <3>1. Run(FALSE)' = Run(FALSE)
      BY <1>1 DEF Run, task
    <3>2. \A r \in ran : RunFits(r)'
      BY <1>1, RunsFitStill DEF CorpusInv
    <3>3. QED
      BY <1>1, <2>1, <3>1, <3>2 DEF CorpusInv, RanInv
  <2>2. CASE stage # "lexical"
    BY <1>1, <2>2, RunsStay DEF CorpusInv
  <2>3. QED
    BY <2>1, <2>2
<1>6. QED
  BY <1>2, <1>3, <1>4, <1>5

(* Neither does it change what a probe that is done has found.             *)
LEMMA ProbeStays ==
  ASSUME ProbeInv, UNCHANGED <<phase, wiring, probe, report>>,
         seen \subseteq seen', populated \subseteq populated'
  PROVE  ProbeInv'
BY DEF ProbeInv, InMemory

(* Every step of a replica and of the jobs beside it keeps the account of  *)
(* the corpus and of the probe.                                            *)
LEMMA CorpusKept ==
  ASSUME CorpusInv, [ServingNext]_serving
  PROVE  CorpusInv'
<1>1. PlanInv /\ JobInv /\ StoreInv /\ RanInv /\ ProbeInv
  BY DEF CorpusInv
<1>2. CASE Job
  <2>1. PlanInv' /\ JobInv' /\ StoreInv' /\ RanInv'
    BY <1>1, <1>2, JobKeepsPlan, JobKept, StoreKept, RanKept DEF Job
  <2>2. \A v \in Versions : dense[v] # {} => dense'[v] # {}
    BY <1>1, <1>2, StoreKept DEF Job
  <2>3. /\ populated \subseteq populated' /\ seen \subseteq seen'
        /\ UNCHANGED <<phase, wiring, probe, report>>
    BY <1>2, <2>2 DEF Job, populated, replica
  <2>4. QED
    BY <1>1, <2>1, <2>3, ProbeStays DEF CorpusInv
<1>3. ASSUME UNCHANGED offlineVars
      PROVE  /\ PlanInv' /\ JobInv' /\ StoreInv' /\ RanInv'
             /\ UNCHANGED <<populated, settings, published>>
  <2>1. UNCHANGED <<dense, deployment, published>>
    BY <1>3 DEF offlineVars, stores
  <2>2. QED
    BY <1>3, <2>1, CorpusStays DEF populated, settings
<1>4. CASE UNCHANGED <<offlineVars, phase, wiring, health>>
  <2>1. UNCHANGED <<phase, wiring, probe, report, seen>>
    BY <1>4 DEF health
  <2>2. QED
    BY <1>1, <1>3, <1>4, <2>1, ProbeStays DEF CorpusInv
<1>5. CASE Boot
  <2>1. /\ UNCHANGED <<offlineVars, probe, report, seen>> /\ phase = "starting"
    BY <1>5 DEF Boot, health
  <2>2. ProbeInv'
    BY <1>1, <1>3, <2>1 DEF ProbeInv
  <2>3. QED
    BY <1>3, <2>1, <2>2 DEF CorpusInv
<1>6. CASE ProbeResolves
  <2>1. /\ UNCHANGED <<offlineVars, phase, wiring, report>> /\ phase = "up"
        /\ seen' = {published} /\ probe'.at = "resolved"
        /\ probe'.version \in {published, NoVersion}
    BY <1>6 DEF ProbeResolves, Resolvable, replica
  <2>2. ProbeInv'
    BY <1>1, <2>1 DEF ProbeInv, InMemory
  <2>3. QED
    BY <1>3, <2>1, <2>2 DEF CorpusInv
<1>7. CASE ProbeCounts
  <2>1. /\ UNCHANGED <<offlineVars, phase, wiring, seen>>
        /\ probe.at = "resolved" /\ probe'.at = "idle"
    BY <1>7 DEF ProbeCounts, replica, IdleProbe
  <2>2. report' = "ready" => probe.version # NoVersion /\ Counted(probe.version) > 0
    BY <1>7 DEF ProbeCounts
  <2>3. report' = "ready" => ~InMemory /\ probe.version \in populated
    <3>1. ASSUME report' = "ready" PROVE ~InMemory /\ probe.version \in populated
      <4>1. probe.version # NoVersion /\ Counted(probe.version) > 0
        BY <2>2, <3>1
      <4>2. Counted(probe.version)
              = IF ~InMemory /\ probe.version \in populated THEN 1 ELSE 0
        BY <4>1 DEF Counted
      <4>3. QED
        BY <4>1, <4>2
    <3>2. QED
      BY <3>1
  <2>4. ProbeInv'
    BY <1>1, <1>3, <2>1, <2>2, <2>3 DEF ProbeInv, InMemory
  <2>5. QED
    BY <1>3, <2>1, <2>4 DEF CorpusInv
<1>8. ASSUME NEW r \in Requests, NEW cred \in Credentials, Query(r, cred)
      PROVE  UNCHANGED <<offlineVars, phase, wiring, health>>
  BY <1>8 DEF Query, Presents
<1>9. ASSUME UNCHANGED own PROVE UNCHANGED <<offlineVars, phase, wiring, health>>
  BY <1>9 DEF own, replica
<1>10. UNCHANGED serving => UNCHANGED own
  BY DEF serving
<1>11. QED
  BY <1>2, <1>4, <1>5, <1>6, <1>7, <1>8, <1>9, <1>10 DEF ServingNext, Handle

(* A replica starts beside what was there before the plan.                 *)
LEMMA CorpusStarts == ServingInit => CorpusInv
<1> SUFFICES ASSUME ServingInit PROVE CorpusInv
  OBVIOUS
<1>1. PlanInv /\ JobInv /\ StoreInv /\ RanInv
  BY OfflineStarts DEF ServingInit
<1>2. ProbeInv
  BY DEF ServingInit, ProbeInv, IdleProbe
<1>3. QED
  BY <1>1, <1>2 DEF CorpusInv

(* Whatever jobs the plan holds, and wherever they fail, a running job's   *)
(* chunks are those of its documents, the stores hold what the runs wrote  *)
(* of documents whose names are their own, redacted where documents are,   *)
(* and a probe that found chunks found them in a version published while   *)
(* it ran.                                                                 *)
THEOREM CorpusInvariant == ServingSpec => []CorpusInv
<1>1. CorpusInv /\ [ServingNext]_serving => CorpusInv'
  BY CorpusKept
<1>2. QED
  BY <1>1, CorpusStarts, PTL DEF ServingSpec

(* A chunk is what its span says of its document's text and fits the size  *)
(* configured for its type, whatever the chunker and whatever the text     *)
(* (chunking/*.py, chunking/base.py make_chunk).                           *)
THEOREM ChunksStayExcerpts == ServingSpec => []ChunksAreExcerpts
<1>1. CorpusInv => ChunksAreExcerpts
  BY JobMakesExcerpts DEF CorpusInv
<1>2. QED
  BY <1>1, CorpusInvariant, PTL

(* After runs that wrote both stores, in whatever order and with whatever  *)
(* failures between them, no letter of a document whose name is its own is *)
(* lost (offline.py run, schemas/chunk.py derive_chunk_id, the upserts).   *)
THEOREM LettersStayIndexed == ServingSpec => []EveryLetterIndexed
<1>1. CorpusInv => EveryLetterIndexed
  BY RunsAreIndexed DEF CorpusInv
<1>2. QED
  BY <1>1, CorpusInvariant, PTL

(* Nothing that redact_pii finds is ever embedded or stored, whichever     *)
(* parser its text came from (offline.py:137).                             *)
THEOREM NothingPersonalIsStored == ServingSpec => []NothingPersonalLeaves
<1>1. CorpusInv => NothingPersonalLeaves
  BY CleanIsNotPersonal DEF CorpusInv
<1>2. QED
  BY <1>1, CorpusInvariant, PTL

(* A replica that says it is ready has found chunks of a version published *)
(* while the probe ran, in a store as wide as its queries' vectors,        *)
(* whatever jobs published between the probe's two calls (online.py        *)
(* readiness, backends.py _vector_dimensions).                             *)
THEOREM ReadyStaysQueryable == ServingSpec => []ReadyIsQueryable
<1>1. ServingInv /\ CorpusInv => ReadyIsQueryable
  <2> SUFFICES ASSUME ServingInv, CorpusInv, report = "ready", probe.at = "idle"
               PROVE  /\ seen \cap populated # {}
                      /\ wiring.pipeline.vector.dimensions
                           = wiring.pipeline.embedder.dimensions
    BY DEF ReadyIsQueryable
  <2>1. seen \cap populated # {} /\ phase = "up" /\ ~InMemory
    BY DEF CorpusInv, ProbeInv
  <2>2. wiring = build_state(settings) /\ settings \in Settings
    BY <2>1, DeploymentAssumption
       DEF ServingInv, ReplicaInv, WiringInv, PlanInv, settings
  <2>3. settings.vector_backend = "qdrant"
    BY <2>1, <2>2 DEF InMemory, build_state, from_settings, build_vector_store, Settings
  <2>4. wiring.pipeline.vector.dimensions = wiring.pipeline.embedder.dimensions
    BY <2>2, <2>3 DEF build_state, from_settings, build_vector_store, build_embedder,
                      vector_dimensions
  <2>5. QED
    BY <2>1, <2>4
<1>2. QED
  BY <1>1, ServingInvariant, CorpusInvariant, PTL
=============================================================================
