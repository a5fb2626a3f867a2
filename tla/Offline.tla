------------------------------ MODULE Offline ------------------------------
(***************************************************************************)
(* The offline job: rag ingest, reindex, eval and activate, each a process *)
(* of its own that reads files, parses and chunks them and writes both     *)
(* stores of one index version.  An operator runs the commands of a plan   *)
(* one after another.  What jobs do to one another and to readers when     *)
(* they overlap or die is IndexLifecycle's subject, as is the registry     *)
(* file; this module is about what they make of the files.                 *)
(*                                                                         *)
(* A file is a path and a body: text, the pages of a PDF, or bytes of no   *)
(* use.  Personal stands for what redact_pii finds, Tag for a run of HTML  *)
(* markup.  Hashes do not collide: a chunk id is what it is derived from.  *)
(***************************************************************************)
EXTENDS Chunking, Wiring

CONSTANTS
  Targets,      (* index versions                                          *)
  Configured,   (* settings.index_version                                  *)
  HardTenant    (* ingestion.base.DEFAULT_ACL.tenant                       *)

VARIABLES
  deployment,   (* settings, chunking.yaml, the plan, what is indexed and  *)
                (* published before it, whether PII is redacted and        *)
                (* whether the pdf extra is installed                      *)
  plan,         (* commands still to run                                   *)
  stage,        (* where the running one is                                *)
  docs,         (* its documents: fetched, then parsed                     *)
  made,         (* its chunks                                              *)
  dense, lexical,  (* the chunks of each version in the two stores         *)
  published,    (* what the alias resolves to                              *)
  ran           (* history: runs that wrote the vector store, and of those *)
                (* the whole ones, that wrote both, with their documents   *)

Personal == "@"
Hidden == "*"
Tag == "<>"

settings == deployment.settings
task == Head(plan)
stores == <<dense, lexical>>
offlineVars == <<deployment, plan, stage, docs, made, stores, published, ran>>

Stages == {"idle", "parse", "chunk", "embed", "lexical", "publish"}

(***************************************************************************)
(* Commands.  jobs/cli.py: without a tenant or groups the documents get    *)
(* the connector's default tags; rag eval indexes its --index-source under *)
(* the configured version, for the default tenant, and publishes it.       *)
(***************************************************************************)
Indexing(source, version, tenant, groups, activate) ==
  [op |-> "index", source |-> source, version |-> version,
   tenant |-> tenant, groups |-> groups, activate |-> activate]

Ingest(source, version, tenant, groups, activate) ==
  Indexing(source, IF version = Absent THEN Configured ELSE version,
           tenant, groups, activate)

Eval(source) == Indexing(source, Configured, DefaultTenant, PublicGroups, TRUE)

Promotion(version) ==
  [op |-> "activate", source |-> <<>>, version |-> version,
   tenant |-> Absent, groups |-> Absent, activate |-> TRUE]

Acl(command) ==
  IF command.tenant = Absent /\ command.groups = Absent
  THEN [tenant |-> HardTenant, groups |-> PublicGroups]
  ELSE [tenant |-> Given(command.tenant, DefaultTenant),
        groups |-> Given(command.groups, PublicGroups)]

(***************************************************************************)
(* ingestion/local_fs.py.  A source lists its files in the order of their  *)
(* paths.  The document is named after the file, whatever its directory    *)
(* and suffix.                                                             *)
(***************************************************************************)
Listed(source) ==
  Picked(source, {n \in DOMAIN source :
                    <<source[n].stem, source[n].suffix>> \notin
                      {<<"README", ".md">>, <<".gitkeep", "">>}})

guess_mime(suffix) ==
  CASE suffix = ".txt" -> "text/plain"
    [] suffix = ".md" -> "text/markdown"
    [] suffix = ".pdf" -> "application/pdf"
    [] suffix = ".html" -> "text/html"
    [] suffix = ".json" -> "application/json"
    [] OTHER -> "application/octet-stream"

fetch(f, acl) ==
  [doc_id |-> f.stem, file |-> f, mime |-> guess_mime(f.suffix), acl |-> acl,
   decoded |-> f.body.is = "text",
   text |-> IF f.body.is = "text" THEN f.body.text ELSE <<>>]

(***************************************************************************)
(* parsing/ and security/pii.py                                            *)
(***************************************************************************)
(* Three line ends or more become two.                                     *)
CollapseBlankLines(text) ==
  Picked(text, {n \in DOMAIN text :
                  ~(n > 2 /\ \A m \in n - 2..n : text[m] = Newline)})

(* Markup and white space become single spaces.                            *)
StripMarkup(text) ==
  LET gap(c) == White(c) \/ c = Tag
      plain == [n \in DOMAIN text |-> IF gap(text[n]) THEN Space ELSE text[n]]
  IN Strip(Picked(plain, {n \in DOMAIN text :
                            ~(n > 1 /\ gap(text[n]) /\ gap(text[n - 1]))}))

(* Pages with text, a blank line between them.                             *)
JoinPages(pages) ==
  LET stripped == [n \in DOMAIN pages |-> Strip(pages[n])]
      kept == Picked(stripped, {n \in DOMAIN pages : stripped[n] # <<>>})
  IN FlattenSeq([n \in DOMAIN kept |-> IF n = 1 THEN kept[n]
                                       ELSE <<Newline, Newline>> \o kept[n]])

(* A PDF is read again, from its path.  Without the extra, or when its     *)
(* bytes are no PDF, what is raised is no KeyError or ValueError.          *)
Aborts(doc) ==
  /\ doc.mime = "application/pdf"
  /\ ~deployment.pdf_extra \/ doc.file.body.is # "pages"

(* No parser for its type, or no text: the document is skipped.            *)
Skips(doc) == \/ doc.mime = "application/octet-stream"
              \/ doc.mime # "application/pdf" /\ ~doc.decoded

Parsed(doc) ==
  CASE doc.mime = "text/markdown" -> CollapseBlankLines(Strip(doc.text))
    [] doc.mime = "text/html" -> StripMarkup(doc.text)
    [] doc.mime = "application/pdf" -> JoinPages(doc.file.body.pages)
    [] OTHER -> Strip(doc.text)

(* Mutated form: the text redacted as it was fetched.                      *)
RedactedThenParsed(doc) ==
  [doc EXCEPT !.text =
     Parsed([doc EXCEPT !.text = [n \in DOMAIN doc.text |->
               IF doc.text[n] = Personal THEN Hidden ELSE doc.text[n]]])]

redact_pii(text) ==
  [n \in DOMAIN text |-> IF text[n] = Personal THEN Hidden ELSE text[n]]

(* The text of a PDF is only there to redact once it is parsed.            *)
ParsedAndRedacted(doc) ==
  [doc EXCEPT !.text = IF deployment.redact THEN redact_pii(Parsed(doc))
                                            ELSE Parsed(doc)]

(***************************************************************************)
(* Chunks.                                                                 *)
(***************************************************************************)
derive_chunk_id(doc_id, ordinal, version) == <<doc_id, ordinal, version>>

Chunked(doc, version) ==
  LET pieces == chunk_document(doc.text, doc.mime, deployment.chunking[doc.mime])
  IN [n \in DOMAIN pieces |->
        [id |-> derive_chunk_id(doc.doc_id, n - 1, version),
         file |-> doc.file, acl |-> doc.acl, text |-> pieces[n].text,
         start |-> pieces[n].start, end |-> pieces[n].end]]

(* The store overwrites by id; of equal ids in a batch the last stays.     *)
Upserted(store, chunks) ==
  {c \in store : \A n \in DOMAIN chunks : chunks[n].id # c.id}
  \cup {chunks[n] : n \in {k \in DOMAIN chunks :
          \A later \in DOMAIN chunks : later > k => chunks[later].id # chunks[k].id}}

-----------------------------------------------------------------------------
(***************************************************************************)
(* The running command.                                                    *)
(***************************************************************************)
Idle == stage = "idle" /\ plan # <<>>

(* The process ends, well or not; its plan goes on.                        *)
Ends ==
  /\ plan' = Tail(plan) /\ stage' = "idle"
  /\ docs' = <<>> /\ made' = <<>>

Fails == Ends /\ UNCHANGED <<deployment, stores, published, ran>>

(* The settings of a job are validated like those of a replica.            *)
Refused == Idle /\ ~Accepted(settings) /\ Fails

(* OfflinePipeline.run: list and fetch.  Any read may fail.                *)
IngestStage ==
  /\ Idle /\ Accepted(settings) /\ task.op = "index"
  /\ \/ Fails
     \/ /\ docs' = [n \in DOMAIN Listed(task.source) |->
                      fetch(Listed(task.source)[n], Acl(task))]
        /\ stage' = "parse"
        /\ UNCHANGED <<deployment, plan, made, stores, published, ran>>

ParseStage ==
  /\ stage = "parse"
  /\ IF \E n \in DOMAIN docs : Aborts(docs[n]) THEN Fails
     ELSE LET usable == Picked(docs, {n \in DOMAIN docs : ~Skips(docs[n])})
          IN /\ docs' = [n \in DOMAIN usable |-> ParsedAndRedacted(usable[n])]
             /\ stage' = "chunk"
             /\ UNCHANGED <<deployment, plan, made, stores, published, ran>>

(* A document whose type has an impossible size ends the run.  Without a   *)
(* chunk there is nothing to write or to publish.                          *)
ChunkStage ==
  /\ stage = "chunk"
  /\ IF \E n \in DOMAIN docs : Rejected(deployment.chunking[docs[n].mime]) THEN Fails
     ELSE LET chunks == FlattenSeq([n \in DOMAIN docs |->
                                      Chunked(docs[n], task.version)])
          IN IF chunks = <<>>
             THEN Ends /\ UNCHANGED <<deployment, stores, published, ran>>
             ELSE /\ made' = chunks /\ stage' = "embed"
                  /\ UNCHANGED <<deployment, plan, docs, stores, published, ran>>

(* A store in memory is gone with the process.                             *)
Wrote(store, backend) ==
  IF backend = "memory" THEN store
  ELSE [store EXCEPT ![task.version] = Upserted(@, made)]

Run(whole) == [version |-> task.version, docs |-> docs, whole |-> whole]

(* _embed_and_index: the embedder may fail, and so may either store.       *)
EmbedAndUpsert ==
  /\ stage = "embed"
  /\ \/ Fails
     \/ /\ dense' = Wrote(dense, settings.vector_backend)
        /\ ran' = ran \cup {Run(FALSE)}
        /\ stage' = "lexical"
        /\ UNCHANGED <<deployment, plan, docs, made, lexical, published>>

UpsertLexical ==
  /\ stage = "lexical"
  /\ \/ Fails
     \/ /\ lexical' = Wrote(lexical, settings.lexical_backend)
        /\ ran' = ran \cup {Run(TRUE)}
        /\ IF task.activate
           THEN stage' = "publish" /\ UNCHANGED <<plan, docs, made>>
           ELSE Ends
        /\ UNCHANGED <<deployment, dense, published>>

(* activate: run's last stage, or the command of that name, which does not *)
(* ask whether the version was built.                                      *)
Publish ==
  /\ \/ stage = "publish"
     \/ Idle /\ Accepted(settings) /\ task.op = "activate"
  /\ \/ Fails
     \/ /\ published' = IF settings.vector_backend = "memory" THEN published
                        ELSE task.version
        /\ Ends
        /\ UNCHANGED <<deployment, stores, ran>>

OfflineInit ==
  /\ plan = deployment.plan
  /\ stage = "idle" /\ docs = <<>> /\ made = <<>>
  /\ dense = [v \in Targets |-> IF v = deployment.live THEN deployment.indexed
                                ELSE {}]
  /\ lexical = dense
  /\ published = deployment.live /\ ran = {}

OfflineNext ==
  \/ Refused \/ IngestStage \/ ParseStage \/ ChunkStage
  \/ EmbedAndUpsert \/ UpsertLexical \/ Publish

(***************************************************************************)
(* Properties.                                                             *)
(***************************************************************************)
Covers(chunk, doc, n) == /\ chunk.file = doc.file /\ chunk.acl = doc.acl
                         /\ chunk.start < n /\ n <= chunk.end

Searchable(doc, v) ==
  \A n \in Letters(doc.text) :
    /\ settings.vector_backend # "memory" => \E c \in dense[v] : Covers(c, doc, n)
    /\ settings.lexical_backend # "memory" => \E c \in lexical[v] : Covers(c, doc, n)

DocsOf(r) == {r.docs[n] : n \in DOMAIN r.docs}
Namesakes(doc, v) ==
  {other \in UNION {DocsOf(r) : r \in {q \in ran : q.version = v}} :
     other.doc_id = doc.doc_id /\ other # doc}

(* After a run that ended well no letter of any document it parsed is lost:*)
(* each is in a chunk of that document, under the tags the run gave it, in *)
(* both stores, if no other document of the version has its name           *)
(* (chunking/*.py, schemas/chunk.py derive_chunk_id, the two upserts).     *)
EveryLetterIndexed ==
  \A r \in ran : \A doc \in DocsOf(r) :
    (r.whole /\ Namesakes(doc, r.version) = {}) => Searchable(doc, r.version)

(* docs/operations.md:100 has a mixed corpus ingested one run per          *)
(* permission set into the same version: every run's documents are then    *)
(* searchable for their audience.                                          *)
EveryRunIsIndexed ==
  \A r \in ran : r.whole =>
    \A doc \in DocsOf(r) : Searchable(doc, r.version)

(* A chunk is what its span says of its document's text, no longer than    *)
(* the size configured for its type, with its separators counted.          *)
ChunksAreExcerpts ==
  \A n \in DOMAIN made :
    \E m \in DOMAIN docs :
      /\ docs[m].file = made[n].file
      /\ Len(made[n].text) <= deployment.chunking[docs[m].mime].size
      /\ made[n].end <= Len(docs[m].text)
      /\ Strip(Slice(docs[m].text, made[n].start, made[n].end))
           = Strip(made[n].text)

(* offline.py:137: PII is redacted before anything is embedded or stored,  *)
(* whichever parser the text comes from.                                   *)
NothingPersonalLeaves ==
  deployment.redact =>
    \A chunk \in {made[n] : n \in DOMAIN made} \cup
                 UNION {dense[v] \cup lexical[v] : v \in Targets} :
      Personal \notin {chunk.text[n] : n \in DOMAIN chunk.text}
=============================================================================
