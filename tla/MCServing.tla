----------------------------- MODULE MCServing -----------------------------
(* Small deployments of Serving.                                           *)
EXTENDS Serving, TLC

CONSTANTS q1, q2, q3, acme, umbra, staff, public, tokAna, tokBob

MCRequests == {q1, q2, q3}
Ana == [tenant |-> acme, groups |-> staff]
Bob == [tenant |-> umbra, groups |-> public]
MCPrincipals == [tenant: {acme, umbra}, groups: {staff, public}]
MCTokens == tokAna :> Ana @@ tokBob :> Bob
MCScope == q1 :> Ana @@ q2 :> Ana @@ q3 :> Bob
MCTenant == [r \in Requests |-> MCScope[r].tenant]

Sane == [env |-> "production", auth_required |-> TRUE,
         auth_trust_headers |-> FALSE, auth_tokens_file |-> TRUE,
         agent_enabled |-> TRUE, agent_allow_egress |-> FALSE,
         vector_backend |-> "qdrant", lexical_backend |-> "opensearch",
         embedding_backend |-> "openai", llm_backend |-> "openai",
         chat_llm_backend |-> "openai", cache_backend |-> "redis"]

Presenting(token) == [token |-> token, tenant |-> Absent, groups |-> Absent]

(***************************************************************************)
(* Files.  "a" and "b" are letters.                                        *)
(***************************************************************************)
File(dir, stem, suffix, body) ==
  [dir |-> dir, stem |-> stem, suffix |-> suffix, body |-> body]
Text(t) == [is |-> "text", text |-> t]
Pages(ps) == [is |-> "pages", pages |-> ps]
Bytes == [is |-> "bytes"]

Note == File("docs", "note", ".txt", Text(<<"a">>))
FirstChunk == [id |-> <<"note", 0, FirstVersion>>, file |-> Note,
               acl |-> [tenant |-> HardTenant, groups |-> public],
               text |-> <<"a">>, start |-> 0, end |-> 1]

Sized(strategy, size, overlap) ==
  [strategy |-> strategy, size |-> size, overlap |-> overlap]
Defaults == [m \in Mimes |-> Sized("unset", 2, 1)]

(* One of each kind, with something personal, a file that is no document,  *)
(* and two that differ in their directory and suffix alone.                *)
Corpus == <<
  File("docs", "README", ".md", Text(<<"a">>)),
  File("docs", "guide", ".md", Text(<<"#", " ", "a", "nl", "nl", "nl", "@", "nl", "nl", "b">>)),
  File("docs", "image", ".bin", Bytes),
  File("docs", "data", ".json", Text(<<"@", ".", " ", "a", " ", "b">>)),
  File("docs", "page", ".html", Text(<<"<>", "@", "<>", " ", "<>", "a", "<>">>)),
  File("docs", "scan", ".pdf", Pages(<<<<"@", " ", "a">>, <<" ">>, <<"b", ".">>>>)),
  File("docs", "old", ".txt", Bytes),
  File("eng", "guide", ".txt", Text(<<"b", "b", "b">>))>>
Broken == <<Note, File("docs", "scan", ".pdf", Bytes)>>
Changed == <<File("docs", "guide", ".md", Text(<<"b">>)), Note>>

(* Texts that neither start nor end with white space, with a repeated word.*)
Texts(n) == {t \in [1..n -> {"a", " ", "nl", ".", "#"}] : ~White(t[1]) /\ ~White(t[n])}

(***************************************************************************)
(* Deployments.                                                            *)
(***************************************************************************)
Deployed(s, who, creds, live, probed, commands) ==
  [settings |-> s, traffic |-> who, credentials |-> creds, live |-> live,
   probed |-> probed, plan |-> commands, chunking |-> Defaults,
   indexed |-> {FirstChunk}, redact |-> TRUE, pdf_extra |-> TRUE]

(* Production traffic of two tenants; every way to set up authentication,  *)
(* with a request of either tenant and any credentials; every setting,     *)
(* with nobody asking.                                                     *)
Asked ==
  {Deployed(Sane, Requests, {Presenting(t) : t \in DOMAIN Tokens},
            FirstVersion, FALSE, <<>>)}
  \cup
  {Deployed([Sane EXCEPT !.env = e, !.auth_required = q,
                !.auth_trust_headers = h, !.auth_tokens_file = f,
                !.agent_enabled = n], who, Credentials, FirstVersion, FALSE, <<>>) :
     e \in {"dev", "staging"}, q, h, f, n \in BOOLEAN, who \in {{q1}, {q3}}}
  \cup
  {Deployed(s, {}, {}, FirstVersion, FALSE, <<>>) :
     s \in {t \in Settings : t.env \in {"dev", "stage"}}}

(* Index jobs under a probe: builds, of nothing too, and activations, in   *)
(* any order.                                                              *)
Commands ==
  {Ingest(<<Note>>, v, Absent, Absent, publish) :
     v \in Versions \cup {Absent}, publish \in BOOLEAN}
  \cup {Promotion(v) : v \in Versions}
  \cup {Ingest(<<>>, v, Absent, Absent, TRUE) : v \in Versions}

Probed ==
  {Deployed([Sane EXCEPT !.vector_backend = s], {}, {}, v, TRUE, <<one, two>>) :
     s \in {"memory", "qdrant"},
     v \in Versions \cup {NoVersion}, one, two \in Commands}

(* Every short text through every chunker.                                 *)
Chunkings ==
  {[Deployed(Sane, {}, {}, NoVersion, FALSE,
             <<Ingest(<<File("docs", "note", ".txt", Text(t))>>, FirstVersion,
                      acme, Absent, FALSE)>>)
      EXCEPT !.chunking = [m \in Mimes |-> Sized(s, 2, 1)]] :
     t \in UNION {Texts(n) : n \in 1..5}, s \in Strategies \ {"semantic"}}

(* One corpus after another into a version, in many configurations.        *)
Jobs ==
  {[Deployed([Sane EXCEPT !.auth_required = ok, !.lexical_backend = s],
             {}, {}, NoVersion, FALSE,
             <<Ingest(Corpus, FirstVersion, acme, staff, FALSE), second>>)
      EXCEPT !.redact = red, !.pdf_extra = pdf,
             !.chunking["application/json"] = Sized("semantic", size, 2)] :
     second \in {Ingest(source, FirstVersion, Absent, g, TRUE) :
                   source \in {Corpus, Broken, Changed}, g \in {Absent, public}}
                \cup {Eval(Changed)},
     ok, red, pdf \in BOOLEAN, s \in {"memory", "opensearch"}, size \in {2, 3}}

MCDeployments == Asked \cup Probed \cup Chunkings \cup Jobs
=============================================================================
