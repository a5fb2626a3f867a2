----------------------------- MODULE MCOffline -----------------------------
(* The mixed corpus of docs/operations.md: one run per permission set into *)
(* the same version, where both directories have a file of the same name.  *)
EXTENDS Offline

CONSTANTS v6, acme, staff, public

Anyone == [tenant |-> acme, groups |-> public]
Callers == {Anyone}
NoTokens == [t \in {} |-> Anyone]

Sane == [env |-> "production", auth_required |-> TRUE,
         auth_trust_headers |-> FALSE, auth_tokens_file |-> TRUE,
         agent_enabled |-> TRUE, agent_allow_egress |-> FALSE,
         vector_backend |-> "qdrant", lexical_backend |-> "opensearch",
         embedding_backend |-> "openai", llm_backend |-> "openai",
         chat_llm_backend |-> "openai", cache_backend |-> "redis"]

Policy(dir, text) == [dir |-> dir, stem |-> "policy", suffix |-> ".md",
                      body |-> [is |-> "text", text |-> text]]

Mixed == [settings |-> Sane, live |-> Absent, indexed |-> {},
          redact |-> TRUE, pdf_extra |-> TRUE,
          chunking |-> [m \in Mimes |-> [strategy |-> "unset", size |-> 4, overlap |-> 1]],
          plan |-> <<
            Ingest(<<Policy("public", <<"a", " ", "b">>)>>, v6, Absent, public, FALSE),
            Ingest(<<Policy("hr", <<"b", "a">>)>>, v6, acme, staff, FALSE),
            Promotion(v6)>>]

MixedInit == deployment = Mixed /\ OfflineInit
MixedSpec == MixedInit /\ [][OfflineNext]_offlineVars
=============================================================================
