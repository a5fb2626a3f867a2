------------------------------- MODULE Wiring -------------------------------
(***************************************************************************)
(* What a configuration makes of a process: which settings are refused,    *)
(* which implementation each backend gets, who authenticates callers, and  *)
(* which requests go to the agent.  Pure functions of the settings, which  *)
(* Serving evaluates when a replica starts and a request arrives.          *)
(*                                                                         *)
(* A principal is a tenant with its groups, a token a model value, and a   *)
(* header is absent or names a tenant or the groups.                       *)
(***************************************************************************)
EXTENDS Integers

CONSTANTS
  Principals,         (* tenants with their groups                         *)
  Tokens,             (* the tokens file: a function from token to         *)
                      (* principal                                         *)
  OtherToken,         (* a token that is not in the file                   *)
  DefaultTenant, PublicGroups,
  Absent              (* a header, token or file that is not there         *)

Tenanted(t, g) == [tenant |-> t, groups |-> g]

ASSUME TokensAssumption ==
  /\ Tokens \in [DOMAIN Tokens -> Principals]
  /\ {OtherToken, Absent} \cap DOMAIN Tokens = {}
ASSUME AnonymousAssumption ==
  Tenanted(DefaultTenant, PublicGroups) \in Principals

(***************************************************************************)
(* Settings, as far as they decide what runs.                              *)
(***************************************************************************)
PRODUCTION_ENVS == {"prod", "production", "staging", "stage"}
Envs == {"dev"} \cup PRODUCTION_ENVS

Settings == [env: Envs, auth_required: BOOLEAN, auth_trust_headers: BOOLEAN,
             auth_tokens_file: BOOLEAN, agent_enabled: BOOLEAN,
             agent_allow_egress: BOOLEAN,
             vector_backend: {"memory", "qdrant"},
             lexical_backend: {"memory", "opensearch"},
             embedding_backend: {"hash", "openai"},
             llm_backend: {"echo", "openai"},
             chat_llm_backend: {"echo", "openai"},
             cache_backend: {"memory", "redis"}]

(* Mutated form: the trusted headers forgotten.                            *)
ProblemsWithoutHeaders(s) ==
  \/ ~s.auth_required
  \/ s.embedding_backend = "hash" \/ s.llm_backend = "echo"
  \/ s.agent_enabled /\ s.chat_llm_backend = "echo"
  \/ s.agent_allow_egress

is_production(s) == s.env \in PRODUCTION_ENVS

HasProblems(s) ==
  \/ s.auth_trust_headers
  \/ ~s.auth_required
  \/ s.embedding_backend = "hash"
  \/ s.llm_backend = "echo"
  \/ s.agent_enabled /\ s.chat_llm_backend = "echo"
  \/ s.agent_allow_egress

Accepted(s) == is_production(s) => ~HasProblems(s)

(***************************************************************************)
(* Authentication.                                                         *)
(***************************************************************************)
Credentials == [token: DOMAIN Tokens \cup {OtherToken, Absent},
                tenant: {p.tenant : p \in Principals} \cup {Absent},
                groups: {p.groups : p \in Principals} \cup {Absent}]
Unauthenticated == [refused |-> 401]

(* A 401 is no principal.                                                  *)
ASSUME RefusalAssumption == Unauthenticated \notin Principals

build_authenticator(s) ==
  IF s.auth_tokens_file THEN "static_token"
  ELSE IF s.auth_trust_headers THEN "trusted_header"
  ELSE IF ~s.auth_required THEN "anonymous" ELSE "deny_all"

Given(header, default) == IF header = Absent THEN default ELSE header

TrustedHeader(cred) == Tenanted(Given(cred.tenant, DefaultTenant),
                                Given(cred.groups, PublicGroups))

StaticToken(cred) == IF cred.token \in DOMAIN Tokens THEN Tokens[cred.token]
                                                     ELSE Unauthenticated

Anonymous == Tenanted(DefaultTenant, PublicGroups)

authenticate(name, cred) ==
  CASE name = "static_token" -> StaticToken(cred)
    [] name = "trusted_header" -> TrustedHeader(cred)
    [] name = "anonymous" -> Anonymous
    [] name = "deny_all" -> Unauthenticated

(***************************************************************************)
(* Backends.  A real client is named after its service, the agent is the   *)
(* chat model it plans with, and without it there are no tools.  The API   *)
(* and the jobs build them alike.                                          *)
(***************************************************************************)
build_embedder(s) ==
  [client |-> s.embedding_backend,
   dimensions |-> IF s.embedding_backend = "openai"
                  THEN "embedding_dimensions" ELSE "hash_dimensions"]

(* The store is told how wide vectors are, not by the embedder.            *)
vector_dimensions(s) == IF s.embedding_backend = "openai"
                        THEN "embedding_dimensions" ELSE "hash_dimensions"

build_vector_store(s) ==
  [store |-> s.vector_backend,
   dimensions |-> IF s.vector_backend = "qdrant" THEN vector_dimensions(s)
                                                 ELSE "any"]

build_lexical_index(s) == s.lexical_backend
build_llm(s) == s.llm_backend
build_chat_llm(s) == s.chat_llm_backend
build_cache(s) == s.cache_backend

build_agent_runtime(s) ==
  IF s.agent_enabled THEN [chat |-> build_chat_llm(s),
                           egress |-> s.agent_allow_egress]
                     ELSE [chat |-> "none", egress |-> FALSE]

from_settings(s) ==
  [vector |-> build_vector_store(s), lexical |-> build_lexical_index(s),
   embedder |-> build_embedder(s), llm |-> build_llm(s),
   cache |-> build_cache(s)]

build_state(s) == [pipeline |-> from_settings(s),
                   agent |-> build_agent_runtime(s),
                   authenticator |-> build_authenticator(s)]

(***************************************************************************)
(* Which requests enter the agent.                                         *)
(***************************************************************************)
Modes == {"auto", "fast", "agent"}
Routes == {"factual", "procedural", "complex", "chitchat", "refuse"}

should_use_agent(route, mode, agent_enabled) ==
  /\ agent_enabled
  /\ mode = "agent" \/ (mode = "auto" /\ route = "complex")
=============================================================================
