------------------------------- MODULE Access -------------------------------
(***************************************************************************)
(* Who may see a chunk.  The rule exists four times: the predicate         *)
(* is_allowed, which the in-memory stores scan with and which rechecks     *)
(* every result; the filter Qdrant evaluates on a point's payload; the     *)
(* filter OpenSearch evaluates on a document's source; and the chunk that  *)
(* is read back from either, whose tags the recheck looks at.              *)
(*                                                                         *)
(* A chunk is its access tags, its index version and its text; the rest of *)
(* its fields travel along unchanged.                                      *)
(***************************************************************************)
EXTENDS FiniteSets

CONSTANTS
  Tenants, Groups,
  Versions,          (* index versions                                     *)
  AnyVersion,        (* no version asked for                               *)
  Texts              (* texts of chunks                                    *)

ASSUME AnyVersionAssumption == AnyVersion \notin Versions

Principals == [tenant: Tenants, groups: SUBSET Groups]
Chunks == [tenant: Tenants, allow_groups: SUBSET Groups,
           index_version: Versions, text: Texts]

(***************************************************************************)
(* Mutated forms of definitions below: plausible bugs that the properties  *)
(* must catch.                                                             *)
(***************************************************************************)
(* an empty principal admitted to any group *)
AllowedWithoutGroups(p, acl) ==
  /\ p.tenant = acl.tenant
  /\ p.groups = {} \/ acl.allow_groups = {} \/ p.groups \cap acl.allow_groups # {}
(* the tenant clause left out of the Qdrant filter *)
QdrantAnyTenant(p, version, payload) ==
  /\ version # AnyVersion => payload.index_version = version
  /\ payload.allow_groups = {} \/ p.groups \cap payload.allow_groups # {}

(***************************************************************************)
(* security/acl.py                                                         *)
(***************************************************************************)
is_allowed(p, acl) ==
  /\ p.tenant = acl.tenant
  /\ acl.allow_groups = {} \/ p.groups \cap acl.allow_groups # {}

(* The scan of the in-memory stores.                                       *)
MemoryAdmits(p, version, chunk) ==
  /\ version # AnyVersion => chunk.index_version = version
  /\ is_allowed(p, chunk)

(***************************************************************************)
(* vectordb/qdrant.py.  A payload has every field; IsEmptyCondition holds  *)
(* of an empty list, and MatchAny is only sent with groups to match.       *)
(***************************************************************************)
to_payload(chunk) ==
  [tenant |-> chunk.tenant, allow_groups |-> chunk.allow_groups,
   index_version |-> chunk.index_version, text |-> chunk.text]

QdrantAdmits(p, version, payload) ==
  /\ payload.tenant = p.tenant
  /\ version # AnyVersion => payload.index_version = version
  /\ \/ payload.allow_groups = {}
     \/ p.groups # {} /\ \E g \in p.groups : g \in payload.allow_groups

from_payload(payload) ==
  [tenant |-> payload.tenant, allow_groups |-> payload.allow_groups,
   index_version |-> payload.index_version, text |-> payload.text]

(***************************************************************************)
(* lexical/opensearch.py.  A tenant-wide chunk has no allow_groups field,  *)
(* so that must_not exists matches it.                                     *)
(***************************************************************************)
to_source(chunk) ==
  IF chunk.allow_groups = {}
  THEN [tenant |-> chunk.tenant, index_version |-> chunk.index_version,
        text |-> chunk.text]
  ELSE [tenant |-> chunk.tenant, index_version |-> chunk.index_version,
        text |-> chunk.text, allow_groups |-> chunk.allow_groups]

OpenSearchAdmits(p, version, source) ==
  /\ source.tenant = p.tenant
  /\ version # AnyVersion => source.index_version = version
  /\ \/ "allow_groups" \notin DOMAIN source
     \/ p.groups # {} /\ \E g \in p.groups : g \in source.allow_groups

from_source(source) ==
  [tenant |-> source.tenant,
   allow_groups |-> IF "allow_groups" \in DOMAIN source
                    THEN source.allow_groups ELSE {},
   index_version |-> source.index_version, text |-> source.text]

(***************************************************************************)
(* What the rule is meant to say.                                          *)
(***************************************************************************)
MayRead(p, chunk) ==
  /\ chunk.tenant = p.tenant
  /\ chunk.allow_groups # {} => \E g \in chunk.allow_groups : g \in p.groups
=============================================================================
