------------------------- MODULE ContractResolution -------------------------
(***************************************************************************)
(* From a contract and a caller to the policy the engine enforces: the     *)
(* JSON contracts of contract_source.rs, the signed bundles of             *)
(* platform/bundle.rs, and the ResolvedPolicy of policy.rs that both       *)
(* become.  Nothing here has state; GovernedScan runs it.                  *)
(*                                                                         *)
(* A contract is [contract_id, version, dataset, parquet, owner, purposes, *)
(* columns, filter, dp, wellformed]: columns maps a column to the mask     *)
(* token written in the contract, dp to [epsilon, sensitivity].            *)
(***************************************************************************)
EXTENDS Naturals, Sequences, FiniteSets

CONSTANTS
  None,          \* Option::None
  Lowercase      \* to_ascii_lowercase, for the tokens that change under it

Nothing == [c \in {} |-> None]
Empty == ""    \* String::new()

MaskActions == {"redact", "hash_sha256", "tokenize", "partial", "null", "noop"}

-----------------------------------------------------------------------------
(* MaskAction::parse                                                       *)
parse(s) ==
  LET t == IF s \in DOMAIN Lowercase THEN Lowercase[s] ELSE s
  IN CASE t \in MaskActions -> t
       [] t = "hash" -> "hash_sha256"
       [] t = "none" -> "noop"
       [] OTHER -> "error"

(* ResolvedPolicy; decision is "Allow", "Deny", or "Error" for a contract  *)
(* that could not be resolved.                                             *)
Policy(c, decision, masks, filter, dp) ==
  [contract_id |-> c.contract_id, version |-> c.version, tenant |-> c.owner,
   decision |-> decision, column_masks |-> masks, row_filter |-> filter,
   dp_columns |-> dp]

Unresolved ==
  Policy([contract_id |-> Empty, version |-> 0, owner |-> Empty], "Error", Nothing, None, Nothing)

allow_all(c) == Policy(c, "Allow", Nothing, None, Nothing)
Deny(c) == Policy(c, "Deny", Nothing, None, Nothing)

has_dp(p) == DOMAIN p.dp_columns # {}

(* to_bundle_bytes and to_bundle_handle: what the operators parse again.   *)
to_bundle_handle(p) ==
  LET masked == {c \in DOMAIN p.column_masks : p.column_masks[c] # "noop"} IN
  [contract_id |-> p.contract_id, tenant |-> p.tenant, version |-> p.version,
   column_masking |-> [c \in masked |-> p.column_masks[c]],
   row_filter |-> p.row_filter, dp_columns |-> p.dp_columns]

-----------------------------------------------------------------------------
(* JSON contracts                                                          *)

(* from_json_strs: one unreadable document fails the load; of two for the  *)
(* same dataset the later one stays.                                       *)
from_json_strs(docs) ==
  LET last(d) == CHOOSE i \in DOMAIN docs :
                   /\ docs[i].dataset = d
                   /\ \A j \in DOMAIN docs : docs[j].dataset = d => j <= i
  IN [d \in {docs[i].dataset : i \in DOMAIN docs} |-> docs[last(d)]]

Loads(docs) == \A i \in DOMAIN docs : docs[i].wellformed

(* resolve, for the contract found under the dataset's name.               *)
resolve(contracts, dataset, caller) ==
  IF dataset \notin DOMAIN contracts THEN Unresolved ELSE
  LET c == contracts[dataset]
      action == [col \in DOMAIN c.columns |-> parse(c.columns[col])]
  IN IF c.purposes # {} /\ caller.purpose \notin c.purposes THEN Deny(c)
     ELSE IF caller.tenant = c.owner THEN allow_all(c)
     ELSE IF \E col \in DOMAIN action : action[col] = "error" THEN Unresolved
     ELSE Policy(c, "Allow",
                 [col \in {k \in DOMAIN action : action[k] # "noop"} |-> action[col]],
                 c.filter, c.dp)

-----------------------------------------------------------------------------
(* Platform bundles.  A name is kept as the set of words it contains that  *)
(* the code looks for, a template as the masking calls in its text.        *)

(* canonical_digest sorts every list by name before hashing, with a stable *)
(* sort: it fixes, per name, the elements in file order.  The hash is      *)
(* taken to be free of collisions.                                         *)
Named(s, n) == SelectSeq(s, LAMBDA x : x.name = n)
ByName(s) == [n \in {s[i].name : i \in DOMAIN s} |-> Named(s, n)]
canonical_digest(b) == <<b.manifest, ByName(b.rego), ByName(b.templates), ByName(b.entries)>>

canonical_signing_payload(digest, metadata) ==
  <<"t03:bundle-signing-payload:v1", digest, metadata.key_generation,
    metadata.signed_at, metadata.bundle_hash>>

verify(file, vk) ==
  LET recomputed == canonical_digest(file.bundle) IN
  /\ recomputed = file.metadata.bundle_hash
  /\ file.signature = [key |-> vk, of |-> canonical_signing_payload(recomputed, file.metadata)]

owner_tenant(b) == IF b.entries = <<>> THEN Empty ELSE b.entries[1].tenant

(* find(): the position of the first element whose name has the word, 0    *)
(* if there is none.                                                       *)
FirstWith(s, word) ==
  LET hits == {i \in DOMAIN s : word \in s[i].words}
  IN IF hits = {} THEN 0 ELSE CHOOSE i \in hits : \A j \in hits : i <= j

non_owner_template(b) ==
  IF FirstWith(b.templates, "non-owner") # 0
  THEN FirstWith(b.templates, "non-owner")
  ELSE FirstWith(b.templates, "read")

MaskCalls == <<"sha256_hex", "mask_hash_sha256", "mask_redact", "mask_tokenize">>
CallAction == <<"hash_sha256", "hash_sha256", "redact", "tokenize">>

(* masks_from_sql looks for one function after the other; for a column     *)
(* that several of them wrap the last function counts.                     *)
masks_from_sql(t) ==
  LET wraps(c) == {f \in DOMAIN MaskCalls : <<MaskCalls[f], c>> \in t.calls}
      columns == {call[2] : call \in t.calls} \ {Empty}
  IN [c \in {k \in columns : wraps(k) # {}} |->
        CallAction[CHOOSE f \in wraps(c) : \A g \in wraps(c) : g <= f]]

row_filter_from_sql(t) == IF t.where \in {None, Empty, "1=1"} THEN None ELSE t.where

(* allowed_purposes: the literals of the first purpose gate; no gate, and  *)
(* a gate without literals, restrict nothing.                              *)
allowed_purposes(b) ==
  LET gate == FirstWith(b.rego, "purpose") IN IF gate = 0 THEN {} ELSE b.rego[gate].purposes

map_bundle_to_policy(b, caller) ==
  LET owner == owner_tenant(b)
      c == [contract_id |-> b.manifest.contract_id, version |-> b.manifest.version,
            owner |-> owner]
      t == non_owner_template(b)
  IN IF allowed_purposes(b) # {} /\ caller.purpose \notin allowed_purposes(b) THEN Deny(c)
     ELSE IF owner # Empty /\ caller.tenant = owner THEN allow_all(c)
     ELSE IF t = 0 THEN allow_all(c)
     ELSE Policy(c, "Allow", masks_from_sql(b.templates[t]),
                 row_filter_from_sql(b.templates[t]), Nothing)
=============================================================================
