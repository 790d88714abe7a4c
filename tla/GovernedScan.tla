---------------------------- MODULE GovernedScan ----------------------------
(***************************************************************************)
(* A governed query, from SQL to rows: engine.rs, catalog.rs,              *)
(* contract_table_provider.rs and the operators of physical/ that the      *)
(* provider stacks on the raw scan.  Contracts come from a directory of    *)
(* JSON documents, loaded once, or from the platform, fetched for every    *)
(* query while new versions are being published.                           *)
(*                                                                         *)
(* A query asks for some columns of one dataset, perhaps WHERE a column    *)
(* equals a value, perhaps with a LIMIT.  A plan is the chain of its       *)
(* operators from the scan upwards.  A batch is [ok, types, rows]; its     *)
(* rows keep the number they have in the file, so that what an operator    *)
(* drops is read off the domain.  A cell is [as, of]: the raw value, or    *)
(* what some operator made of it.                                          *)
(***************************************************************************)
EXTENDS ContractResolution, SequencesExt

CONSTANTS
  Queries,           \* query slots
  Callers,           \* [purpose, tenant]
  Asks,              \* [dataset, columns, where, limit, attested, ddl]
  Directories,       \* JSON mode: sequences of documents, in read_dir order
  Versions,          \* platform mode: dataset -> the contracts published for it
  PlatformFiles,     \* platform mode: dataset -> file, from its binding resolver
  Files,             \* file -> [types, rows, ends]; what is not there cannot be read
  Castable,          \* the types that Arrow casts to Utf8
  VerifyingKey,      \* the key given to with_verifying_key, where it is called
  Compiles(_, _),    \* whether a filter compiles against a batch's types
  Holds(_, _),       \* whether a filter, once compiled, is true of a row
  Meant(_, _),       \* whether SQL says that it is
  MaxPlan            \* bound: operators in a plan

(* On the platform a dataset is referred to by its contract's id; version  *)
(* numbers count the publications, and the bundle format has no place for  *)
(* privacy parameters; nobody else signs with the key that is verified;    *)
(* the names of the mask actions are in lower case.                        *)
ASSUME ScanConstants ==
  /\ \A d \in DOMAIN Versions :
       /\ Len(Versions[d]) \in Nat \ {0} /\ DOMAIN Versions[d] = 1 .. Len(Versions[d])
       /\ \A v \in 1 .. Len(Versions[d]) :
            /\ Versions[d][v].contract_id = d /\ Versions[d][v].version = v
            /\ DOMAIN Versions[d][v].dp = {}
  /\ VerifyingKey \notin {None, "elsewhere"}
  /\ \A f \in DOMAIN Files : f # None /\ Len(Files[f].ends) \in Nat
  /\ \A docs \in Directories : Len(docs) \in Nat /\ DOMAIN docs = 1 .. Len(docs)
  /\ DOMAIN Lowercase \cap (MaskActions \cup {"hash", "none"}) = {}
  /\ MaxPlan \in Nat /\ MaxPlan >= 8   \* the longest plan scan() builds

VARIABLES
  source,     \* "unloaded", "failed", "json", or the platform, "trusted" or "verified"
  contracts,  \* JSON mode: dataset -> contract
  published,  \* platform mode: dataset -> number of versions published
  at,         \* per query: where it is
  ask,        \* per query: the caller and what it asks
  since,      \* per query, history: published when it was asked
  policy,     \* per query: the policy resolved for it
  file,       \* per query: the file bound to it
  announced,  \* per query: the schema of its table provider
  plan,       \* per query: the operators, from the scan upwards
  taken,      \* per query: the batches read so far, by number
  answer,     \* per query: rows collected so far
  emitted,    \* per query: the schemas of the batches collected
  envelope    \* per query: its attestation, or None

vars == <<source, contracts, published, at, ask, since, policy, file, announced,
          plan, taken, answer, emitted, envelope>>

-----------------------------------------------------------------------------
(* Column masking                                                          *)

StringTypes == {"Utf8", "LargeUtf8"}
Zeroed == {"Int64", "Float64", "Boolean"}
is_string_producing(m) == m \in {"hash_sha256", "tokenize", "partial"}

masked_field_type(t, m) ==
  IF m = "noop" THEN t
  ELSE IF t \in StringTypes \/ is_string_producing(m) THEN "Utf8" ELSE t

masked_output_schema(types, masks) ==
  [c \in DOMAIN types |-> IF c \in DOMAIN masks
                          THEN masked_field_type(types[c], masks[c]) ELSE types[c]]

Cell(as, of) == [as |-> as, of |-> of]

(* What redact and null put in place of a value: `***`, the empty string,  *)
(* zero or false, by mask and type.  They are not told apart; that none of *)
(* them is a NULL, and that the value is gone, is.                         *)
Fixed == Cell("fixed", None)

mask_string_value(v, m) ==
  CASE m \in {"redact", "null"} -> Fixed
    [] is_string_producing(m) -> Cell(IF m = "partial" THEN "tail" ELSE "sha256", v)
    [] m = "noop" -> Cell("raw", v)

(* apply_mask_to_column, and mask_via_utf8_cast for the other types: which *)
(* arrays can be masked, their type afterwards, and each of their values.  *)
CanMask(t, m) ==
  \/ m = "noop"
  \/ t \in StringTypes
  \/ is_string_producing(m) /\ t \in Castable
  \/ m \in {"redact", "null"} /\ t \in Zeroed

ArrayType(t, m) ==
  IF m = "noop" \/ (t \notin StringTypes /\ ~ is_string_producing(m)) THEN t ELSE "Utf8"

apply_mask_to_column(cell, t, m) ==
  IF m = "noop" \/ cell.as = "null" THEN cell
  ELSE IF t \in StringTypes \/ is_string_producing(m)
  THEN mask_string_value(cell.of, m) ELSE Fixed

Batch(types, rows) == [ok |-> TRUE, types |-> types, rows |-> rows]
Failed == [ok |-> FALSE, types |-> Nothing, rows |-> Nothing]

(* MaskingExec::execute; RecordBatch::try_new refuses an array whose type  *)
(* is not the one in the schema the operator computed when it was built.   *)
apply_masking_to_batch(b, masks, schema) ==
  LET m(c) == IF c \in DOMAIN masks THEN masks[c] ELSE "noop"
      masked(r) == [c \in DOMAIN r |-> apply_mask_to_column(r[c], b.types[c], m(c))]
  IN IF masks = Nothing THEN b
     ELSE IF /\ \A c \in DOMAIN b.types : CanMask(b.types[c], m(c))
             /\ [c \in DOMAIN b.types |-> ArrayType(b.types[c], m(c))] = schema
     THEN Batch(schema, [i \in DOMAIN b.rows |-> masked(b.rows[i])])
     ELSE Failed

-----------------------------------------------------------------------------
(* The other operators, on one batch                                       *)

(* RowFilterExec::execute and apply_filter_to_batch: no filter and an      *)
(* empty one let every row pass; a row stays if the filter is true of it.  *)
apply_filter_to_batch(b, filter) ==
  IF filter \in {None, Empty} THEN b
  ELSE IF Compiles(filter, b.types)
  THEN Batch(b.types, Restrict(b.rows, {i \in DOMAIN b.rows : Holds(filter, b.rows[i])}))
  ELSE Failed

(* LaplaceNoiseExec over its permissive tracker: noise on numbers, an      *)
(* error on any other protected column.                                    *)
apply_dp_to_batch(b, dp) ==
  LET protected == DOMAIN dp \cap DOMAIN b.types
      noised(c, cell) == IF c \in protected /\ cell.as # "null" THEN Cell("noised", cell) ELSE cell
  IN IF \A c \in protected : b.types[c] \in {"Int64", "Float64"}
     THEN Batch(b.types, [i \in DOMAIN b.rows |->
                            [c \in DOMAIN b.rows[i] |-> noised(c, b.rows[i][c])]])
     ELSE Failed

(* ProjectionExec, FilterExec and GlobalLimitExec, which are DataFusion's. *)
Project(b, columns) ==
  Batch([c \in columns |-> b.types[c]],
        [i \in DOMAIN b.rows |-> [c \in columns |-> b.rows[i][c]]])
Matches(row, where) == row[where.column] = Cell("raw", where.value)
Where(b, where) ==
  Batch(b.types, Restrict(b.rows, {i \in DOMAIN b.rows : Matches(b.rows[i], where)}))
First(numbers, n) == {i \in numbers : Cardinality({j \in numbers : j < i}) < n}
Limit(b, room) == Batch(b.types, Restrict(b.rows, First(DOMAIN b.rows, room)))

Run(q, op, b) ==
  LET bundle == to_bundle_handle(policy[q]) IN
  IF ~ b.ok THEN b
  ELSE CASE op = "RowFilterExec" -> apply_filter_to_batch(b, bundle.row_filter)
         [] op = "MaskingExec" ->
              apply_masking_to_batch(b, bundle.column_masking,
                masked_output_schema(Files[file[q]].types, bundle.column_masking))
         [] op = "LaplaceNoiseExec" -> apply_dp_to_batch(b, bundle.dp_columns)
         [] op = "ProjectionExec" -> Project(b, ask[q].columns)
         [] op = "FilterExec" -> Where(b, ask[q].where)
         [] op = "GlobalLimitExec" -> Limit(b, ask[q].limit - Cardinality(DOMAIN answer[q]))
         [] OTHER -> b

(* What leaves each operator of the plan, the raw batch being at 0.        *)
Levels(q, raw) ==
  LET up[i \in 0 .. Len(plan[q])] ==
        IF i = 0 THEN raw ELSE Run(q, plan[q][i], up[i - 1])
  IN up
RunAll(q, raw) == Levels(q, raw)[Len(plan[q])]

-----------------------------------------------------------------------------
(* Plans                                                                   *)

ContractOperators == {"RowFilterExec", "MaskingExec", "LaplaceNoiseExec"}

plan_has_contract_approved(below) == \E i \in DOMAIN below : below[i] = "ContractApprovedExec"

(* with_new_children: rebuilding the chain asks every contract operator    *)
(* whether its new child is approved.                                      *)
Accepts(p) ==
  \A i \in DOMAIN p : p[i] \in ContractOperators =>
    plan_has_contract_approved(SubSeq(p, 1, i - 1))

validate_dp_params(d) == d.epsilon > 0 /\ d.sensitivity > 0

If(condition, op) == IF condition THEN <<op>> ELSE <<>>

(* ContractTableProvider::scan, and what DataFusion puts on top of it:     *)
(* filters are not pushed into the scan, and with one the limit is not.    *)

\* Faulty variant: the query's limit goes down into the raw scan.
scan_LimitPushed(p, a) ==
  <<"DataSourceExec">> \o If(a.limit # None, "GlobalLimitExec")
  \o <<"ContractApprovedExec", "RowFilterExec", "MaskingExec">>
  \o If(has_dp(p), "LaplaceNoiseExec") \o <<"ProjectionExec">>
  \o If(a.where # None, "FilterExec")

scan(p, a) ==
  <<"DataSourceExec", "ContractApprovedExec", "RowFilterExec", "MaskingExec">>
  \o If(has_dp(p), "LaplaceNoiseExec") \o <<"ProjectionExec">>
  \o If(a.where # None, "FilterExec") \o If(a.limit # None, "GlobalLimitExec")

(* The constructors that may refuse: ContractApprovedExec::new without a   *)
(* contract id, LaplaceNoiseExec on bad parameters, AttestationExec::new   *)
(* without a contract version.                                             *)
CanBuild(p, a) ==
  /\ p.contract_id # Empty
  /\ has_dp(p) => \A c \in DOMAIN p.dp_columns : validate_dp_params(p.dp_columns[c])
  /\ a.attested => p.version # 0

(* collect_rules_applied walks the plan from the top; which names are in   *)
(* its vector is kept, their order is not.                                 *)

\* Faulty variant: the walk ends at the first contract operator.
collect_rules_applied_First(p) ==
  {p[i] : i \in {k \in DOMAIN p : \A j \in k .. Len(p) : p[j] \in ContractOperators => j = k}}
  \cap ContractOperators

collect_rules_applied(p) ==
  {p[i] : i \in DOMAIN p} \cap (ContractOperators \cup {"ContractApprovedExec"})

-----------------------------------------------------------------------------
NoAsk == [caller |-> None]

Init ==
  /\ source = "unloaded"
  /\ contracts = Nothing
  /\ published = [d \in DOMAIN Versions |-> 1]
  /\ at = [q \in Queries |-> "idle"]
  /\ ask = [q \in Queries |-> NoAsk]
  /\ since = [q \in Queries |-> published]
  /\ policy = [q \in Queries |-> Unresolved]
  /\ file = [q \in Queries |-> None]
  /\ announced = [q \in Queries |-> Nothing]
  /\ plan = [q \in Queries |-> <<>>]
  /\ taken = [q \in Queries |-> {}]
  /\ answer = [q \in Queries |-> Nothing]
  /\ emitted = [q \in Queries |-> {}]
  /\ envelope = [q \in Queries |-> None]

(* from_json_contracts_dir: the whole directory or nothing.                *)
LoadDirectory(docs) ==
  /\ source = "unloaded"
  /\ IF Loads(docs)
     THEN source' = "json" /\ contracts' = from_json_strs(docs)
     ELSE source' = "failed" /\ contracts' = contracts
  /\ UNCHANGED <<published, at, ask, since, policy, file, announced, plan, taken,
                 answer, emitted, envelope>>

(* GriotEngine::new over a PlatformBundleSource, which checks signatures   *)
(* if with_verifying_key gave it a key.                                    *)
Platforms == {"trusted", "verified"}

UsePlatform ==
  /\ source = "unloaded"
  /\ source' \in Platforms
  /\ UNCHANGED <<contracts, published, at, ask, since, policy, file, announced, plan,
                 taken, answer, emitted, envelope>>

(* The contract authority signs and publishes the next version.            *)
Publish(d) ==
  /\ source \in Platforms
  /\ published[d] < Len(Versions[d])
  /\ published' = [published EXCEPT ![d] = @ + 1]
  /\ UNCHANGED <<source, contracts, at, ask, since, policy, file, announced, plan,
                 taken, answer, emitted, envelope>>

Asked(caller, a) ==
  [caller |-> caller, dataset |-> a.dataset, columns |-> a.columns, where |-> a.where,
   limit |-> a.limit, attested |-> a.attested]

Fail(q) == at' = [at EXCEPT ![q] = "failed"]

(* GriotEngine::query: the DDL guard, then a schema provider for this      *)
(* caller alone.                                                           *)

\* Faulty variant: the schema provider does not know who asks.
Submit_Anonymous(q, caller, a) ==
  /\ source \in {"json"} \cup Platforms
  /\ at[q] = "idle"
  /\ at' = [at EXCEPT ![q] = IF a.ddl THEN "failed" ELSE "resolving"]
  /\ ask' = [ask EXCEPT ![q] = Asked([purpose |-> caller.purpose, tenant |-> Empty], a)]
  /\ since' = [since EXCEPT ![q] = published]
  /\ UNCHANGED <<source, contracts, published, policy, file, announced, plan, taken,
                 answer, emitted, envelope>>

Submit(q, caller, a) ==
  /\ source \in {"json"} \cup Platforms
  /\ at[q] = "idle"
  /\ at' = [at EXCEPT ![q] = IF a.ddl THEN "failed" ELSE "resolving"]
  /\ ask' = [ask EXCEPT ![q] = Asked(caller, a)]
  /\ since' = [since EXCEPT ![q] = published]
  /\ UNCHANGED <<source, contracts, published, policy, file, announced, plan, taken,
                 answer, emitted, envelope>>

(* GriotSchemaProvider::table, first half: the policy, and the decision.   *)

\* Faulty variant: the data is located before the decision is looked at.
Resolved_AnyDecision(q, p) ==
  /\ policy' = [policy EXCEPT ![q] = p]
  /\ at' = [at EXCEPT ![q] = IF p.decision # "Error" THEN "binding" ELSE "failed"]
  /\ UNCHANGED <<source, contracts, published, ask, since, file, announced, plan, taken,
                 answer, emitted, envelope>>

Resolved(q, p) ==
  /\ policy' = [policy EXCEPT ![q] = p]
  /\ at' = [at EXCEPT ![q] = IF p.decision = "Allow" THEN "binding" ELSE "failed"]
  /\ UNCHANGED <<source, contracts, published, ask, since, file, announced, plan, taken,
                 answer, emitted, envelope>>

ResolveJson(q) ==
  /\ source = "json"
  /\ at[q] = "resolving"
  /\ Resolved(q, resolve(contracts, ask[q].dataset, ask[q].caller))

(* The authority's compiler and signer, as far as the engine relies on     *)
(* them: an owner and a non-owner template, a gate if purposes are         *)
(* restricted next to a module that is none, and entries that all name the *)
(* owner.                                                                  *)
CallFor == [hash_sha256 |-> "sha256_hex", redact |-> "mask_redact",
            tokenize |-> "mask_tokenize"]
Template(name, calls, where) ==
  [name |-> name, words |-> IF name = "non-owner-read" THEN {"non-owner", "read"} ELSE {"read"},
   calls |-> calls, where |-> where]
Gate(c) == [name |-> "purpose-gate", words |-> {"purpose"}, purposes |-> c.purposes]
MaskingModule == [name |-> "pii-masking", words |-> {}, purposes |-> {}]
Entry(c, use) == [name |-> <<c.dataset, use>>, tenant |-> c.owner]
Compile(c) ==
  [manifest |-> [contract_id |-> c.contract_id, version |-> c.version],
   rego |-> IF c.purposes = {} THEN <<MaskingModule>> ELSE <<Gate(c), MaskingModule>>,
   templates |-> <<Template("owner-read", {}, "1=1"),
                   Template("non-owner-read",
                            {<<CallFor[c.columns[k]], k>> : k \in DOMAIN c.columns},
                            IF c.filter = None THEN "1=1" ELSE c.filter)>>,
   entries |-> <<Entry(c, "read"), Entry(c, "write")>>]
Sign(b, key) ==
  LET meta == [bundle_hash |-> canonical_digest(b), key_generation |-> 1, signed_at |-> 1]
  IN [bundle |-> b, metadata |-> meta,
      signature |-> [key |-> key, of |-> canonical_signing_payload(canonical_digest(b), meta)]]

(* What may come back.  Without a key the transport is trusted: the        *)
(* contract's current bundle, its lists in another order, or an error.     *)
(* With one it is not: any bundle the authority ever issued, an older one  *)
(* or another contract's included, for verify() looks at neither; one      *)
(* damaged on the way, with the hash it had or one that fits it; or the    *)
(* draft of a coming version, signed by somebody else.                     *)
With(f, rego, templates, entries, hash) ==
  [bundle |-> [manifest |-> f.bundle.manifest, rego |-> rego, templates |-> templates,
               entries |-> entries],
   metadata |-> [bundle_hash |-> hash, key_generation |-> 1, signed_at |-> 1],
   signature |-> f.signature]
Reordered(f) ==
  With(f, Reverse(f.bundle.rego), Reverse(f.bundle.templates), Reverse(f.bundle.entries),
       f.metadata.bundle_hash)
Damaged(f) ==
  LET hash == f.metadata.bundle_hash
      ungated == With(f, <<MaskingModule>>, f.bundle.templates, f.bundle.entries, hash)
  IN {With(f, f.bundle.rego, <<f.bundle.templates[1]>>, f.bundle.entries, hash),
      With(f, <<MaskingModule>>, f.bundle.templates, f.bundle.entries,
           canonical_digest(ungated.bundle))}
Issued(e, v) == Sign(Compile(Versions[e][v]), VerifyingKey)
Sent(d) ==
  IF source = "verified"
  THEN UNION {{Issued(e, v) : v \in 1 .. published[e]} : e \in DOMAIN Versions}
  ELSE {Issued(d, published[d])}
Draft(d) == Sign(Compile(Versions[d][Len(Versions[d])]), "elsewhere")
Responses(d) ==
  {None} \cup Sent(d) \cup {Reordered(f) : f \in Sent(d)}
  \cup (IF source = "verified"
        THEN {Draft(d)} \cup UNION {Damaged(f) : f \in Sent(d)} ELSE {})

(* PlatformBundleSource::fetch and resolve.  The bundle is fetched anew    *)
(* for every query.                                                        *)

\* Faulty variant: the signature is not looked at.
fetch_Unverified(q, f) ==
  IF f = None THEN Unresolved ELSE map_bundle_to_policy(f.bundle, ask[q].caller)

fetch(q, f) ==
  IF f = None THEN Unresolved
  ELSE IF source = "verified" /\ ~ verify(f, VerifyingKey) THEN Unresolved
  ELSE map_bundle_to_policy(f.bundle, ask[q].caller)

\* Faulty variant: the first bundle that was ever published is kept.
ResolvePlatform_Cached(q) ==
  /\ source \in Platforms
  /\ at[q] = "resolving"
  /\ ask[q].dataset \in DOMAIN Versions
  /\ Resolved(q, map_bundle_to_policy(Compile(Versions[ask[q].dataset][1]), ask[q].caller))

ResolvePlatform(q) ==
  /\ source \in Platforms
  /\ at[q] = "resolving"
  /\ \E f \in IF ask[q].dataset \in DOMAIN Versions
              THEN Responses(ask[q].dataset) ELSE {None} : Resolved(q, fetch(q, f))

(* table(), second half: the binding, then ContractTableProvider::new.     *)
BoundFile(q) ==
  IF source = "json" THEN contracts[ask[q].dataset].parquet ELSE PlatformFiles[ask[q].dataset]

\* Faulty variant: the schema of the raw table is announced.
Bind_RawSchema(q) ==
  /\ at[q] = "binding"
  /\ IF BoundFile(q) \in DOMAIN Files
     THEN /\ at' = [at EXCEPT ![q] = "planning"]
          /\ file' = [file EXCEPT ![q] = BoundFile(q)]
          /\ announced' = [announced EXCEPT ![q] = Files[BoundFile(q)].types]
     ELSE Fail(q) /\ UNCHANGED <<file, announced>>
  /\ UNCHANGED <<source, contracts, published, ask, since, policy, plan, taken, answer,
                 emitted, envelope>>

Bind(q) ==
  /\ at[q] = "binding"
  /\ IF BoundFile(q) \in DOMAIN Files
     THEN /\ at' = [at EXCEPT ![q] = "planning"]
          /\ file' = [file EXCEPT ![q] = BoundFile(q)]
          /\ announced' = [announced EXCEPT ![q] =
               masked_output_schema(Files[BoundFile(q)].types,
                                    to_bundle_handle(policy[q]).column_masking)]
     ELSE Fail(q) /\ UNCHANGED <<file, announced>>
  /\ UNCHANGED <<source, contracts, published, ask, since, policy, plan, taken, answer,
                 emitted, envelope>>

Plan(q) ==
  /\ at[q] = "planning"
  /\ IF ask[q].columns \subseteq DOMAIN announced[q] /\ CanBuild(policy[q], ask[q])
     THEN /\ plan' = [plan EXCEPT ![q] = scan(policy[q], ask[q])]
          /\ at' = [at EXCEPT ![q] = "running"]
     ELSE Fail(q) /\ UNCHANGED plan
  /\ UNCHANGED <<source, contracts, published, ask, since, policy, file, announced, taken,
                 answer, emitted, envelope>>

(* A physical optimizer rule of governed_session_context rebuilds the      *)
(* plan: it puts an operator of its own somewhere above the scan, or takes *)
(* out a node that only passes batches on.                                 *)
PassOn == {"CoalesceBatchesExec", "RepartitionExec", "CoalescePartitionsExec"}
Rewrites(p) ==
  {InsertAt(p, i, op) : i \in 2 .. Len(p), op \in PassOn}
  \cup {RemoveAt(p, i) : i \in {k \in DOMAIN p : p[k] \in PassOn \cup {"ContractApprovedExec"}}}

Optimize(q) ==
  /\ at[q] = "running" /\ taken[q] = {}
  /\ \E p \in Rewrites(plan[q]) :
       /\ Len(p) <= MaxPlan
       /\ IF Accepts(p) THEN plan' = [plan EXCEPT ![q] = p] /\ UNCHANGED at
          ELSE Fail(q) /\ UNCHANGED plan
  /\ UNCHANGED <<source, contracts, published, ask, since, policy, file, announced, taken,
                 answer, emitted, envelope>>

(* The batches of a file, as its reader cuts them.                         *)
Batches(f) == 1 .. Len(Files[f].ends)
BatchRows(f, n) == (IF n = 1 THEN 1 ELSE Files[f].ends[n - 1] + 1) .. Files[f].ends[n]
BatchOf(f, n) == Batch(Files[f].types, Restrict(Files[f].rows, BatchRows(f, n)))

Collected(rows, more) ==
  [i \in DOMAIN rows \cup DOMAIN more |-> IF i \in DOMAIN more THEN more[i] ELSE rows[i]]

(* A file is a table: every row has the columns of the schema, and is in   *)
(* one batch.                                                              *)
ASSUME FilesAreTables ==
  \A f \in DOMAIN Files :
    LET types == Files[f].types
        rows == Files[f].rows
    IN /\ types = [col \in DOMAIN types |-> types[col]]
       /\ Len(rows) \in Nat /\ rows = [i \in 1 .. Len(rows) |-> rows[i]]
       /\ \A i \in 1 .. Len(rows) : rows[i] = [col \in DOMAIN types |-> rows[i][col]]
       /\ UNION {BatchRows(f, n) : n \in Batches(f)} = 1 .. Len(rows)
       /\ \A m, n \in Batches(f) : m # n => BatchRows(f, m) \cap BatchRows(f, n) = {}

(* What is asked of a scan has the columns of the query's own predicate.   *)
ASSUME AsksAreWhole ==
  \A a \in Asks : /\ a.where # None => a.where.column \in a.columns
                  /\ a.limit # None => a.limit \in Nat

(* RowFilterExec translates a filter it compiles into one that is true of  *)
(* the same rows; MCGovernedScan has both from ContractFilter.             *)
Authored == UNION ({Range(docs) : docs \in Directories}
                   \cup {Range(Versions[d]) : d \in DOMAIN Versions})
ASSUME FiltersMeanWhatTheySay ==
  \A c \in Authored, f \in DOMAIN Files : \A i \in DOMAIN Files[f].rows :
    LET row == Files[f].rows[i] IN
    /\ (c.filter \notin {None, Empty} /\ Compiles(c.filter, Files[f].types)) =>
         (Holds(c.filter, row) <=> Meant(c.filter, row))
    /\ c.filter = "1=1" => Meant(c.filter, row)

(* The authority publishes contracts that it can compile: they name their  *)
(* owner, and every mask is one that the template language has a call for. *)
ASSUME PublishedCompile ==
  \A d \in DOMAIN Versions : \A v \in 1 .. Len(Versions[d]) :
    LET c == Versions[d][v] IN
    /\ c.owner # Empty
    /\ \A col \in DOMAIN c.columns : col # Empty /\ c.columns[col] \in DOMAIN CallFor

(* collect(): a batch goes up the plan, and the first error ends the query *)
(* without rows.  The session keeps EnforceDistribution, which may split   *)
(* the file scan or what is above it into partitions that run side by      *)
(* side: batches come in any order.                                        *)
CollectBatch(q) ==
  /\ at[q] = "running"
  /\ \E n \in Batches(file[q]) \ taken[q] :
       LET up == RunAll(q, BatchOf(file[q], n))
       IN IF up.ok
          THEN /\ answer' = [answer EXCEPT ![q] = Collected(@, up.rows)]
               /\ emitted' = [emitted EXCEPT ![q] = @ \cup {up.types}]
               /\ taken' = [taken EXCEPT ![q] = @ \cup {n}]
               /\ UNCHANGED at
          ELSE Fail(q) /\ answer' = [answer EXCEPT ![q] = Nothing] /\ UNCHANGED <<taken, emitted>>
  /\ UNCHANGED <<source, contracts, published, ask, since, policy, file, announced, plan,
                 envelope>>

(* The stream ends, after the last batch or when the limit is reached.     *)
(* GriotEngine::query returns the rows as they are; a caller who puts an   *)
(* AttestationExec on the plan and runs execute_attested gets an envelope. *)
LimitReached(q) == ask[q].limit # None /\ Cardinality(DOMAIN answer[q]) = ask[q].limit

Finish(q) ==
  /\ at[q] = "running" /\ (taken[q] = Batches(file[q]) \/ LimitReached(q))
  /\ at' = [at EXCEPT ![q] = "answered"]
  /\ envelope' = IF ask[q].attested
                 THEN [envelope EXCEPT ![q] =
                         [contract_id |-> to_bundle_handle(policy[q]).contract_id,
                          version |-> to_bundle_handle(policy[q]).version,
                          rules |-> collect_rules_applied(plan[q])]]
                 ELSE envelope
  /\ UNCHANGED <<source, contracts, published, ask, since, policy, file, announced, plan,
                 taken, answer, emitted>>

Next ==
  \/ \E docs \in Directories : LoadDirectory(docs)
  \/ UsePlatform
  \/ \E d \in DOMAIN Versions : Publish(d)
  \/ \E q \in Queries :
       \/ \E caller \in Callers, a \in Asks : Submit(q, caller, a)
       \/ ResolveJson(q) \/ ResolvePlatform(q) \/ Bind(q) \/ Plan(q)
       \/ Optimize(q) \/ CollectBatch(q) \/ Finish(q)

Spec == Init /\ [][Next]_vars

-----------------------------------------------------------------------------
(* Types of the engine's and of every query's state.                       *)
Places == {"idle", "resolving", "binding", "planning", "running", "answered", "failed"}
TypeOK ==
  /\ source \in {"unloaded", "failed", "json"} \cup Platforms
  /\ \A d \in DOMAIN Versions : published[d] \in 1 .. Len(Versions[d])
  /\ at \in [Queries -> Places]
  /\ \A q \in Queries :
       /\ at[q] # "idle" => ask[q].caller \in Callers
       /\ policy[q].decision \in {"Allow", "Deny", "Error"}
       /\ file[q] \in DOMAIN Files \cup {None}
       /\ Len(plan[q]) <= MaxPlan
       /\ file[q] # None => taken[q] \subseteq Batches(file[q])

-----------------------------------------------------------------------------
(* What a contract entitles a caller to see, said of the contract and the  *)
(* raw file without plans, bundles or batches.                             *)

Contract(q) ==
  IF source = "json" THEN contracts[ask[q].dataset]
  ELSE Versions[policy[q].contract_id][policy[q].version]

Permitted(c, caller) == c.purposes = {} \/ caller.purpose \in c.purposes

\* The effect of a policy on a column.
Seen(c, col, cell) ==
  LET token == IF col \in DOMAIN c.columns THEN c.columns[col] ELSE "none"
      word == IF token \in DOMAIN Lowercase THEN Lowercase[token] ELSE token
      m == CASE word = "hash" -> "hash_sha256"
             [] word = "none" -> "noop"
             [] OTHER -> word
      masked == CASE m \in {"hash_sha256", "tokenize"} -> Cell("sha256", cell.of)
                  [] m = "partial" -> Cell("tail", cell.of)
                  [] m \in {"redact", "null"} -> Fixed
                  [] m = "noop" -> cell
                  [] OTHER -> Cell("refused", None)
  IN IF cell.as = "null" THEN cell
     ELSE IF col \in DOMAIN c.dp THEN Cell("noised", masked) ELSE masked

View(c, caller, f) ==
  LET rows == Files[f].rows
      kept == {i \in DOMAIN rows : c.filter \in {None, Empty} \/ Meant(c.filter, rows[i])}
  IN IF caller.tenant = c.owner THEN rows
     ELSE [i \in kept |-> [col \in DOMAIN rows[i] |-> Seen(c, col, rows[i][col])]]

(* A result of asking a of a view: the columns asked for of the rows that  *)
(* match, all of them or as many as the limit allows.  Which ones a limit  *)
(* leaves, and the order of the rows, is not said.                         *)
IsResult(rows, a, view) ==
  LET chosen == {i \in DOMAIN view : a.where = None \/ Matches(view[i], a.where)}
      given == DOMAIN rows
  IN /\ given \subseteq chosen
     /\ \A i \in given : rows[i] = [col \in a.columns |-> view[i][col]]
     /\ a.limit # None => Cardinality(given) <= a.limit
     /\ given = chosen \/ (a.limit # None /\ Cardinality(given) = a.limit)

(* The point of the engine: whatever source, order of directory entries,   *)
(* publication, damaged download, plan rewriting and order of batches,     *)
(* rows are only ever answered to a caller the contract permits, and they  *)
(* are a result of the query on that caller's view of the data: filtered   *)
(* by the raw values, masked before the query's own predicate sees them,   *)
(* nothing of the value left where the mask is redact or null, none        *)
(* missing, and cut by a limit only after all that.                        *)
AnswersFromView ==
  \A q \in Queries : at[q] = "answered" =>
    /\ Permitted(Contract(q), ask[q].caller)
    /\ IsResult(answer[q], ask[q], View(Contract(q), ask[q].caller, file[q]))

(* "They MUST agree" (masking_exec.rs): every batch that leaves the plan   *)
(* has the types the table provider announced to the planner.              *)
SchemaAsAnnounced ==
  \A q \in Queries : \A t \in emitted[q] :
    t = [col \in ask[q].columns |-> announced[q][col]]

(* A query denied, or whose contract could not be resolved, never opens    *)
(* the data: table() binds only after an Allow for this very caller.       *)
OpenedOnlyIfPermitted ==
  \A q \in Queries : file[q] # None => Permitted(Contract(q), ask[q].caller)

(* Only a contract that the authority has published governs a query,       *)
(* however bundles are forged, damaged, replayed or reordered on the way   *)
(* where signatures are checked.  That it is the newest one, or the one    *)
(* asked for, is not checked by fetch() or verify() and is not said.       *)
GovernedByIssued ==
  \A q \in Queries : source \in Platforms /\ policy[q].decision # "Error" =>
    LET id == policy[q].contract_id IN
    id \in DOMAIN Versions /\ policy[q].version \in 1 .. published[id]

(* Where the transport is trusted, a contract published before the query   *)
(* was asked is the oldest one that can govern it: no bundle is kept from  *)
(* an earlier query.                                                       *)
NotGovernedByThePast ==
  \A q \in Queries : source = "trusted" /\ policy[q].decision # "Error" =>
    /\ policy[q].contract_id = ask[q].dataset
    /\ policy[q].version >= since[q][ask[q].dataset]

(* An attestation names the contract version whose policy was enforced and *)
(* every contract operator the rows went through.                          *)
EnvelopeNamesEnforcement ==
  \A q \in Queries : envelope[q] # None =>
    /\ envelope[q].version = Contract(q).version
    /\ envelope[q].contract_id = Contract(q).contract_id
    /\ envelope[q].rules =
         {"ContractApprovedExec", "RowFilterExec", "MaskingExec"} \cup
         (IF ask[q].caller.tenant # Contract(q).owner /\ DOMAIN Contract(q).dp # {}
          THEN {"LaplaceNoiseExec"} ELSE {})
=============================================================================
