# TLA+ models and proofs for griot

Griot is an embeddable, contract-governed SQL engine. A *contract* says which
rows and columns of a table a caller may see and with which masks and privacy
noise; the engine plans every query through operators that enforce it. Around
the engine sit a pool of long-running workers with a shared result cache,
clients of the storage daemon (T04) and of the notary (T05), and the platform
bundles contracts arrive in.

This directory models parts of that system in TLA+, checks the models with TLC
and proves theorems about them with TLAPS. `PROJECT.json` lists the runs, the
correspondence of definitions and source lines, the hazards and the theorems.

## Inventory

| Part | State | Operations | What makes it correct |
|---|---|---|---|
| Result cache, `query_cache.rs` | LRU map and byte counter under one mutex | `get`, `put`, `invalidate_tenant`, `invalidate_all` | a hit is what was last stored under that tenant and SQL and is within its TTL; nothing survives an invalidation; byte and entry caps |
| Worker pool, `long_running_pool_manager.rs` | channels, `in_flight` and `alive` atomics, affinity map, shutdown flag | `start`, `submit`/`select_worker`, `worker_loop`, `shutdown`, `refresh_contract_bundle` | every accepted task is answered once with rows of its own key; shutdown ends; panics stay local |
| Noise operator and budget, `physical/laplace_noise_exec.rs`, `optimizer_rules/dp_noise.rs` | budget map under a mutex, accumulator per partition, `epsilon_consumed` | `consume`, `apply_dp_to_batch`, `execute` | no more is released than the budget pays for; reported epsilon is what was consumed |
| Attestation, `physical/attestation_exec.rs` | none of its own | `execute_attested` | an envelope only for complete results, with true statements |
| Engine shell, `lib.rs` | config, optional bundle, lazy session | `new_with_config`, `inject_contract_bundle`, `query` | no query without a bundle or with unsafe DDL |
| DDL guard, `lib.rs` | none | `reject_unsafe_ddl` | no forbidden verb hides behind comments or case |
| Contract resolution, `policy.rs`, `contract_source.rs`, `binding.rs`, `catalog.rs`, `contract_table_provider.rs`, `engine.rs` | contracts loaded at start | `resolve`, `table`, `scan`, `query` | every table a query can name is governed, by the policy of its caller |
| Platform bundles, `platform/` | none | `verify`, `map_bundle_to_policy`, `fetch` | nothing of an unverified bundle becomes policy |
| Optimizer pipeline, `optimizer_rules/` | audit records, budgets | four `rewrite`s in a fixed order | unapproved scans are refused; filters, masks and noise land on approved ones exactly once |
| Physical operators, `physical/` | events | `new`, `with_new_children`, `execute` | no enforcement operator runs on an unapproved plan |
| T04/T05 clients and Lance, `storaged_client.rs`, `t05_client.rs`, `lance_table.rs` | a socket per request | framed request/response, range reads | answers belong to their requests, lengths are honoured |
| Formatter, Python bindings | none | conversions | not modelled |

**Interaction.** `submit` routes a task over a bounded channel to a worker; the
worker looks in the shared cache, asks its own engine on a miss, stores the
result and answers through the task's oneshot channel. Contract pushes and
catalog events call `invalidate_tenant` on the same cache from outside. Inside
a query, DataFusion runs the partitions of the physical plan concurrently;
noise operators made from one another share one budget tracker. Two paths lead
to enforcement: `GriotEngine` resolves a policy per query and stacks the
physical operators on the scan (`engine.rs` to `contract_table_provider.rs`);
the logical rules of `optimizer_rules/` rewrite plans of any session they are
installed in. Both read the same contract bundle, each with parsers of its own.

**What is hard.** The pool: atomics, channels and locks that are touched one
after the other, panics, and shutdown racing with submission. The cache: byte
accounts over long sequences of calls, and invalidations racing with queries in
flight. Noise: several partitions debiting and reporting through shared state.
The optimizer rules: the optimizer runs them again on their own results. The
governed scan: filter, masks, types, projection and limit in the right order,
under contracts that are reloaded, rotated or damaged on the way. The clients:
daemons that fail in the middle of a reply, assets that change between reads.
The repository has no test of the pool, of the cache or of a second pass. The `hazards` of
`PROJECT.json` give each of these with its line.

## Modules

| Module | Role |
|---|---|
| `CacheContract` | abstract promise of the cache: a forgetful map with TTL and invalidation |
| `QueryCache` | the cache as written; implements `CacheContract` |
| `QueryCacheProofs` | theorems about `QueryCache` |
| `PoolManager` | the pool, atomic access by atomic access |
| `PoolManagerProofs` | theorems about `PoolManager` |
| `ServedResults` | workers composed with `CacheContract`, data changes and invalidations |
| `ServedResultsProofs` | theorems about `ServedResults` |
| `LaplaceNoise` | budget tracker, noise operator per partition, envelope |
| `LaplaceNoiseProofs` | theorems about `LaplaceNoise` |
| `ContractFilter` | a contract's row filter: the two translations of it, evaluation in three-valued logic, and what SQL says it means |
| `OptimizerPipeline` | the four logical rules over several optimizer passes and queries |
| `ContractResolution` | from a contract and a caller to a policy: JSON contracts, signed bundles, the bundle handle |
| `GovernedScan` | a query of `GriotEngine` from SQL to rows and attestation, over `ContractResolution` |
| `GovernedScanProofs` | theorems about `GovernedScan`: permission, which contracts can govern, attestation |
| `GovernedAnswersProofs` | theorems about what `GovernedScan` answers |
| `EngineShell` | `K04DEngine` and the DDL guard |
| `EngineShellProofs` | theorems about `EngineShell` |
| `DaemonClients` | the T04 and T05 clients and the Lance object store |
| `DaemonClientsProofs` | theorems about `DaemonClients` |
| `MCQueryCache`, `MCPoolManager`, `MCServedResults`, `MCLaplaceNoise`, `MCOptimizerPipeline`, `MCGovernedScan`, `MCEngineShell`, `MCDaemonClients` | instances for TLC |

Definitions whose name has a suffix (`Pop_OrderKept`, `CountIn_Missing`, ...)
are faulty variants of the definition that follows them. No specification uses
them; each shows that a property notices the fault it describes when it takes
the definition's place.

### QueryCache

`entries` and `older` are the `LruCache` (map and recency list, the list as a
relation), `total_bytes` the counter, `op` the call that holds the mutex. A
`put` is a step that takes the lock, one step per iteration of the eviction
loop and one that charges and inserts; `invalidate_tenant` takes one step per
removed key. `get` and `invalidate_all` are single steps. `held` is a history
variable for the bytes really in the map: `PutReplace` and `PutAtCapacity`
change it without a debit of `total_bytes`, as `lru.put` does.

Abstractions: a SHA-256 digest is its text; a result and its JWS are one value
with a size; the clock is a `Tick` that ages entries, capped one tick above the
TTL because older ages are alike; `usize` does not overflow.

### PoolManager

One variable per atomic or channel, a control point per worker (`wpc`), per
client (`cpc`) and for the caller of `shutdown` (`dpc`). Each atomic access,
channel operation and lock section is a step, except that the choice of the
least-loaded worker reads all workers in one step; `ReadAffinity` and
`CheckCapacity` are the two loads in the check of the tenant's worker. `shutdown` sums the counters
one worker per step. A panic inside `engine.query` drops the task in hand and
the receiver with what is queued, and leaves `in_flight` and `alive` as they
are. An invalid `InitConfig` ends every worker at its start. The cache appears
as a forgetful map that remembers which task produced an entry.

Bounds: `DrainPolls` polls stand for the drain timeout, `MaxPanics` bounds the
panics, `Tasks` is the set of all queries ever submitted; `shutdown` is called
once. `worker_count = 0` and `queue_depth = 0`, on which the code panics, are
excluded by `PoolConstants`.

### ServedResults

The same lookup / query / store path, reduced to what decides how old an answer
is, over the cache of `CacheContract` (its actions are conjoined with the
workers'). Answers carry the version of the data and of the bundle they were
computed under. `announced[t]` is the data version at the last invalidation of
`t`. Two history variables name the culprits: `late`, the workers at work when
their tenant was invalidated, and `spoiled`, the tenants for which a late
worker has stored since.

### LaplaceNoise

Each exec runs its partitions concurrently; a partition takes batches and, in
each, the schema's columns in order, one debit per step. Epsilons are integers
on a grid, `Slack` is `f64::EPSILON` on that grid. The tracker is enforcing or
permissive (`enabled`), chosen initially. A budget that is not seeded is 0, as
in `consume` and `remaining`. `released` counts noised batches that left the
operator, `spent` what each partition of the current execution consumed. An exec is executed again only
when no partition of its previous execution is in the middle of a batch.

### ContractFilter and OptimizerPipeline

A plan is a tree of nodes with an operator, a name, expressions and inputs; an
expression is a column, an alias of one, a function call or an alias of
anything else, with the masks around it. Each rule is an operator on whole
trees, recursive like `transform_down`, and an action that applies it:
`ContractCheckRewrite`, `RowFilterRewrite`, `MaskingRewrite`, `DPNoiseRewrite`.
A rewrite never descends into what it has just inserted (the `Jump` of the
code), but the next one does.

External is DataFusion's optimizer: it runs the rules in order until a pass
changes nothing or `MaxPasses` are made, and fails a query whose columns (names
or types) a rule changed. Budgets and audit records live in the rules and carry
over to the next query. `denials` and `debited` are history variables.

A bundle says which of its sections each rule can parse (`readable`), because
every rule parses the bytes with types of its own and passes the plan through
when that fails. Filters are syntax trees that `sql_expr_to_df_expr` translates
node by node; `ReadsPermittedRows` compares what the translated filters in the
plan keep with what SQL says of the text, on rows with nulls.

`Values` follows each column from the scan upwards: the names it goes by, the
masks around it and the projections it passes. `MaskedOnTheWay` states with it
what `MaskingRule` does achieve over all passes: at least one mask on every
value that is projected bare or under an alias, and at most one for each
projection on the way. What its documentation says beyond that (functions of a
masked column, one mask only, the names of aliases) is below, among the
statements the code does not keep. `ReadsPermittedRows` sets filters with an
`ESCAPE` apart in the same way.

Left out: qualifiers of columns (the empty relation of a refused scan and the
alias around a mask lose them, which the optimizer may object to; either way
nothing more is read), the approved-table set, which no rule reads, and the
`scale` of a noise node. Plans have no subqueries in expressions:
`transform_down` (`contract_check.rs:474`) does not visit them, so a scan in one
is judged only after DataFusion's own rules have turned the subquery into a
join, and the model says nothing of one that stays. The built-in rules of a
session are left out too; one of them may merge stacked projections.

### ContractResolution and GovernedScan

Contracts are loaded from a directory, in any order of `read_dir`, or fetched
from the platform for every query while `Publish` brings out new versions of
the contracts of two datasets. `Responses` is what a fetch may return. Where
signatures are checked (source `"verified"`: `with_verifying_key` was called)
the transport is not trusted: a fetch may fail or return any
bundle the authority ever issued, an older version and another contract's
included; the same with its lists in another order; damaged, without its second
template under the old hash, which the digest shows, or without its purpose
gate under a hash that fits, which only the signature shows; or a draft of a
coming version, signed by somebody else. `verify` and `fetch` check neither
freshness nor the contract's id, so a replayed or exchanged bundle does govern a
query of the model; no document says that it does not, so there is no finding,
and the properties speak of the contract that governs. Without a key (source
`"trusted"`) nothing can be said of a transport that lies: it returns the
current bundle of the dataset, in any order, or fails. A query goes through `Submit` (the guard and
a provider for this caller), `ResolveJson` or `ResolvePlatform`, `Bind`,
`Plan`, any number of `Optimize` steps (external: a rule of the physical
optimizer rebuilds the plan through `with_new_children`), `CollectBatch` per
batch and `Finish`. A cell is the raw value or the name of what a mask or the
noise made of it, so that filters and predicates see the difference. A file has
its rows and the places where the reader cuts them into batches (`ends`); a row
keeps its number in batches and answers, so an answer shows which rows it has.
`Levels` is what leaves each operator of the plan. The session keeps
`EnforceDistribution`, so a rewrite may put `RepartitionExec` and
`CoalescePartitionsExec` anywhere above the scan, and `CollectBatch` takes the
batches in any order; a limit stands above the partitions, where DataFusion
puts it, and ends the query when it is reached.

`AnswersFromView` is the abstract statement: `View` says of the contract and
the raw file, without plans, bundles and batches, which rows and cells the
caller may see, and an answer is a result of the query on that view
(`IsResult`): all rows that match, or, under a limit of n, n of them, or all if
there are fewer. Which rows a limit leaves is not said. The constants that
`redact` and `null` put in place of a value are not told apart (`Fixed`): the
property says that nothing of the value is left, not which constant is there.

The envelope of `Finish` is what a caller gets who puts an `AttestationExec` on
the plan and runs `execute_attested`; `GriotEngine::query` (`engine.rs:98-117`)
returns the rows and builds no envelope. `EnvelopeNamesEnforcement` is about
the operator, whose identity comes from the policy that the plan has too.

The model assumes of its constants what the code relies on, and TLC evaluates
it for the instance: files are tables, each row in one batch
(`FilesAreTables`); a query's predicate reads columns that it scans
(`AsksAreWhole`, as the planner sees to it); a filter that compiles is true of
the rows it is meant for (`FiltersMeanWhatTheySay`: DataFusion's evaluation,
which `ContractFilter` models and `optimizer_pipeline` checks); the authority
publishes contracts it can compile, with an owner and with masks its templates
have a call for (`PublishedCompile`).

In the instance a filter compiles if it is translated and its columns exist
(`MCCompiles`). `create_physical_expr` coerces no types, so some filters that
fail in the code compile in the model: there the code answers nothing, and the
model answers from the view.

Abstractions: SHA-256 and ECDSA P-256 are constructors without collisions; SQL
templates and Rego are the masking calls and the purposes in their text; of
the rules an attestation lists, the names are kept and their order is not. The
authority's compiler (`Compile`) is external: two read templates, two entries,
a masking module and, if purposes are restricted, a gate. All entries of a
bundle have one owner and one template is for the others, which is what the
mapping's choice of the first (`bundle.rs:287`) relies on. One query slot is enough for the properties: concurrent
queries share only the source, which no query changes, and `published`, which
changes at any point of the one query. Telemetry is left out.

### EngineShell

The engine's state is its configuration, bundle, session and tables. A
statement is typed piece by piece (words, parentheses, blanks, semicolons,
comments, literals), so what it means is known from the pieces; its text is the sequence
of their characters, and `strip_comments` reads that text with one character of
look-ahead; `Reading` is its state after each of them. `MaxPieces` bounds the
statement; four pieces are enough for a comment or a literal on both sides of a
semicolon. The character `V` is any disallowed word in any case, since the code
compares in upper case.

`VerbFirst` is the first token of a statement as SQL has it: a word ends where
its letters end. The guard splits at white space, so a word with a parenthesis
or a literal right behind it (`RunsOn`) is a longer one to it, and such a
statement runs. `NothingUnguardedRuns` exempts it by name.

`PiecesAreLexed` assumes of the pieces what SQL says of them: a line comment
runs to the first end of line, a literal is quoted, and the delimiters in a
block comment nest, the last closing the first (`Nested`). A delimiter is two
characters that the one before did not use, so `/*/` opens and does not close.
A line comment that ends with the statement instead of a line is not among the
pieces.

### DaemonClients

Every request has a connection of its own, so requests of several callers meet
only in the daemon. `Answer` picks one of the replies a daemon may give: data
in full or cut off, with or without a count, refusals, lengths and bodies that
are not valid. `Lose` is a failed connection or a stream that ends early,
`Replace` a new version of the asset. Header lengths are size classes between
the limits of the three operations. Byte `i` of version `v` is `<<v, i>>`, so a
mixture of versions or a shifted range shows.

`Sizes`, `MaxVersions` and `MaxCalls` are bounds: an empty and a two-byte asset
with ranges up to one byte past the end have every overlap of a range with the
end, one replacement comes before, between or after two reads, and three calls
are a stat and two reads.

## Runs

Passing runs:

| Run | Instance | Shows |
|---|---|---|
| `cache` | 2 tenants, 2 texts, sizes 0, 2, 6, `max_entries` 3, `max_bytes` 5, TTL 1 | accounts and caps; implements `CacheContract`; the loops under the mutex terminate |
| `pool_safety` | 2 workers, channels of 1, 3 tasks of 2 tenants, 1 panic, 1 poll | tasks, counters and rows |
| `pool_liveness` | 2 workers, 2 tasks of one tenant, 1 panic | tasks settle, shutdown ends |
| `served_results` | 2 workers, 2 tenants, 2 data changes, 1 push, TTL 1 | outdated entries come from late stores only |
| `dp_budget` | 2 execs of 2 partitions, up to 2 batches each, 2 protected columns | budget never overdrawn, what the envelope means |
| `optimizer_pipeline` | 10 plans, 11 filters, 29 bundles, 2 callers, 3 passes, 2 queries | scans judged, rows permitted, projected columns masked, debits and noise agree, refusals free and audited once |
| `governed_scan` | 3 files, 16 contracts, 19 directories, 3 published versions of 2 contracts, 4 callers, 7 queries | answers come from the caller's view; schemas agree; data opened only if permitted; only issued contracts govern, and over a trusted transport none of the past; attestation true |
| `engine_shell` | 17 pieces, statements of up to 4 | what runs has a bundle and begins no statement with a disallowed word; nothing else is turned away |
| `storage` | 2 callers, 3 requests, assets of 0 or 2 bytes, one replacement | a read is an unbroken run of one version and all of its range |

The bounds make every special case happen: sizes 2 and 6 against a budget of 5
give ordinary eviction and an oversized result; three entries of four keys give
capacity eviction and replacement; a channel of one is full with the first
task; one poll gives both ends of `shutdown`; the budget of `sum` leaves a
remainder that is too small, and `avg` has an epsilon as small as the slack.
The budgets of the pipeline pay for the first query and only part of the next,
and three passes let a rule see its own result twice. Deadlock is checked for
the cache and the served results only: the other models come to rest when all
their work, which is bounded, is done.

Violation runs, each a statement of the documentation that the code does not
keep (`findings` in `PROJECT.json` quotes the lines):

| Run | Shows |
|---|---|
| `served_stale` | a query in flight stores an outdated answer after the invalidation |
| `dp_envelope_total` | with two partitions the envelope states one partition's epsilon |
| `pipeline_debits` | the second optimizer pass debits and noises the same aggregate again |

Other statements of the documentation that the code does not keep, as the
models show without a run of their own:

- `query_cache.rs:160`, "If the cache is at capacity (by byte size), the LRU
  entry is evicted first": bytes of replaced and capacity-evicted entries stay
  charged (`PutReplace`, `PutAtCapacity`), so live entries are evicted while
  the cached bytes are below `max_bytes`.
- `query_cache.rs:11`, the TTL: `worker_loop` stores hits again with a new
  timestamp (`Store` after `LookUpHit`), so an entry in use never expires. With
  hits that do not store, expiry holds.
- The design notes bound the cache; a result above `max_bytes` is stored all
  the same (`WithinBudgetOrAlone` is the bound that does hold).
- `long_running_pool_manager.rs:16`, "waits for all in-flight queries": the
  counter is raised after `recv` and lowered before the reply, so a pool is
  reported drained with a task in hand (`CountIn`, `CountOut`).
- `long_running_pool_manager.rs:269`, "Update the contract bundle in all
  workers": `RefreshContractBundle` changes no engine.
- No supervisor restarts a panicked worker: no action of `PoolManager` leaves
  `"panicked"`.
- `epsilon_consumed` is not reset between executions, so one that sees no batch
  shows the value of the one before (`Execute` leaves `out` as it is).
- `PrivacyBudgetTracker::remaining` is documented to be infinite for an
  unseeded key; the code says 0, as `consume` does.
- `docs/CONTRACT-FORMAT.md:59`, "Unknown values are a hard error at load time":
  mask tokens are parsed by `resolve`, so the error comes with the first query
  of a caller who is not the owner (`resolve`, `parse`).
- The guard's comment calls `''` an escaped quote; `strip_comments` ends the
  literal there and reads the rest as code, and a `;` in a literal ends a
  statement. `NothingUnguardedRuns` and `OnlyUnsafeTurnedAway` name these cases.
- `lib.rs:258-259`, "Any statement whose first meaningful token is in this list
  is rejected": a disallowed word with a parenthesis or a literal right behind
  it is a longer token to the guard (`reject_unsafe_ddl`, `RunsOn`).
- `long_running_pool_manager.rs:85`, "All workers are busy and the request queue
  is full": the worker is chosen some steps before `try_send`, and one refusal
  is final, so a submission is told `QueueFull` while another worker waits in
  `recv` with an empty channel (`CheckCapacity`, `LeastLoaded`, `TrySend`).
- `optimizer_rules/masking.rs:46-47`, "PII/PHI/PCI columns wrapped in masking
  expressions before they reach the executor": a projected function of such a
  column has the raw value as its argument (`MaskExpr`).
- `optimizer_rules/masking.rs:94`, "Replace the column value with its SHA-256
  hex digest": every projection on the way masks again what has the column's
  name, so through a derived table comes the digest of a digest (`MaskProjections`).
- `optimizer_rules/masking.rs:31`, "The alias preserves the output column name
  in all cases": it is named after the column, so a masked `email AS contact`
  comes out as `email` (`MaskExpr`).
- `optimizer_rules/row_filter.rs:22-24`, "If the helper still cannot translate
  an expression, it returns `Err(ContractFilterUnsupported)`": the escape
  character of `LIKE ... ESCAPE` is dropped (`row_filter.rs:302`) and the filter
  then accepts other rows (`sql_expr_to_df_expr`, `HasEscape`).
- `docs/CONTRACT-FORMAT.md:52,56` and `policy.rs:29,37`, `<REDACTED>` for
  `redact` and a typed NULL for `null`: `MaskingExec` writes `***`, an empty
  string, zero or false (`mask_string_value`, `apply_mask_to_column`). That it is
  not a NULL shows in the model, which constant it is does not.
- To `read_bytes` an `error_code` without an `error` is no error: it goes on to
  read a payload, which then is missing.

What some properties do not catch: `EnvelopeNamesEnforcement` compares names, and
the policy enforced and the one attested are one in the model; `InFlightExact` holds while a pool is
reported drained with a task in hand; `DebitsAreNoise` holds while an aggregate
is debited and noised twice (`pipeline_debits`) and does not speak of failed
queries, whose debits are lost; `SchemaAsAnnounced` speaks of batches that
leave, not of a stream that fails in the middle; `ReadIsWhatWasAsked` takes the
daemon's byte count as true and asks for all of a range only if the size the
store was opened with is still right.

**Fairness.** `QueryCache!FairSpec`: the thread that holds the mutex runs on;
nothing else must happen. `PoolManager!FairSpec`: tokio polls ready tasks, so
submissions in progress, workers and the poll loop of `shutdown` go on, and a
query that does not panic returns; nobody has to submit, shut down, panic or
drop the manager. The other models state no liveness: what
they would wait for is the network, a daemon or a caller.

## Proofs

`QueryCacheProofs`, from `ConstantsOK` (sizes and limits are naturals, tenants
and texts are finite sets), for every configuration:

- `TypeCorrect`: `TypeOK` is inductive; the part that matters is that the keys
  `invalidate_tenant` still has to remove are cached keys.
- `CounterCovers`: `held <= total_bytes` is inductive over the types. A debit
  removes what `held` loses, and saturation can only leave the counter too
  high; a charge adds what `held` gains, or more.
- `DriftIsKept`: `total_bytes - held` never falls except in `invalidate_all`,
  which needs `CounterCovers` for the saturating debit.
- `ByteBudget`: needs `CounterCovers`: when `put` leaves its loop with room by
  the counter, there is room by the bytes held too; when it leaves because the
  map is empty, the new entry is alone.
- `EntryCap`: inductive over the types, with the cardinality theorems for
  finite sets.
- `HeldCounts`: `held` is a sum over the map, stated as the cardinality of the
  set of cached bytes (`HeldBytes`), so that an insertion, a replacement and a
  removal are a union or a difference of disjoint finite sets and no recursion
  over the map is needed.
- `BoundedDrift`: `total_bytes - held` grows only in a `put` that found its
  entry still cached or evicted one for capacity. `put` has left its loop then,
  so `total_bytes` with the new entry is within the budget, or the map is empty
  and nothing can be replaced or evicted.
- `Refinement`: every step maps to a step of `CacheContract` or to a stutter
  (`entries` is its map). `BusyInv` says what is known while the lock is held:
  no reply is visible, and the keys left to remove are all the tenant has. The
  last fact makes the unlock an `Invalidate` of the whole tenant.

`ServedResultsProofs`, from `ServedConstants`, for any number of workers,
tenants and texts:

- `TypeCorrect`.
- `StaleIsLate`: `StaleOnlyByLateStore` with `announced <= data`, which it
  needs for the query step: what a query reads now is at least as new as any
  invalidation so far. The invariant speaks of cached entries and of answers in
  hand, because a hit on an outdated entry stores it again.

`PoolManagerProofs`, from `PoolConstants`, for any number of workers, tasks,
tenants and panics and any channel depth:

- `TypeCorrect`, `CounterExact`: `Counted` is `TypeOK`, `InFlightExact` and
  `InHand`. The type of the counter (0 or 1) is not inductive alone: that the
  `fetch_sub` finds a one needs the control point, and that a worker between
  `recv` and its answer has a task, and a result only after its query, is what
  `InHand` adds.
- `OwnRows`: `Own` says of cache entries, of results in a worker's hand and of
  answers alike that their rows were computed under the holder's key;
  `RowsOfOwnKey` is its last part.
- `OnlyDeadWorkersDrop`: `Routed` (queued and held tasks belong to the worker
  they were routed to, whose choice is over) and `Leaving` (why a worker left
  its loop). Without the last conjunct of `Leaving` a task could reach the
  channel of a worker that is leaving because the manager is gone.

- `TasksInOnePlace`: `OnePlace` counts positions, so its invariant is `Placed`:
  the channel and the hand of a worker hold exactly the tasks it owes an
  answer (`Owed`), each once (`Holds`). Four lemmas say what a send, a receive,
  an answer and the end of a worker do to `Holds`. That the hand is empty
  exactly outside the control points of `Holding` is needed for `recv`, which
  would otherwise overwrite a task, and that a worker about to answer has a
  result for `Reply`, whose answer would otherwise look like none. `PlacedOnce`
  turns the one position into a cardinality, with the lemma
  `ReachableQueues` (tokio's channels) for positions beyond the depth.

`LaplaceNoiseProofs`, from `LaplaceConstants` (positive epsilons, finitely many
execs and partitions), for any schema, also one that names a column twice:

- `TypeCorrect`: with `InBatch`, that a partition applying noise is at a column
  of the batch, so the column counter does not pass the end of the schema.
- `BudgetHolds`: what a column released is not inductive alone, because a batch
  debits a column before it leaves. `Held` is the set of debits of batches that
  are still in the operator; `Paid` says that released batches and held debits
  together cost no more than the tracker gave. A debit adds one member to
  `Held`, a leaving batch moves its members to `released`, a failing one only
  loses them: what it debited stays spent. The sets are finite and split by
  partition (`HeldSplits`), which is what the race needs: nobody else's debits
  change.
- `EnvelopeFromOnePartition`: `Totals` relates `epsilon_consumed` to the
  partitions of a first execution. A partition with a batch in hand has an
  accumulator ahead of what it reported, so only waiting partitions are
  compared, and the writer of the current value may be the one in the middle of
  its next batch.

`DaemonClientsProofs`, from `DaemonConstants`, for any callers, sizes,
replacements and requests:

- `ReadsAreExact`: `Reading` says of a read under way that its offset and
  length are the extent of the range asked for, computed from the size the
  store was opened with, and that its reply is a run of one version of its time
  from that offset, possibly cut short (`DataOf`); a reply with an error code
  has no bytes. `OneStat` is what keeps the size: no second stat can change it
  under a read. `ExtentIsMeant` compares the extent with the range for every
  kind of range, when the version has that size.

`GovernedScanProofs`, from `ScanConstants`, for any contracts, callers,
publications, files and number of queries. The assumptions: versions count
publications, the bundle format has no privacy parameters, nobody else signs
with the key that is verified, and `MaxPlan`, the bound on plans, is not below
the longest plan `scan` builds. One invariant, `Inv`, has a part for each
question, and each theorem reads off its own:

- `TypeCorrect`: from `Phase`, what a query has at which point.
- `OpenedForThePermitted`: `Governed` says the policy of a query is that of one
  contract (`FromContract`): its identity, permission for this very caller, and
  noise exactly if the contract asks for it. For bundles this is the argument
  of `verify`, `AcceptedIsIssued`: what is accepted is an issued bundle, with
  its lists in their order or reversed. `Verified` gives equal digests, and a
  bundle that lost a template or its gate has another digest than the one that
  was signed (`LostTemplate`, `LostGate`).
- `OnlyIssuedGovern`: from `AcceptedIsIssued`, and that a publication is never
  taken back.
- `TrustedIsCurrent`: over a trusted transport `Sent` is the current bundle; with
  `Seniority`, publications seen at the question are not taken back before the
  answer of the platform.
- `EnvelopesAreTrue`: `Attested` with `Shape`, which says which contract
  operators a plan has and that the approval is below each of them. `ScanShape`
  shows it of every plan `scan` stacks, `RewritesKeep` of every plan the
  optimizer can make by putting in or taking out an operator that
  `with_new_children` accepts.

`GovernedAnswersProofs`, from the assumptions of `GovernedScan` above, for any
file, cut into batches, contract, source, caller and query, and any sequence of
plan rewrites. The invariant `Answers` says of a query, next to `Inv`: its
policy enforces its contract (`Exact`), its file and predicate are sound
(`Opened`), and while it runs its plan is in order, its batches had the
announced types and its rows are the answer to the batches read so far, in
whatever order they came (`Ran`): the rows chosen among those read, all of them
or as many as the limit is (`Partial`).

- `BatchesAsAnnounced`: from `Ran`; the part about types.
- `AnsweredFromTheView`, in five parts:
  1. `LevelsRun`: the recursion over the plan is well founded. The functions of
     the plan up to level k exist for every k, since there is no least k without
     one (`Least`). This is how the proofs do induction over data: a
     set of counterexamples is a set of naturals, and has a least member.
  2. `ScanCanonical`, `RewritesCanonical`, `OneMore`: however a plan is
     rewritten, a batch passes the row filter, masks, noise, projection,
     predicate and limit, in this order and each as often as needed.
  3. `FilterBatch` to `LimitBatch`, `PlanShows`: what each operator, and the
     plan, makes of a batch that shows some rows of the file. `FirstAtMost` and
     `LimitAdds` are about LIMIT: it lets through, of the next batch, as many
     rows as are missing, or all if the batch has fewer.
  4. `JsonEnforces`, `BundleEnforces`, `CompiledEnforces`: a policy from a JSON
     contract or from an accepted response of the platform has the contract's
     filter and masks. An accepted response is an issued bundle
     (`AcceptedIsIssued`), and lists in another order give the same template
     (`FindsOther`).
  5. `ViewIsEnforced`, `OneBatchMore`, `AllRead`: filter and masks of such a
     policy give the rows and cells of `View`, and when the last batch is in,
     or the limit is reached, the rows collected are a result of the query on
     it.

`EngineShellProofs`, from `CharsAssumption` and `PiecesAreLexed`, for
statements of any number of pieces, over any characters, with comments nested
to any depth. The invariant of the engine (`Gated`) is small: the outcome of the
last statement is the one its pieces and its bundle give. The work is in what
the guard makes of a text:

- `UpTo`, `From`: induction over an interval, from the least counterexample.
  `ReadingSteps` and `Flattened` use it to show that the recursive functions
  behind `strip_comments` and `FlattenSeq` satisfy their equations, `Places`
  for where each piece lies in the text.
- `CharRead`, `LineRead`, `LiteralRead`, `BlockRead`: from code, the reader
  passes a piece and is in code again, having written the piece or, for a
  comment, a blank (`Shown`). In a block comment its depth is the number of
  delimiters that opened minus those that closed so far, which is positive
  until the last one. A literal needs that no quote is in it or after it: this
  is where `HasQuoteInLiteral` enters.
- `Stripped`: so the text without comments is what the pieces are shown as, one
  after the other.
- `Found`, `FoundStarts`: `reject_unsafe_ddl` finds a place in that text exactly
  if `Delimited` finds a piece; for the second direction a `;` or a verb in
  a literal has to be told from one outside, and a `;` in a literal cannot.
- `DelimitedVerb`: such a piece is a first token of SQL (`VerbFirst`) that no
  parenthesis or literal stands right behind.
- `NothingUnguarded`, `OnlyUnsafe`: both properties, from `Guard` and `Gated`.

Only model-checked, and why:

- liveness and everything under fairness;
- all of `OptimizerPipeline` and `ContractFilter`: recursive over trees.

## Plan

1. Action properties of `LaplaceNoise` and `DaemonClients` from the invariants
   above: an attested epsilon and an answer do not change afterwards.
2. The trees of `OptimizerPipeline` as functions of levels, as `GovernedScan`
   has its plans, so that its properties can be proved.

## Not modelled

The result formatter (text and IPC), the Python bindings, the sampling of noise
and the hash of a result are computations without a decision or state that a
model would add to. `LanceTableProvider` (feature-gated) hands reading and
decoding to the lance crate; of it only the object store is modelled. Logging,
metrics (`stats`) and operator events are left out. `T05Client` is modelled but
nothing in the repository calls it.
