--------------------------- MODULE ServedResults ---------------------------
(***************************************************************************)
(* What the pool serves while data and contracts change: the lookup /      *)
(* query / store path of the workers in                                    *)
(* src/src/long_running_pool_manager.rs composed with the result cache and *)
(* with the notifications that invalidate it.                              *)
(*                                                                         *)
(* The cache is the one of CacheContract, which QueryCache implements; its *)
(* results carry the version of the tenant's data and of the contract      *)
(* bundle they were computed under.  The workers, the notifications and    *)
(* the world that changes the data interleave freely.                      *)
(***************************************************************************)
EXTENDS Integers, FiniteSets

CONSTANTS Workers, Tenants, Sqls,
          TTL,          \* ttl_secs, in clock ticks
          MaxVersion,   \* bound on the versions of a tenant's data
          MaxPushes     \* bound on the contract bundles that T03 pushes

ASSUME ServedConstants ==
  /\ TTL \in Nat /\ MaxVersion \in Nat /\ MaxPushes \in Nat
  /\ IsFiniteSet(Workers) /\ IsFiniteSet(Tenants) /\ IsFiniteSet(Sqls)

VARIABLES contents, reply,  \* the cache and its last answer
          data,       \* per tenant: the current version of its data
          announced,  \* per tenant: the version at its last invalidation
          pushed,     \* the bundle last pushed by T03
          loaded,     \* per worker: the bundle its engine was given
          wpc, key, answer,  \* per worker: control point, its query, its result
          late,       \* history: workers at work when their tenant was invalidated
          spoiled     \* history: tenants with a late store since then

poolVars == <<loaded, wpc, key, answer>>
worldVars == <<data, announced, pushed>>
history == <<late, spoiled>>
vars == <<contents, reply, poolVars, worldVars, history>>

Versions == 0 .. MaxVersion
Bundles == 0 .. MaxPushes
Answers == [data : Versions, bundle : Bundles]
Keys == Tenants \X Sqls

Cache == INSTANCE CacheContract WITH Results <- Answers

NoKey == <<>>
NoAnswer == [kind |-> "none"]

-----------------------------------------------------------------------------
(* start(): every engine gets the initial bundle.                          *)
Init ==
  /\ Cache!Init
  /\ data = [t \in Tenants |-> 0]
  /\ announced = [t \in Tenants |-> 0]
  /\ pushed = 0
  /\ loaded = [w \in Workers |-> 0]
  /\ wpc = [w \in Workers |-> "idle"]
  /\ key = [w \in Workers |-> NoKey]
  /\ answer = [w \in Workers |-> NoAnswer]
  /\ late = {}
  /\ spoiled = {}

(* execute_query_task: the cache has an answer ...                         *)
LookUpHit(w, k) ==
  /\ wpc[w] = "idle"
  /\ Cache!LookupHit(k)
  /\ key' = [key EXCEPT ![w] = k]
  /\ answer' = [answer EXCEPT ![w] = contents[k].result]
  /\ wpc' = [wpc EXCEPT ![w] = "storing"]
  /\ UNCHANGED <<loaded, worldVars, history>>

(* ... or it has not.                                                      *)
LookUpMiss(w, k) ==
  /\ wpc[w] = "idle"
  /\ Cache!LookupMiss(k)
  /\ key' = [key EXCEPT ![w] = k]
  /\ wpc' = [wpc EXCEPT ![w] = "querying"]
  /\ UNCHANGED <<loaded, answer, worldVars, history>>

(* engine.query reads the data as it is now, under the engine's bundle.    *)
Query(w) ==
  /\ wpc[w] = "querying"
  /\ answer' = [answer EXCEPT ![w] = [data |-> data[key[w][1]], bundle |-> loaded[w]]]
  /\ wpc' = [wpc EXCEPT ![w] = "storing"]
  /\ UNCHANGED <<contents, reply, loaded, key, worldVars, history>>

(* Faulty variant: the task of the failed query is not let go of.          *)
QueryError_KeyKept(w) ==
  /\ wpc[w] = "querying"
  /\ wpc' = [wpc EXCEPT ![w] = "idle"]
  /\ late' = late \ {w}
  /\ UNCHANGED <<contents, reply, loaded, key, answer, worldVars, spoiled>>

(* engine.query fails: nothing is stored.                                  *)
QueryError(w) ==
  /\ wpc[w] = "querying"
  /\ key' = [key EXCEPT ![w] = NoKey]
  /\ wpc' = [wpc EXCEPT ![w] = "idle"]
  /\ late' = late \ {w}
  /\ UNCHANGED <<contents, reply, loaded, answer, worldVars, spoiled>>

(* worker_loop: every success is put in the cache, a hit as well, and the  *)
(* reply is sent.                                                          *)
Store(w) ==
  /\ wpc[w] = "storing"
  /\ Cache!Store(key[w], answer[w])
  /\ spoiled' = IF w \in late THEN spoiled \cup {key[w][1]} ELSE spoiled
  /\ late' = late \ {w}
  /\ key' = [key EXCEPT ![w] = NoKey]
  /\ answer' = [answer EXCEPT ![w] = NoAnswer]
  /\ wpc' = [wpc EXCEPT ![w] = "idle"]
  /\ UNCHANGED <<loaded, worldVars>>

Worker(w) ==
  \/ \E k \in Keys : LookUpHit(w, k) \/ LookUpMiss(w, k)
  \/ Query(w) \/ QueryError(w) \/ Store(w)

-----------------------------------------------------------------------------
(* External: the data of a tenant changes; the event is still on its way.  *)
DataChanges(t) ==
  /\ data[t] < MaxVersion
  /\ data' = [data EXCEPT ![t] = @ + 1]
  /\ UNCHANGED <<contents, reply, announced, pushed, poolVars, history>>

AtWork(T) == {w \in Workers : wpc[w] # "idle" /\ key[w][1] \in T}

(* Faulty variant: the tenant's entries stay.                              *)
Invalidate_Nothing(T) ==
  /\ announced' = [t \in Tenants |-> IF t \in T THEN data[t] ELSE announced[t]]
  /\ late' = late \cup AtWork(T)
  /\ spoiled' = spoiled \ T
  /\ UNCHANGED <<contents, reply, data, poolVars>>

(* invalidate_tenant and invalidate_all on the shared cache, with what is  *)
(* known of the data when they run.                                        *)
Invalidate(T) ==
  /\ Cache!Invalidate(T)
  /\ announced' = [t \in Tenants |-> IF t \in T THEN data[t] ELSE announced[t]]
  /\ late' = late \cup AtWork(T)
  /\ spoiled' = spoiled \ T
  /\ UNCHANGED <<data, poolVars>>

(* refresh_contract_bundle: the tenant is invalidated; the engines keep    *)
(* the bundle they have.                                                   *)
RefreshContractBundle(t) ==
  /\ pushed < MaxPushes
  /\ pushed' = pushed + 1
  /\ Invalidate({t})

(* A T02 catalog event for one tenant, or a global redeployment.           *)
CatalogEvent(T) == Invalidate(T) /\ UNCHANGED pushed

(* What the cache and its clock do on their own.                           *)
CacheForgets == Cache!Forget /\ UNCHANGED <<poolVars, worldVars, history>>
Tick == Cache!Tick /\ UNCHANGED <<poolVars, worldVars, history>>

Next ==
  \/ \E w \in Workers : Worker(w)
  \/ \E t \in Tenants : DataChanges(t) \/ RefreshContractBundle(t) \/ CatalogEvent({t})
  \/ CatalogEvent(Tenants)
  \/ CacheForgets
  \/ Tick

Spec == Init /\ [][Next]_vars

-----------------------------------------------------------------------------
CacheOK == \E S \in SUBSET Keys : contents \in [S -> Cache!Entry]

WorldOK ==
  /\ data \in [Tenants -> Versions]
  /\ announced \in [Tenants -> Versions]
  /\ pushed \in Bundles

PoolOK ==
  /\ loaded \in [Workers -> Bundles]
  /\ wpc \in [Workers -> {"idle", "querying", "storing"}]
  /\ key \in [Workers -> Keys \cup {NoKey}]
  /\ answer \in [Workers -> Answers \cup {NoAnswer}]
  /\ \A w \in Workers : wpc[w] # "idle" <=> key[w] \in Keys
  /\ \A w \in Workers : wpc[w] = "storing" <=> answer[w] \in Answers

(* Types; a worker has a key exactly while it works on a task and an       *)
(* answer until it has stored it.                                          *)
TypeOK ==
  CacheOK /\ WorldOK /\ PoolOK /\ late \subseteq Workers /\ spoiled \subseteq Tenants

Stale(k) ==
  k \in DOMAIN contents /\ contents[k].result.data < announced[k[1]]

(* Invalidation works up to what is in flight: an entry computed from data *)
(* older than the tenant's last invalidation can only be there because a   *)
(* worker that was already at work then has stored its answer since; no    *)
(* answer looked up or computed later is older than the invalidation.      *)
StaleOnlyByLateStore ==
  /\ \A k \in Keys : Stale(k) => k[1] \in spoiled
  /\ \A w \in Workers : wpc[w] = "storing" /\ answer[w].data < announced[key[w][1]]
       => w \in late \/ key[w][1] \in spoiled

(* "Invalidated when the underlying data or contract changes": after an    *)
(* invalidation of a tenant no lookup hits an entry computed from data     *)
(* older than that.                                                        *)
InvalidatedEntriesNotServed ==
  [][ \A w \in Workers, k \in Keys :
        LookUpHit(w, k) => contents[k].result.data >= announced[k[1]] ]_vars
=============================================================================
