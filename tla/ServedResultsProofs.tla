------------------------ MODULE ServedResultsProofs ------------------------
(***************************************************************************)
(* What an invalidation achieves, for any number of workers, tenants,      *)
(* queries and changes.                                                    *)
(***************************************************************************)
EXTENDS ServedResults, TLAPS

(* No task and no answer are told apart from the real ones.                *)
LEMMA Placeholders == NoKey \notin Keys /\ NoAnswer \notin Answers
<1>1. NoKey \notin Keys
  BY DEF NoKey, Keys
<1>2. NoAnswer \notin Answers
  BY DEF NoAnswer, Answers
<1> QED
  BY <1>1, <1>2

-----------------------------------------------------------------------------
(* How the cache's own operations change its contents.                     *)

(* Restricting the cache leaves entries of fewer keys.                     *)
LEMMA RestrictOK ==
  ASSUME CacheOK, NEW S \in SUBSET DOMAIN contents,
         contents' = Cache!Restrict(contents, S)
  PROVE  /\ CacheOK'
         /\ DOMAIN contents' = S
         /\ \A k \in S : contents'[k] = contents[k]
<1>1. PICK K \in SUBSET Keys : contents \in [K -> Cache!Entry]
  BY DEF CacheOK
<1>2. DOMAIN contents' = S /\ \A k \in S : contents'[k] = contents[k]
  BY DEF Cache!Restrict
<1>3. contents' \in [S -> Cache!Entry] /\ S \in SUBSET Keys
  BY <1>1 DEF Cache!Restrict
<1> QED
  BY <1>2, <1>3 DEF CacheOK

(* Storing leaves the answer under its key and some of the other entries.  *)
LEMMA StoreOK ==
  ASSUME CacheOK, NEW k \in Keys, NEW a \in Answers, Cache!Store(k, a)
  PROVE  /\ CacheOK'
         /\ k \in DOMAIN contents' /\ contents'[k].result = a
         /\ \A j \in DOMAIN contents' \ {k} :
              j \in DOMAIN contents /\ contents'[j] = contents[j]
<1>1. PICK K \in SUBSET Keys : contents \in [K -> Cache!Entry]
  BY DEF CacheOK
<1>2. PICK S \in SUBSET (DOMAIN contents \ {k}) :
        contents' = [x \in S \cup {k} |->
                       IF x = k THEN [result |-> a, age |-> 0] ELSE contents[x]]
  BY DEF Cache!Store
<1>3. [result |-> a, age |-> 0] \in Cache!Entry
  BY ServedConstants DEF Cache!Entry, Cache!Ages
<1>4. S \cup {k} \in SUBSET Keys /\ contents' \in [S \cup {k} -> Cache!Entry]
  BY <1>1, <1>2, <1>3
<1>5. CacheOK'
  BY <1>4 DEF CacheOK
<1>6. k \in DOMAIN contents' /\ contents'[k].result = a
  BY <1>2
<1>7. \A j \in DOMAIN contents' \ {k} :
        j \in DOMAIN contents /\ contents'[j] = contents[j]
  BY <1>2
<1> QED
  BY <1>5, <1>6, <1>7

(* The clock changes no result.                                            *)
LEMMA TickOK ==
  ASSUME CacheOK, Cache!Tick
  PROVE  /\ CacheOK'
         /\ DOMAIN contents' = DOMAIN contents
         /\ \A k \in DOMAIN contents : contents'[k].result = contents[k].result
<1>1. PICK K \in SUBSET Keys : contents \in [K -> Cache!Entry]
  BY DEF CacheOK
<1>2. contents' = [k \in DOMAIN contents |-> Cache!Older(contents[k])]
  BY DEF Cache!Tick
<1>3. ASSUME NEW e \in Cache!Entry
      PROVE  Cache!Older(e) \in Cache!Entry /\ Cache!Older(e).result = e.result
  BY ServedConstants DEF Cache!Older, Cache!Entry, Cache!Ages
<1>4. contents' \in [K -> Cache!Entry]
  BY <1>1, <1>2, <1>3
<1>5. CacheOK'
  BY <1>4 DEF CacheOK
<1>6. \A k \in DOMAIN contents : contents'[k].result = contents[k].result
  BY <1>1, <1>2, <1>3
<1> QED
  BY <1>2, <1>5, <1>6

(* An invalidation leaves exactly the entries of the other tenants.        *)
LEMMA InvalidateOK ==
  ASSUME CacheOK, NEW T, Cache!Invalidate(T)
  PROVE  /\ CacheOK'
         /\ \A k \in DOMAIN contents' :
              k \in DOMAIN contents /\ contents'[k] = contents[k] /\ k[1] \notin T
<1> DEFINE S == DOMAIN contents \ Cache!KeysOf(T)
<1>1. S \in SUBSET DOMAIN contents /\ contents' = Cache!Restrict(contents, S)
  BY DEF Cache!Invalidate
<1>2. CacheOK' /\ DOMAIN contents' = S /\ \A k \in S : contents'[k] = contents[k]
  BY <1>1, RestrictOK
<1>3. \A k \in S : k \in DOMAIN contents /\ k[1] \notin T
  BY DEF Cache!KeysOf
<1> QED
  BY <1>2, <1>3
-----------------------------------------------------------------------------
(* The initial pool has the types.                                         *)
LEMMA TypeInit == Init => TypeOK
<1> SUFFICES ASSUME Init PROVE TypeOK
  OBVIOUS
<1>1. CacheOK
  <2>1. {} \in SUBSET Keys /\ contents \in [{} -> Cache!Entry]
    BY DEF Init, Cache!Init
  <2> QED
    BY <2>1 DEF CacheOK
<1>2. WorldOK
  BY ServedConstants DEF Init, WorldOK, Versions, Bundles
<1>3. PoolOK
  BY ServedConstants, Placeholders DEF Init, PoolOK, Bundles
<1> QED
  BY <1>1, <1>2, <1>3 DEF Init, TypeOK

(* An invalidation, by whatever event, keeps the types.                    *)
LEMMA InvalidateTypes ==
  ASSUME TypeOK, NEW T \in SUBSET Tenants, Invalidate(T), pushed' \in Bundles
  PROVE  TypeOK'
<1>1. CacheOK'
  BY InvalidateOK DEF TypeOK, Invalidate
<1>2. WorldOK'
  BY DEF TypeOK, WorldOK, Invalidate
<1>3. PoolOK'
  BY DEF TypeOK, PoolOK, Invalidate, poolVars
<1>4. late' \subseteq Workers /\ spoiled' \subseteq Tenants
  BY DEF TypeOK, Invalidate, AtWork
<1> QED
  BY <1>1, <1>2, <1>3, <1>4 DEF TypeOK

(* Every step of workers, notifications, data and cache keeps the types.   *)
LEMMA TypeStep == TypeOK /\ [Next]_vars => TypeOK'
<1> SUFFICES ASSUME TypeOK, [Next]_vars PROVE TypeOK'
  OBVIOUS
<1> USE DEF TypeOK
<1>1. ASSUME NEW w \in Workers, NEW k \in Keys, LookUpHit(w, k) PROVE TypeOK'
  <2>1. CacheOK' /\ WorldOK'
    BY <1>1 DEF LookUpHit, Cache!LookupHit, CacheOK, WorldOK, worldVars
  <2>2. contents[k].result \in Answers
    BY <1>1 DEF LookUpHit, Cache!LookupHit, CacheOK, Cache!Entry
  <2>3. PoolOK'
    BY <1>1, <2>2 DEF LookUpHit, PoolOK
  <2> QED
    BY <1>1, <2>1, <2>3 DEF LookUpHit, history
<1>2. ASSUME NEW w \in Workers, NEW k \in Keys, LookUpMiss(w, k) PROVE TypeOK'
  <2>1. CacheOK'
    BY <1>2, RestrictOK DEF LookUpMiss, Cache!LookupMiss
  <2>2. WorldOK'
    BY <1>2 DEF LookUpMiss, WorldOK, worldVars
  <2>3. PoolOK'
    BY <1>2 DEF LookUpMiss, PoolOK
  <2> QED
    BY <1>2, <2>1, <2>2, <2>3 DEF LookUpMiss, history
<1>3. ASSUME NEW w \in Workers, Query(w) PROVE TypeOK'
  <2>1. CacheOK' /\ WorldOK'
    BY <1>3 DEF Query, CacheOK, WorldOK, worldVars
  <2>2. key[w] \in Keys /\ key[w][1] \in Tenants
    BY <1>3 DEF Query, PoolOK, Keys
  <2>3. [data |-> data[key[w][1]], bundle |-> loaded[w]] \in Answers
    BY <2>2 DEF PoolOK, WorldOK, Answers
  <2>4. PoolOK'
    BY <1>3, <2>3 DEF Query, PoolOK
  <2> QED
    BY <1>3, <2>1, <2>4 DEF Query, history
<1>4. ASSUME NEW w \in Workers, QueryError(w) PROVE TypeOK'
  <2>1. CacheOK' /\ WorldOK'
    BY <1>4 DEF QueryError, CacheOK, WorldOK, worldVars
  <2>2. PoolOK'
    BY <1>4, Placeholders DEF QueryError, PoolOK
  <2> QED
    BY <1>4, <2>1, <2>2 DEF QueryError
<1>5. ASSUME NEW w \in Workers, Store(w) PROVE TypeOK'
  <2>1. key[w] \in Keys /\ answer[w] \in Answers /\ key[w][1] \in Tenants
    BY <1>5 DEF Store, PoolOK, Keys
  <2>2. CacheOK'
    BY <1>5, <2>1, StoreOK DEF Store
  <2>3. WorldOK'
    BY <1>5 DEF Store, WorldOK, worldVars
  <2>4. PoolOK'
    BY <1>5, Placeholders DEF Store, PoolOK
  <2>5. late' \subseteq Workers /\ spoiled' \subseteq Tenants
    BY <1>5, <2>1 DEF Store
  <2> QED
    BY <2>2, <2>3, <2>4, <2>5
<1>6. ASSUME NEW t \in Tenants, DataChanges(t) PROVE TypeOK'
  <2>1. CacheOK' /\ PoolOK'
    BY <1>6 DEF DataChanges, CacheOK, PoolOK, poolVars
  <2>2. WorldOK'
    BY <1>6, ServedConstants DEF DataChanges, WorldOK, Versions
  <2> QED
    BY <1>6, <2>1, <2>2 DEF DataChanges, history
<1>7. ASSUME NEW t \in Tenants, RefreshContractBundle(t) PROVE TypeOK'
  <2>1. pushed' \in Bundles
    BY <1>7, ServedConstants DEF RefreshContractBundle, WorldOK, Bundles
  <2> QED
    BY <1>7, <2>1, InvalidateTypes DEF RefreshContractBundle
<1>8. ASSUME NEW T \in SUBSET Tenants, CatalogEvent(T) PROVE TypeOK'
  BY <1>8, InvalidateTypes DEF CatalogEvent, WorldOK
<1>9. CASE CacheForgets
  <2>1. CacheOK'
    BY <1>9, RestrictOK DEF CacheForgets, Cache!Forget
  <2> QED
    BY <1>9, <2>1 DEF CacheForgets, poolVars, worldVars, history, PoolOK, WorldOK
<1>10. CASE Tick
  <2>1. CacheOK'
    BY <1>10, TickOK DEF Tick
  <2> QED
    BY <1>10, <2>1 DEF Tick, poolVars, worldVars, history, PoolOK, WorldOK
<1>11. CASE UNCHANGED vars
  BY <1>11 DEF vars, poolVars, worldVars, history, CacheOK, PoolOK, WorldOK
<1> QED
  BY <1>1, <1>2, <1>3, <1>4, <1>5, <1>6, <1>7, <1>8, <1>9, <1>10, <1>11
  DEF Next, Worker

(* Types, and the pairing of control points, tasks and answers, hold in    *)
(* every reachable state of the lookup / query / store path.               *)
THEOREM TypeCorrect == Spec => []TypeOK
<1> QED
  BY TypeInit, TypeStep, PTL DEF Spec

-----------------------------------------------------------------------------
(* No invalidation speaks of data that are not there yet.                  *)
AnnouncedKnown == \A t \in Tenants : announced[t] <= data[t]

(* The induction hypothesis of the main theorem.                           *)
IInv == AnnouncedKnown /\ StaleOnlyByLateStore

(* A step that leaves workers, history and announcements alone and adds no *)
(* entry keeps the invariant.                                              *)
LEMMA FewerEntries ==
  ASSUME TypeOK, IInv,
         UNCHANGED <<poolVars, worldVars, history>>,
         \A k \in DOMAIN contents' :
           k \in DOMAIN contents /\ contents'[k].result = contents[k].result
  PROVE  IInv'
<1>1. AnnouncedKnown'
  BY DEF IInv, AnnouncedKnown, worldVars
<1>2. \A k \in Keys : Stale(k)' => k[1] \in spoiled'
  BY DEF IInv, StaleOnlyByLateStore, Stale, worldVars, history
<1>3. \A w \in Workers : wpc'[w] = "storing" /\ answer'[w].data < announced'[key'[w][1]]
        => w \in late' \/ key'[w][1] \in spoiled'
  BY DEF IInv, StaleOnlyByLateStore, poolVars, worldVars, history
<1> QED
  BY <1>1, <1>2, <1>3 DEF IInv, StaleOnlyByLateStore

(* An invalidation keeps it: the tenants' entries are gone and whoever     *)
(* holds one of their answers is late from now on.                         *)
LEMMA InvalidateStep ==
  ASSUME TypeOK, IInv, NEW T \in SUBSET Tenants, Invalidate(T)
  PROVE  IInv'
<1>1. AnnouncedKnown'
  BY DEF IInv, AnnouncedKnown, Invalidate, TypeOK, WorldOK, Versions
<1>2. ASSUME NEW k \in Keys, Stale(k)' PROVE k[1] \in spoiled'
  <2>1. k \in DOMAIN contents /\ contents'[k] = contents[k] /\ k[1] \notin T
    BY <1>2, InvalidateOK DEF Stale, TypeOK, Invalidate
  <2>2. k[1] \in Tenants
    BY DEF Keys
  <2>3. announced'[k[1]] = announced[k[1]]
    BY <2>1, <2>2 DEF Invalidate
  <2>4. Stale(k)
    BY <1>2, <2>1, <2>3 DEF Stale
  <2> QED
    BY <2>1, <2>4 DEF IInv, StaleOnlyByLateStore, Invalidate
<1>3. ASSUME NEW w \in Workers, wpc'[w] = "storing",
             answer'[w].data < announced'[key'[w][1]]
      PROVE  w \in late' \/ key'[w][1] \in spoiled'
  <2>1. wpc'[w] = wpc[w] /\ key'[w] = key[w] /\ answer'[w] = answer[w]
    BY DEF Invalidate, poolVars
  <2>2. key[w][1] \in Tenants
    BY <1>3, <2>1 DEF TypeOK, PoolOK, Keys
  <2>3. CASE key[w][1] \in T
    BY <1>3, <2>1, <2>3 DEF Invalidate, AtWork
  <2>4. CASE key[w][1] \notin T
    <3>1. announced'[key[w][1]] = announced[key[w][1]]
      BY <2>2, <2>4 DEF Invalidate
    <3>2. w \in late \/ key[w][1] \in spoiled
      BY <1>3, <2>1, <3>1 DEF IInv, StaleOnlyByLateStore
    <3> QED
      BY <2>1, <2>4, <3>2 DEF Invalidate
  <2> QED
    BY <2>3, <2>4
<1> QED
  BY <1>1, <1>2, <1>3 DEF IInv, StaleOnlyByLateStore

(* A lookup hit hands on what the cache has.                               *)
LEMMA HitStep ==
  ASSUME TypeOK, IInv, NEW w \in Workers, NEW k \in Keys, LookUpHit(w, k)
  PROVE  IInv'
<1>1. AnnouncedKnown'
  BY DEF IInv, AnnouncedKnown, LookUpHit, worldVars
<1>2. \A j \in Keys : Stale(j)' => j[1] \in spoiled'
  BY DEF IInv, StaleOnlyByLateStore, Stale, LookUpHit, Cache!LookupHit, worldVars, history
<1>3. ASSUME NEW v \in Workers, wpc'[v] = "storing",
             answer'[v].data < announced'[key'[v][1]]
      PROVE  v \in late' \/ key'[v][1] \in spoiled'
  <2>1. CASE v = w
    <3>1. key'[w] = k /\ answer'[w] = contents[k].result
      BY DEF LookUpHit, TypeOK, PoolOK
    <3>2. Stale(k)
      BY <1>3, <2>1, <3>1 DEF Stale, LookUpHit, Cache!LookupHit, worldVars
    <3> QED
      BY <2>1, <3>1, <3>2 DEF IInv, StaleOnlyByLateStore, LookUpHit, history
  <2>2. CASE v # w
    BY <1>3, <2>2 DEF IInv, StaleOnlyByLateStore, LookUpHit, TypeOK, PoolOK,
                      worldVars, history
  <2> QED
    BY <2>1, <2>2
<1> QED
  BY <1>1, <1>2, <1>3 DEF IInv, StaleOnlyByLateStore

(* A query reads data at least as new as what was announced.               *)
LEMMA QueryStep ==
  ASSUME TypeOK, IInv, NEW w \in Workers, Query(w)
  PROVE  IInv'
<1>1. AnnouncedKnown'
  BY DEF IInv, AnnouncedKnown, Query, worldVars
<1>2. \A j \in Keys : Stale(j)' => j[1] \in spoiled'
  BY DEF IInv, StaleOnlyByLateStore, Stale, Query, worldVars, history
<1>3. ASSUME NEW v \in Workers, wpc'[v] = "storing",
             answer'[v].data < announced'[key'[v][1]]
      PROVE  v \in late' \/ key'[v][1] \in spoiled'
  <2>1. CASE v = w
    <3>1. key[w][1] \in Tenants
      BY DEF Query, TypeOK, PoolOK, Keys
    <3>2. answer'[w].data = data[key[w][1]]
      BY DEF Query, TypeOK, PoolOK
    <3>3. data[key[w][1]] \in Int /\ announced[key[w][1]] \in Int
      BY <3>1 DEF TypeOK, WorldOK, Versions
    <3>4. announced[key[w][1]] <= data[key[w][1]]
      BY <3>1 DEF IInv, AnnouncedKnown
    <3> QED
      BY <1>3, <2>1, <3>2, <3>3, <3>4 DEF Query, worldVars
  <2>2. CASE v # w
    BY <1>3, <2>2 DEF IInv, StaleOnlyByLateStore, Query, TypeOK, PoolOK,
                      worldVars, history
  <2> QED
    BY <2>1, <2>2
<1> QED
  BY <1>1, <1>2, <1>3 DEF IInv, StaleOnlyByLateStore

(* A store of an outdated answer is a late one, or the tenant is spoiled   *)
(* already.                                                                *)
LEMMA StoreStep ==
  ASSUME TypeOK, IInv, NEW w \in Workers, Store(w)
  PROVE  IInv'
<1>1. AnnouncedKnown'
  BY DEF IInv, AnnouncedKnown, Store, worldVars
<1>2. key[w] \in Keys /\ answer[w] \in Answers
  BY DEF Store, TypeOK, PoolOK
<1>3. ASSUME NEW k \in Keys, Stale(k)' PROVE k[1] \in spoiled'
  <2>1. CASE k = key[w]
    <3>1. answer[w].data < announced[k[1]]
      BY <1>2, <1>3, <2>1, StoreOK DEF Stale, Store, worldVars, TypeOK
    <3>2. w \in late \/ k[1] \in spoiled
      BY <2>1, <3>1 DEF IInv, StaleOnlyByLateStore, Store
    <3> QED
      BY <2>1, <3>2 DEF Store
  <2>2. CASE k # key[w]
    <3>1. k \in DOMAIN contents /\ contents'[k] = contents[k]
      BY <1>2, <1>3, <2>2, StoreOK DEF Stale, Store, TypeOK
    <3>2. Stale(k)
      BY <1>3, <3>1 DEF Stale, Store, worldVars
    <3> QED
      BY <3>2 DEF IInv, StaleOnlyByLateStore, Store
  <2> QED
    BY <2>1, <2>2
<1>4. ASSUME NEW v \in Workers, wpc'[v] = "storing",
             answer'[v].data < announced'[key'[v][1]]
      PROVE  v \in late' \/ key'[v][1] \in spoiled'
  <2>1. v # w
    BY <1>4 DEF Store, TypeOK, PoolOK
  <2>2. wpc[v] = "storing" /\ answer'[v] = answer[v] /\ key'[v] = key[v]
    BY <1>4, <2>1 DEF Store, TypeOK, PoolOK
  <2>3. v \in late \/ key[v][1] \in spoiled
    BY <1>4, <2>2 DEF IInv, StaleOnlyByLateStore, Store, worldVars
  <2> QED
    BY <2>1, <2>2, <2>3 DEF Store
<1> QED
  BY <1>1, <1>3, <1>4 DEF IInv, StaleOnlyByLateStore

(* Every other step leaves entries, answers and announcements in relation. *)
LEMMA StaleStep == TypeOK /\ IInv /\ [Next]_vars => IInv'
<1> SUFFICES ASSUME TypeOK, IInv, [Next]_vars PROVE IInv'
  OBVIOUS
<1>1. ASSUME NEW w \in Workers, NEW k \in Keys, LookUpMiss(w, k) PROVE IInv'
  <2>1. AnnouncedKnown'
    BY <1>1 DEF IInv, AnnouncedKnown, LookUpMiss, worldVars
  <2>2. \A j \in DOMAIN contents' : j \in DOMAIN contents /\ contents'[j] = contents[j]
    BY <1>1, RestrictOK DEF LookUpMiss, Cache!LookupMiss, TypeOK
  <2>3. \A j \in Keys : Stale(j)' => j[1] \in spoiled'
    BY <1>1, <2>2 DEF IInv, StaleOnlyByLateStore, Stale, LookUpMiss, worldVars, history
  <2>4. \A v \in Workers : wpc'[v] = "storing" /\ answer'[v].data < announced'[key'[v][1]]
          => v \in late' \/ key'[v][1] \in spoiled'
    BY <1>1 DEF IInv, StaleOnlyByLateStore, LookUpMiss, TypeOK, PoolOK, worldVars, history
  <2> QED
    BY <2>1, <2>3, <2>4 DEF IInv, StaleOnlyByLateStore
<1>2. ASSUME NEW w \in Workers, QueryError(w) PROVE IInv'
  <2>1. AnnouncedKnown'
    BY <1>2 DEF IInv, AnnouncedKnown, QueryError, worldVars
  <2>2. \A j \in Keys : Stale(j)' => j[1] \in spoiled'
    BY <1>2 DEF IInv, StaleOnlyByLateStore, Stale, QueryError, worldVars
  <2>3. \A v \in Workers : wpc'[v] = "storing" /\ answer'[v].data < announced'[key'[v][1]]
          => v \in late' \/ key'[v][1] \in spoiled'
    BY <1>2 DEF IInv, StaleOnlyByLateStore, QueryError, TypeOK, PoolOK, worldVars
  <2> QED
    BY <2>1, <2>2, <2>3 DEF IInv, StaleOnlyByLateStore
<1>3. ASSUME NEW t \in Tenants, DataChanges(t) PROVE IInv'
  <2>1. AnnouncedKnown'
    BY <1>3 DEF IInv, AnnouncedKnown, DataChanges, TypeOK, WorldOK, Versions
  <2> QED
    BY <1>3, <2>1 DEF IInv, StaleOnlyByLateStore, Stale, DataChanges, poolVars, history
<1>4. CASE CacheForgets
  <2>1. \A k \in DOMAIN contents' : k \in DOMAIN contents /\ contents'[k] = contents[k]
    BY <1>4, RestrictOK DEF CacheForgets, Cache!Forget, TypeOK
  <2> QED
    BY <1>4, <2>1, FewerEntries DEF CacheForgets
<1>5. CASE Tick
  <2>1. \A k \in DOMAIN contents' :
          k \in DOMAIN contents /\ contents'[k].result = contents[k].result
    BY <1>5, TickOK DEF Tick, TypeOK
  <2> QED
    BY <1>5, <2>1, FewerEntries DEF Tick
<1>6. CASE UNCHANGED vars
  BY <1>6, FewerEntries DEF vars
<1>7. ASSUME NEW t \in Tenants, RefreshContractBundle(t) PROVE IInv'
  BY <1>7, InvalidateStep DEF RefreshContractBundle
<1>8. ASSUME NEW T \in SUBSET Tenants, CatalogEvent(T) PROVE IInv'
  BY <1>8, InvalidateStep DEF CatalogEvent
<1> QED
  BY <1>1, <1>2, <1>3, <1>4, <1>5, <1>6, <1>7, <1>8, HitStep, QueryStep, StoreStep
  DEF Next, Worker

(* Invalidation of a tenant works up to what is in flight: for any number  *)
(* of workers and changes, an entry older than the tenant's last           *)
(* invalidation is only there because a worker that was already at work    *)
(* has stored its answer since.                                            *)
THEOREM StaleIsLate == Spec => []StaleOnlyByLateStore
<1>1. Init => IInv
  BY DEF Init, Cache!Init, IInv, AnnouncedKnown, StaleOnlyByLateStore, Stale
<1>2. IInv => StaleOnlyByLateStore
  BY DEF IInv
<1> QED
  BY <1>1, <1>2, TypeCorrect, StaleStep, PTL DEF Spec
=============================================================================
