-------------------------- MODULE QueryCacheProofs --------------------------
(***************************************************************************)
(* Theorems about QueryCache for every set of tenants, SQL texts and       *)
(* results, every size function and every configuration of the cache.      *)
(***************************************************************************)
EXTENDS QueryCache, FiniteSetTheorems, TLAPS

(* A cached key is a key, its entry is an entry with a natural size.       *)
LEMMA CachedEntry ==
  ASSUME MapOK, NEW k \in Cached
  PROVE  k \in Keys /\ entries[k] \in Entry /\ Bytes(k) \in Nat
<1>1. PICK S \in SUBSET Keys : entries \in [S -> Entry]
  BY DEF MapOK
<1>2. k \in S /\ entries[k] \in Entry
  BY <1>1 DEF Cached
<1>3. entries[k].result \in Results
  BY <1>2 DEF Entry
<1>4. Bytes(k) \in Nat
  BY <1>3, ConstantsOK DEF Bytes
<1> QED
  BY <1>2, <1>4

(* Removing an entry leaves a well-formed map of the other keys.           *)
LEMMA PopKeepsMap ==
  ASSUME MapOK, NEW k \in Cached, Pop(k)
  PROVE  MapOK' /\ Cached' = Cached \ {k}
<1>1. PICK S \in SUBSET Keys : entries \in [S -> Entry]
  BY DEF MapOK
<1>2. entries' \in [Cached \ {k} -> Entry]
  BY <1>1 DEF Pop, Restrict, Cached
<1>3. Cached' = Cached \ {k}
  BY DEF Pop, Restrict, Cached
<1>4. Cached \ {k} \in SUBSET Keys
  BY <1>1 DEF Cached
<1>5. older' \subseteq Cached' \X Cached'
  BY <1>3 DEF Pop
<1> QED
  BY <1>2, <1>3, <1>4, <1>5 DEF MapOK

(* Inserting beside kept entries leaves a well-formed map.                 *)
LEMMA InsertKeepsMap ==
  ASSUME MapOK, NEW k \in Keys, NEW r \in Results, NEW lost,
         NEW kept \in SUBSET Cached, Insert(k, r, kept, lost)
  PROVE  MapOK' /\ Cached' = kept \cup {k}
<1>1. PICK S \in SUBSET Keys : entries \in [S -> Entry]
  BY DEF MapOK
<1>2. [result |-> r, age |-> 0] \in Entry
  BY ConstantsOK DEF Entry, Ages
<1>3. Cached' = kept \cup {k}
  BY DEF Insert, Cached
<1>4. entries' \in [kept \cup {k} -> Entry]
  BY <1>1, <1>2 DEF Insert, Cached
<1>5. kept \cup {k} \in SUBSET Keys
  BY <1>1 DEF Cached
<1>6. older' \subseteq Cached' \X Cached'
  BY <1>3 DEF Insert, MostRecent
<1> QED
  BY <1>3, <1>4, <1>5, <1>6 DEF MapOK

(* What PutCharge leaves in the counter, in the lock and in the reply.     *)
LEMMA ChargeTypes ==
  ASSUME TypeOK, PutCharge
  PROVE  /\ op.key \in Keys /\ op.result \in Results
         /\ ByteSize[op.result] \in Nat
         /\ total_bytes' \in Nat /\ OpOK' /\ ReplyOK'
<1>1. PICK k \in Keys, r \in Results : op = Putting(k, r)
  BY DEF TypeOK, OpOK, PutCharge, Idle, Putting, Invalidating
<1>2. op.key = k /\ op.result = r
  BY <1>1 DEF Putting
<1>3. ByteSize[r] \in Nat
  BY ConstantsOK
<1>4. total_bytes' \in Nat
  BY <1>2, <1>3 DEF TypeOK, PutCharge
<1>5. OpOK' /\ ReplyOK'
  BY <1>2 DEF PutCharge, OpOK, ReplyOK
<1> QED
  BY <1>2, <1>3, <1>4, <1>5

(* The debit of a removed entry leaves a natural counter.                  *)
LEMMA DebitTypes ==
  ASSUME TypeOK, NEW k \in Cached, Pop(k), Debit(k)
  PROVE  total_bytes' \in Nat /\ held' \in Int
BY CachedEntry DEF TypeOK, Pop, Debit, SaturatingSub

(* The empty cache has the types.                                          *)
LEMMA TypeInit == Init => TypeOK
<1> SUFFICES ASSUME Init PROVE TypeOK
  OBVIOUS
<1>1. entries \in [{} -> Entry]
  BY DEF Init
<1>2. {} \in SUBSET Keys
  OBVIOUS
<1> QED
  BY <1>1, <1>2 DEF Init, TypeOK, MapOK, OpOK, ReplyOK

(* Every step of every call keeps the types.                               *)
LEMMA TypeStep == TypeOK /\ [Next]_vars => TypeOK'
<1> SUFFICES ASSUME TypeOK, [Next]_vars PROVE TypeOK'
  OBVIOUS
<1>0. MapOK /\ OpOK /\ ReplyOK
  BY DEF TypeOK
<1>1. ASSUME NEW k \in Keys, GetMiss(k) PROVE TypeOK'
  BY <1>0, <1>1 DEF GetMiss, TypeOK, MapOK, OpOK, ReplyOK, Cached
<1>2. ASSUME NEW k \in Keys, GetHit(k) PROVE TypeOK'
  <2>1. MapOK'
    BY <1>0, <1>2 DEF GetHit, MapOK, MostRecent, Cached
  <2>2. entries[k].result \in Results
    BY <1>0, <1>2, CachedEntry DEF GetHit, Entry
  <2>3. OpOK' /\ ReplyOK'
    BY <1>0, <1>2, <2>2 DEF GetHit, OpOK, ReplyOK
  <2> QED
    BY <1>2, <2>1, <2>3 DEF GetHit, TypeOK
<1>3. ASSUME NEW k \in Keys, GetExpired(k) PROVE TypeOK'
  <2>1. k \in Cached /\ Pop(k) /\ Debit(k) /\ op' = op /\ op = Idle /\ reply' = Miss(k)
    BY <1>3 DEF GetExpired
  <2>2. MapOK' /\ total_bytes' \in Nat /\ held' \in Int
    BY <1>0, <2>1, PopKeepsMap, DebitTypes
  <2>3. OpOK' /\ ReplyOK'
    BY <2>1 DEF OpOK, ReplyOK
  <2> QED
    BY <2>2, <2>3 DEF TypeOK
<1>4. ASSUME NEW k \in Keys, NEW r \in Results, PutLock(k, r) PROVE TypeOK'
  BY <1>4 DEF PutLock, TypeOK, MapOK, OpOK, ReplyOK, Cached
<1>5. ASSUME NEW t \in Tenants, InvalidateLock(t) PROVE TypeOK'
  <2>1. {k \in Cached : k[1] = t} \in SUBSET Cached
    OBVIOUS
  <2> QED
    BY <1>5, <2>1 DEF InvalidateLock, TypeOK, MapOK, OpOK, ReplyOK, Cached
<1>6. CASE PutEvict
  <2>1. PICK k \in Cached : Pop(k) /\ Debit(k)
    BY <1>6 DEF PutEvict
  <2>2. MapOK' /\ total_bytes' \in Nat /\ held' \in Int
    BY <1>0, <2>1, PopKeepsMap, DebitTypes
  <2>3. PICK x \in Keys, r \in Results : op = Putting(x, r)
    BY <1>0, <1>6 DEF OpOK, PutEvict, Idle, Putting, Invalidating
  <2>4. OpOK' /\ ReplyOK'
    BY <1>0, <1>6, <2>3 DEF PutEvict, OpOK, ReplyOK
  <2> QED
    BY <2>2, <2>4 DEF TypeOK
<1>7. CASE PutReplace
  <2>1. PutCharge /\ op.key \in Cached
        /\ Insert(op.key, op.result, Cached \ {op.key}, Bytes(op.key))
    BY <1>7 DEF PutReplace
  <2>2. MapOK'
    BY <1>0, <2>1, ChargeTypes, InsertKeepsMap
  <2>3. held' \in Int
    BY <1>0, <2>1, ChargeTypes, CachedEntry DEF Insert, TypeOK
  <2> QED
    BY <2>1, <2>2, <2>3, ChargeTypes DEF TypeOK
<1>8. CASE PutNew
  <2>1. PutCharge /\ Insert(op.key, op.result, Cached, 0)
    BY <1>8 DEF PutNew
  <2>2. MapOK'
    BY <1>0, <2>1, ChargeTypes, InsertKeepsMap
  <2>3. held' \in Int
    BY <1>0, <2>1, ChargeTypes DEF Insert, TypeOK
  <2> QED
    BY <2>1, <2>2, <2>3, ChargeTypes DEF TypeOK
<1>9. CASE PutAtCapacity
  <2>1. PICK k \in Cached : Insert(op.key, op.result, Cached \ {k}, Bytes(k))
    BY <1>9 DEF PutAtCapacity
  <2>2. PutCharge
    BY <1>9 DEF PutAtCapacity
  <2>3. MapOK'
    BY <1>0, <2>1, <2>2, ChargeTypes, InsertKeepsMap
  <2>4. held' \in Int
    BY <1>0, <2>1, <2>2, ChargeTypes, CachedEntry DEF Insert, TypeOK
  <2> QED
    BY <2>2, <2>3, <2>4, ChargeTypes DEF TypeOK
<1>10. CASE InvalidatePop
  <2>1. PICK t \in Tenants, K \in SUBSET Cached : op = Invalidating(t, K)
    BY <1>0, <1>10 DEF OpOK, InvalidatePop, Idle, Putting, Invalidating
  <2>2. PICK k \in K : /\ op' = [op EXCEPT !.keys = @ \ {k}]
                       /\ k \in Cached /\ Pop(k) /\ Debit(k)
    BY <1>10, <2>1 DEF InvalidatePop, Invalidating
  <2>3. /\ MapOK' /\ total_bytes' \in Nat /\ held' \in Int
        /\ Cached' = Cached \ {k}
    BY <1>0, <2>2, PopKeepsMap, DebitTypes
  <2>4. op' = Invalidating(t, K \ {k})
    BY <2>1, <2>2 DEF Invalidating
  <2>5. K \ {k} \in SUBSET Cached'
    BY <2>1, <2>3
  <2>6. OpOK' /\ ReplyOK'
    BY <1>0, <1>10, <2>4, <2>5 DEF OpOK, ReplyOK, InvalidatePop
  <2> QED
    BY <2>3, <2>6 DEF TypeOK
<1>11. CASE InvalidateUnlock
  <2>1. PICK t \in Tenants, K \in SUBSET Cached : op = Invalidating(t, K)
    BY <1>0, <1>11 DEF OpOK, InvalidateUnlock, Idle, Putting, Invalidating
  <2>2. op.tenant \in Tenants /\ {op.tenant} \in SUBSET Tenants
    BY <2>1 DEF Invalidating
  <2>3. OpOK' /\ ReplyOK'
    BY <1>11, <2>2 DEF InvalidateUnlock, OpOK, ReplyOK
  <2>4. MapOK'
    BY <1>0, <1>11 DEF InvalidateUnlock, MapOK, Cached
  <2> QED
    BY <1>11, <2>3, <2>4 DEF InvalidateUnlock, TypeOK
<1>12. CASE InvalidateAll
  <2>1. entries' \in [{} -> Entry] /\ {} \in SUBSET Keys
    BY <1>12 DEF InvalidateAll
  <2>2. MapOK'
    BY <1>12, <2>1 DEF InvalidateAll, MapOK
  <2>3. OpOK' /\ ReplyOK'
    BY <1>12 DEF InvalidateAll, OpOK, ReplyOK
  <2> QED
    BY <1>12, <2>2, <2>3 DEF InvalidateAll, TypeOK
<1>13. CASE Tick
  <2>1. PICK S \in SUBSET Keys : entries \in [S -> Entry]
    BY <1>0 DEF MapOK
  <2>2. entries' \in [S -> Entry] /\ Cached' = Cached
    BY <1>13, <2>1, ConstantsOK DEF Tick, Cached, Entry, Ages
  <2>3. MapOK'
    BY <1>0, <1>13, <2>2 DEF Tick, MapOK
  <2>4. OpOK' /\ ReplyOK'
    BY <1>0, <1>13, <2>2 DEF Tick, OpOK, ReplyOK
  <2> QED
    BY <1>13, <2>3, <2>4 DEF Tick, TypeOK
<1>14. CASE UNCHANGED vars
  BY <1>14 DEF vars, TypeOK, MapOK, OpOK, ReplyOK, Cached
<1> QED
  BY <1>1, <1>2, <1>3, <1>4, <1>5, <1>6, <1>7, <1>8, <1>9, <1>10, <1>11,
     <1>12, <1>13, <1>14 DEF Next, LockHolder

(* The state of the cache, of the lock holder and of the reply keeps its   *)
(* type through every call of query_cache.rs.                              *)
THEOREM TypeCorrect == Spec => []TypeOK
BY TypeInit, TypeStep, PTL DEF Spec

-----------------------------------------------------------------------------
(* The byte accounts.                                                      *)

(* A debited removal keeps the counter at or above the bytes held, even    *)
(* where saturating_sub saturates, and gives nothing of the drift back.    *)
LEMMA DebitCovers ==
  ASSUME TypeOK, NEW k \in Cached, Pop(k), Debit(k), held <= total_bytes
  PROVE  /\ held' <= total_bytes' /\ held' <= held
         /\ total_bytes' - held' >= total_bytes - held
<1>1. Bytes(k) \in Nat
  BY CachedEntry DEF TypeOK
<1> QED
  BY <1>1 DEF TypeOK, Pop, Debit, SaturatingSub

(* A charged insertion that loses `lost` undebited bytes adds `lost` to    *)
(* the drift.                                                              *)
LEMMA ChargeCovers ==
  ASSUME TypeOK, PutCharge, held <= total_bytes, NEW lost \in Nat, NEW kept,
         Insert(op.key, op.result, kept, lost)
  PROVE  /\ held' <= total_bytes'
         /\ total_bytes' - held' = total_bytes - held + lost
<1>1. ByteSize[op.result] \in Nat
  BY ChargeTypes
<1> QED
  BY <1>1 DEF TypeOK, PutCharge, Insert

(* Every step keeps the counter at or above the bytes held.                *)
LEMMA CoversStep ==
  ASSUME TypeOK, CounterCoversContents, [Next]_vars
  PROVE  CounterCoversContents'
<1> USE DEF CounterCoversContents
<1>1. ASSUME NEW k \in Keys, GetMiss(k) \/ GetHit(k) PROVE held' <= total_bytes'
  BY <1>1 DEF GetMiss, GetHit
<1>2. ASSUME NEW k \in Keys, GetExpired(k) PROVE held' <= total_bytes'
  BY <1>2, DebitCovers DEF GetExpired
<1>3. ASSUME NEW k \in Keys, NEW r \in Results, PutLock(k, r)
      PROVE held' <= total_bytes'
  BY <1>3 DEF PutLock
<1>4. ASSUME NEW t \in Tenants, InvalidateLock(t) PROVE held' <= total_bytes'
  BY <1>4 DEF InvalidateLock
<1>5. CASE PutEvict
  BY <1>5, DebitCovers DEF PutEvict
<1>6. CASE PutReplace
  BY <1>6, ChargeCovers, CachedEntry DEF PutReplace, TypeOK
<1>7. CASE PutNew
  BY <1>7, ChargeCovers DEF PutNew
<1>8. CASE PutAtCapacity
  BY <1>8, ChargeCovers, CachedEntry DEF PutAtCapacity, TypeOK
<1>9. CASE InvalidatePop
  BY <1>9, DebitCovers DEF InvalidatePop
<1>10. CASE InvalidateUnlock \/ InvalidateAll \/ Tick \/ UNCHANGED vars
  BY <1>10 DEF InvalidateUnlock, InvalidateAll, Tick, vars
<1> QED
  BY <1>1, <1>2, <1>3, <1>4, <1>5, <1>6, <1>7, <1>8, <1>9, <1>10
  DEF Next, LockHolder

(* total_bytes never falls below the bytes of the entries really cached,   *)
(* whatever is put, replaced, evicted, expired or invalidated: `put` never *)
(* lets the cache grow on an under-count.                                  *)
THEOREM CounterCovers == Spec => []CounterCoversContents
<1>1. Init => CounterCoversContents
  BY DEF Init, CounterCoversContents
<1>2. TypeOK /\ CounterCoversContents /\ [Next]_vars => CounterCoversContents'
  BY CoversStep
<1> QED
  BY <1>1, <1>2, TypeCorrect, PTL DEF Spec

(* Bytes that a replacement or a capacity eviction leaves in the counter   *)
(* are given back by no call but invalidate_all.                           *)
THEOREM DriftIsKept == Spec => DriftOnlyResetByInvalidateAll
<1> DEFINE Step == \/ total_bytes' - held' >= total_bytes - held
                   \/ (reply' = Invalidated(Tenants) /\ Cached' = {})
<1>1. ASSUME TypeOK, CounterCoversContents, [Next]_vars
      PROVE  [Step]_vars
  <2> USE DEF CounterCoversContents
  <2>0. held <= total_bytes /\ held \in Int /\ total_bytes \in Nat
    BY <1>1 DEF TypeOK
  <2>1. ASSUME NEW k \in Keys, GetMiss(k) \/ GetHit(k) PROVE Step
    BY <2>0, <2>1 DEF GetMiss, GetHit
  <2>2. ASSUME NEW k \in Keys, GetExpired(k) PROVE Step
    BY <1>1, <2>2, DebitCovers DEF GetExpired
  <2>3. ASSUME NEW k \in Keys, NEW r \in Results, PutLock(k, r) PROVE Step
    BY <2>0, <2>3 DEF PutLock
  <2>4. ASSUME NEW t \in Tenants, InvalidateLock(t) PROVE Step
    BY <2>0, <2>4 DEF InvalidateLock
  <2>5. CASE PutEvict
    BY <1>1, <2>5, DebitCovers DEF PutEvict
  <2>6. CASE PutReplace
    <3>1. Bytes(op.key) \in Nat
      BY <1>1, <2>6, CachedEntry DEF PutReplace, TypeOK
    <3> QED
      BY <1>1, <2>0, <2>6, <3>1, ChargeCovers DEF PutReplace
  <2>7. CASE PutNew
    BY <1>1, <2>0, <2>7, ChargeCovers DEF PutNew
  <2>8. CASE PutAtCapacity
    <3>1. PICK k \in Cached : Insert(op.key, op.result, Cached \ {k}, Bytes(k))
      BY <2>8 DEF PutAtCapacity
    <3>2. Bytes(k) \in Nat
      BY <1>1, CachedEntry DEF TypeOK
    <3> QED
      BY <1>1, <2>0, <2>8, <3>1, <3>2, ChargeCovers DEF PutAtCapacity
  <2>9. CASE InvalidatePop
    BY <1>1, <2>9, DebitCovers DEF InvalidatePop
  <2>10. CASE InvalidateAll
    BY <2>10 DEF InvalidateAll, Cached
  <2>11. CASE InvalidateUnlock \/ Tick
    BY <2>0, <2>11 DEF InvalidateUnlock, Tick
  <2> QED
    BY <1>1, <2>1, <2>2, <2>3, <2>4, <2>5, <2>6, <2>7, <2>8, <2>9, <2>10, <2>11
    DEF Next, LockHolder
<1> QED
  BY <1>1, TypeCorrect, CounterCovers, PTL DEF Spec, DriftOnlyResetByInvalidateAll

(* The bytes an insertion leaves in the map never exceed what the counter  *)
(* was charged for it.                                                     *)
LEMMA InsertWithinBudget ==
  ASSUME TypeOK, CounterCoversContents, PutCharge, NEW lost \in Nat,
         NEW kept \in SUBSET Cached, Insert(op.key, op.result, kept, lost)
  PROVE  WithinBudgetOrAlone'
<1>1. ByteSize[op.result] \in Nat /\ op.key \in Keys /\ op.result \in Results
  BY ChargeTypes
<1>2. CASE ~ NeedsRoom
  <2>1. held' <= max_bytes
    BY <1>1, <1>2, ConstantsOK
    DEF NeedsRoom, Insert, TypeOK, CounterCoversContents
  <2> QED
    BY <2>1 DEF WithinBudgetOrAlone
<1>3. CASE Cached = {}
  <2>1. Cached' = {op.key}
    BY <1>1, <1>3, InsertKeepsMap DEF TypeOK
  <2> QED
    BY <2>1 DEF WithinBudgetOrAlone
<1> QED
  BY <1>2, <1>3 DEF PutCharge

(* A removal cannot leave the budget.                                      *)
LEMMA PopWithinBudget ==
  ASSUME TypeOK, WithinBudgetOrAlone, NEW k \in Cached, Pop(k)
  PROVE  WithinBudgetOrAlone'
<1>1. Bytes(k) \in Nat /\ Cached' = Cached \ {k}
  BY CachedEntry, PopKeepsMap DEF TypeOK
<1>2. held' <= held /\ held' \in Int
  BY <1>1 DEF Pop, TypeOK
<1> QED
  BY <1>1, <1>2, ConstantsOK DEF WithinBudgetOrAlone, TypeOK

(* Every step stays within the byte budget or leaves one entry.            *)
LEMMA BudgetStep ==
  ASSUME TypeOK, CounterCoversContents, WithinBudgetOrAlone, [Next]_vars
  PROVE  WithinBudgetOrAlone'
<1>0. MapOK
  BY DEF TypeOK
<1>1. ASSUME NEW k \in Keys, GetMiss(k) \/ GetHit(k) PROVE WithinBudgetOrAlone'
  BY <1>1 DEF GetMiss, GetHit, WithinBudgetOrAlone, Cached
<1>2. ASSUME NEW k \in Keys, GetExpired(k) PROVE WithinBudgetOrAlone'
  BY <1>2, PopWithinBudget DEF GetExpired
<1>3. ASSUME NEW k \in Keys, NEW r \in Results, PutLock(k, r)
      PROVE WithinBudgetOrAlone'
  BY <1>3 DEF PutLock, WithinBudgetOrAlone, Cached
<1>4. ASSUME NEW t \in Tenants, InvalidateLock(t) PROVE WithinBudgetOrAlone'
  BY <1>4 DEF InvalidateLock, WithinBudgetOrAlone, Cached
<1>5. CASE PutEvict
  BY <1>5, PopWithinBudget DEF PutEvict
<1>6. CASE PutReplace
  BY <1>0, <1>6, InsertWithinBudget, CachedEntry DEF PutReplace
<1>7. CASE PutNew
  BY <1>7, InsertWithinBudget DEF PutNew
<1>8. CASE PutAtCapacity
  BY <1>0, <1>8, InsertWithinBudget, CachedEntry DEF PutAtCapacity
<1>9. CASE InvalidatePop
  BY <1>9, PopWithinBudget DEF InvalidatePop
<1>10. CASE InvalidateAll
  BY <1>10, ConstantsOK DEF InvalidateAll, WithinBudgetOrAlone
<1>11. CASE InvalidateUnlock \/ Tick \/ UNCHANGED vars
  BY <1>11 DEF InvalidateUnlock, Tick, vars, WithinBudgetOrAlone, Cached
<1> QED
  BY <1>1, <1>2, <1>3, <1>4, <1>5, <1>6, <1>7, <1>8, <1>9, <1>10, <1>11
  DEF Next, LockHolder

(* The results in the cache fit in max_bytes unless there is only one:     *)
(* what the eviction loop of `put` guarantees, in spite of the drift.      *)
THEOREM ByteBudget == Spec => []WithinBudgetOrAlone
<1>1. Init => WithinBudgetOrAlone
  BY ConstantsOK DEF Init, WithinBudgetOrAlone
<1>2. TypeOK /\ CounterCoversContents /\ WithinBudgetOrAlone /\ [Next]_vars
        => WithinBudgetOrAlone'
  BY BudgetStep
<1> QED
  BY <1>1, <1>2, TypeCorrect, CounterCovers, PTL DEF Spec

-----------------------------------------------------------------------------
(* What the history variable counts, and the drift of the counter.         *)

(* The bytes held are finitely many, and `held` counts them.               *)
Accounted == IsFiniteSet(HeldBytes) /\ HeldIsSum

(* The bytes of one result are as many as its size says.                   *)
LEMMA BlockSize ==
  ASSUME NEW k, NEW n \in Nat
  PROVE  IsFiniteSet({k} \X (1 .. n)) /\ Cardinality({k} \X (1 .. n)) = n
<1>1. IsFiniteSet({k}) /\ Cardinality({k}) = 1
  BY FS_Singleton
<1>2. IsFiniteSet(1 .. n) /\ Cardinality(1 .. n) = n
  BY FS_Interval
<1>3. Cardinality({k} \X (1 .. n)) = 1 * n
  BY <1>1, <1>2, FS_Product
<1> QED
  BY <1>1, <1>2, <1>3, FS_Product

(* Bytes of a key that holds none yet add up with the others.              *)
LEMMA AddBlock ==
  ASSUME NEW S, IsFiniteSet(S), NEW k, NEW n \in Nat, S \cap ({k} \X (1 .. n)) = {}
  PROVE  /\ IsFiniteSet(S \cup ({k} \X (1 .. n)))
         /\ Cardinality(S \cup ({k} \X (1 .. n))) = Cardinality(S) + n
<1> DEFINE B == {k} \X (1 .. n)
<1>1. IsFiniteSet(B) /\ Cardinality(B) = n
  BY BlockSize
<1>2. S \cap B = {} /\ Cardinality({}) = 0 /\ Cardinality(S) \in Nat
  BY FS_EmptySet, FS_CardinalityType
<1> HIDE DEF B
<1>3. IsFiniteSet(S \cup B)
  BY <1>1, FS_Union
<1>4. Cardinality(S \cup B) = Cardinality(S) + Cardinality(B) - Cardinality(S \cap B)
  BY <1>1, FS_Union
<1>5. Cardinality(S \cap B) = 0
  BY <1>2
<1>6. Cardinality(S \cup B) = Cardinality(S) + n
  BY <1>1, <1>2, <1>4, <1>5
<1> QED
  BY <1>3, <1>6 DEF B

(* The bytes of the entries of K.                                          *)
BytesOf(K) == UNION {{k} \X (1 .. Bytes(k)) : k \in K}

(* Leaving one entry out leaves its bytes out of the account.              *)
LEMMA LeaveOut ==
  ASSUME MapOK, Accounted, NEW k \in Cached
  PROVE  /\ IsFiniteSet(BytesOf(Cached \ {k}))
         /\ held - Bytes(k) = Cardinality(BytesOf(Cached \ {k}))
<1> DEFINE B == {k} \X (1 .. Bytes(k))
           R == BytesOf(Cached \ {k})
<1>1. Bytes(k) \in Nat
  BY CachedEntry
<1>2. HeldBytes = R \cup B /\ R \cap B = {}
  BY DEF HeldBytes, BytesOf
<1> HIDE DEF R
<1>3. IsFiniteSet(R)
  <2>1. IsFiniteSet(HeldBytes) /\ R \in SUBSET HeldBytes
    BY <1>2 DEF Accounted
  <2> QED
    BY <2>1, FS_Subset
<1>4. Cardinality(R \cup B) = Cardinality(R) + Bytes(k)
  BY <1>1, <1>2, <1>3, AddBlock
<1>5. Cardinality(R) \in Nat /\ held = Cardinality(R) + Bytes(k)
  BY <1>2, <1>3, <1>4, FS_CardinalityType DEF Accounted, HeldIsSum
<1>6. held - Bytes(k) = Cardinality(R)
  BY <1>1, <1>5
<1> QED
  BY <1>3, <1>6 DEF R

(* A removed entry takes its bytes along.                                  *)
LEMMA PopAccounted ==
  ASSUME MapOK, Accounted, NEW k \in Cached, Pop(k)
  PROVE  Accounted'
<1>1. Cached' = Cached \ {k}
  BY PopKeepsMap
<1>2. \A j \in Cached \ {k} : Bytes(j)' = Bytes(j)
  BY DEF Pop, Restrict, Bytes
<1>3. HeldBytes' = BytesOf(Cached \ {k})
  BY <1>1, <1>2 DEF HeldBytes, BytesOf
<1>4. held' = held - Bytes(k)
  BY DEF Pop
<1> QED
  BY <1>3, <1>4, LeaveOut DEF Accounted, HeldIsSum

(* An inserted entry brings its bytes, beside those of the kept entries.   *)
LEMMA InsertAccounted ==
  ASSUME MapOK, NEW k \in Keys, NEW r \in Results, NEW lost \in Int,
         held \in Int, NEW kept \in SUBSET Cached, k \notin kept,
         Insert(k, r, kept, lost), IsFiniteSet(BytesOf(kept)),
         held - lost = Cardinality(BytesOf(kept))
  PROVE  Accounted'
<1>1. Cached' = kept \cup {k}
  BY InsertKeepsMap
<1>2. ByteSize[r] \in Nat
  BY ConstantsOK
<1>3. \A j \in kept : Bytes(j)' = Bytes(j)
  BY DEF Insert, Bytes
<1>4. Bytes(k)' = ByteSize[r]
  BY DEF Insert, Bytes
<1>5. HeldBytes' = BytesOf(kept) \cup ({k} \X (1 .. ByteSize[r]))
  BY <1>1, <1>3, <1>4 DEF HeldBytes, BytesOf
<1>6. BytesOf(kept) \cap ({k} \X (1 .. ByteSize[r])) = {}
  BY DEF BytesOf
<1>7. Cardinality(HeldBytes') = Cardinality(BytesOf(kept)) + ByteSize[r]
  BY <1>2, <1>5, <1>6, AddBlock
<1>8. IsFiniteSet(HeldBytes')
  BY <1>2, <1>5, <1>6, AddBlock
<1>9. held' = held - lost + ByteSize[r]
  BY DEF Insert
<1> QED
  BY <1>7, <1>8, <1>9 DEF Accounted, HeldIsSum

(* A step that keeps the results of the map keeps the account.             *)
LEMMA SameAccounted ==
  ASSUME Accounted, held' = held, Cached' = Cached,
         \A j \in Cached : Bytes(j)' = Bytes(j)
  PROVE  Accounted'
<1>1. HeldBytes' = HeldBytes
  BY DEF HeldBytes
<1> QED
  BY <1>1 DEF Accounted, HeldIsSum

(* Every step keeps the account.                                           *)
LEMMA AccountedStep ==
  ASSUME TypeOK, Accounted, [Next]_vars
  PROVE  Accounted'
<1>0. MapOK /\ held \in Int
  BY DEF TypeOK
<1>s. ASSUME entries' = entries, held' = held PROVE Accounted'
  BY <1>s, SameAccounted DEF Cached, Bytes
<1>1. ASSUME NEW k \in Keys, GetMiss(k) \/ GetHit(k) PROVE Accounted'
  BY <1>1, <1>s DEF GetMiss, GetHit
<1>2. ASSUME NEW k \in Keys, GetExpired(k) PROVE Accounted'
  BY <1>0, <1>2, PopAccounted DEF GetExpired
<1>3. ASSUME NEW k \in Keys, NEW r \in Results, PutLock(k, r) PROVE Accounted'
  BY <1>3, <1>s DEF PutLock
<1>4. ASSUME NEW t \in Tenants, InvalidateLock(t) PROVE Accounted'
  BY <1>4, <1>s DEF InvalidateLock
<1>5. CASE PutEvict
  BY <1>0, <1>5, PopAccounted DEF PutEvict
<1>6. CASE PutReplace
  <2>1. /\ op.key \in Keys /\ op.result \in Results /\ op.key \in Cached
        /\ Insert(op.key, op.result, Cached \ {op.key}, Bytes(op.key))
    BY <1>6, ChargeTypes DEF PutReplace
  <2>2. Bytes(op.key) \in Int
    BY <1>0, <2>1, CachedEntry
  <2>3. IsFiniteSet(BytesOf(Cached \ {op.key}))
    BY <1>0, <2>1, LeaveOut
  <2>4. held - Bytes(op.key) = Cardinality(BytesOf(Cached \ {op.key}))
    BY <1>0, <2>1, LeaveOut
  <2> QED
    BY <1>0, <2>1, <2>2, <2>3, <2>4, InsertAccounted
<1>7. CASE PutNew
  <2>1. /\ op.key \in Keys /\ op.result \in Results /\ op.key \notin Cached
        /\ Insert(op.key, op.result, Cached, 0)
    BY <1>7, ChargeTypes DEF PutNew
  <2>2. IsFiniteSet(BytesOf(Cached)) /\ held - 0 = Cardinality(BytesOf(Cached))
    BY <1>0 DEF Accounted, HeldIsSum, HeldBytes, BytesOf
  <2> QED
    BY <1>0, <2>1, <2>2, InsertAccounted
<1>8. CASE PutAtCapacity
  <2>1. PICK k \in Cached : Insert(op.key, op.result, Cached \ {k}, Bytes(k))
    BY <1>8 DEF PutAtCapacity
  <2>2. op.key \in Keys /\ op.result \in Results /\ op.key \notin Cached
    BY <1>8, ChargeTypes DEF PutAtCapacity
  <2>3. Bytes(k) \in Int
    BY <1>0, CachedEntry
  <2>4. IsFiniteSet(BytesOf(Cached \ {k}))
    BY <1>0, LeaveOut
  <2>5. held - Bytes(k) = Cardinality(BytesOf(Cached \ {k}))
    BY <1>0, LeaveOut
  <2> QED
    BY <1>0, <2>1, <2>2, <2>3, <2>4, <2>5, InsertAccounted
<1>9. CASE InvalidatePop
  BY <1>0, <1>9, PopAccounted DEF InvalidatePop
<1>10. CASE InvalidateAll
  <2>1. HeldBytes' = {} /\ held' = 0
    BY <1>10 DEF InvalidateAll, HeldBytes, Cached
  <2> QED
    BY <2>1, FS_EmptySet DEF Accounted, HeldIsSum
<1>11. CASE InvalidateUnlock \/ UNCHANGED vars
  BY <1>11, <1>s DEF InvalidateUnlock, vars
<1>12. CASE Tick
  <2>1. Cached' = Cached /\ held' = held
    BY <1>12 DEF Tick, Cached
  <2>2. ASSUME NEW j \in Cached PROVE Bytes(j)' = Bytes(j)
    <3>1. entries[j] \in Entry
      BY <1>0, CachedEntry
    <3>2. entries'[j].result = entries[j].result
      BY <1>12, <3>1 DEF Tick, Entry
    <3> QED
      BY <3>2 DEF Bytes
  <2> QED
    BY <2>1, <2>2, SameAccounted
<1> QED
  BY <1>1, <1>2, <1>3, <1>4, <1>5, <1>6, <1>7, <1>8, <1>9, <1>10, <1>11, <1>12
  DEF Next, LockHolder

(* The account holds from the empty cache on.                              *)
LEMMA AccountedAlways == Spec => []Accounted
<1>1. Init => Accounted
  <2>1. Init => HeldBytes = {} /\ held = 0
    BY DEF Init, HeldBytes, Cached
  <2> QED
    BY <2>1, FS_EmptySet DEF Accounted, HeldIsSum
<1>2. TypeOK /\ Accounted /\ [Next]_vars => Accounted'
  BY AccountedStep
<1> QED
  BY <1>1, <1>2, TypeCorrect, PTL DEF Spec

(* `held`, by which every statement on the counter is made, is the number  *)
(* of bytes of the results in the map, whatever is put, replaced, evicted, *)
(* expired or invalidated.                                                 *)
THEOREM HeldCounts == Spec => []HeldIsSum
BY AccountedAlways, PTL DEF Accounted

(* Bytes held are never negative.                                          *)
LEMMA HeldNatural ==
  ASSUME Accounted
  PROVE  held \in Nat
BY FS_CardinalityType DEF Accounted, HeldIsSum

(* A debited removal cannot widen the drift beyond the budget: it keeps    *)
(* it, or saturating_sub leaves a counter of zero.                         *)
LEMMA DebitDrift ==
  ASSUME TypeOK, Accounted, DriftBounded, NEW k \in Cached, Pop(k), Debit(k)
  PROVE  DriftBounded'
<1>1. Bytes(k) \in Nat /\ MapOK
  BY CachedEntry DEF TypeOK
<1>2. held' \in Nat
  BY <1>1, PopAccounted, HeldNatural, FS_CardinalityType DEF Accounted, HeldIsSum
<1> QED
  BY <1>1, <1>2, ConstantsOK DEF TypeOK, DriftBounded, Pop, Debit, SaturatingSub

(* An insertion leaves bytes of a lost entry in the counter only after the *)
(* loop has made room within the budget.                                   *)
LEMMA ChargeDrift ==
  ASSUME TypeOK, DriftBounded, held' \in Nat, PutCharge, NEW lost \in Nat,
         NEW kept, Insert(op.key, op.result, kept, lost),
         lost = 0 \/ Cached # {}
  PROVE  DriftBounded'
<1>1. ByteSize[op.result] \in Nat
  BY ChargeTypes
<1>2. CASE ~ NeedsRoom
  BY <1>1, <1>2, ConstantsOK DEF TypeOK, PutCharge, NeedsRoom, DriftBounded
<1>3. CASE lost = 0
  BY <1>1, <1>3, ConstantsOK DEF TypeOK, PutCharge, Insert, DriftBounded
<1> QED
  BY <1>2, <1>3 DEF PutCharge

(* Every step keeps the drift within the budget.                           *)
LEMMA DriftStep ==
  ASSUME TypeOK, Accounted, DriftBounded, [Next]_vars
  PROVE  DriftBounded'
<1>0. MapOK /\ held' \in Nat
  BY AccountedStep, HeldNatural, FS_CardinalityType
  DEF TypeOK, Accounted, HeldIsSum
<1>1. ASSUME NEW k \in Keys, GetMiss(k) \/ GetHit(k) PROVE DriftBounded'
  BY <1>1 DEF GetMiss, GetHit, DriftBounded
<1>2. ASSUME NEW k \in Keys, GetExpired(k) PROVE DriftBounded'
  BY <1>2, DebitDrift DEF GetExpired
<1>3. ASSUME NEW k \in Keys, NEW r \in Results, PutLock(k, r)
      PROVE DriftBounded'
  BY <1>3 DEF PutLock, DriftBounded
<1>4. ASSUME NEW t \in Tenants, InvalidateLock(t) PROVE DriftBounded'
  BY <1>4 DEF InvalidateLock, DriftBounded
<1>5. CASE PutEvict
  BY <1>5, DebitDrift DEF PutEvict
<1>6. CASE PutReplace
  BY <1>0, <1>6, ChargeDrift, CachedEntry DEF PutReplace
<1>7. CASE PutNew
  BY <1>0, <1>7, ChargeDrift DEF PutNew
<1>8. CASE PutAtCapacity
  BY <1>0, <1>8, ChargeDrift, CachedEntry DEF PutAtCapacity
<1>9. CASE InvalidatePop
  BY <1>9, DebitDrift DEF InvalidatePop
<1>10. CASE InvalidateAll
  BY <1>10, ConstantsOK DEF InvalidateAll, DriftBounded
<1>11. CASE InvalidateUnlock \/ Tick \/ UNCHANGED vars
  BY <1>11 DEF InvalidateUnlock, Tick, vars, DriftBounded
<1> QED
  BY <1>1, <1>2, <1>3, <1>4, <1>5, <1>6, <1>7, <1>8, <1>9, <1>10, <1>11
  DEF Next, LockHolder

(* What replacements and capacity evictions leave in total_bytes never     *)
(* exceeds max_bytes, for every cache configuration: the counter stays     *)
(* within twice the budget or within the budget and one oversized entry.   *)
THEOREM BoundedDrift == Spec => []DriftBounded
<1>1. Init => DriftBounded
  BY ConstantsOK DEF Init, DriftBounded
<1>2. TypeOK /\ Accounted /\ DriftBounded /\ [Next]_vars => DriftBounded'
  BY DriftStep
<1> QED
  BY <1>1, <1>2, TypeCorrect, AccountedAlways, PTL DEF Spec

-----------------------------------------------------------------------------
(* The entry cap.                                                          *)

(* The cache holds keys of finitely many tenants and texts.                *)
LEMMA CachedFinite ==
  ASSUME MapOK
  PROVE  IsFiniteSet(Cached) /\ Cardinality(Cached) \in Nat
<1>1. IsFiniteSet(Keys)
  BY ConstantsOK, FS_Product DEF Keys
<1>2. Cached \in SUBSET Keys
  BY DEF MapOK, Cached
<1> QED
  BY <1>1, <1>2, FS_Subset, FS_CardinalityType

(* Keeping or removing entries respects the cap.                           *)
LEMMA FewerEntries ==
  ASSUME MapOK, EntryCapRespected, NEW S \in SUBSET Cached, Cached' = S
  PROVE  EntryCapRespected'
<1>1. Cardinality(S) <= Cardinality(Cached) /\ Cardinality(S) \in Nat
  BY CachedFinite, FS_Subset, FS_CardinalityType
<1>2. Capacity \in Nat /\ Capacity' = Capacity
  BY ConstantsOK DEF Capacity
<1> QED
  BY <1>1, <1>2, CachedFinite DEF EntryCapRespected

(* Every step respects the entry cap.                                      *)
LEMMA CapStep ==
  ASSUME TypeOK, EntryCapRespected, [Next]_vars
  PROVE  EntryCapRespected'
<1>0. MapOK
  BY DEF TypeOK
<1>c. /\ Capacity \in Nat /\ Cardinality(Cached) \in Nat /\ IsFiniteSet(Cached)
      /\ Cardinality(Cached) <= Capacity
  BY <1>0, CachedFinite, ConstantsOK DEF Capacity, EntryCapRespected
<1>p. ASSUME NEW k \in Cached, Pop(k) PROVE EntryCapRespected'
  BY <1>0, <1>p, PopKeepsMap, FewerEntries
<1>1. ASSUME NEW k \in Keys, GetMiss(k) \/ GetHit(k) \/ GetExpired(k)
      PROVE EntryCapRespected'
  BY <1>0, <1>1, <1>p DEF GetMiss, GetHit, GetExpired, EntryCapRespected, Cached
<1>3. ASSUME NEW k \in Keys, NEW r \in Results, PutLock(k, r)
      PROVE EntryCapRespected'
  BY <1>3 DEF PutLock, EntryCapRespected, Cached
<1>4. ASSUME NEW t \in Tenants, InvalidateLock(t) PROVE EntryCapRespected'
  BY <1>4 DEF InvalidateLock, EntryCapRespected, Cached
<1>5. CASE PutEvict
  BY <1>5, <1>p DEF PutEvict
<1>6. CASE PutReplace
  <2>1. Cached' = (Cached \ {op.key}) \cup {op.key} /\ op.key \in Cached
    BY <1>0, <1>6, ChargeTypes, InsertKeepsMap DEF PutReplace
  <2>2. Cached' = Cached
    BY <2>1
  <2> QED
    BY <1>0, <2>2, FewerEntries
<1>7. CASE PutNew
  <2>1. Cached' = Cached \cup {op.key} /\ op.key \notin Cached
        /\ Cardinality(Cached) < Capacity
    BY <1>0, <1>7, ChargeTypes, InsertKeepsMap DEF PutNew
  <2>2. Cardinality(Cached \cup {op.key}) = Cardinality(Cached) + 1
    BY <1>c, <2>1, FS_AddElement
  <2>3. Cardinality(Cached \cup {op.key}) <= Capacity
    BY <1>c, <2>1, <2>2
  <2> QED
    BY <2>1, <2>3 DEF EntryCapRespected, Capacity
<1>8. CASE PutAtCapacity
  <2>1. PICK k \in Cached : Insert(op.key, op.result, Cached \ {k}, Bytes(k))
    BY <1>8 DEF PutAtCapacity
  <2>2. Cached' = (Cached \ {k}) \cup {op.key} /\ op.key \notin Cached
    BY <1>0, <1>8, <2>1, ChargeTypes, InsertKeepsMap DEF PutAtCapacity
  <2>3. IsFiniteSet(Cached \ {k}) /\ Cardinality(Cached \ {k}) = Cardinality(Cached) - 1
    BY <1>c, FS_RemoveElement
  <2>4. Cardinality((Cached \ {k}) \cup {op.key}) = Cardinality(Cached \ {k}) + 1
    BY <2>2, <2>3, FS_AddElement
  <2>5. Cardinality((Cached \ {k}) \cup {op.key}) <= Capacity
    BY <1>c, <2>3, <2>4
  <2> QED
    BY <2>2, <2>5 DEF EntryCapRespected, Capacity
<1>9. CASE InvalidatePop
  BY <1>9, <1>p DEF InvalidatePop
<1>10. CASE InvalidateAll
  <2>1. Cached' = {}
    BY <1>10 DEF InvalidateAll, Cached
  <2> QED
    BY <1>0, <2>1, FewerEntries
<1>11. CASE InvalidateUnlock \/ Tick \/ UNCHANGED vars
  <2>1. Cached' = Cached
    BY <1>11 DEF InvalidateUnlock, Tick, vars, Cached
  <2> QED
    BY <1>0, <2>1, FewerEntries
<1> QED
  BY <1>1, <1>3, <1>4, <1>5, <1>6, <1>7, <1>8, <1>9, <1>10, <1>11
  DEF Next, LockHolder

(* The map never holds more than max_entries.max(1) entries.               *)
THEOREM EntryCap == Spec => []EntryCapRespected
<1>1. Init => EntryCapRespected
  <2>1. Init => Cached = {}
    BY DEF Init, Cached
  <2>2. Capacity \in Nat /\ Cardinality({}) = 0
    BY ConstantsOK, FS_EmptySet DEF Capacity
  <2> QED
    BY <2>1, <2>2 DEF EntryCapRespected
<1>2. TypeOK /\ EntryCapRespected /\ [Next]_vars => EntryCapRespected'
  BY CapStep
<1> QED
  BY <1>1, <1>2, TypeCorrect, PTL DEF Spec

-----------------------------------------------------------------------------
(* The cache implements its contract.                                      *)

(* While a call holds the lock nothing is returned, and the keys that      *)
(* invalidate_tenant has still to remove are all the tenant has left.      *)
BusyInv ==
  /\ op # Idle => reply = NoReply
  /\ op.kind = "invalidate" => op.keys = {k \in Cached : k[1] = op.tenant}

(* Every step keeps what is known of the call that holds the lock.         *)
LEMMA BusyStep ==
  ASSUME TypeOK, BusyInv, [Next]_vars
  PROVE  BusyInv'
<1>0. MapOK /\ OpOK
  BY DEF TypeOK
<1>1. ASSUME NEW k \in Keys, GetMiss(k) \/ GetHit(k) \/ GetExpired(k) PROVE BusyInv'
  BY <1>1 DEF GetMiss, GetHit, GetExpired, BusyInv, Idle
<1>2. ASSUME NEW k \in Keys, NEW r \in Results, PutLock(k, r) PROVE BusyInv'
  BY <1>2 DEF PutLock, BusyInv, Putting
<1>3. ASSUME NEW t \in Tenants, InvalidateLock(t) PROVE BusyInv'
  BY <1>3 DEF InvalidateLock, BusyInv, Invalidating, Cached
<1>4. CASE PutEvict
  BY <1>4 DEF PutEvict, BusyInv, Idle
<1>5. CASE PutReplace \/ PutNew \/ PutAtCapacity \/ InvalidateUnlock
  BY <1>5 DEF PutReplace, PutNew, PutAtCapacity, PutCharge, InvalidateUnlock,
              BusyInv, Idle
<1>6. CASE InvalidatePop
  <2>1. PICK t \in Tenants, K \in SUBSET Cached : op = Invalidating(t, K)
    BY <1>0, <1>6 DEF OpOK, InvalidatePop, Idle, Putting, Invalidating
  <2>2. PICK k \in K : /\ op' = [op EXCEPT !.keys = @ \ {k}]
                       /\ k \in Cached /\ Pop(k)
    BY <1>6, <2>1 DEF InvalidatePop, Invalidating
  <2>3. Cached' = Cached \ {k}
    BY <1>0, <2>2, PopKeepsMap
  <2>4. op' = Invalidating(t, K \ {k})
    BY <2>1, <2>2 DEF Invalidating
  <2>5. K = {x \in Cached : x[1] = t}
    BY <2>1 DEF BusyInv, Invalidating
  <2>6. K \ {k} = {x \in Cached' : x[1] = t}
    BY <2>3, <2>5
  <2>7. op # Idle
    BY <2>1 DEF Invalidating, Idle
  <2> QED
    BY <1>6, <2>4, <2>6, <2>7 DEF BusyInv, Invalidating, InvalidatePop
<1>7. CASE InvalidateAll \/ Tick \/ UNCHANGED vars
  BY <1>7 DEF InvalidateAll, Tick, vars, BusyInv, Idle, Cached
<1> QED
  BY <1>1, <1>2, <1>3, <1>4, <1>5, <1>6, <1>7 DEF Next, LockHolder

(* What is known of the call that holds the lock, at all times.            *)
LEMMA Busy == Spec => []BusyInv
<1>1. Init => BusyInv
  BY DEF Init, BusyInv, Idle
<1>2. TypeOK /\ BusyInv /\ [Next]_vars => BusyInv'
  BY BusyStep
<1> QED
  BY <1>1, <1>2, TypeCorrect, PTL DEF Spec

(* A function is its own restriction to its domain.                        *)
LEMMA RestrictSelf ==
  ASSUME MapOK
  PROVE  entries = Restrict(entries, Cached)
BY DEF MapOK, Restrict, Cached

(* Every step of the cache is a step of its promise, or none.              *)
LEMMA ContractStep ==
  ASSUME TypeOK, BusyInv, [Next]_vars
  PROVE  [Promise!Next]_(Promise!vars)
<1> USE DEF Promise!Keys, Promise!Restrict, Restrict
<1>0. MapOK /\ OpOK /\ entries = Restrict(entries, Cached)
  BY RestrictSelf DEF TypeOK
<1>f. ASSUME NEW S \in SUBSET Cached, entries' = Restrict(entries, S),
             reply' = NoReply
      PROVE  Promise!Forget
  BY <1>f DEF Promise!Forget, Promise!NoReply, NoReply, Cached
<1>1. ASSUME NEW k \in Keys, GetMiss(k) PROVE Promise!Next
  <2>1. entries' = Restrict(entries, Cached \ {k})
    BY <1>0, <1>1 DEF GetMiss
  <2>2. Promise!LookupMiss(k)
    BY <1>1, <2>1 DEF GetMiss, Cached, Promise!LookupMiss, Promise!Miss, Miss
  <2> QED
    BY <2>2 DEF Promise!Next, Keys
<1>2. ASSUME NEW k \in Keys, GetHit(k) PROVE Promise!Next
  <2>1. Promise!LookupHit(k)
    BY <1>2 DEF GetHit, Cached, Promise!LookupHit, Promise!Hit, Hit
  <2> QED
    BY <2>1 DEF Promise!Next, Keys
<1>3. ASSUME NEW k \in Keys, GetExpired(k) PROVE Promise!Next
  <2>1. Promise!LookupMiss(k)
    BY <1>3 DEF GetExpired, Pop, Cached, Promise!LookupMiss, Promise!Miss, Miss
  <2> QED
    BY <2>1 DEF Promise!Next, Keys
<1>4. ASSUME NEW k \in Keys, NEW r \in Results, PutLock(k, r) PROVE Promise!Next
  <2>1. Promise!Forget
    BY <1>0, <1>4, <1>f DEF PutLock
  <2> QED
    BY <2>1 DEF Promise!Next
<1>5. ASSUME NEW t \in Tenants, InvalidateLock(t) PROVE Promise!Next
  <2>1. Promise!Forget
    BY <1>0, <1>5, <1>f DEF InvalidateLock
  <2> QED
    BY <2>1 DEF Promise!Next
<1>6. CASE PutEvict
  <2>1. op # Idle /\ reply' = NoReply
    BY <1>6 DEF PutEvict, Idle, BusyInv
  <2>2. Promise!Forget
    BY <1>6, <1>f, <2>1 DEF PutEvict, Pop
  <2> QED
    BY <2>2 DEF Promise!Next
<1>i. ASSUME PutCharge, NEW lost, NEW S \in SUBSET (Cached \ {op.key}),
             Insert(op.key, op.result, S, lost)
      PROVE  Promise!Next
  <2>1. op.key \in Keys /\ op.result \in Results
    BY <1>i, ChargeTypes
  <2>2. Promise!Store(op.key, op.result)
    BY <1>i DEF PutCharge, Insert, Cached, Promise!Store, Promise!Stored, Stored
  <2> QED
    BY <2>1, <2>2 DEF Promise!Next, Keys
<1>7. CASE PutReplace
  BY <1>7, <1>i DEF PutReplace
<1>8. CASE PutNew
  <2>1. Cached \in SUBSET (Cached \ {op.key})
    BY <1>8 DEF PutNew
  <2> QED
    BY <1>8, <1>i, <2>1 DEF PutNew
<1>9. CASE PutAtCapacity
  <2>1. PICK k \in Cached : Insert(op.key, op.result, Cached \ {k}, Bytes(k))
    BY <1>9 DEF PutAtCapacity
  <2>2. Cached \ {k} \in SUBSET (Cached \ {op.key}) /\ PutCharge
    BY <1>9 DEF PutAtCapacity
  <2> QED
    BY <1>i, <2>1, <2>2
<1>10. CASE InvalidatePop
  <2>1. op # Idle /\ reply' = NoReply
    BY <1>10 DEF InvalidatePop, Idle, BusyInv
  <2>2. PICK k \in Cached : Pop(k)
    BY <1>10 DEF InvalidatePop
  <2>3. Promise!Forget
    BY <1>f, <2>1, <2>2 DEF Pop
  <2> QED
    BY <2>3 DEF Promise!Next
<1>11. CASE InvalidateUnlock
  <2>1. PICK t \in Tenants, K \in SUBSET Cached : op = Invalidating(t, K)
    BY <1>0, <1>11 DEF OpOK, InvalidateUnlock, Idle, Putting, Invalidating
  <2>2. {k \in Cached : k[1] = t} = {} /\ op.tenant = t
    BY <1>11, <2>1 DEF InvalidateUnlock, BusyInv, Invalidating
  <2>3. Cached \ Promise!KeysOf({t}) = Cached
    BY <2>2 DEF Promise!KeysOf, Cached
  <2>4. Promise!Invalidate({t})
    BY <1>0, <1>11, <2>2, <2>3
    DEF InvalidateUnlock, Cached, Promise!Invalidate, Promise!Invalidated, Invalidated
  <2> QED
    BY <2>4 DEF Promise!Next
<1>12. CASE InvalidateAll
  <2>1. Cached \ Promise!KeysOf(Tenants) = {}
    BY <1>0 DEF MapOK, Promise!KeysOf, Cached, Keys
  <2>2. entries' = Restrict(entries, {})
    BY <1>12 DEF InvalidateAll, Restrict
  <2>3. Promise!Invalidate(Tenants)
    BY <1>12, <2>1, <2>2
    DEF InvalidateAll, Cached, Promise!Invalidate, Promise!Invalidated, Invalidated
  <2> QED
    BY <2>3 DEF Promise!Next
<1>13. CASE Tick
  <2>1. Promise!Tick
    BY <1>13 DEF Tick, Cached, Promise!Tick, Promise!Older
  <2> QED
    BY <2>1 DEF Promise!Next
<1>14. CASE UNCHANGED vars
  BY <1>14 DEF vars, Promise!vars
<1> QED
  BY <1>1, <1>2, <1>3, <1>4, <1>5, <1>6, <1>7, <1>8, <1>9, <1>10, <1>11,
     <1>12, <1>13, <1>14 DEF Next, LockHolder

(* Every behaviour of the cache is one of the forgetful map its callers    *)
(* may rely on: a hit is the live result last stored under that tenant and *)
(* SQL, a miss is honest, and nothing of a tenant survives its             *)
(* invalidation.                                                           *)
THEOREM Refinement == Spec => ImplementsContract
<1>1. Init => Promise!Init
  BY DEF Init, Promise!Init, NoReply, Promise!NoReply
<1>2. TypeOK /\ BusyInv /\ [Next]_vars => [Promise!Next]_(Promise!vars)
  BY ContractStep
<1> QED
  BY <1>1, <1>2, TypeCorrect, Busy, PTL DEF Spec, Promise!Spec, ImplementsContract
=============================================================================
