----------------------------- MODULE QueryCache -----------------------------
(***************************************************************************)
(* src/src/query_cache.rs: the LRU result cache shared by the pool         *)
(* workers.  One Mutex guards the LRU map and the byte counter, so public  *)
(* calls exclude one another; the loops that run under the lock (the byte  *)
(* eviction of `put` and the removals of `invalidate_tenant`) take one     *)
(* step per iteration, with `op` standing for the call that holds the lock.*)
(*                                                                         *)
(* The recency list of the `lru` crate is the relation `older`: <<j, k>>   *)
(* is in it when j was used less recently than k.                          *)
(*                                                                         *)
(* `held` is a history variable: the bytes of the entries really in the    *)
(* map.  The code keeps only `total_bytes`, and the point of the module is *)
(* how far the two drift apart.                                            *)
(***************************************************************************)
EXTENDS Integers, FiniteSets, Functions

CONSTANTS Tenants,    \* tenant ids
          Sqls,       \* SQL texts; the digest of a text stands for the text
          Results,    \* enforced batches together with their JWS
          ByteSize,   \* estimate_batches_bytes of each result
          max_entries, max_bytes, ttl  \* QueryCacheConfig (ttl in ticks)

ASSUME ConstantsOK ==
  /\ ByteSize \in [Results -> Nat]
  /\ max_entries \in Nat
  /\ max_bytes \in Nat
  /\ ttl \in Nat
  /\ IsFiniteSet(Tenants) /\ IsFiniteSet(Sqls)

VARIABLES entries,      \* the LRU map: cached keys -> entry
          older,        \* the LRU order of the cached keys
          total_bytes,  \* the byte counter of CacheInner
          op,           \* the call that holds the mutex
          reply,        \* what the last completed call returned
          held          \* history: bytes of the entries in the map

vars == <<entries, older, total_bytes, op, reply, held>>

(* CacheKey is the tenant with the digest of the SQL text.                 *)
Keys == Tenants \X Sqls

(* A clock beyond the TTL makes no further difference to an entry.         *)
Ages == 0 .. ttl + 1

Entry == [result : Results, age : Ages]

(* The LruCache is built with max_entries.max(1).                          *)
Capacity == IF max_entries = 0 THEN 1 ELSE max_entries

Idle == [kind |-> "idle"]
Putting(k, r) == [kind |-> "put", key |-> k, result |-> r]
Invalidating(t, K) == [kind |-> "invalidate", tenant |-> t, keys |-> K]

NoReply == [kind |-> "none"]
Hit(k, r) == [kind |-> "hit", key |-> k, result |-> r]
Miss(k) == [kind |-> "miss", key |-> k]
Stored(k) == [kind |-> "stored", key |-> k]
Invalidated(T) == [kind |-> "invalidated", tenants |-> T]

Cached == DOMAIN entries
Bytes(k) == ByteSize[entries[k].result]

(* Faulty variant: the removed bytes are subtracted twice.                 *)
SaturatingSub_Twice(a, b) == IF 2 * b <= a THEN a - 2 * b ELSE 0

SaturatingSub(a, b) == IF b <= a THEN a - b ELSE 0

-----------------------------------------------------------------------------
(* The operations of the lru crate.                                        *)

(* pop_lru and the capacity rule take the entry older than all others.     *)
IsLeastRecent(k) == \A j \in Cached \ {k} : <<k, j>> \in older

(* The order after k is used and only `kept` stays beside it.              *)
MostRecent(kept, k) == (older \cap (kept \X kept)) \cup (kept \X {k})

(* Faulty variant: the entry leaves the map but not the order.             *)
Pop_OrderKept(k) ==
  /\ entries' = Restrict(entries, Cached \ {k})
  /\ older' = older
  /\ held' = held - Bytes(k)

(* lru.pop and lru.pop_lru: the entry leaves the map and the order.        *)
Pop(k) ==
  /\ entries' = Restrict(entries, Cached \ {k})
  /\ older' = older \cap ((Cached \ {k}) \X (Cached \ {k}))
  /\ held' = held - Bytes(k)

Debit(k) == total_bytes' = SaturatingSub(total_bytes, Bytes(k))

(* Faulty variant: an entry already present is kept as it is.              *)
Insert_FirstWins(k, r, kept, lost) ==
  /\ entries' = [x \in kept \cup {k} |->
                   IF x \in Cached THEN entries[x] ELSE [result |-> r, age |-> 0]]
  /\ older' = MostRecent(kept, k)
  /\ held' = held - lost + ByteSize[r]

(* lru.put: k becomes the most recent entry beside the `kept` ones.        *)
Insert(k, r, kept, lost) ==
  /\ entries' = [x \in kept \cup {k} |->
                   IF x = k THEN [result |-> r, age |-> 0] ELSE entries[x]]
  /\ older' = MostRecent(kept, k)
  /\ held' = held - lost + ByteSize[r]

-----------------------------------------------------------------------------
Init ==
  /\ entries = <<>>
  /\ older = {}
  /\ total_bytes = 0
  /\ op = Idle
  /\ reply = NoReply
  /\ held = 0

(* get: the key is not in the map.                                         *)
GetMiss(k) ==
  /\ op = Idle
  /\ k \notin Cached
  /\ reply' = Miss(k)
  /\ UNCHANGED <<entries, older, total_bytes, op, held>>

(* Faulty variant: the age of the entry is not looked at.                  *)
GetHit_NoTTL(k) ==
  /\ op = Idle
  /\ k \in Cached
  /\ older' = MostRecent(Cached \ {k}, k)
  /\ reply' = Hit(k, entries[k].result)
  /\ UNCHANGED <<entries, total_bytes, op, held>>

(* get: a live entry is returned and becomes the most recently used.       *)
GetHit(k) ==
  /\ op = Idle
  /\ k \in Cached
  /\ entries[k].age <= ttl
  /\ older' = MostRecent(Cached \ {k}, k)
  /\ reply' = Hit(k, entries[k].result)
  /\ UNCHANGED <<entries, total_bytes, op, held>>

(* get: an entry older than the TTL is evicted lazily.                     *)
GetExpired(k) ==
  /\ op = Idle
  /\ k \in Cached
  /\ entries[k].age > ttl
  /\ Pop(k)
  /\ Debit(k)
  /\ reply' = Miss(k)
  /\ UNCHANGED op

(* put: take the lock.                                                     *)
PutLock(k, r) ==
  /\ op = Idle
  /\ op' = Putting(k, r)
  /\ reply' = NoReply
  /\ UNCHANGED <<entries, older, total_bytes, held>>

(* Faulty variant: room is made only once the budget is already exceeded.  *)
NeedsRoom_IgnoringNew == total_bytes > max_bytes

NeedsRoom == total_bytes + ByteSize[op.result] > max_bytes

(* Faulty variant: the evicted bytes are not given back.                   *)
PutEvict_NoDebit ==
  /\ op.kind = "put"
  /\ NeedsRoom
  /\ \E k \in Cached : IsLeastRecent(k) /\ Pop(k)
  /\ UNCHANGED <<total_bytes, op, reply>>

(* put: one iteration of the byte-budget loop.                             *)
PutEvict ==
  /\ op.kind = "put"
  /\ NeedsRoom
  /\ \E k \in Cached : IsLeastRecent(k) /\ Pop(k) /\ Debit(k)
  /\ UNCHANGED <<op, reply>>

(* Faulty variant: the new entry is not charged.                           *)
PutCharge_Free ==
  /\ op.kind = "put"
  /\ ~ NeedsRoom \/ Cached = {}
  /\ total_bytes' = total_bytes
  /\ op' = Idle
  /\ reply' = Stored(op.key)

(* Faulty variant: the loop goes on until there is room, empty map or not. *)
PutCharge_NoEscape ==
  /\ op.kind = "put"
  /\ ~ NeedsRoom
  /\ total_bytes' = total_bytes + ByteSize[op.result]
  /\ op' = Idle
  /\ reply' = Stored(op.key)

(* put: the loop is over, the new entry is charged ...                     *)
PutCharge ==
  /\ op.kind = "put"
  /\ ~ NeedsRoom \/ Cached = {}
  /\ total_bytes' = total_bytes + ByteSize[op.result]
  /\ op' = Idle
  /\ reply' = Stored(op.key)

(* ... and replaces the entry of the same key, whose bytes stay charged;   *)
PutReplace ==
  /\ PutCharge
  /\ op.key \in Cached
  /\ Insert(op.key, op.result, Cached \ {op.key}, Bytes(op.key))

(* Faulty variant: the map accepts one entry more than its capacity.       *)
PutNew_OffByOne ==
  /\ PutCharge
  /\ op.key \notin Cached
  /\ Cardinality(Cached) <= Capacity
  /\ Insert(op.key, op.result, Cached, 0)

(* or takes a free slot;                                                   *)
PutNew ==
  /\ PutCharge
  /\ op.key \notin Cached
  /\ Cardinality(Cached) < Capacity
  /\ Insert(op.key, op.result, Cached, 0)

(* or the full map silently drops its LRU entry, whose bytes stay charged. *)
PutAtCapacity ==
  /\ PutCharge
  /\ op.key \notin Cached
  /\ Cardinality(Cached) >= Capacity
  /\ \E k \in Cached : /\ IsLeastRecent(k)
                       /\ Insert(op.key, op.result, Cached \ {k}, Bytes(k))

(* invalidate_tenant: take the lock and collect the tenant's keys.         *)
InvalidateLock(t) ==
  /\ op = Idle
  /\ op' = Invalidating(t, {k \in Cached : k[1] = t})
  /\ reply' = NoReply
  /\ UNCHANGED <<entries, older, total_bytes, held>>

(* invalidate_tenant: one key of keys_to_remove.                           *)
InvalidatePop ==
  /\ op.kind = "invalidate"
  /\ \E k \in op.keys : /\ op' = [op EXCEPT !.keys = @ \ {k}]
                        /\ k \in Cached
                        /\ Pop(k)
                        /\ Debit(k)
  /\ UNCHANGED reply

InvalidateUnlock ==
  /\ op.kind = "invalidate"
  /\ op.keys = {}
  /\ op' = Idle
  /\ reply' = Invalidated({op.tenant})
  /\ UNCHANGED <<entries, older, total_bytes, held>>

InvalidateAll ==
  /\ op = Idle
  /\ entries' = <<>>
  /\ older' = {}
  /\ total_bytes' = 0
  /\ held' = 0
  /\ reply' = Invalidated(Tenants)
  /\ UNCHANGED op

(* External: the monotonic clock behind Instant.                           *)
Tick ==
  /\ entries' = [k \in Cached |->
                   [entries[k] EXCEPT !.age = IF @ <= ttl THEN @ + 1 ELSE @]]
  /\ UNCHANGED <<older, total_bytes, op, reply, held>>

(* The steps of the call that holds the lock.                              *)
LockHolder ==
  \/ PutEvict \/ PutReplace \/ PutNew \/ PutAtCapacity
  \/ InvalidatePop \/ InvalidateUnlock

Next ==
  \/ \E k \in Keys : GetMiss(k) \/ GetHit(k) \/ GetExpired(k)
  \/ \E k \in Keys, r \in Results : PutLock(k, r)
  \/ \E t \in Tenants : InvalidateLock(t)
  \/ LockHolder
  \/ InvalidateAll
  \/ Tick

Spec == Init /\ [][Next]_vars

(* The thread that holds the mutex keeps running.                          *)
FairSpec == Spec /\ WF_vars(LockHolder)
-----------------------------------------------------------------------------
MapOK ==
  /\ \E S \in SUBSET Keys : entries \in [S -> Entry]
  /\ older \subseteq Cached \X Cached

OpOK ==
  \/ op = Idle
  \/ \E k \in Keys, r \in Results : op = Putting(k, r)
  \/ \E t \in Tenants, K \in SUBSET Cached : op = Invalidating(t, K)

ReplyOK ==
  \/ reply = NoReply
  \/ \E k \in Keys : \/ reply = Miss(k) \/ reply = Stored(k)
                     \/ \E r \in Results : reply = Hit(k, r)
  \/ \E T \in SUBSET Tenants : reply = Invalidated(T)

(* Types of the map, of the counters, of the call that holds the lock and  *)
(* of the last reply; the counter of CacheInner is unsigned.               *)
TypeOK == MapOK /\ total_bytes \in Nat /\ held \in Int /\ OpOK /\ ReplyOK

(* The bytes of the cached results, each named by its key and position.    *)
HeldBytes == UNION {{k} \X (1 .. Bytes(k)) : k \in Cached}

(* The history variable is what it claims to be: the number of bytes of    *)
(* the entries in the map, through every insertion, replacement, eviction  *)
(* and invalidation.                                                       *)
HeldIsSum == held = Cardinality(HeldBytes)

(* The byte counter never under-counts: `put` decides on eviction with     *)
(* total_bytes, so an under-count would let the cache outgrow max_bytes.   *)
(* Removals with saturating_sub, replacements and capacity evictions (which*)
(* debit nothing) all keep it at or above the bytes really held.           *)
CounterCoversContents == held <= total_bytes

(* The bound the eviction loop really gives: the cached results fit in     *)
(* max_bytes, or a single entry (one larger than the whole budget) is left.*)
WithinBudgetOrAlone ==
  held <= max_bytes \/ \A j, k \in Cached : j = k

(* What replaced or capacity-evicted entries leave behind in total_bytes   *)
(* never exceeds the byte budget, so the counter itself stays bounded.     *)
DriftBounded == total_bytes - held <= max_bytes

(* The LruCache never outgrows its capacity, even while `put` is between   *)
(* its eviction loop and its insertion.                                    *)
EntryCapRespected == Cardinality(Cached) <= Capacity

(* Bytes lost from the accounts stay lost: no get, put or tenant           *)
(* invalidation gives budget back, only invalidate_all does.  Each         *)
(* replacement or capacity eviction shrinks the usable cache for good.     *)
DriftOnlyResetByInvalidateAll ==
  [][ total_bytes' - held' >= total_bytes - held
      \/ (reply' = Invalidated(Tenants) /\ Cached' = {}) ]_vars

(* Whoever holds the mutex gives it back: the eviction loop of `put` and   *)
(* the removal loop of `invalidate_tenant` terminate, with the counter     *)
(* above the budget and the map empty included.                            *)
LockReleased == op # Idle ~> op = Idle

(* The cache implements the promise made to its callers: a hit returns the *)
(* result last stored under that very tenant and SQL, not older than the   *)
(* TTL, and nothing of a tenant survives invalidate_tenant.                *)
Promise == INSTANCE CacheContract WITH contents <- entries, TTL <- ttl
ImplementsContract == Promise!Spec
=============================================================================
