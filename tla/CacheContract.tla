--------------------------- MODULE CacheContract ---------------------------
(***************************************************************************)
(* What the hot-result cache of src/src/query_cache.rs promises its        *)
(* callers, without bytes, recency or locks: a forgetful map.  It may lose *)
(* any entry at any time, but a hit returns what was last stored under     *)
(* exactly that (tenant, sql) key, never an entry older than the TTL, and  *)
(* after an invalidation of a tenant returns nothing of that tenant is     *)
(* left.  QueryCache is shown to implement this specification; the pool    *)
(* model uses it in the place of the cache.                                *)
(***************************************************************************)
EXTENDS Integers, Functions

CONSTANTS Tenants,  \* tenant ids
          Sqls,     \* SQL texts (a SHA-256 digest stands for its text)
          Results,  \* enforced result batches with their attestation JWS
          TTL       \* ttl_secs, in clock ticks

VARIABLES contents, \* cached keys -> [result, age]
          reply     \* what the last completed call returned

vars == <<contents, reply>>

Keys == Tenants \X Sqls

(* Ages above the TTL are all alike: the clock is capped one tick beyond.  *)
Ages == 0 .. TTL + 1

Entry == [result : Results, age : Ages]

NoReply == [kind |-> "none"]
Hit(k, r) == [kind |-> "hit", key |-> k, result |-> r]
Miss(k) == [kind |-> "miss", key |-> k]
Stored(k) == [kind |-> "stored", key |-> k]
Invalidated(T) == [kind |-> "invalidated", tenants |-> T]

Older(e) == [e EXCEPT !.age = IF @ <= TTL THEN @ + 1 ELSE @]

KeysOf(T) == {k \in DOMAIN contents : k[1] \in T}

-----------------------------------------------------------------------------
Init == contents = <<>> /\ reply = NoReply

(* The cache drops entries on its own account (eviction).                  *)
Forget ==
  /\ \E S \in SUBSET DOMAIN contents : contents' = Restrict(contents, S)
  /\ reply' = NoReply

LookupHit(k) ==
  /\ k \in DOMAIN contents
  /\ contents[k].age <= TTL
  /\ reply' = Hit(k, contents[k].result)
  /\ UNCHANGED contents

(* A miss is honest: a live entry is never denied.                         *)
LookupMiss(k) ==
  /\ k \in DOMAIN contents => contents[k].age > TTL
  /\ contents' = Restrict(contents, DOMAIN contents \ {k})
  /\ reply' = Miss(k)

Store(k, r) ==
  /\ \E S \in SUBSET (DOMAIN contents \ {k}) :
       contents' = [x \in S \cup {k} |->
                      IF x = k THEN [result |-> r, age |-> 0] ELSE contents[x]]
  /\ reply' = Stored(k)

Invalidate(T) ==
  /\ contents' = Restrict(contents, DOMAIN contents \ KeysOf(T))
  /\ reply' = Invalidated(T)

Tick ==
  /\ contents' = [k \in DOMAIN contents |-> Older(contents[k])]
  /\ UNCHANGED reply

Next ==
  \/ Forget
  \/ Tick
  \/ \E k \in Keys : LookupHit(k) \/ LookupMiss(k)
  \/ \E k \in Keys, r \in Results : Store(k, r)
  \/ \E t \in Tenants : Invalidate({t})
  \/ Invalidate(Tenants)

Spec == Init /\ [][Next]_vars
=============================================================================
