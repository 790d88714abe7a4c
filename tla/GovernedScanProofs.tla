------------------------- MODULE GovernedScanProofs -------------------------
(***************************************************************************)
(* Governed queries for any contracts, callers, publications and files:    *)
(* which contract governs a query, that it was permitted, and what the     *)
(* plan that runs is made of.                                              *)
(***************************************************************************)
EXTENDS GovernedScan, TLAPS

Operators == ContractOperators \cup
  {"DataSourceExec", "ContractApprovedExec", "ProjectionExec", "FilterExec",
   "GlobalLimitExec"} \cup PassOn

(* In the plan p every y has an x below it.                                *)
Below(p, x, y) == \A i \in 1 .. Len(p) : p[i] = y => \E j \in 1 .. i - 1 : p[j] = x

(* The contract operators of a plan and their order.                       *)
Shape(p, pol) ==
  /\ \A op \in ContractOperators : Below(p, "ContractApprovedExec", op)
  /\ Below(p, "RowFilterExec", "MaskingExec")
  /\ Contains(p, "RowFilterExec") /\ Contains(p, "MaskingExec")
  /\ Contains(p, "LaplaceNoiseExec") <=> has_dp(pol)

(* What a query has when.                                                  *)
Phase(q) ==
  /\ at[q] # "idle" => source \in {"json"} \cup Platforms /\ ask[q].caller \in Callers
  /\ policy[q].decision \in {"Allow", "Deny", "Error"}
  /\ at[q] \in {"idle", "resolving"} => policy[q].decision = "Error"
  /\ at[q] \in {"binding", "planning", "running", "answered"} => policy[q].decision = "Allow"
  /\ at[q] \in {"idle", "resolving", "binding"} => file[q] = None /\ taken[q] = {}
  /\ file[q] # None => policy[q].decision = "Allow"
  /\ file[q] \in DOMAIN Files \cup {None}
  /\ file[q] # None => taken[q] \subseteq Batches(file[q])

(* The publications a query has seen are still there.                      *)
Seniority(q) == \A d \in DOMAIN Versions : since[q][d] \in Nat /\ since[q][d] <= published[d]

(* A resolved policy is that of one contract, on the platform of one that  *)
(* was published, and over a trusted transport no older than the query.    *)
FromContract(p, c, caller) ==
  /\ p.version = c.version /\ p.contract_id = c.contract_id
  /\ p.decision = "Allow" =>
       /\ Permitted(c, caller)
       /\ has_dp(p) <=> (caller.tenant # c.owner /\ DOMAIN c.dp # {})

Governed(q) ==
  policy[q].decision # "Error" =>
    /\ FromContract(policy[q], Contract(q), ask[q].caller)
    /\ source \in Platforms =>
         /\ policy[q].contract_id \in DOMAIN Versions
         /\ policy[q].version \in 1 .. published[policy[q].contract_id]
         /\ source = "trusted" =>
              /\ policy[q].contract_id = ask[q].dataset
              /\ since[q][ask[q].dataset] <= policy[q].version

Built(q) ==
  /\ plan[q] \in Seq(Operators) /\ Len(plan[q]) <= MaxPlan
  /\ at[q] \in {"running", "answered"} => Shape(plan[q], policy[q])

Attested(q) ==
  envelope[q] # None =>
    /\ at[q] = "answered"
    /\ envelope[q] = [contract_id |-> policy[q].contract_id, version |-> policy[q].version,
                      rules |-> collect_rules_applied(plan[q])]

Maps ==
  /\ source \in {"unloaded", "failed", "json"} \cup Platforms
  /\ DOMAIN published = DOMAIN Versions
  /\ \A d \in DOMAIN Versions : published[d] \in 1 .. Len(Versions[d])
  /\ at \in [Queries -> Places] /\ DOMAIN ask = Queries /\ DOMAIN since = Queries
  /\ DOMAIN policy = Queries /\ DOMAIN file = Queries /\ DOMAIN plan = Queries
  /\ DOMAIN taken = Queries /\ DOMAIN envelope = Queries

Query(q) == Phase(q) /\ Seniority(q) /\ Governed(q) /\ Built(q) /\ Attested(q)

Inv == Maps /\ \A q \in Queries : Query(q)

-----------------------------------------------------------------------------
(* Plans.                                                                  *)

(* Putting in something else, or taking out something else, keeps what is  *)
(* below what.                                                             *)
LEMMA Joined ==
  ASSUME NEW S, NEW a \in Seq(S), NEW b \in Seq(S), NEW r, r = a \o b
  PROVE  /\ r \in Seq(S) /\ Len(r) = Len(a) + Len(b)
         /\ \A i \in 1 .. Len(a) : r[i] = a[i]
         /\ \A i \in 1 .. Len(b) : r[Len(a) + i] = b[i]
OBVIOUS

LEMMA Inserted ==
  ASSUME NEW S, NEW p \in Seq(S), NEW e \in S, NEW k \in 2 .. Len(p),
         NEW r, r = InsertAt(p, k, e)
  PROVE  /\ r \in Seq(S) /\ Len(r) = Len(p) + 1
         /\ \A i \in 1 .. Len(p) : i < k => r[i] = p[i]
         /\ r[k] = e
         /\ \A i \in k + 1 .. Len(p) + 1 : r[i] = p[i - 1]
<1> DEFINE a == SubSeq(p, 1, k - 1)
           b == SubSeq(p, k, Len(p))
           c == a \o <<e>>
<1>1. a \in Seq(S) /\ Len(a) = k - 1 /\ \A i \in 1 .. k - 1 : a[i] = p[i]
  OBVIOUS
<1>2. b \in Seq(S) /\ Len(b) = Len(p) - k + 1 /\ \A i \in 1 .. Len(p) - k + 1 : b[i] = p[k + i - 1]
  OBVIOUS
<1> HIDE DEF a, b
<1>3. c \in Seq(S) /\ Len(c) = k /\ c[k] = e /\ \A i \in 1 .. k - 1 : c[i] = p[i]
  BY <1>1
<1> HIDE DEF c
<1>4. r = c \o b
  BY DEF a, b, c, InsertAt
<1>5. /\ r \in Seq(S) /\ Len(r) = Len(p) + 1
      /\ \A i \in 1 .. k : r[i] = c[i]
      /\ \A i \in 1 .. Len(p) - k + 1 : r[k + i] = b[i]
  <2>1. k \in Nat /\ Len(p) \in Nat /\ k <= Len(p)
    OBVIOUS
  <2>2. c \in Seq(S) /\ b \in Seq(S)
    BY <1>2, <1>3
  <2>3. /\ r \in Seq(S) /\ Len(r) = Len(c) + Len(b)
        /\ \A i \in 1 .. Len(c) : r[i] = c[i]
        /\ \A i \in 1 .. Len(b) : r[Len(c) + i] = b[i]
    BY <1>4, <2>2
  <2>4. Len(r) = Len(p) + 1
    BY <1>2, <1>3, <2>1, <2>3
  <2> QED
    BY <1>2, <1>3, <2>3, <2>4
<1>6. ASSUME NEW i \in k + 1 .. Len(p) + 1 PROVE r[i] = p[i - 1]
  <2>1. i - k \in 1 .. Len(p) - k + 1 /\ k + (i - k) = i /\ k + (i - k) - 1 = i - 1
    OBVIOUS
  <2> QED
    BY <1>2, <1>5, <2>1
<1>7. ASSUME NEW i \in 1 .. Len(p), i < k PROVE r[i] = p[i]
  BY <1>3, <1>5, <1>7
<1> QED
  BY <1>3, <1>5, <1>6, <1>7

LEMMA Removed ==
  ASSUME NEW S, NEW p \in Seq(S), NEW k \in 1 .. Len(p), NEW r, r = RemoveAt(p, k)
  PROVE  /\ r \in Seq(S) /\ Len(r) = Len(p) - 1
         /\ \A i \in 1 .. Len(p) : i < k => r[i] = p[i]
         /\ \A i \in k .. Len(p) - 1 : r[i] = p[i + 1]
<1> DEFINE a == SubSeq(p, 1, k - 1)
           b == SubSeq(p, k + 1, Len(p))
<1>1. a \in Seq(S) /\ Len(a) = k - 1 /\ \A i \in 1 .. k - 1 : a[i] = p[i]
  OBVIOUS
<1>2. b \in Seq(S) /\ Len(b) = Len(p) - k /\ \A i \in 1 .. Len(p) - k : b[i] = p[k + i]
  OBVIOUS
<1>3. r = a \o b
  BY DEF RemoveAt
<1> HIDE DEF a, b
<1>4. /\ r \in Seq(S) /\ Len(r) = Len(p) - 1
      /\ \A i \in 1 .. k - 1 : r[i] = a[i]
      /\ \A i \in 1 .. Len(p) - k : r[(k - 1) + i] = b[i]
  BY <1>1, <1>2, <1>3, SMTT(60)
<1>5. ASSUME NEW i \in k .. Len(p) - 1 PROVE r[i] = p[i + 1]
  <2>1. PICK n \in 1 .. Len(p) - k : n = i - k + 1
    OBVIOUS
  <2>2. (k - 1) + n = i /\ k + n = i + 1
    BY <2>1
  <2>3. r[(k - 1) + n] = b[n] /\ b[n] = p[k + n]
    BY <1>2, <1>4
  <2> QED
    BY <2>2, <2>3
<1> QED
  BY <1>1, <1>4, <1>5

LEMMA InsertKeeps ==
  ASSUME NEW S, NEW p \in Seq(S), NEW e \in S, NEW k \in 2 .. Len(p),
         NEW r, r = InsertAt(p, k, e)
  PROVE  /\ \A x, y : y # e /\ Below(p, x, y) => Below(r, x, y)
         /\ \A x : x # e => (Contains(r, x) <=> Contains(p, x))
<1>1. /\ r \in Seq(S) /\ Len(r) = Len(p) + 1 /\ Len(p) \in Nat
      /\ \A i \in 1 .. Len(p) : i < k => r[i] = p[i]
      /\ r[k] = e
      /\ \A i \in 1 .. Len(p) : i >= k => r[i + 1] = p[i]
  <2>1. Len(p) \in Nat
    OBVIOUS
  <2>2. r \in Seq(S) /\ Len(r) = Len(p) + 1
    BY Inserted
  <2>3. \A i \in 1 .. Len(p) : i < k => r[i] = p[i]
    BY Inserted
  <2>4. r[k] = e
    BY Inserted
  <2>5. \A i \in k + 1 .. Len(p) + 1 : r[i] = p[i - 1]
    BY Inserted
  <2>6. ASSUME NEW i \in 1 .. Len(p), i >= k PROVE r[i + 1] = p[i]
    <3>1. i + 1 \in k + 1 .. Len(p) + 1 /\ (i + 1) - 1 = i
      BY <2>6
    <3> QED
      BY <2>5, <3>1
  <2> QED
    BY <2>1, <2>2, <2>3, <2>4, <2>6
<1>2. ASSUME NEW i \in 1 .. Len(r), r[i] # e
      PROVE  \E j \in 1 .. Len(p) : p[j] = r[i] /\ ((i = j /\ j < k) \/ (i = j + 1 /\ j >= k))
  <2>1. CASE i < k
    BY <1>1, <2>1
  <2>2. CASE i > k
    <3>1. i - 1 \in 1 .. Len(p) /\ i - 1 >= k /\ (i - 1) + 1 = i
      BY <1>1, <2>2
    <3> QED
      BY <1>1, <3>1
  <2> QED
    BY <1>1, <1>2, <2>1, <2>2
<1>3. ASSUME NEW j \in 1 .. Len(p)
      PROVE  \E i \in 1 .. Len(r) : r[i] = p[j] /\ ((i = j /\ j < k) \/ (i = j + 1 /\ j >= k))
  <2>1. CASE j < k
    BY <1>1, <2>1
  <2>2. CASE j >= k
    <3>1. j + 1 \in 1 .. Len(r)
      BY <1>1
    <3> QED
      BY <1>1, <2>2, <3>1
  <2> QED
    BY <2>1, <2>2
<1>4. ASSUME NEW x, NEW y, y # e, Below(p, x, y) PROVE Below(r, x, y)
  <2> SUFFICES ASSUME NEW i \in 1 .. Len(r), r[i] = y PROVE \E m \in 1 .. i - 1 : r[m] = x
    BY DEF Below
  <2>1. PICK j \in 1 .. Len(p) : p[j] = y /\ ((i = j /\ j < k) \/ (i = j + 1 /\ j >= k))
    BY <1>2, <1>4
  <2>2. PICK n \in 1 .. j - 1 : p[n] = x
    BY <1>4, <2>1 DEF Below
  <2>3. n \in 1 .. Len(p) /\ n < j
    BY <1>1
  <2>4. PICK m \in 1 .. Len(r) : r[m] = x /\ ((m = n /\ n < k) \/ (m = n + 1 /\ n >= k))
    BY <1>3, <2>2, <2>3
  <2>5. m \in 1 .. i - 1
    BY <2>1, <2>3, <2>4
  <2> QED
    BY <2>4, <2>5
<1>5. ASSUME NEW x, x # e PROVE Contains(r, x) <=> Contains(p, x)
  BY <1>2, <1>3, <1>5, SMTT(60) DEF Contains
<1> QED
  BY <1>4, <1>5

LEMMA RemoveKeeps ==
  ASSUME NEW S, NEW p \in Seq(S), NEW k \in 1 .. Len(p), NEW r, r = RemoveAt(p, k)
  PROVE  /\ \A x, y : x # p[k] /\ Below(p, x, y) => Below(r, x, y)
         /\ \A x : x # p[k] => (Contains(r, x) <=> Contains(p, x))
<1>1. /\ r \in Seq(S) /\ Len(r) = Len(p) - 1 /\ Len(p) \in Nat
      /\ \A i \in 1 .. Len(p) : i < k => r[i] = p[i]
      /\ \A i \in 1 .. Len(p) : i > k => r[i - 1] = p[i]
  <2>1. Len(p) \in Nat
    OBVIOUS
  <2>2. r \in Seq(S) /\ Len(r) = Len(p) - 1
    BY Removed, SMTT(60)
  <2>3. \A i \in 1 .. Len(p) : i < k => r[i] = p[i]
    BY Removed, SMTT(60)
  <2>4. \A i \in k .. Len(p) - 1 : r[i] = p[i + 1]
    BY Removed, SMTT(60)
  <2>5. ASSUME NEW i \in 1 .. Len(p), i > k PROVE r[i - 1] = p[i]
    <3>1. i - 1 \in k .. Len(p) - 1 /\ (i - 1) + 1 = i
      BY <2>5
    <3> QED
      BY <2>4, <3>1
  <2> QED
    BY <2>1, <2>2, <2>3, <2>5
<1>2. ASSUME NEW i \in 1 .. Len(r)
      PROVE  \E j \in 1 .. Len(p) : p[j] = r[i] /\ ((i = j /\ j < k) \/ (i = j - 1 /\ j > k))
  <2>1. CASE i < k
    <3>1. i \in 1 .. Len(p)
      BY <1>1
    <3> QED
      BY <1>1, <2>1, <3>1
  <2>2. CASE i >= k
    <3>1. i + 1 \in 1 .. Len(p) /\ i + 1 > k /\ (i + 1) - 1 = i
      BY <1>1, <2>2
    <3> QED
      BY <1>1, <3>1
  <2> QED
    BY <2>1, <2>2
<1>3. ASSUME NEW j \in 1 .. Len(p), p[j] # p[k]
      PROVE  \E i \in 1 .. Len(r) : r[i] = p[j] /\ ((i = j /\ j < k) \/ (i = j - 1 /\ j > k))
  <2>1. CASE j < k
    <3>1. j \in 1 .. Len(r)
      BY <1>1, <2>1
    <3> QED
      BY <1>1, <2>1, <3>1
  <2>2. CASE j > k
    <3>1. j - 1 \in 1 .. Len(r)
      BY <1>1, <2>2
    <3> QED
      BY <1>1, <2>2, <3>1
  <2> QED
    BY <1>3, <2>1, <2>2
<1>4. ASSUME NEW x, NEW y, x # p[k], Below(p, x, y) PROVE Below(r, x, y)
  <2> SUFFICES ASSUME NEW i \in 1 .. Len(r), r[i] = y PROVE \E m \in 1 .. i - 1 : r[m] = x
    BY DEF Below
  <2>1. PICK j \in 1 .. Len(p) : p[j] = y /\ ((i = j /\ j < k) \/ (i = j - 1 /\ j > k))
    BY <1>2
  <2>2. PICK n \in 1 .. j - 1 : p[n] = x
    BY <1>4, <2>1 DEF Below
  <2>3. n \in 1 .. Len(p) /\ n < j
    BY <1>1
  <2>4. PICK m \in 1 .. Len(r) : r[m] = x /\ ((m = n /\ n < k) \/ (m = n - 1 /\ n > k))
    BY <1>3, <1>4, <2>2, <2>3
  <2>5. m \in 1 .. i - 1
    BY <2>1, <2>3, <2>4
  <2> QED
    BY <2>4, <2>5
<1>5. ASSUME NEW x, x # p[k] PROVE Contains(r, x) <=> Contains(p, x)
  <2>1. ASSUME NEW i \in 1 .. Len(r), r[i] = x PROVE Contains(p, x)
    BY <1>2, <2>1 DEF Contains
  <2>2. ASSUME NEW j \in 1 .. Len(p), p[j] = x PROVE Contains(r, x)
    BY <1>3, <1>5, <2>2 DEF Contains
  <2> QED
    BY <2>1, <2>2 DEF Contains
<1> QED
  BY <1>4, <1>5

(* A plan as scan() builds it, up to some operator: the four that are      *)
(* always there, noise next if there is any, then only what DataFusion     *)
(* adds.                                                                   *)
Stacked(s, pol, n) ==
  /\ s \in Seq(Operators) /\ Len(s) \in 4 .. n
  /\ s[1] = "DataSourceExec" /\ s[2] = "ContractApprovedExec"
  /\ s[3] = "RowFilterExec" /\ s[4] = "MaskingExec"
  /\ has_dp(pol) => Len(s) >= 5 /\ s[5] = "LaplaceNoiseExec"
  /\ \A i \in 5 .. Len(s) : /\ s[i] \in Operators \ {"RowFilterExec", "MaskingExec"}
                            /\ s[i] = "LaplaceNoiseExec" => has_dp(pol)

LEMMA StackedMore ==
  ASSUME NEW s, NEW pol, NEW n \in Nat, Stacked(s, pol, n),
         NEW x \in {"ProjectionExec", "FilterExec", "GlobalLimitExec"},
         NEW r, r = s \/ r = s \o <<x>>
  PROVE  Stacked(r, pol, n + 1)
<1>1. s \in Seq(Operators) /\ Len(s) \in 4 .. n /\ Len(s) \in Nat
  BY DEF Stacked
<1>2. x \in Operators \ {"RowFilterExec", "MaskingExec"} /\ x # "LaplaceNoiseExec"
  BY DEF Operators
<1>3. CASE r = s
  <2>1. Len(s) \in 4 .. n + 1
    BY <1>1
  <2> QED
    BY <1>3, <2>1 DEF Stacked
<1>4. CASE r = s \o <<x>>
  <2>2. /\ r \in Seq(Operators) /\ Len(r) = Len(s) + 1 /\ r[Len(s) + 1] = x
        /\ \A i \in 1 .. Len(s) : r[i] = s[i]
    BY <1>1, <1>2, <1>4
  <2>3. Len(r) \in 4 .. n + 1
    BY <1>1, <2>2
  <2>4. r[1] = s[1] /\ r[2] = s[2] /\ r[3] = s[3] /\ r[4] = s[4]
    BY <1>1, <2>2
  <2>5. has_dp(pol) => Len(r) >= 5 /\ r[5] = "LaplaceNoiseExec"
    BY <1>1, <2>2 DEF Stacked
  <2>6. ASSUME NEW i \in 5 .. Len(r)
        PROVE  /\ r[i] \in Operators \ {"RowFilterExec", "MaskingExec"}
               /\ r[i] = "LaplaceNoiseExec" => has_dp(pol)
    <3>1. CASE i = Len(s) + 1
      BY <1>2, <2>2, <3>1
    <3>2. CASE i # Len(s) + 1
      <4>1. i \in 5 .. Len(s) /\ i \in 1 .. Len(s)
        BY <1>1, <2>2, <3>2
      <4> QED
        BY <2>2, <4>1 DEF Stacked
    <3> QED
      BY <3>1, <3>2
  <2> QED
    BY <2>2, <2>3, <2>4, <2>5, <2>6 DEF Stacked
<1> QED
  BY <1>3, <1>4

LEMMA StackedShape ==
  ASSUME NEW s, NEW pol, NEW n \in Nat, Stacked(s, pol, n)
  PROVE  Shape(s, pol)
<1>1. /\ s \in Seq(Operators) /\ Len(s) \in 4 .. n /\ Len(s) \in Nat
      /\ s[1] = "DataSourceExec" /\ s[2] = "ContractApprovedExec"
      /\ s[3] = "RowFilterExec" /\ s[4] = "MaskingExec"
  BY DEF Stacked
<1>2. ASSUME NEW i \in 1 .. Len(s), s[i] \in ContractOperators PROVE i >= 3
  <2>1. i # 1 /\ i # 2
    BY <1>1, <1>2 DEF ContractOperators
  <2> QED
    BY <2>1
<1>3. ASSUME NEW op \in ContractOperators PROVE Below(s, "ContractApprovedExec", op)
  <2> SUFFICES ASSUME NEW i \in 1 .. Len(s), s[i] = op
               PROVE  \E j \in 1 .. i - 1 : s[j] = "ContractApprovedExec"
    BY DEF Below
  <2>1. 2 \in 1 .. i - 1
    BY <1>2
  <2> QED
    BY <1>1, <2>1
<1>4. Below(s, "RowFilterExec", "MaskingExec")
  <2> SUFFICES ASSUME NEW i \in 1 .. Len(s), s[i] = "MaskingExec"
               PROVE  \E j \in 1 .. i - 1 : s[j] = "RowFilterExec"
    BY DEF Below
  <2>1. i >= 3 /\ i # 3
    BY <1>1, <1>2 DEF ContractOperators
  <2>2. 3 \in 1 .. i - 1
    BY <2>1
  <2> QED
    BY <1>1, <2>2
<1>5. Contains(s, "RowFilterExec") /\ Contains(s, "MaskingExec")
  <2>1. 3 \in 1 .. Len(s) /\ 4 \in 1 .. Len(s)
    BY <1>1
  <2> QED
    BY <1>1, <2>1 DEF Contains
<1>6. Contains(s, "LaplaceNoiseExec") <=> has_dp(pol)
  <2>1. ASSUME has_dp(pol) PROVE Contains(s, "LaplaceNoiseExec")
    <3>1. 5 \in 1 .. Len(s) /\ s[5] = "LaplaceNoiseExec"
      BY <1>1, <2>1 DEF Stacked
    <3> QED
      BY <3>1 DEF Contains
  <2>2. ASSUME NEW i \in 1 .. Len(s), s[i] = "LaplaceNoiseExec" PROVE has_dp(pol)
    <3>1. i # 1 /\ i # 2 /\ i # 3 /\ i # 4
      BY <1>1, <2>2
    <3>2. i \in 5 .. Len(s)
      BY <1>1, <3>1
    <3> QED
      BY <2>2, <3>2 DEF Stacked
  <2> QED
    BY <2>1, <2>2 DEF Contains
<1> QED
  BY <1>3, <1>4, <1>5, <1>6 DEF Shape

LEMMA ScanShape ==
  ASSUME NEW pol, NEW a
  PROVE  /\ scan(pol, a) \in Seq(Operators) /\ Len(scan(pol, a)) <= MaxPlan
         /\ Shape(scan(pol, a), pol)
<1> DEFINE base == <<"DataSourceExec", "ContractApprovedExec", "RowFilterExec", "MaskingExec">>
           s1 == base \o If(has_dp(pol), "LaplaceNoiseExec")
           s2 == s1 \o <<"ProjectionExec">>
           s3 == s2 \o If(a.where # None, "FilterExec")
           s4 == s3 \o If(a.limit # None, "GlobalLimitExec")
<1>1. Stacked(s1, pol, 5)
  <2>1. /\ base \in Seq(Operators) /\ Len(base) = 4
        /\ base[1] = "DataSourceExec" /\ base[2] = "ContractApprovedExec"
        /\ base[3] = "RowFilterExec" /\ base[4] = "MaskingExec"
    BY DEF Operators, ContractOperators
  <2> HIDE DEF base
  <2>2. CASE ~ has_dp(pol)
    <3>1. s1 = base
      BY <2>1, <2>2 DEF If
    <3> HIDE DEF s1
    <3> QED
      BY <2>1, <2>2, <3>1, SMTT(60) DEF Stacked
  <2>3. CASE has_dp(pol)
    <3>1. s1 = base \o <<"LaplaceNoiseExec">>
      BY <2>3 DEF If
    <3> HIDE DEF s1
    <3>2. "LaplaceNoiseExec" \in Operators \ {"RowFilterExec", "MaskingExec"}
      BY DEF Operators, ContractOperators
    <3>3. /\ s1 \in Seq(Operators) /\ Len(s1) = 5
          /\ s1[1] = base[1] /\ s1[2] = base[2] /\ s1[3] = base[3] /\ s1[4] = base[4]
          /\ s1[5] = "LaplaceNoiseExec"
      <4>1. base \in Seq(Operators) /\ "LaplaceNoiseExec" \in Operators
        BY <2>1, <3>2
      <4>2. /\ s1 \in Seq(Operators) /\ Len(s1) = Len(base) + 1
            /\ \A i \in 1 .. Len(base) : s1[i] = base[i]
            /\ s1[Len(base) + 1] = "LaplaceNoiseExec"
        BY <3>1, <4>1
      <4> QED
        BY <2>1, <4>2
    <3>4. \A i \in 5 .. Len(s1) : i = 5
      BY <3>3
    <3> QED
      BY <2>1, <2>3, <3>2, <3>3, <3>4 DEF Stacked
  <2> QED
    BY <2>2, <2>3
<1>2. scan(pol, a) = s4
  BY DEF scan
<1>3. s1 \in Seq(Operators)
  BY <1>1 DEF Stacked
<1> HIDE DEF s1
<1>4. Stacked(s2, pol, 6)
  <2>1. s2 = s1 \/ s2 = s1 \o <<"ProjectionExec">>
    OBVIOUS
  <2>2. 5 \in Nat /\ 5 + 1 = 6
    OBVIOUS
  <2> HIDE DEF s2
  <2>3. Stacked(s2, pol, 5 + 1)
    BY <1>1, <2>1, <2>2, StackedMore, Zenon
  <2> QED
    BY <2>2, <2>3
<1>5. s2 \in Seq(Operators)
  BY <1>4 DEF Stacked
<1> HIDE DEF s2
<1>6. Stacked(s3, pol, 7)
  <2>1. s3 = s2 \/ s3 = s2 \o <<"FilterExec">>
    BY <1>5 DEF If
  <2> HIDE DEF s3
  <2> QED
    BY <1>4, <2>1, StackedMore
<1>7. s3 \in Seq(Operators)
  BY <1>6 DEF Stacked
<1> HIDE DEF s3
<1>8. Stacked(s4, pol, 8)
  <2>1. s4 = s3 \/ s4 = s3 \o <<"GlobalLimitExec">>
    BY <1>7 DEF If
  <2> HIDE DEF s4
  <2> QED
    BY <1>6, <2>1, StackedMore
<1> HIDE DEF s4
<1>9. s4 \in Seq(Operators) /\ Len(s4) <= MaxPlan
  BY <1>8, ScanConstants DEF Stacked
<1>10. Shape(s4, pol)
  BY <1>8, StackedShape
<1> QED
  BY <1>2, <1>9, <1>10

-----------------------------------------------------------------------------
(* Policies.                                                               *)

LEMMA Policies ==
  /\ Unresolved.decision = "Error"
  /\ \A c, decision, masks, filter, dp :
       LET p == Policy(c, decision, masks, filter, dp) IN
       /\ p.contract_id = c.contract_id /\ p.version = c.version
       /\ p.decision = decision /\ p.dp_columns = dp
  /\ DOMAIN Nothing = {}
BY DEF Unresolved, Policy, Nothing

(* A contract read from a JSON document: an Allow is the contract's own,   *)
(* and an owner gets no noise.                                             *)
LEMMA JsonPolicy ==
  ASSUME NEW cs, NEW d, NEW caller, NEW p, p = resolve(cs, d, caller)
  PROVE  /\ p.decision \in {"Allow", "Deny", "Error"}
         /\ p.decision # "Error" => FromContract(p, cs[d], caller)
<1> DEFINE c == cs[d]
           action == [col \in DOMAIN c.columns |-> parse(c.columns[col])]
           masks == [col \in {k \in DOMAIN action : action[k] # "noop"} |-> action[col]]
<1>1. \/ p = Unresolved
      \/ p = Deny(c)
      \/ /\ ~ (c.purposes # {} /\ caller.purpose \notin c.purposes)
         /\ \/ caller.tenant = c.owner /\ p = allow_all(c)
            \/ caller.tenant # c.owner /\ p = Policy(c, "Allow", masks, c.filter, c.dp)
  BY DEF resolve
<1> HIDE DEF c, masks
<1>2. CASE p = Unresolved
  BY <1>2, Policies
<1>3. CASE p = Deny(c)
  BY <1>3, Policies DEF FromContract, Deny, c
<1>4. ASSUME c.purposes = {} \/ caller.purpose \in c.purposes,
             caller.tenant = c.owner, p = allow_all(c)
      PROVE  p.decision = "Allow" /\ FromContract(p, c, caller)
  BY <1>4, Policies DEF FromContract, allow_all, Permitted, has_dp
<1>5. ASSUME c.purposes = {} \/ caller.purpose \in c.purposes,
             caller.tenant # c.owner, p = Policy(c, "Allow", masks, c.filter, c.dp)
      PROVE  p.decision = "Allow" /\ FromContract(p, c, caller)
  BY <1>5, Policies DEF FromContract, Permitted, has_dp
<1> QED
  BY <1>1, <1>2, <1>3, <1>4, <1>5 DEF c

(* A bundle with the manifest and the gate of contract c.                  *)
LEMMA BundlePolicy ==
  ASSUME NEW b, NEW c, NEW caller, NEW p, p = map_bundle_to_policy(b, caller),
         b.manifest.contract_id = c.contract_id, b.manifest.version = c.version,
         allowed_purposes(b) = c.purposes, DOMAIN c.dp = {}
  PROVE  p.decision \in {"Allow", "Deny"} /\ FromContract(p, c, caller)
<1> DEFINE m == [contract_id |-> b.manifest.contract_id, version |-> b.manifest.version,
                 owner |-> owner_tenant(b)]
           t == b.templates[non_owner_template(b)]
<1>1. \/ p = Deny(m)
      \/ /\ ~ (c.purposes # {} /\ caller.purpose \notin c.purposes)
         /\ \/ p = allow_all(m)
            \/ p = Policy(m, "Allow", masks_from_sql(t), row_filter_from_sql(t), Nothing)
  BY DEF map_bundle_to_policy
<1>2. m.contract_id = c.contract_id /\ m.version = c.version
  OBVIOUS
<1> HIDE DEF m, t
<1>3. CASE p = Deny(m)
  BY <1>2, <1>3, Policies DEF FromContract, Deny
<1>4. ASSUME c.purposes = {} \/ caller.purpose \in c.purposes, p.decision = "Allow",
             p.contract_id = m.contract_id, p.version = m.version, DOMAIN p.dp_columns = {}
      PROVE  FromContract(p, c, caller)
  BY <1>2, <1>4 DEF FromContract, Permitted, has_dp
<1>5. CASE p = allow_all(m) /\ ~ (c.purposes # {} /\ caller.purpose \notin c.purposes)
  BY <1>4, <1>5, Policies DEF allow_all
<1>6. CASE /\ p = Policy(m, "Allow", masks_from_sql(t), row_filter_from_sql(t), Nothing)
           /\ ~ (c.purposes # {} /\ caller.purpose \notin c.purposes)
  BY <1>4, <1>6, Policies
<1> QED
  BY <1>1, <1>3, <1>5, <1>6

(* What the authority compiles, signs and sends.                           *)
OwnerTemplate == Template("owner-read", {}, "1=1")
OtherTemplate(c) ==
  Template("non-owner-read", {<<CallFor[c.columns[k]], k>> : k \in DOMAIN c.columns},
           IF c.filter = None THEN "1=1" ELSE c.filter)

LEMMA Compiled ==
  ASSUME NEW c, NEW b, b = Compile(c)
  PROVE  /\ b.manifest.contract_id = c.contract_id /\ b.manifest.version = c.version
         /\ c.purposes = {} => b.rego = <<MaskingModule>>
         /\ c.purposes # {} => b.rego = <<Gate(c), MaskingModule>>
         /\ b.templates = <<OwnerTemplate, OtherTemplate(c)>>
         /\ b.entries = <<Entry(c, "read"), Entry(c, "write")>>
BY DEF Compile, OwnerTemplate, OtherTemplate

LEMMA Templates ==
  ASSUME NEW c
  PROVE  /\ OwnerTemplate.name = "owner-read" /\ OwnerTemplate.words = {"read"}
         /\ OtherTemplate(c).name = "non-owner-read"
         /\ OtherTemplate(c).words = {"non-owner", "read"}
         /\ OtherTemplate(c).calls = {<<CallFor[c.columns[k]], k>> : k \in DOMAIN c.columns}
         /\ OtherTemplate(c).where = (IF c.filter = None THEN "1=1" ELSE c.filter)
<1>1. /\ OwnerTemplate.name = "owner-read" /\ OwnerTemplate.words = {"read"}
  BY DEF OwnerTemplate, Template
<1>2. /\ OtherTemplate(c).name = "non-owner-read"
      /\ OtherTemplate(c).words = {"non-owner", "read"}
      /\ OtherTemplate(c).calls = {<<CallFor[c.columns[k]], k>> : k \in DOMAIN c.columns}
      /\ OtherTemplate(c).where = (IF c.filter = None THEN "1=1" ELSE c.filter)
  BY DEF OtherTemplate, Template
<1> QED
  BY <1>1, <1>2

LEMMA Modules ==
  ASSUME NEW c
  PROVE  /\ Gate(c).name = "purpose-gate" /\ Gate(c).words = {"purpose"}
         /\ Gate(c).purposes = c.purposes
         /\ MaskingModule.name = "pii-masking" /\ MaskingModule.words = {}
BY DEF Gate, MaskingModule

(* A list of two the other way round.                                      *)
Pair(s, x, y) == DOMAIN s = 1 .. 2 /\ s[1] = x /\ s[2] = y

LEMMA Pairs ==
  ASSUME NEW x, NEW y, NEW s, s = <<x, y>>
  PROVE  Pair(s, x, y) /\ Pair(Reverse(s), y, x)
<1>1. DOMAIN s = 1 .. 2 /\ Len(s) = 2 /\ s[1] = x /\ s[2] = y
  OBVIOUS
<1>2. PICK r : r = Reverse(s)
  OBVIOUS
<1>3. r = [i \in 1 .. 2 |-> s[(2 - i) + 1]]
  BY <1>1, <1>2 DEF Reverse
<1>4. (2 - 1) + 1 = 2 /\ (2 - 2) + 1 = 1 /\ 1 \in 1 .. 2 /\ 2 \in 1 .. 2
  OBVIOUS
<1> QED
  BY <1>1, <1>2, <1>3, <1>4 DEF Pair

LEMMA One ==
  ASSUME NEW x, NEW s, s = <<x>>
  PROVE  DOMAIN s = 1 .. 1 /\ s[1] = x /\ Reverse(s) = s
<1>1. DOMAIN s = 1 .. 1 /\ Len(s) = 1 /\ s[1] = x
  OBVIOUS
<1>2. Reverse(s) = [i \in 1 .. 1 |-> s[(1 - i) + 1]]
  BY <1>1 DEF Reverse
<1>3. \A i \in 1 .. 1 : (1 - i) + 1 = i
  OBVIOUS
<1>4. s = [i \in 1 .. 1 |-> s[i]]
  OBVIOUS
<1> QED
  BY <1>1, <1>2, <1>3, <1>4

(* The lists of a compiled contract, each as it was or the other way round.*)
EitherWay(s, t) == s = t \/ s = Reverse(t)
AsCompiled(b, c) ==
  /\ b.manifest = Compile(c).manifest
  /\ EitherWay(b.rego, Compile(c).rego)
  /\ EitherWay(b.templates, Compile(c).templates)
  /\ EitherWay(b.entries, Compile(c).entries)

LEMMA GateFound ==
  ASSUME NEW c, NEW b, DOMAIN b.rego = 1 .. 2, NEW k \in 1 .. 2, b.rego[k] = Gate(c),
         \A i \in 1 .. 2 : i # k => b.rego[i] = MaskingModule
  PROVE  allowed_purposes(b) = c.purposes
<1> DEFINE hits == {i \in DOMAIN b.rego : "purpose" \in b.rego[i].words}
<1>1. ASSUME NEW i \in 1 .. 2 PROVE "purpose" \in b.rego[i].words <=> i = k
  BY Modules
<1>2. hits = {k}
  BY <1>1
<1>3. FirstWith(b.rego, "purpose") = IF hits = {} THEN 0 ELSE CHOOSE i \in hits : \A j \in hits : i <= j
  BY DEF FirstWith
<1> HIDE DEF hits
<1>4. PICK x : x = CHOOSE i \in hits : \A j \in hits : i <= j
  OBVIOUS
<1>5. k <= k /\ k # 0
  OBVIOUS
<1>6. x \in hits
  BY <1>2, <1>4, <1>5
<1>7. FirstWith(b.rego, "purpose") = k
  BY <1>2, <1>3, <1>4, <1>6
<1> QED
  BY <1>5, <1>7, Modules DEF allowed_purposes

LEMMA Gated ==
  ASSUME NEW c, NEW b, EitherWay(b.rego, Compile(c).rego)
  PROVE  allowed_purposes(b) = c.purposes
<1>1. PICK s : s = Compile(c).rego
  OBVIOUS
<1>2. CASE c.purposes = {}
  <2>1. s = <<MaskingModule>>
    BY <1>1, <1>2, Compiled
  <2>2. DOMAIN b.rego = 1 .. 1 /\ b.rego[1] = MaskingModule
    BY <1>1, <2>1, One DEF EitherWay
  <2>3. \A i \in DOMAIN b.rego : b.rego[i] = MaskingModule
    BY <2>2
  <2>4. MaskingModule.words = {}
    BY Modules
  <2>5. FirstWith(b.rego, "purpose") = 0
    BY <2>3, <2>4 DEF FirstWith
  <2> QED
    BY <1>2, <2>5 DEF allowed_purposes
<1>3. CASE c.purposes # {}
  <2>1. PICK g, m : g = Gate(c) /\ m = MaskingModule
    OBVIOUS
  <2>2. s = <<g, m>>
    BY <1>1, <1>3, <2>1, Compiled
  <2>3. Pair(b.rego, g, m) \/ Pair(b.rego, m, g)
    BY <1>1, <2>2, Pairs DEF EitherWay
  <2>4. \A i \in 1 .. 2 : i = 1 \/ i = 2
    OBVIOUS
  <2>5. CASE Pair(b.rego, g, m)
    <3>1. /\ DOMAIN b.rego = 1 .. 2 /\ b.rego[1] = Gate(c) /\ 1 \in 1 .. 2
          /\ \A i \in 1 .. 2 : i # 1 => b.rego[i] = MaskingModule
      BY <2>1, <2>4, <2>5 DEF Pair
    <3> QED
      BY <3>1, GateFound
  <2>6. CASE Pair(b.rego, m, g)
    <3>1. /\ DOMAIN b.rego = 1 .. 2 /\ b.rego[2] = Gate(c) /\ 2 \in 1 .. 2
          /\ \A i \in 1 .. 2 : i # 2 => b.rego[i] = MaskingModule
      BY <2>1, <2>4, <2>6 DEF Pair
    <3> QED
      BY <3>1, GateFound
  <2> QED
    BY <2>3, <2>5, <2>6
<1> QED
  BY <1>2, <1>3

(* A compiled bundle, in any order, becomes its contract's policy.         *)
LEMMA CompiledPolicy ==
  ASSUME NEW b, NEW c, AsCompiled(b, c), DOMAIN c.dp = {}, NEW caller,
         NEW p, p = map_bundle_to_policy(b, caller)
  PROVE  p.decision \in {"Allow", "Deny"} /\ FromContract(p, c, caller)
<1>1. b.manifest.contract_id = c.contract_id /\ b.manifest.version = c.version
  BY Compiled DEF AsCompiled
<1>2. allowed_purposes(b) = c.purposes
  BY Gated DEF AsCompiled
<1> QED
  BY <1>1, <1>2, BundlePolicy

LEMMA Signed ==
  ASSUME NEW b, NEW k, NEW s, s = Sign(b, k)
  PROVE  /\ s.bundle = b /\ s.signature.key = k
         /\ s.signature.of[2] = canonical_digest(b)
BY DEF Sign, canonical_signing_payload

LEMMA Rebuilt ==
  ASSUME NEW f, NEW rego, NEW templates, NEW entries, NEW hash,
         NEW g, g = With(f, rego, templates, entries, hash)
  PROVE  /\ g.bundle.manifest = f.bundle.manifest /\ g.bundle.rego = rego
         /\ g.bundle.templates = templates /\ g.bundle.entries = entries
         /\ g.signature = f.signature
BY DEF With

(* A signature is only good for the key and the lists it was made for.     *)
LEMMA Verified ==
  ASSUME NEW f, NEW vk, verify(f, vk)
  PROVE  /\ f.signature.key = vk
         /\ f.signature.of[2] = canonical_digest(f.bundle)
BY DEF verify, canonical_signing_payload

(* Lists of one digest have the same names.                                *)
LEMMA SameNames ==
  ASSUME NEW a, NEW b, canonical_digest(a) = canonical_digest(b)
  PROVE  /\ {a.rego[i].name : i \in DOMAIN a.rego} = {b.rego[i].name : i \in DOMAIN b.rego}
         /\ {a.templates[i].name : i \in DOMAIN a.templates}
              = {b.templates[i].name : i \in DOMAIN b.templates}
<1>1. /\ canonical_digest(a)[2] = ByName(a.rego) /\ canonical_digest(b)[2] = ByName(b.rego)
      /\ canonical_digest(a)[3] = ByName(a.templates) /\ canonical_digest(b)[3] = ByName(b.templates)
  BY DEF canonical_digest
<1>2. ByName(a.rego) = ByName(b.rego) /\ ByName(a.templates) = ByName(b.templates)
  BY <1>1
<1>3. \A s : DOMAIN ByName(s) = {s[i].name : i \in DOMAIN s}
  BY DEF ByName
<1> QED
  BY <1>2, <1>3

(* A signature does not fit a bundle that lost a template.                 *)
LEMMA LostTemplate ==
  ASSUME NEW a, NEW b, canonical_digest(a) = canonical_digest(b), NEW c,
         a.templates = <<OwnerTemplate, OtherTemplate(c)>>, b.templates = <<OwnerTemplate>>
  PROVE  FALSE
<1>1. PICK s, r : s = a.templates /\ r = b.templates
  OBVIOUS
<1>2. PICK x, y : x = OwnerTemplate /\ y = OtherTemplate(c)
  OBVIOUS
<1>3. DOMAIN s = 1 .. 2 /\ s[2] = y /\ DOMAIN r = 1 .. 1 /\ r[1] = x
  BY <1>1, <1>2
<1>4. x.name = "owner-read" /\ y.name = "non-owner-read"
  BY <1>2, Templates
<1>5. "non-owner-read" \in {s[i].name : i \in DOMAIN s}
  <2>1. 2 \in DOMAIN s /\ s[2].name = "non-owner-read"
    BY <1>3, <1>4
  <2> QED
    BY <2>1
<1>6. "non-owner-read" \notin {r[i].name : i \in DOMAIN r}
  <2>1. \A i \in DOMAIN r : r[i].name = "owner-read"
    BY <1>3, <1>4
  <2> QED
    BY <2>1
<1>7. {s[i].name : i \in DOMAIN s} = {r[i].name : i \in DOMAIN r}
  BY <1>1, SameNames
<1> QED
  BY <1>5, <1>6, <1>7

(* Nor one whose gate was cut out.                                         *)
LEMMA LostGate ==
  ASSUME NEW a, NEW b, canonical_digest(a) = canonical_digest(b), NEW c,
         a.rego = <<Gate(c), MaskingModule>>, b.rego = <<MaskingModule>>
  PROVE  FALSE
<1>1. PICK s, r : s = a.rego /\ r = b.rego
  OBVIOUS
<1>2. PICK x, y : x = MaskingModule /\ y = Gate(c)
  OBVIOUS
<1>3. DOMAIN s = 1 .. 2 /\ s[1] = y /\ DOMAIN r = 1 .. 1 /\ r[1] = x
  BY <1>1, <1>2
<1>4. x.name = "pii-masking" /\ y.name = "purpose-gate"
  BY <1>2, Modules
<1>5. "purpose-gate" \in {s[i].name : i \in DOMAIN s}
  <2>1. 1 \in DOMAIN s /\ s[1].name = "purpose-gate"
    BY <1>3, <1>4
  <2> QED
    BY <2>1
<1>6. "purpose-gate" \notin {r[i].name : i \in DOMAIN r}
  <2>1. \A i \in DOMAIN r : r[i].name = "pii-masking"
    BY <1>3, <1>4
  <2> QED
    BY <2>1
<1>7. {s[i].name : i \in DOMAIN s} = {r[i].name : i \in DOMAIN r}
  BY <1>1, SameNames
<1> QED
  BY <1>5, <1>6, <1>7

(* Version v of contract e has been published; over a trusted transport it *)
(* is the current one of d.                                                       *)
Public(e, v, d) ==
  /\ e \in DOMAIN Versions /\ v \in 1 .. published[e]
  /\ source # "verified" => e = d /\ v = published[d]

LEMMA Sending ==
  ASSUME NEW d \in DOMAIN Versions, \A e \in DOMAIN Versions : published[e] \in 1 .. Len(Versions[e]),
         NEW g \in Sent(d)
  PROVE  \E e, v, k : Public(e, v, d) /\ g = Sign(Compile(Versions[e][v]), k)
<1>1. CASE source # "verified"
  <2>1. g = Sign(Compile(Versions[d][published[d]]), VerifyingKey)
    BY <1>1 DEF Sent, Issued
  <2>2. PICK n : n = published[d]
    OBVIOUS
  <2>3. n \in 1 .. n
    BY <2>2, ScanConstants
  <2>4. Public(d, n, d)
    BY <2>2, <2>3 DEF Public
  <2> QED
    BY <2>1, <2>2, <2>4
<1>2. CASE source = "verified"
  <2>1. PICK e \in DOMAIN Versions : g \in {Issued(e, v) : v \in 1 .. published[e]}
    BY <1>2 DEF Sent
  <2>2. PICK v \in 1 .. published[e] : g = Issued(e, v)
    BY <2>1
  <2>3. Public(e, v, d)
    BY <1>2, <2>2 DEF Public
  <2> QED
    BY <2>2, <2>3 DEF Issued
<1> QED
  BY <1>1, <1>2

Accepted(f) == f # None /\ (source = "verified" => verify(f, VerifyingKey))

(* A bundle made from an issued one is accepted only if nothing is missing.*)
LEMMA Derived ==
  ASSUME NEW c, NEW k, NEW g, g = Sign(Compile(c), k), NEW f, Accepted(f),
         \/ f = g \/ f = Reordered(g)
         \/ source = "verified" /\ f \in Damaged(g)
  PROVE  AsCompiled(f.bundle, c)
<1>0. PICK b : b = Compile(c)
  OBVIOUS
<1>1. g.bundle = b /\ g.signature.of[2] = canonical_digest(b)
  BY <1>0, Signed
<1>2. /\ c.purposes = {} => b.rego = <<MaskingModule>>
      /\ c.purposes # {} => b.rego = <<Gate(c), MaskingModule>>
      /\ b.templates = <<OwnerTemplate, OtherTemplate(c)>>
  BY <1>0, Compiled
<1>3. CASE f = g
  BY <1>0, <1>1, <1>3 DEF AsCompiled, EitherWay
<1>4. CASE f = Reordered(g)
  <2>1. /\ f.bundle.manifest = b.manifest /\ f.bundle.rego = Reverse(b.rego)
        /\ f.bundle.templates = Reverse(b.templates) /\ f.bundle.entries = Reverse(b.entries)
    BY <1>1, <1>4, Rebuilt DEF Reordered
  <2> QED
    BY <1>0, <2>1 DEF AsCompiled, EitherWay
<1>5. ASSUME source = "verified", NEW rego, NEW templates, NEW hash,
             f = With(g, rego, templates, b.entries, hash)
      PROVE  /\ f.bundle.manifest = b.manifest /\ f.bundle.rego = rego
             /\ f.bundle.templates = templates /\ f.bundle.entries = b.entries
             /\ canonical_digest(b) = canonical_digest(f.bundle)
  <2>1. /\ f.bundle.manifest = b.manifest /\ f.bundle.rego = rego
        /\ f.bundle.templates = templates /\ f.bundle.entries = b.entries
        /\ f.signature = g.signature
    BY <1>1, <1>5, Rebuilt
  <2>2. canonical_digest(b) = canonical_digest(f.bundle)
    BY <1>1, <1>5, <2>1, Verified DEF Accepted
  <2> QED
    BY <2>1, <2>2
<1>6. ASSUME source = "verified", NEW hash, f = With(g, b.rego, <<b.templates[1]>>, b.entries, hash)
      PROVE  FALSE
  <2>1. PICK t : t = <<b.templates[1]>>
    OBVIOUS
  <2>2. f.bundle.templates = t /\ canonical_digest(b) = canonical_digest(f.bundle)
    BY <1>5, <1>6, <2>1
  <2>3. t = <<OwnerTemplate>>
    <3>1. PICK x, y : x = OwnerTemplate /\ y = OtherTemplate(c)
      OBVIOUS
    <3>2. b.templates = <<x, y>>
      BY <1>2, <3>1
    <3>3. b.templates[1] = x
      BY <3>2
    <3> QED
      BY <2>1, <3>1, <3>3
  <2> QED
    BY <1>2, <2>2, <2>3, LostTemplate
<1>7. ASSUME source = "verified", NEW hash, f = With(g, <<MaskingModule>>, b.templates, b.entries, hash)
      PROVE  AsCompiled(f.bundle, c)
  <2>1. PICK r : r = <<MaskingModule>>
    OBVIOUS
  <2>2. /\ f.bundle.manifest = b.manifest /\ f.bundle.rego = r
        /\ f.bundle.templates = b.templates /\ f.bundle.entries = b.entries
        /\ canonical_digest(b) = canonical_digest(f.bundle)
    BY <1>5, <1>7, <2>1
  <2>3. c.purposes = {}
    BY <1>2, <2>1, <2>2, LostGate
  <2>4. b.rego = r
    BY <1>2, <2>1, <2>3
  <2> QED
    BY <1>0, <2>2, <2>4 DEF AsCompiled, EitherWay
<1>8. CASE source = "verified" /\ f \in Damaged(g)
  <2>1. \/ \E hash : f = With(g, b.rego, <<b.templates[1]>>, b.entries, hash)
        \/ \E hash : f = With(g, <<MaskingModule>>, b.templates, b.entries, hash)
    BY <1>1, <1>8 DEF Damaged
  <2> QED
    BY <1>6, <1>7, <1>8, <2>1
<1> QED
  BY <1>3, <1>4, <1>8

(* Whatever answer to the download the engine accepts is a bundle that the *)
(* authority issued, up to the order of its lists: a draft has a foreign   *)
(* signature, and one from which something was cut out has the wrong one.  *)
LEMMA AcceptedIsIssued ==
  ASSUME NEW d \in DOMAIN Versions, \A e \in DOMAIN Versions : published[e] \in 1 .. Len(Versions[e]),
         NEW f \in Responses(d), Accepted(f)
  PROVE  \E e, v : Public(e, v, d) /\ AsCompiled(f.bundle, Versions[e][v])
<1>1. \/ f \in Sent(d)
      \/ \E g \in Sent(d) : f = Reordered(g)
      \/ source = "verified" /\ \E g \in Sent(d) : f \in Damaged(g)
      \/ source = "verified" /\ f = Draft(d)
  <2>1. PICK R, U : R = {Reordered(g) : g \in Sent(d)} /\ U = UNION {Damaged(g) : g \in Sent(d)}
    OBVIOUS
  <2>2. f # None
    BY DEF Accepted
  <2>3. Responses(d) = {None} \cup Sent(d) \cup R
          \cup (IF source = "verified" THEN {Draft(d)} \cup U ELSE {})
    BY <2>1, Zenon DEF Responses
  <2>4. f \in R => \E g \in Sent(d) : f = Reordered(g)
    BY <2>1
  <2>5. f \in U => \E g \in Sent(d) : f \in Damaged(g)
    BY <2>1
  <2>6. \/ f \in Sent(d) \/ f \in R
        \/ source = "verified" /\ f \in U
        \/ source = "verified" /\ f = Draft(d)
    BY <2>2, <2>3
  <2> QED
    BY <2>4, <2>5, <2>6
<1>2. ASSUME NEW g \in Sent(d),
             \/ f = g \/ f = Reordered(g)
             \/ source = "verified" /\ f \in Damaged(g)
      PROVE  \E e, v : Public(e, v, d) /\ AsCompiled(f.bundle, Versions[e][v])
  <2>1. PICK e, v, k : Public(e, v, d) /\ g = Sign(Compile(Versions[e][v]), k)
    BY Sending
  <2>2. PICK c : c = Versions[e][v]
    OBVIOUS
  <2>3. AsCompiled(f.bundle, c)
    BY <1>2, <2>1, <2>2, Derived
  <2> QED
    BY <2>1, <2>2, <2>3
<1>3. ASSUME source = "verified", f = Draft(d) PROVE FALSE
  <2>1. PICK b : f = Sign(b, "elsewhere")
    BY <1>3 DEF Draft
  <2> QED
    BY <1>3, <2>1, Signed, Verified, ScanConstants DEF Accepted
<1> QED
  BY <1>1, <1>2, <1>3

(* So its policy is that of a contract which was published.                *)
LEMMA ResponsePolicy ==
  ASSUME NEW d \in DOMAIN Versions, \A e \in DOMAIN Versions : published[e] \in 1 .. Len(Versions[e]),
         NEW f \in Responses(d), NEW q, NEW p, p = fetch(q, f)
  PROVE  /\ p.decision \in {"Allow", "Deny", "Error"}
         /\ p.decision # "Error" =>
              \E e, v : /\ Public(e, v, d) /\ AsCompiled(f.bundle, Versions[e][v])
                        /\ p = map_bundle_to_policy(f.bundle, ask[q].caller)
                        /\ FromContract(p, Versions[e][v], ask[q].caller)
<1>1. CASE ~ Accepted(f)
  BY <1>1, Policies DEF fetch, Accepted
<1>2. CASE Accepted(f)
  <2>1. PICK e, v : Public(e, v, d) /\ AsCompiled(f.bundle, Versions[e][v])
    BY <1>2, AcceptedIsIssued
  <2>2. PICK b, c, caller : b = f.bundle /\ c = Versions[e][v] /\ caller = ask[q].caller
    OBVIOUS
  <2>3. p = map_bundle_to_policy(b, caller)
    BY <1>2, <2>2 DEF fetch, Accepted
  <2>4. DOMAIN c.dp = {}
    <3>1. e \in DOMAIN Versions /\ v \in 1 .. Len(Versions[e])
      BY <2>1, ScanConstants DEF Public
    <3> QED
      BY <2>2, <3>1, ScanConstants
  <2>5. p.decision \in {"Allow", "Deny"} /\ FromContract(p, c, caller)
    BY <2>1, <2>2, <2>3, <2>4, CompiledPolicy
  <2> QED
    BY <2>1, <2>2, <2>3, <2>5
<1> QED
  BY <1>1, <1>2

-----------------------------------------------------------------------------
(* Steps.                                                                  *)

(* A rewritten plan that every contract operator accepts has the shape of  *)
(* the old one: a removed ContractApprovedExec would be missed.            *)
LEMMA RewritesKeep ==
  ASSUME NEW s \in Seq(Operators), NEW pol, Shape(s, pol), NEW p \in Rewrites(s), Accepts(p)
  PROVE  p \in Seq(Operators) /\ Shape(p, pol)
<1>1. ASSUME NEW k \in 2 .. Len(s), NEW e \in PassOn, p = InsertAt(s, k, e)
      PROVE  p \in Seq(Operators) /\ Shape(p, pol)
  <2>1. e \in Operators
    BY DEF Operators
  <2>2. p \in Seq(Operators)
    BY <1>1, <2>1, Inserted
  <2>3. /\ \A x, y : y # e /\ Below(s, x, y) => Below(p, x, y)
        /\ \A x : x # e => (Contains(p, x) <=> Contains(s, x))
    BY <1>1, <2>1, InsertKeeps
  <2>4. e # "RowFilterExec" /\ e # "MaskingExec" /\ e # "LaplaceNoiseExec" /\ e \notin ContractOperators
    BY DEF ContractOperators, PassOn
  <2> QED
    BY <2>2, <2>3, <2>4 DEF Shape
<1>2. ASSUME NEW k \in 1 .. Len(s), p = RemoveAt(s, k),
             s[k] \in PassOn \cup {"ContractApprovedExec"}
      PROVE  p \in Seq(Operators) /\ Shape(p, pol)
  <2>1. p \in Seq(Operators) /\ Len(p) \in Nat
    BY <1>2, Removed
  <2>2. /\ \A x, y : x # s[k] /\ Below(s, x, y) => Below(p, x, y)
        /\ \A x : x # s[k] => (Contains(p, x) <=> Contains(s, x))
    BY <1>2, RemoveKeeps
  <2>3. s[k] # "RowFilterExec" /\ s[k] # "MaskingExec" /\ s[k] # "LaplaceNoiseExec"
    BY <1>2 DEF PassOn
  <2>4. ASSUME NEW op \in ContractOperators PROVE Below(p, "ContractApprovedExec", op)
    <3> SUFFICES ASSUME NEW i \in 1 .. Len(p), p[i] = op
                 PROVE  \E j \in 1 .. i - 1 : p[j] = "ContractApprovedExec"
      BY DEF Below
    <3> DEFINE below == SubSeq(p, 1, i - 1)
    <3>1. i \in DOMAIN p
      BY <2>1
    <3>2. plan_has_contract_approved(below)
      BY <3>1 DEF Accepts
    <3>3. DOMAIN below = 1 .. i - 1 /\ \A j \in 1 .. i - 1 : below[j] = p[j]
      BY <2>1
    <3> HIDE DEF below
    <3> QED
      BY <3>2, <3>3 DEF plan_has_contract_approved
  <2> QED
    BY <2>1, <2>2, <2>3, <2>4 DEF Shape
<1>3. \/ \E k \in 2 .. Len(s), e \in PassOn : p = InsertAt(s, k, e)
      \/ \E k \in 1 .. Len(s) : /\ p = RemoveAt(s, k)
                                /\ s[k] \in PassOn \cup {"ContractApprovedExec"}
  BY DEF Rewrites
<1> QED
  BY <1>1, <1>2, <1>3

(* The state of query p is as before.                                      *)
Same(p) ==
  /\ at'[p] = at[p] /\ ask'[p] = ask[p] /\ since'[p] = since[p] /\ policy'[p] = policy[p]
  /\ file'[p] = file[p] /\ plan'[p] = plan[p] /\ taken'[p] = taken[p]
  /\ envelope'[p] = envelope[p]

(* A query that does not move keeps its invariant: nothing it was resolved *)
(* from changes, and publications only become more.                        *)
LEMMA QueryStays ==
  ASSUME Maps, NEW p \in Queries, Query(p), Same(p),
         \A d \in DOMAIN Versions : published'[d] \in Nat /\ published[d] <= published'[d],
         \/ UNCHANGED <<source, contracts>>
         \/ source = "unloaded"
  PROVE  Query(p)'
<1>1. Phase(p)'
  BY DEF Query, Phase, Same, Platforms
<1>2. Seniority(p)'
  <2> SUFFICES ASSUME NEW d \in DOMAIN Versions
               PROVE  since'[p][d] \in Nat /\ since'[p][d] <= published'[d]
    BY DEF Seniority
  <2>1. since[p][d] \in Nat /\ since[p][d] <= published[d] /\ published[d] \in Nat
    BY DEF Query, Seniority, Maps
  <2> QED
    BY <2>1 DEF Same
<1>3. Governed(p)'
  <2>1. CASE source = "unloaded"
    BY <2>1 DEF Query, Phase, Governed, Same, Platforms
  <2>2. CASE UNCHANGED <<source, contracts>>
    <3>1. Contract(p)' = Contract(p)
      BY <2>2 DEF Contract, Same
    <3>2. \A d \in DOMAIN Versions : 1 .. published[d] \subseteq 1 .. published'[d]
      <4> TAKE d \in DOMAIN Versions
      <4>1. PICK m, n : m = published[d] /\ n = published'[d]
        OBVIOUS
      <4>2. m \in Nat /\ n \in Nat /\ m <= n
        BY <4>1 DEF Maps
      <4> QED
        BY <4>1, <4>2
    <3> QED
      BY <2>2, <3>1, <3>2 DEF Query, Governed, Same
  <2> QED
    BY <2>1, <2>2
<1>4. Built(p)' /\ Attested(p)'
  BY DEF Query, Built, Attested, Same
<1> QED
  BY <1>1, <1>2, <1>3, <1>4 DEF Query

(* One query moves.                                                        *)
LEMMA OneMoves ==
  ASSUME Inv, NEW q \in Queries, UNCHANGED <<source, contracts, published>>,
         Maps', \A p \in Queries : p # q => Same(p), Query(q)'
  PROVE  Inv'
<1>1. \A d \in DOMAIN Versions : published'[d] \in Nat /\ published[d] <= published'[d]
  BY DEF Inv, Maps
<1>2. ASSUME NEW p \in Queries, p # q PROVE Query(p)'
  BY <1>1, <1>2, QueryStays DEF Inv
<1> QED
  BY <1>2 DEF Inv

LEMMA SubmitStep ==
  ASSUME Inv, NEW q \in Queries, NEW caller \in Callers, NEW a, Submit(q, caller, a)
  PROVE  Inv'
<1>1. PICK place \in {"failed", "resolving"} : at' = [at EXCEPT ![q] = place]
  BY DEF Submit
<1>2. /\ at[q] = "idle" /\ source \in {"json"} \cup Platforms
      /\ ask' = [ask EXCEPT ![q] = Asked(caller, a)]
      /\ since' = [since EXCEPT ![q] = published]
      /\ UNCHANGED <<source, contracts, published, policy, file, plan, taken, envelope>>
  BY DEF Submit
<1>3. Asked(caller, a).caller = caller
  BY DEF Asked
<1>4. Maps' /\ \A p \in Queries : p # q => Same(p)
  BY <1>1, <1>2 DEF Inv, Maps, Same, Places
<1>5. at'[q] = place /\ ask'[q] = Asked(caller, a) /\ since'[q] = published
  BY <1>1, <1>2 DEF Inv, Maps
<1>6. Phase(q)'
  BY <1>1, <1>2, <1>3, <1>5 DEF Inv, Query, Phase
<1>7. Seniority(q)'
  BY <1>2, <1>5 DEF Inv, Maps, Seniority
<1>8. Governed(q)'
  BY <1>2 DEF Inv, Query, Phase, Governed
<1>9. Built(q)' /\ Attested(q)'
  BY <1>1, <1>2, <1>5 DEF Inv, Query, Built, Attested
<1> QED
  BY <1>2, <1>4, <1>6, <1>7, <1>8, <1>9, OneMoves DEF Query

(* table(), first half, for a policy that a contract gives.                *)
LEMMA ResolvedStep ==
  ASSUME Inv, NEW q \in Queries, at[q] = "resolving", NEW p, Resolved(q, p),
         p.decision \in {"Allow", "Deny", "Error"},
         NEW c, p.decision # "Error" => FromContract(p, c, ask[q].caller),
         p.decision # "Error" /\ source = "json" => c = contracts[ask[q].dataset],
         p.decision # "Error" /\ source \in Platforms =>
           /\ ask[q].dataset \in DOMAIN Versions
           /\ \E e, v : Public(e, v, ask[q].dataset) /\ c = Versions[e][v]
  PROVE  Inv'
<1>1. PICK place \in {"failed", "binding"} :
        at' = [at EXCEPT ![q] = place] /\ (place = "binding" => p.decision = "Allow")
  BY DEF Resolved
<1>2. /\ policy' = [policy EXCEPT ![q] = p]
      /\ UNCHANGED <<source, contracts, published, ask, since, file, plan, taken, envelope>>
  BY DEF Resolved
<1>3. Maps' /\ \A r \in Queries : r # q => Same(r)
  BY <1>1, <1>2 DEF Inv, Maps, Same, Places
<1>4. at'[q] = place /\ policy'[q] = p
  BY <1>1, <1>2 DEF Inv, Maps
<1>5. Phase(q)'
  BY <1>1, <1>2, <1>4 DEF Inv, Query, Phase
<1>6. Seniority(q)'
  BY <1>2 DEF Inv, Query, Seniority
<1>7. Governed(q)'
  <2> SUFFICES ASSUME p.decision # "Error"
               PROVE  /\ FromContract(policy'[q], Contract(q)', ask'[q].caller)
                      /\ source' \in Platforms =>
                           /\ policy'[q].contract_id \in DOMAIN Versions
                           /\ policy'[q].version \in 1 .. published'[policy'[q].contract_id]
                           /\ source' = "trusted" =>
                                /\ policy'[q].contract_id = ask'[q].dataset
                                /\ since'[q][ask'[q].dataset] <= policy'[q].version
    BY <1>4 DEF Governed
  <2>1. source \in {"json"} \cup Platforms
    BY DEF Inv, Query, Phase
  <2>2. CASE source = "json"
    <3>1. Contract(q)' = c
      BY <1>2, <2>2 DEF Contract
    <3> QED
      BY <1>2, <1>4, <2>2, <3>1 DEF Platforms
  <2>3. CASE source \in Platforms
    <3>1. PICK d \in DOMAIN Versions : d = ask[q].dataset
      BY <2>3
    <3>2. PICK e, v : Public(e, v, d) /\ c = Versions[e][v]
      BY <2>3, <3>1
    <3>3. /\ e \in DOMAIN Versions /\ v \in 1 .. published[e]
          /\ source = "trusted" => e = d /\ v = published[d]
      BY <3>2 DEF Public
    <3>4. v \in 1 .. Len(Versions[e])
      <4>1. published[e] \in 1 .. Len(Versions[e]) /\ Len(Versions[e]) \in Nat
        BY <3>3, ScanConstants DEF Inv, Maps
      <4> QED
        BY <3>3, <4>1
    <3>5. p.contract_id = e /\ p.version = v
      BY <3>2, <3>3, <3>4, ScanConstants DEF FromContract
    <3>6. Contract(q)' = c
      BY <1>2, <1>4, <2>3, <3>2, <3>5 DEF Contract
    <3>7. since[q][d] <= published[d]
      BY DEF Inv, Query, Seniority
    <3> QED
      BY <1>2, <1>4, <3>1, <3>3, <3>5, <3>6, <3>7
  <2> QED
    BY <2>1, <2>2, <2>3
<1>8. Built(q)' /\ Attested(q)'
  BY <1>1, <1>2, <1>4 DEF Inv, Query, Built, Attested
<1> QED
  BY <1>2, <1>3, <1>5, <1>6, <1>7, <1>8, OneMoves DEF Query

LEMMA ResolveJsonStep ==
  ASSUME Inv, NEW q \in Queries, ResolveJson(q)
  PROVE  Inv'
<1>1. PICK p : p = resolve(contracts, ask[q].dataset, ask[q].caller)
  OBVIOUS
<1>2. at[q] = "resolving" /\ source = "json" /\ Resolved(q, p)
  BY <1>1 DEF ResolveJson
<1>3. PICK c : c = contracts[ask[q].dataset]
  OBVIOUS
<1>4. /\ p.decision \in {"Allow", "Deny", "Error"}
      /\ p.decision # "Error" => FromContract(p, c, ask[q].caller)
  BY <1>1, <1>3, JsonPolicy
<1> QED
  BY <1>2, <1>3, <1>4, ResolvedStep DEF Platforms

LEMMA ResolvePlatformStep ==
  ASSUME Inv, NEW q \in Queries, ResolvePlatform(q)
  PROVE  Inv'
<1>1. at[q] = "resolving" /\ source \in Platforms
  BY DEF ResolvePlatform
<1>2. CASE ask[q].dataset \in DOMAIN Versions
  <2>1. PICK d \in DOMAIN Versions : d = ask[q].dataset
    BY <1>2
  <2>2. PICK f \in Responses(d) : Resolved(q, fetch(q, f))
    BY <1>2, <2>1 DEF ResolvePlatform
  <2>3. PICK p : p = fetch(q, f)
    OBVIOUS
  <2>4. \A e \in DOMAIN Versions : published[e] \in 1 .. Len(Versions[e])
    BY DEF Inv, Maps
  <2>5. p.decision \in {"Allow", "Deny", "Error"}
    BY <2>3, <2>4, ResponsePolicy
  <2>6. CASE p.decision # "Error"
    <3>1. PICK e, v : Public(e, v, d) /\ FromContract(p, Versions[e][v], ask[q].caller)
      BY <2>3, <2>4, <2>6, ResponsePolicy
    <3>2. PICK c : c = Versions[e][v]
      OBVIOUS
    <3>3. FromContract(p, c, ask[q].caller)
      BY <3>1, <3>2
    <3>4. \E x, y : Public(x, y, ask[q].dataset) /\ c = Versions[x][y]
      BY <2>1, <3>1, <3>2
    <3> QED
      BY <1>1, <1>2, <2>1, <2>2, <2>3, <2>5, <3>3, <3>4, ResolvedStep DEF Platforms
  <2>7. CASE p.decision = "Error"
    BY <1>1, <2>2, <2>3, <2>7, ResolvedStep
  <2> QED
    BY <2>6, <2>7
<1>3. CASE ask[q].dataset \notin DOMAIN Versions
  <2>1. Resolved(q, fetch(q, None))
    BY <1>3 DEF ResolvePlatform
  <2>2. PICK p : p = fetch(q, None)
    OBVIOUS
  <2>3. p.decision = "Error"
    BY <2>2, Policies DEF fetch
  <2> QED
    BY <1>1, <2>1, <2>2, <2>3, ResolvedStep
<1> QED
  BY <1>2, <1>3

(* The later steps of a query leave its policy alone.                      *)
LEMMA PolicyStays ==
  ASSUME Inv, NEW q \in Queries, UNCHANGED <<source, contracts, published, ask, since, policy>>
  PROVE  Seniority(q)' /\ Governed(q)'
<1>1. Contract(q)' = Contract(q)
  BY DEF Contract
<1> QED
  BY <1>1 DEF Inv, Query, Seniority, Governed

LEMMA BindStep ==
  ASSUME Inv, NEW q \in Queries, Bind(q)
  PROVE  Inv'
<1>1. /\ at[q] = "binding"
      /\ UNCHANGED <<source, contracts, published, ask, since, policy, plan, taken, envelope>>
  BY DEF Bind
<1>2. \/ at' = [at EXCEPT ![q] = "failed"] /\ file' = file
      \/ /\ at' = [at EXCEPT ![q] = "planning"]
         /\ BoundFile(q) \in DOMAIN Files
         /\ file' = [file EXCEPT ![q] = BoundFile(q)]
  BY DEF Bind, Fail
<1>3. Maps' /\ \A p \in Queries : p # q => Same(p)
  BY <1>1, <1>2 DEF Inv, Maps, Same, Places
<1>4. /\ policy[q].decision = "Allow" /\ file[q] = None /\ taken[q] = {}
      /\ source \in {"json"} \cup Platforms /\ ask[q].caller \in Callers
  BY <1>1 DEF Inv, Query, Phase
<1>5. \/ at'[q] = "failed" /\ file'[q] = None
      \/ at'[q] = "planning" /\ file'[q] \in DOMAIN Files
  BY <1>2, <1>4 DEF Inv, Maps
<1>6. taken'[q] = {} /\ (file'[q] # None => taken'[q] \subseteq Batches(file'[q]))
  BY <1>1, <1>4
<1>7. Phase(q)'
  BY <1>1, <1>4, <1>5, <1>6 DEF Phase
<1>8. Built(q)' /\ Attested(q)'
  BY <1>1, <1>5 DEF Inv, Query, Built, Attested
<1> QED
  BY <1>1, <1>3, <1>7, <1>8, PolicyStays, OneMoves DEF Query

LEMMA PlanStep ==
  ASSUME Inv, NEW q \in Queries, Plan(q)
  PROVE  Inv'
<1>1. /\ at[q] = "planning"
      /\ UNCHANGED <<source, contracts, published, ask, since, policy, file, taken, envelope>>
  BY DEF Plan
<1>2. \/ at' = [at EXCEPT ![q] = "failed"] /\ plan' = plan
      \/ /\ at' = [at EXCEPT ![q] = "running"]
         /\ plan' = [plan EXCEPT ![q] = scan(policy[q], ask[q])]
  BY DEF Plan, Fail
<1>3. Maps' /\ \A p \in Queries : p # q => Same(p)
  BY <1>1, <1>2 DEF Inv, Maps, Same, Places
<1>4. \/ at'[q] = "failed" /\ plan'[q] = plan[q]
      \/ at'[q] = "running" /\ plan'[q] = scan(policy[q], ask[q])
  BY <1>2 DEF Inv, Maps
<1>5. Phase(q)'
  BY <1>1, <1>4 DEF Inv, Query, Phase
<1>6. Built(q)'
  BY <1>1, <1>4, ScanShape DEF Inv, Query, Built
<1>7. Attested(q)'
  BY <1>1 DEF Inv, Query, Attested
<1> QED
  BY <1>1, <1>3, <1>5, <1>6, <1>7, PolicyStays, OneMoves DEF Query

LEMMA OptimizeStep ==
  ASSUME Inv, NEW q \in Queries, Optimize(q)
  PROVE  Inv'
<1>1. /\ at[q] = "running"
      /\ UNCHANGED <<source, contracts, published, ask, since, policy, file, taken, envelope>>
  BY DEF Optimize
<1>2. \/ at' = [at EXCEPT ![q] = "failed"] /\ plan' = plan
      \/ \E p \in Rewrites(plan[q]) :
           /\ at' = at /\ plan' = [plan EXCEPT ![q] = p]
           /\ Len(p) <= MaxPlan /\ Accepts(p)
  BY DEF Optimize, Fail
<1>3. Maps' /\ \A p \in Queries : p # q => Same(p)
  BY <1>1, <1>2 DEF Inv, Maps, Same, Places
<1>4. \/ at'[q] = "failed" /\ plan'[q] = plan[q]
      \/ /\ at'[q] = "running" /\ plan'[q] \in Rewrites(plan[q])
         /\ Len(plan'[q]) <= MaxPlan /\ Accepts(plan'[q])
  BY <1>1, <1>2 DEF Inv, Maps
<1>5. Phase(q)'
  BY <1>1, <1>4 DEF Inv, Query, Phase
<1>6. Built(q)'
  <2>1. plan[q] \in Seq(Operators) /\ Len(plan[q]) <= MaxPlan /\ Shape(plan[q], policy[q])
    BY <1>1 DEF Inv, Query, Built
  <2>2. CASE at'[q] = "failed" /\ plan'[q] = plan[q]
    BY <2>1, <2>2 DEF Built
  <2>3. CASE /\ at'[q] = "running" /\ plan'[q] \in Rewrites(plan[q])
             /\ Len(plan'[q]) <= MaxPlan /\ Accepts(plan'[q])
    <3>1. plan'[q] \in Seq(Operators) /\ Shape(plan'[q], policy[q])
      BY <2>1, <2>3, RewritesKeep
    <3> QED
      BY <1>1, <2>3, <3>1 DEF Built
  <2> QED
    BY <1>4, <2>2, <2>3
<1>7. Attested(q)'
  BY <1>1 DEF Inv, Query, Attested
<1> QED
  BY <1>1, <1>3, <1>5, <1>6, <1>7, PolicyStays, OneMoves DEF Query

LEMMA CollectStep ==
  ASSUME Inv, NEW q \in Queries, CollectBatch(q)
  PROVE  Inv'
<1>1. /\ at[q] = "running"
      /\ UNCHANGED <<source, contracts, published, ask, since, policy, file, plan, envelope>>
  BY DEF CollectBatch
<1>2. PICK n \in Batches(file[q]) :
        \/ at' = [at EXCEPT ![q] = "failed"] /\ taken' = taken
        \/ at' = at /\ taken' = [taken EXCEPT ![q] = @ \cup {n}]
  BY DEF CollectBatch, Fail
<1>3. Maps' /\ \A p \in Queries : p # q => Same(p)
  BY <1>1, <1>2 DEF Inv, Maps, Same, Places
<1>4. \/ at'[q] = "failed" /\ taken'[q] = taken[q]
      \/ at'[q] = "running" /\ taken'[q] = taken[q] \cup {n}
  BY <1>1, <1>2 DEF Inv, Maps
<1>5. file[q] # None => taken'[q] \subseteq Batches(file[q])
  BY <1>2, <1>4 DEF Inv, Query, Phase
<1>6. Phase(q)'
  BY <1>1, <1>4, <1>5 DEF Inv, Query, Phase
<1>7. Built(q)' /\ Attested(q)'
  BY <1>1, <1>4 DEF Inv, Query, Built, Attested
<1> QED
  BY <1>1, <1>3, <1>6, <1>7, PolicyStays, OneMoves DEF Query

LEMMA FinishStep ==
  ASSUME Inv, NEW q \in Queries, Finish(q)
  PROVE  Inv'
<1> DEFINE e == [contract_id |-> to_bundle_handle(policy[q]).contract_id,
                 version |-> to_bundle_handle(policy[q]).version,
                 rules |-> collect_rules_applied(plan[q])]
<1>1. /\ at[q] = "running" /\ at' = [at EXCEPT ![q] = "answered"]
      /\ UNCHANGED <<source, contracts, published, ask, since, policy, file, plan, taken>>
      /\ envelope' = envelope \/ envelope' = [envelope EXCEPT ![q] = e]
  BY DEF Finish
<1>2. e = [contract_id |-> policy[q].contract_id, version |-> policy[q].version,
           rules |-> collect_rules_applied(plan[q])]
  BY DEF to_bundle_handle
<1> HIDE DEF e
<1>3. Maps' /\ \A p \in Queries : p # q => Same(p)
  BY <1>1 DEF Inv, Maps, Same, Places
<1>4. at'[q] = "answered" /\ (envelope'[q] = envelope[q] \/ envelope'[q] = e)
  BY <1>1 DEF Inv, Maps
<1>5. Phase(q)'
  BY <1>1, <1>4 DEF Inv, Query, Phase
<1>6. Built(q)'
  BY <1>1, <1>4 DEF Inv, Query, Built
<1>7. Attested(q)'
  BY <1>1, <1>2, <1>4 DEF Inv, Query, Attested
<1> QED
  BY <1>1, <1>3, <1>5, <1>6, <1>7, PolicyStays, OneMoves DEF Query

(* The source is chosen before any query, and publications are added.      *)
LEMMA SourceStep ==
  ASSUME Inv,
         \/ \E docs \in Directories : LoadDirectory(docs)
         \/ UsePlatform
         \/ \E d \in DOMAIN Versions : Publish(d)
         \/ UNCHANGED vars
  PROVE  Inv'
<1>1. UNCHANGED <<at, ask, since, policy, file, plan, taken, envelope>>
  BY DEF LoadDirectory, UsePlatform, Publish, vars
<1>2. /\ source' \in {"unloaded", "failed", "json"} \cup Platforms
      /\ UNCHANGED <<source, contracts>> \/ source = "unloaded"
  BY DEF LoadDirectory, UsePlatform, Publish, vars, Inv, Maps
<1>3. /\ DOMAIN published' = DOMAIN Versions
      /\ \A d \in DOMAIN Versions : published'[d] \in 1 .. Len(Versions[d])
                                    /\ published[d] <= published'[d]
  <2>1. CASE published' = published
    BY <2>1 DEF Inv, Maps
  <2>2. ASSUME NEW d \in DOMAIN Versions, Publish(d)
        PROVE  /\ DOMAIN published' = DOMAIN Versions
               /\ \A x \in DOMAIN Versions : published'[x] \in 1 .. Len(Versions[x])
                                             /\ published[x] <= published'[x]
    <3>1. published[d] < Len(Versions[d]) /\ published' = [published EXCEPT ![d] = @ + 1]
      BY <2>2 DEF Publish
    <3>2. \A x \in DOMAIN Versions : published[x] \in 1 .. Len(Versions[x])
                                     /\ Len(Versions[x]) \in Nat
      BY ScanConstants DEF Inv, Maps
    <3>3. DOMAIN published = DOMAIN Versions
      BY DEF Inv, Maps
    <3> QED
      BY <3>1, <3>2, <3>3
  <2> QED
    BY <2>1, <2>2 DEF LoadDirectory, UsePlatform, vars
<1>4. \A d \in DOMAIN Versions : published'[d] \in Nat /\ published[d] <= published'[d]
  BY <1>3
<1>5. Maps'
  BY <1>1, <1>2, <1>3 DEF Inv, Maps
<1>6. ASSUME NEW p \in Queries PROVE Query(p)'
  BY <1>1, <1>2, <1>4, QueryStays DEF Inv, Same
<1> QED
  BY <1>5, <1>6 DEF Inv

LEMMA InvInit == Init => Inv
<1> SUFFICES ASSUME Init PROVE Inv
  OBVIOUS
<1>1. \A d \in DOMAIN Versions : published[d] = 1 /\ 1 \in 1 .. Len(Versions[d])
  BY ScanConstants DEF Init
<1>2. Maps
  BY <1>1 DEF Init, Maps, Places
<1>3. ASSUME NEW q \in Queries PROVE Query(q)
  <2>1. /\ at[q] = "idle" /\ policy[q] = Unresolved /\ file[q] = None /\ taken[q] = {}
        /\ plan[q] = <<>> /\ envelope[q] = None /\ since[q] = published
    BY <1>3 DEF Init
  <2>2. Phase(q) /\ Governed(q)
    BY <2>1, Policies DEF Phase, Governed
  <2>3. Seniority(q)
    BY <1>1, <2>1 DEF Seniority
  <2>4. Built(q) /\ Attested(q)
    BY <2>1, ScanConstants DEF Built, Attested
  <2> QED
    BY <2>2, <2>3, <2>4 DEF Query
<1> QED
  BY <1>2, <1>3 DEF Inv

LEMMA InvAlways == Spec => []Inv
<1>1. Inv /\ [Next]_vars => Inv'
  BY SubmitStep, ResolveJsonStep, ResolvePlatformStep, BindStep, PlanStep, OptimizeStep,
     CollectStep, FinishStep, SourceStep DEF Next
<1> QED
  BY <1>1, InvInit, PTL DEF Spec

-----------------------------------------------------------------------------
(* Results.                                                                *)

(* Types hold for every engine: plans stay within their bound, and a query *)
(* reads no batch that is not there.                                       *)
THEOREM TypeCorrect == Spec => []TypeOK
<1>1. Inv => TypeOK
  BY DEF Inv, Maps, Query, Phase, Built, TypeOK
<1> QED
  BY <1>1, InvAlways, PTL

(* Data is only opened for a caller whom the contract that governs the     *)
(* query permits, wherever that contract came from and whatever the        *)
(* transport did to it.                                                    *)
THEOREM OpenedForThePermitted == Spec => []OpenedOnlyIfPermitted
<1>1. Inv => OpenedOnlyIfPermitted
  BY DEF Inv, Query, Phase, Governed, FromContract, OpenedOnlyIfPermitted
<1> QED
  BY <1>1, InvAlways, PTL

(* Where signatures are checked, a query is only ever governed by a        *)
(* contract the authority has published, whatever the transport replays,   *)
(* reorders, damages or forges.                                            *)
THEOREM OnlyIssuedGovern == Spec => []GovernedByIssued
<1>1. Inv => GovernedByIssued
  BY DEF Inv, Query, Governed, GovernedByIssued
<1> QED
  BY <1>1, InvAlways, PTL

(* Over a trusted transport no query is judged by another contract than    *)
(* its own, or by a version older than the newest one published before it  *)
(* was asked.                                                              *)
THEOREM TrustedIsCurrent == Spec => []NotGovernedByThePast
<1>1. Inv => NotGovernedByThePast
  <2> SUFFICES ASSUME Inv, NEW q \in Queries, source = "trusted",
                      policy[q].decision # "Error"
               PROVE  /\ policy[q].contract_id = ask[q].dataset
                      /\ policy[q].version >= since[q][ask[q].dataset]
    BY DEF NotGovernedByThePast
  <2>1. PICK d \in DOMAIN Versions : d = ask[q].dataset /\ d = policy[q].contract_id
    BY DEF Inv, Query, Governed, Platforms
  <2>2. since[q][d] \in Nat /\ policy[q].version \in Nat /\ since[q][d] <= policy[q].version
    BY <2>1 DEF Inv, Query, Governed, Seniority, Maps
  <2> QED
    BY <2>1, <2>2
<1> QED
  BY <1>1, InvAlways, PTL

(* An attestation names the contract that governed the query and exactly   *)
(* the contract operators its rows went through.                           *)
THEOREM EnvelopesAreTrue == Spec => []EnvelopeNamesEnforcement
<1>1. Inv => EnvelopeNamesEnforcement
  <2> SUFFICES ASSUME Inv, NEW q \in Queries, envelope[q] # None
               PROVE  /\ envelope[q].version = Contract(q).version
                      /\ envelope[q].contract_id = Contract(q).contract_id
                      /\ envelope[q].rules =
                           {"ContractApprovedExec", "RowFilterExec", "MaskingExec"} \cup
                           (IF ask[q].caller.tenant # Contract(q).owner /\ DOMAIN Contract(q).dp # {}
                            THEN {"LaplaceNoiseExec"} ELSE {})
    BY DEF EnvelopeNamesEnforcement
  <2>1. at[q] = "answered" /\ policy[q].decision = "Allow"
    BY DEF Inv, Query, Attested, Phase
  <2>2. /\ envelope[q].version = policy[q].version
        /\ envelope[q].contract_id = policy[q].contract_id
        /\ envelope[q].rules = collect_rules_applied(plan[q])
    <3>1. PICK c : c = collect_rules_applied(plan[q])
      OBVIOUS
    <3>2. PICK i, v : i = policy[q].contract_id /\ v = policy[q].version
      OBVIOUS
    <3>3. envelope[q] = [contract_id |-> policy[q].contract_id, version |-> policy[q].version,
                         rules |-> collect_rules_applied(plan[q])]
      BY DEF Inv, Query, Attested
    <3>4. envelope[q] = [contract_id |-> i, version |-> v, rules |-> c]
      BY <3>1, <3>2, <3>3
    <3>5. envelope[q].version = v /\ envelope[q].contract_id = i /\ envelope[q].rules = c
      BY <3>4
    <3> QED
      BY <3>1, <3>2, <3>5
  <2>3. /\ policy[q].version = Contract(q).version
        /\ policy[q].contract_id = Contract(q).contract_id
        /\ has_dp(policy[q]) <=>
             (ask[q].caller.tenant # Contract(q).owner /\ DOMAIN Contract(q).dp # {})
    BY <2>1 DEF Inv, Query, Governed, FromContract
  <2>4. PICK p \in Seq(Operators) : p = plan[q]
    BY DEF Inv, Query, Built
  <2>5. Shape(p, policy[q])
    BY <2>1, <2>4 DEF Inv, Query, Built
  <2>6. DOMAIN p = 1 .. Len(p)
    OBVIOUS
  <2>7. Contains(p, "ContractApprovedExec")
    <3>1. PICK i \in 1 .. Len(p) : p[i] = "RowFilterExec"
      BY <2>5 DEF Shape, Contains
    <3>2. PICK j \in 1 .. i - 1 : p[j] = "ContractApprovedExec"
      BY <2>5, <3>1 DEF Shape, Below, ContractOperators
    <3>3. j \in 1 .. Len(p)
      OBVIOUS
    <3> QED
      BY <3>2, <3>3 DEF Contains
  <2>8. \A x : x \in collect_rules_applied(p) <=>
          Contains(p, x) /\ x \in ContractOperators \cup {"ContractApprovedExec"}
    BY <2>6 DEF collect_rules_applied, Contains
  <2>9. \A x : x \in collect_rules_applied(p) <=>
          \/ x \in {"ContractApprovedExec", "RowFilterExec", "MaskingExec"}
          \/ x = "LaplaceNoiseExec" /\ has_dp(policy[q])
    BY <2>5, <2>7, <2>8 DEF Shape, ContractOperators
  <2> QED
    BY <2>2, <2>3, <2>4, <2>9
<1> QED
  BY <1>1, InvAlways, PTL
=============================================================================
