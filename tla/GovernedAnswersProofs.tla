------------------------ MODULE GovernedAnswersProofs ------------------------
(***************************************************************************)
(* What a governed query answers, for any contracts, callers, files,       *)
(* batches and plan rewriting: a result of the query on the view of the    *)
(* data that the contract gives the caller, in the announced schema.       *)
(***************************************************************************)
EXTENDS GovernedScanProofs, FiniteSetTheorems, WellFoundedInduction

(* A set of naturals that is not empty has a least element: induction, in  *)
(* the form in which a proof can use it here.                              *)
LEMMA Least ==
  ASSUME NEW T \in SUBSET Nat, T # {}
  PROVE  \E x \in T : \A y \in T : x <= y
<1>a. IsWellFoundedOn(OpToRel(<,Nat), Nat)
  BY NatLessThanWellFounded, Zenon
<1>r. PICK R : R = OpToRel(<,Nat)
  BY Zenon
<1>1. IsWellFoundedOn(R, Nat)
  BY <1>a, <1>r, Zenon
<1>2. PICK x \in T : \A y \in T : ~ (<<y, x>> \in R)
  BY <1>1, WFMin, Zenon
<1>3. \A y \in T : ~ (y < x)
  BY <1>2, <1>r DEF OpToRel
<1> QED
  BY <1>3

-----------------------------------------------------------------------------
(* A batch on its way up the plan.                                         *)

(* The recursion over the operators of a plan is well founded: each level  *)
(* is its operator's output on the level below.                            *)
LEMMA LevelsRun ==
  ASSUME NEW q, NEW raw, Len(plan[q]) \in Nat
  PROVE  /\ Levels(q, raw)[0] = raw
         /\ \A i \in 1 .. Len(plan[q]) :
              Levels(q, raw)[i] = Run(q, plan[q][i], Levels(q, raw)[i - 1])
<1> DEFINE n == Len(plan[q])
           Steps(g, k) == g = [i \in 0 .. k |-> IF i = 0 THEN raw ELSE Run(q, plan[q][i], g[i - 1])]
           Bad == {k \in Nat : k <= n /\ ~ \E g : Steps(g, k)}
<1>0. n \in Nat
  OBVIOUS
<1> HIDE DEF n
<1>1. ASSUME Bad # {} PROVE FALSE
  <2>1. PICK k \in Bad : \A j \in Bad : k <= j
    BY <1>1, Least
  <2>2. k \in Nat /\ k <= n /\ ~ \E g : Steps(g, k)
    BY <2>1
  <2>3. CASE k = 0
    <3>1. Steps([i \in 0 .. 0 |-> raw], 0)
      OBVIOUS
    <3> QED
      BY <2>2, <2>3, <3>1
  <2>4. CASE k # 0
    <3>1. k - 1 \in Nat /\ k - 1 <= n /\ k - 1 \notin Bad
      BY <1>0, <2>1, <2>2, <2>4
    <3>2. PICK g : Steps(g, k - 1)
      BY <3>1
    <3> DEFINE h == [i \in 0 .. k |-> IF i = k THEN Run(q, plan[q][k], g[k - 1]) ELSE g[i]]
    <3>3. \A i \in 0 .. k - 1 : g[i] = IF i = 0 THEN raw ELSE Run(q, plan[q][i], g[i - 1])
      BY <3>2
    <3>4. ASSUME NEW i \in 0 .. k
          PROVE  h[i] = IF i = 0 THEN raw ELSE Run(q, plan[q][i], h[i - 1])
      <4>1. CASE i = k
        <5>1. k - 1 \in 0 .. k /\ k - 1 # k /\ k \in 0 .. k
          BY <2>2, <2>4
        <5>2. h[k - 1] = g[k - 1] /\ h[k] = Run(q, plan[q][k], g[k - 1])
          BY <5>1
        <5> QED
          BY <2>4, <4>1, <5>2
      <4>2. CASE i # k
        <5>1. i \in 0 .. k - 1 /\ (i # 0 => i - 1 \in 0 .. k /\ i - 1 # k)
          BY <2>2, <4>2
        <5>2. h[i] = g[i] /\ (i # 0 => h[i - 1] = g[i - 1])
          BY <4>2, <5>1
        <5> QED
          BY <3>3, <5>1, <5>2
      <4> QED
        BY <4>1, <4>2
    <3>5. h = [i \in 0 .. k |-> h[i]]
      OBVIOUS
    <3> HIDE DEF h
    <3>6. Steps(h, k)
      BY <3>4, <3>5
    <3> QED
      BY <2>2, <3>6
  <2> QED
    BY <2>3, <2>4
<1>2. \E g : Steps(g, n)
  <2>1. n \notin Bad
    BY <1>1, Zenon
  <2>2. n <= n
    BY <1>0
  <2> QED
    BY <1>0, <2>1, <2>2, Zenon
<1>3. Levels(q, raw) = CHOOSE g : Steps(g, n)
  BY Zenon DEF Levels, n
<1>4. Steps(Levels(q, raw), n)
  BY <1>2, <1>3
<1>5. PICK g : g = Levels(q, raw)
  OBVIOUS
<1>6. g = [i \in 0 .. n |-> IF i = 0 THEN raw ELSE Run(q, plan[q][i], g[i - 1])]
  BY <1>4, <1>5
<1>7. g[0] = raw /\ \A i \in 1 .. n : g[i] = Run(q, plan[q][i], g[i - 1])
  BY <1>0, <1>6
<1> QED
  BY <1>5, <1>7 DEF n

(* The operators that do something to a batch, and for each of them those  *)
(* that must not be below it.                                              *)
Working == ContractOperators \cup {"ProjectionExec", "FilterExec", "GlobalLimitExec"}

Above(op) ==
  CASE op = "RowFilterExec" -> Working
    [] op = "MaskingExec" -> Working \ {"RowFilterExec"}
    [] op = "LaplaceNoiseExec" -> Working \ {"RowFilterExec", "MaskingExec"}
    [] op = "ProjectionExec" -> {"ProjectionExec", "FilterExec", "GlobalLimitExec"}
    [] op = "FilterExec" -> {"FilterExec", "GlobalLimitExec"}
    [] op = "GlobalLimitExec" -> {"GlobalLimitExec"}
    [] OTHER -> {}

(* Each working operator is in the plan once, and in this order.           *)
Ordered(p) == \A j \in 1 .. Len(p) : \A i \in 1 .. j - 1 : p[i] \notin Above(p[j])

If1(q, op, b, S) == IF op \in S THEN Run(q, op, b) ELSE b

(* The operators of S, one after the other in their order.                 *)
InOrder(q, b, S) ==
  If1(q, "GlobalLimitExec", If1(q, "FilterExec", If1(q, "ProjectionExec",
    If1(q, "LaplaceNoiseExec", If1(q, "MaskingExec", If1(q, "RowFilterExec",
      b, S), S), S), S), S), S)

(* The scan, the approval, the attestation and what the optimizer puts in  *)
(* hand batches on as they are.                                            *)
LEMMA PlainPasses ==
  ASSUME NEW q, NEW b, NEW op \in Operators \ Working
  PROVE  Run(q, op, b) = b
BY DEF Run, Operators, Working, ContractOperators

(* An operator run on top of operators that may all be below it adds       *)
(* itself to the ones in order.                                            *)
LEMMA OneMore ==
  ASSUME NEW q, NEW b, NEW S, NEW op \in Operators, S \cap Above(op) = {}
  PROVE  Run(q, op, InOrder(q, b, S)) = InOrder(q, b, S \cup {op})
<1>1. CASE op \notin Working
  <2>1. op # "RowFilterExec" /\ op # "MaskingExec" /\ op # "LaplaceNoiseExec"
        /\ op # "ProjectionExec" /\ op # "FilterExec" /\ op # "GlobalLimitExec"
    BY <1>1 DEF Working, ContractOperators
  <2>2. InOrder(q, b, S \cup {op}) = InOrder(q, b, S)
    BY <2>1 DEF InOrder, If1
  <2> QED
    BY <1>1, <2>2, PlainPasses
<1>2. CASE op = "RowFilterExec"
  BY <1>2 DEF InOrder, If1, Above, Working, ContractOperators
<1>3. CASE op = "MaskingExec"
  BY <1>3 DEF InOrder, If1, Above, Working, ContractOperators
<1>4. CASE op = "LaplaceNoiseExec"
  BY <1>4 DEF InOrder, If1, Above, Working, ContractOperators
<1>5. CASE op = "ProjectionExec"
  BY <1>5 DEF InOrder, If1, Above, Working, ContractOperators
<1>6. CASE op = "FilterExec"
  BY <1>6 DEF InOrder, If1, Above, Working, ContractOperators
<1>7. CASE op = "GlobalLimitExec"
  BY <1>7 DEF InOrder, If1, Above, Working, ContractOperators
<1> QED
  BY <1>1, <1>2, <1>3, <1>4, <1>5, <1>6, <1>7 DEF Working, ContractOperators

UpTo(p, i) == {p[j] : j \in 1 .. i}

(* Whatever passes batches on in between, a batch that has gone up an      *)
(* ordered plan has been through its working operators in their order.     *)
LEMMA RunInOrder ==
  ASSUME NEW q, NEW raw, NEW p \in Seq(Operators), plan[q] = p, Ordered(p)
  PROVE  RunAll(q, raw) = InOrder(q, raw, UpTo(p, Len(p)))
<1>0. PICK n \in Nat : n = Len(p)
  OBVIOUS
<1>1. PICK up : up = Levels(q, raw)
  OBVIOUS
<1>2. up[0] = raw /\ \A i \in 1 .. n : up[i] = Run(q, p[i], up[i - 1])
  BY <1>0, <1>1, LevelsRun
<1> DEFINE Bad == {i \in Nat : i <= n /\ up[i] # InOrder(q, raw, UpTo(p, i))}
<1>3. ASSUME Bad # {} PROVE FALSE
  <2>1. PICK k \in Bad : \A j \in Bad : k <= j
    BY <1>3, Least
  <2>2. k \in Nat /\ k <= n /\ up[k] # InOrder(q, raw, UpTo(p, k))
    BY <2>1
  <2>3. CASE k = 0
    <3>1. UpTo(p, 0) = {}
      BY DEF UpTo
    <3>2. InOrder(q, raw, {}) = raw
      BY DEF InOrder, If1
    <3> QED
      BY <1>2, <2>2, <2>3, <3>1, <3>2
  <2>4. CASE k # 0
    <3>1. k - 1 \in Nat /\ k - 1 <= n /\ k \in 1 .. n /\ k - 1 \notin Bad
      BY <1>0, <2>1, <2>2, <2>4
    <3>2. PICK S : S = UpTo(p, k - 1)
      OBVIOUS
    <3>3. up[k - 1] = InOrder(q, raw, S)
      BY <3>1, <3>2
    <3>4. up[k] = Run(q, p[k], InOrder(q, raw, S))
      BY <1>2, <3>1, <3>3
    <3>5. UpTo(p, k) = S \cup {p[k]}
      <4>1. \A j \in 1 .. k : j \in 1 .. k - 1 \/ j = k
        BY <2>2
      <4>2. \A j \in 1 .. k - 1 : j \in 1 .. k
        BY <2>2
      <4> QED
        BY <3>1, <3>2, <4>1, <4>2 DEF UpTo
    <3>6. S \cap Above(p[k]) = {} /\ p[k] \in Operators
      BY <1>0, <3>1, <3>2 DEF Ordered, UpTo
    <3> QED
      BY <2>2, <3>4, <3>5, <3>6, OneMore
  <2> QED
    BY <2>3, <2>4
<1>4. n \notin Bad /\ n <= n
  BY <1>0, <1>3
<1> QED
  BY <1>0, <1>1, <1>4 DEF RunAll

-----------------------------------------------------------------------------
(* The plans of the provider are ordered, and rewriting keeps them so.     *)

Made(p) == UpTo(p, Len(p))

(* Which working operators a plan has, by the policy and the query.        *)
Wanted(op, pol, a) ==
  /\ op = "LaplaceNoiseExec" => has_dp(pol)
  /\ op = "FilterExec" => a.where # None
  /\ op = "GlobalLimitExec" => a.limit # None

Canonical(p, pol, a) ==
  /\ Ordered(p)
  /\ \A op \in Working : op \in Made(p) <=> Wanted(op, pol, a)

(* An operator that does nothing to a batch may go anywhere in a plan.     *)
LEMMA OrderedInsert ==
  ASSUME NEW p \in Seq(Operators), Ordered(p), NEW e \in Operators \ Working,
         NEW k \in 2 .. Len(p), NEW r, r = InsertAt(p, k, e)
  PROVE  Ordered(r)
<1>1. r \in Seq(Operators) /\ Len(r) = Len(p) + 1
  BY Inserted
<1>2. \A i \in 1 .. Len(p) : i < k => r[i] = p[i]
  BY Inserted
<1>3. r[k] = e
  BY Inserted
<1>4. \A i \in k + 1 .. Len(p) + 1 : r[i] = p[i - 1]
  BY Inserted
<1>5. Above(e) = {} /\ \A x : e \notin Above(x)
  BY DEF Above, Working, ContractOperators
<1> SUFFICES ASSUME NEW j \in 1 .. Len(r), NEW i \in 1 .. j - 1
             PROVE  r[i] \notin Above(r[j])
  BY DEF Ordered
<1>6. PICK n \in Nat : n = Len(p) /\ k \in 2 .. n
  OBVIOUS
<1>7. i \in Nat /\ j \in Nat /\ 1 <= i /\ i < j /\ j <= n + 1 /\ k \in Nat /\ k <= n
  BY <1>1, <1>6
<1>8. CASE i = k \/ j = k
  BY <1>3, <1>5, <1>8
<1>9. CASE j < k
  <2>1. r[i] = p[i] /\ r[j] = p[j] /\ j \in 1 .. Len(p)
    BY <1>2, <1>6, <1>7, <1>9
  <2> QED
    BY <2>1 DEF Ordered
<1>10. CASE i < k /\ j > k
  <2>1. r[i] = p[i]
    BY <1>2, <1>6, <1>7, <1>10
  <2>2. PICK m : m = j - 1
    OBVIOUS
  <2>3. j \in k + 1 .. Len(p) + 1 /\ m \in 1 .. Len(p) /\ i \in 1 .. m - 1
    BY <1>6, <1>7, <1>10, <2>2
  <2>4. r[j] = p[m]
    BY <1>4, <2>2, <2>3
  <2> QED
    BY <2>1, <2>3, <2>4 DEF Ordered
<1>11. CASE i > k
  <2>1. PICK m, h : m = j - 1 /\ h = i - 1
    OBVIOUS
  <2>2. /\ j \in k + 1 .. Len(p) + 1 /\ i \in k + 1 .. Len(p) + 1
        /\ m \in 1 .. Len(p) /\ h \in 1 .. m - 1
    BY <1>6, <1>7, <1>11, <2>1
  <2>3. r[j] = p[m] /\ r[i] = p[h]
    BY <1>4, <2>1, <2>2
  <2> QED
    BY <2>2, <2>3 DEF Ordered
<1> QED
  BY <1>7, <1>8, <1>9, <1>10, <1>11

(* Taking an operator out leaves the others in order.                      *)
LEMMA OrderedRemove ==
  ASSUME NEW p \in Seq(Operators), Ordered(p), NEW k \in 1 .. Len(p),
         NEW r, r = RemoveAt(p, k)
  PROVE  Ordered(r)
<1>1. r \in Seq(Operators) /\ Len(r) = Len(p) - 1
  BY Removed, SMTT(60)
<1>2. \A i \in 1 .. Len(p) : i < k => r[i] = p[i]
  BY Removed, SMTT(60)
<1>3. \A i \in k .. Len(p) - 1 : r[i] = p[i + 1]
  BY Removed, SMTT(60)
<1> SUFFICES ASSUME NEW j \in 1 .. Len(r), NEW i \in 1 .. j - 1
             PROVE  r[i] \notin Above(r[j])
  BY DEF Ordered
<1>4. PICK n \in Nat : n = Len(p) /\ k \in 1 .. n
  OBVIOUS
<1>5. i \in Nat /\ j \in Nat /\ 1 <= i /\ i < j /\ j <= n - 1 /\ k \in Nat /\ k <= n
  BY <1>1, <1>4
<1>6. CASE j < k
  <2>1. r[i] = p[i] /\ r[j] = p[j] /\ j \in 1 .. Len(p)
    BY <1>2, <1>4, <1>5, <1>6
  <2> QED
    BY <2>1 DEF Ordered
<1>7. CASE i < k /\ j >= k
  <2>1. r[i] = p[i]
    BY <1>2, <1>4, <1>5, <1>7
  <2>2. PICK m : m = j + 1
    OBVIOUS
  <2>3. j \in k .. Len(p) - 1 /\ m \in 1 .. Len(p) /\ i \in 1 .. m - 1
    BY <1>4, <1>5, <1>7, <2>2
  <2>4. r[j] = p[m]
    BY <1>3, <2>2, <2>3
  <2> QED
    BY <2>1, <2>3, <2>4 DEF Ordered
<1>8. CASE i >= k
  <2>1. PICK m, h : m = j + 1 /\ h = i + 1
    OBVIOUS
  <2>2. /\ j \in k .. Len(p) - 1 /\ i \in k .. Len(p) - 1
        /\ m \in 1 .. Len(p) /\ h \in 1 .. m - 1
    BY <1>4, <1>5, <1>8, <2>1
  <2>3. r[j] = p[m] /\ r[i] = p[h]
    BY <1>3, <2>1, <2>2
  <2> QED
    BY <2>2, <2>3 DEF Ordered
<1> QED
  BY <1>5, <1>6, <1>7, <1>8

(* Made is the Contains of the optimizer's rules.                          *)
LEMMA MadeContains ==
  ASSUME NEW p, NEW x
  PROVE  x \in Made(p) <=> Contains(p, x)
BY DEF Made, UpTo, Contains

(* Whatever a physical rule rewrites, the plan runs the same operators in  *)
(* the same order.                                                         *)
LEMMA RewritesCanonical ==
  ASSUME NEW s \in Seq(Operators), NEW pol, NEW a, Canonical(s, pol, a),
         NEW p \in Rewrites(s)
  PROVE  Canonical(p, pol, a)
<1>1. ASSUME NEW k \in 2 .. Len(s), NEW e \in PassOn, p = InsertAt(s, k, e)
      PROVE  Canonical(p, pol, a)
  <2>1. e \in Operators \ Working
    BY DEF Operators, Working, ContractOperators, PassOn
  <2>2. Ordered(p)
    BY <1>1, <2>1, OrderedInsert DEF Canonical
  <2>3. \A x : x # e => (Contains(p, x) <=> Contains(s, x))
    BY <1>1, <2>1, InsertKeeps
  <2>4. \A x \in Working : x \in Made(p) <=> x \in Made(s)
    BY <2>1, <2>3, MadeContains
  <2> QED
    BY <2>2, <2>4 DEF Canonical
<1>2. ASSUME NEW k \in 1 .. Len(s), p = RemoveAt(s, k),
             s[k] \in PassOn \cup {"ContractApprovedExec"}
      PROVE  Canonical(p, pol, a)
  <2>1. Ordered(p)
    BY <1>2, OrderedRemove DEF Canonical
  <2>2. \A x : x # s[k] => (Contains(p, x) <=> Contains(s, x))
    BY <1>2, RemoveKeeps
  <2>3. s[k] \notin Working
    BY <1>2 DEF Working, ContractOperators, PassOn
  <2>4. \A x \in Working : x \in Made(p) <=> x \in Made(s)
    BY <2>2, <2>3, MadeContains
  <2> QED
    BY <2>1, <2>4 DEF Canonical
<1>3. \/ \E k \in 2 .. Len(s), e \in PassOn : p = InsertAt(s, k, e)
      \/ \E k \in 1 .. Len(s) : /\ p = RemoveAt(s, k)
                                /\ s[k] \in PassOn \cup {"ContractApprovedExec"}
  BY DEF Rewrites
<1> QED
  BY <1>1, <1>2, <1>3

(* An operator stacked on others, none of which belongs above it.          *)
LEMMA OrderedAppend ==
  ASSUME NEW s \in Seq(Operators), Ordered(s), NEW x \in Operators,
         Made(s) \cap Above(x) = {}, NEW r, r = s \o <<x>>
  PROVE  r \in Seq(Operators) /\ Ordered(r) /\ Made(r) = Made(s) \cup {x}
<1>0. PICK n \in Nat : n = Len(s)
  OBVIOUS
<1>1. /\ r \in Seq(Operators) /\ Len(r) = n + 1 /\ r[n + 1] = x
      /\ \A i \in 1 .. n : r[i] = s[i]
  BY <1>0
<1>2. ASSUME NEW j \in 1 .. n + 1, NEW i \in 1 .. j - 1 PROVE r[i] \notin Above(r[j])
  <2>1. i \in 1 .. n /\ r[i] = s[i]
    BY <1>0, <1>1
  <2>2. CASE j = n + 1
    <3>1. s[i] \in Made(s)
      BY <1>0, <2>1 DEF Made, UpTo
    <3> QED
      BY <1>1, <2>1, <2>2, <3>1
  <2>3. CASE j # n + 1
    <3>1. j \in 1 .. n /\ r[j] = s[j]
      BY <1>0, <1>1, <2>3
    <3> QED
      BY <1>0, <2>1, <3>1 DEF Ordered
  <2> QED
    BY <2>2, <2>3
<1>3. Made(r) = Made(s) \cup {x}
  <2>1. \A j \in 1 .. n + 1 : j \in 1 .. n \/ j = n + 1
    BY <1>0
  <2>2. n + 1 \in 1 .. n + 1 /\ \A j \in 1 .. n : j \in 1 .. n + 1
    BY <1>0
  <2> QED
    BY <1>0, <1>1, <2>1, <2>2 DEF Made, UpTo
<1> QED
  BY <1>1, <1>2, <1>3 DEF Ordered

(* The plan that scan and the planner stack is in order to begin with.     *)
LEMMA ScanCanonical ==
  ASSUME NEW pol, NEW a
  PROVE  Canonical(scan(pol, a), pol, a)
<1> DEFINE base == <<"DataSourceExec", "ContractApprovedExec", "RowFilterExec", "MaskingExec">>
           s1 == base \o If(has_dp(pol), "LaplaceNoiseExec")
           s2 == s1 \o <<"ProjectionExec">>
           s3 == s2 \o If(a.where # None, "FilterExec")
           s4 == s3 \o If(a.limit # None, "GlobalLimitExec")
           M0 == {"DataSourceExec", "ContractApprovedExec", "RowFilterExec", "MaskingExec"}
           M1 == IF has_dp(pol) THEN M0 \cup {"LaplaceNoiseExec"} ELSE M0
           M2 == M1 \cup {"ProjectionExec"}
           M3 == IF a.where # None THEN M2 \cup {"FilterExec"} ELSE M2
           M4 == IF a.limit # None THEN M3 \cup {"GlobalLimitExec"} ELSE M3
<1>0. scan(pol, a) = s4
  BY DEF scan
<1>1. base \in Seq(Operators) /\ Ordered(base) /\ Made(base) = M0
  <2>1. /\ base \in Seq(Operators) /\ Len(base) = 4
        /\ base[1] = "DataSourceExec" /\ base[2] = "ContractApprovedExec"
        /\ base[3] = "RowFilterExec" /\ base[4] = "MaskingExec"
    BY DEF Operators, ContractOperators
  <2> HIDE DEF base
  <2>2. 1 .. 4 = {1, 2, 3, 4} /\ 1 .. 0 = {} /\ 1 .. 1 = {1} /\ 1 .. 2 = {1, 2} /\ 1 .. 3 = {1, 2, 3}
    OBVIOUS
  <2>3. Made(base) = M0
    BY <2>1, <2>2 DEF Made, UpTo
  <2>4. /\ Above("ContractApprovedExec") = {} /\ Above("DataSourceExec") = {}
        /\ \A x \in {"DataSourceExec", "ContractApprovedExec"} :
             x \notin Above("RowFilterExec") /\ x \notin Above("MaskingExec")
        /\ "RowFilterExec" \notin Above("MaskingExec")
    BY DEF Above, Working, ContractOperators
  <2>5. Ordered(base)
    <3> SUFFICES ASSUME NEW j \in 1 .. 4, NEW i \in 1 .. j - 1
                 PROVE  base[i] \notin Above(base[j])
      BY <2>1 DEF Ordered
    <3>1. CASE j = 1 \/ j = 2
      BY <2>1, <2>4, <3>1
    <3>2. CASE j = 3
      <4>1. i = 1 \/ i = 2
        BY <3>2
      <4> QED
        BY <2>1, <2>4, <3>2, <4>1
    <3>3. CASE j = 4
      <4>1. i = 1 \/ i = 2 \/ i = 3
        BY <3>3
      <4> QED
        BY <2>1, <2>4, <3>3, <4>1
    <3> QED
      BY <3>1, <3>2, <3>3
  <2> QED
    BY <2>1, <2>3, <2>5
<1> HIDE DEF base
<1>a. {"LaplaceNoiseExec", "ProjectionExec", "FilterExec", "GlobalLimitExec"} \subseteq Operators
  BY DEF Operators, ContractOperators
<1>2. M0 \cap Above("LaplaceNoiseExec") = {}
  BY DEF Above, Working, ContractOperators
<1>3. M1 \cap Above("ProjectionExec") = {}
  BY DEF Above
<1>4. M2 \cap Above("FilterExec") = {}
  BY DEF Above
<1>5. M3 \cap Above("GlobalLimitExec") = {}
  BY DEF Above
<1>6. \A op \in Working : op \in M4 <=> Wanted(op, pol, a)
  BY DEF Working, ContractOperators, Wanted
<1> HIDE DEF M0
<1>7. s1 \in Seq(Operators) /\ Ordered(s1) /\ Made(s1) = M1
  <2>1. CASE ~ (has_dp(pol))
    <3>1. s1 = base
      BY <1>1, <2>1 DEF If
    <3> QED
      BY <1>1, <2>1, <3>1
  <2>2. CASE has_dp(pol)
    <3>1. s1 = base \o <<"LaplaceNoiseExec">>
      BY <2>2 DEF If
    <3> HIDE DEF s1
    <3>2. s1 \in Seq(Operators)
      BY <1>1, <1>2, <1>a, <3>1, OrderedAppend
    <3>3. Ordered(s1) /\ Made(s1) = M0 \cup {"LaplaceNoiseExec"}
      BY <1>1, <1>2, <1>a, <3>1, OrderedAppend
    <3> QED
      BY <2>2, <3>2, <3>3
  <2> QED
    BY <2>1, <2>2
<1> HIDE DEF s1, M1
<1>8. s2 \in Seq(Operators)
  BY <1>3, <1>7, <1>a, OrderedAppend
<1>9. Ordered(s2) /\ Made(s2) = M2
  BY <1>3, <1>7, <1>a, OrderedAppend
<1> HIDE DEF s2, M2
<1>10. s3 \in Seq(Operators) /\ Ordered(s3) /\ Made(s3) = M3
  <2>1. CASE ~ (a.where # None)
    <3>1. s3 = s2
      BY <1>8, <1>9, <2>1 DEF If
    <3> QED
      BY <1>8, <1>9, <2>1, <3>1
  <2>2. CASE a.where # None
    <3>1. s3 = s2 \o <<"FilterExec">>
      BY <2>2 DEF If
    <3> HIDE DEF s3
    <3>2. s3 \in Seq(Operators)
      BY <1>8, <1>9, <1>4, <1>a, <3>1, OrderedAppend
    <3>3. Ordered(s3) /\ Made(s3) = M2 \cup {"FilterExec"}
      BY <1>8, <1>9, <1>4, <1>a, <3>1, OrderedAppend
    <3> QED
      BY <2>2, <3>2, <3>3
  <2> QED
    BY <2>1, <2>2
<1> HIDE DEF s3, M3
<1>11. s4 \in Seq(Operators) /\ Ordered(s4) /\ Made(s4) = M4
  <2>1. CASE ~ (a.limit # None)
    <3>1. s4 = s3
      BY <1>10, <2>1 DEF If
    <3> QED
      BY <1>10, <2>1, <3>1
  <2>2. CASE a.limit # None
    <3>1. s4 = s3 \o <<"GlobalLimitExec">>
      BY <2>2 DEF If
    <3> HIDE DEF s4
    <3>2. s4 \in Seq(Operators)
      BY <1>10, <1>5, <1>a, <3>1, OrderedAppend
    <3>3. Ordered(s4) /\ Made(s4) = M3 \cup {"GlobalLimitExec"}
      BY <1>10, <1>5, <1>a, <3>1, OrderedAppend
    <3> QED
      BY <2>2, <3>2, <3>3
  <2> QED
    BY <2>1, <2>2
<1> HIDE DEF s4, M4
<1> QED
  BY <1>0, <1>6, <1>11 DEF Canonical

-----------------------------------------------------------------------------
(* LIMIT, batch by batch.                                                  *)

(* The first n of a set of numbers are all of them, or at least n.         *)
LEMMA FirstCount ==
  ASSUME NEW A \in SUBSET Nat, IsFiniteSet(A), NEW n \in Nat
  PROVE  /\ Cardinality(A) <= n => First(A, n) = A
         /\ Cardinality(A) > n => Cardinality(First(A, n)) >= n
<1> DEFINE Pred(i) == {j \in A : j < i}
           F == First(A, n)
<1>0. Cardinality(A) \in Nat
  BY FS_CardinalityType
<1>1. ASSUME NEW i \in A PROVE IsFiniteSet(Pred(i)) /\ Cardinality(Pred(i)) \in Nat
  BY FS_Subset, FS_CardinalityType
<1>2. ASSUME Cardinality(A) <= n PROVE F = A
  <2>1. ASSUME NEW i \in A PROVE Cardinality(Pred(i)) < n
    <3>1. Pred(i) \in SUBSET A /\ Pred(i) # A
      OBVIOUS
    <3> HIDE DEF Pred
    <3>2. Cardinality(Pred(i)) <= Cardinality(A) /\ Cardinality(A) # Cardinality(Pred(i))
      BY <3>1, FS_Subset
    <3> QED
      BY <1>0, <1>1, <1>2, <3>2
  <2> QED
    BY <2>1 DEF First
<1>3. ASSUME Cardinality(A) > n PROVE Cardinality(F) >= n
  <2>1. F \in SUBSET A
    BY DEF First
  <2>2. IsFiniteSet(F) /\ Cardinality(F) \in Nat
    BY <2>1, FS_Subset, FS_CardinalityType
  <2> SUFFICES ASSUME Cardinality(F) < n PROVE FALSE
    BY <2>2
  <2>3. A \ F # {}
    BY <1>3, <2>1, <2>2
  <2>4. PICK x \in A \ F : \A y \in A \ F : x <= y
    <3>1. A \ F \in SUBSET Nat
      OBVIOUS
    <3> QED
      BY <2>3, <3>1, Least
  <2>5. Pred(x) \in SUBSET F
    <3> SUFFICES ASSUME NEW j \in A, j < x, j \notin F PROVE FALSE
      OBVIOUS
    <3> HIDE DEF F
    <3>1. x \in Nat /\ j \in Nat /\ x <= j
      BY <2>4
    <3> QED
      BY <3>1
  <2>6. Cardinality(Pred(x)) <= Cardinality(F)
    BY <2>2, <2>5, FS_Subset
  <2>7. Cardinality(Pred(x)) \in Nat
    BY <1>1, <2>4
  <2>8. x \in F
    BY <2>2, <2>4, <2>6, <2>7 DEF First
  <2> QED
    BY <2>4, <2>8
<1> QED
  BY <1>2, <1>3

(* And at most n.                                                          *)
LEMMA FirstAtMost ==
  ASSUME NEW A \in SUBSET Nat, IsFiniteSet(A), NEW n \in Nat
  PROVE  Cardinality(First(A, n)) <= n
<1> DEFINE Pred(i) == {j \in A : j < i}
           F == First(A, n)
           Left == {k \in Nat : \E i \in F : k = n - Cardinality(Pred(i))}
<1>1. ASSUME NEW i \in A PROVE IsFiniteSet(Pred(i)) /\ Cardinality(Pred(i)) \in Nat
  BY FS_Subset, FS_CardinalityType
<1>2. F \subseteq A /\ \A i \in F : Cardinality(Pred(i)) < n
  BY DEF First
<1> HIDE DEF F, Pred
<1>3. CASE F = {}
  BY <1>3, FS_EmptySet DEF F
<1>4. CASE F # {}
  <2>1. PICK e \in F : TRUE
    BY <1>4
  <2>2. PICK m \in Nat : m = Cardinality(Pred(e)) /\ m < n
    BY <1>1, <1>2, <2>1
  <2>3. n - m \in Nat
    BY <2>2
  <2>4. Left \in SUBSET Nat /\ Left # {}
    BY <2>1, <2>2, <2>3
  <2>5. PICK k \in Left : \A l \in Left : k <= l
    <3> HIDE DEF Left
    <3> QED
      BY <2>4, Least
  <2>6. PICK x \in F : k = n - Cardinality(Pred(x))
    BY <2>5
  <2>7. x \in Nat /\ x \in A
    BY <1>2, <2>6
  <2>8. PICK c \in Nat : c = Cardinality(Pred(x)) /\ c < n
    BY <1>1, <1>2, <2>6
  <2>9. x \notin Pred(x) /\ IsFiniteSet(Pred(x))
    BY <1>1, <2>7 DEF Pred
  <2>10. PICK P : P = Pred(x) \cup {x}
    OBVIOUS
  <2>11. IsFiniteSet(P) /\ Cardinality(P) = c + 1
    BY <2>8, <2>9, <2>10, FS_AddElement
  <2>12. ASSUME NEW y \in F, y > x PROVE FALSE
    <3>1. y \in Nat /\ y \in A
      BY <1>2
    <3>2. P \subseteq Pred(y)
      <4>1. \A j \in A : j < x => j < y
        BY <2>7, <2>12, <3>1
      <4> QED
        BY <2>7, <2>10, <2>12, <4>1 DEF Pred
    <3>3. PICK d \in Nat : d = Cardinality(Pred(y)) /\ d < n
      BY <1>1, <1>2, <3>1
    <3>4. c + 1 <= d
      <4>1. Cardinality(P) <= Cardinality(Pred(y))
        BY <1>1, <3>1, <3>2, FS_Subset
      <4> QED
        BY <2>11, <3>3, <4>1
    <3>5. n - d \in Left
      <4>1. n - d \in Nat
        BY <3>3
      <4> QED
        BY <3>3, <4>1
    <3>6. k <= n - d /\ k = n - c
      BY <2>5, <2>6, <2>8, <3>5
    <3> QED
      BY <2>8, <3>3, <3>4, <3>6
  <2>13. F \subseteq P
    <3> SUFFICES ASSUME NEW y \in F, y # x PROVE y \in Pred(x)
      BY <2>10
    <3>1. y \in Nat /\ y \in A /\ ~ (y > x)
      BY <1>2, <2>12
    <3>2. y < x
      BY <2>7, <3>1
    <3> QED
      BY <3>1, <3>2 DEF Pred
  <2>14. IsFiniteSet(F) /\ Cardinality(F) \in Nat /\ Cardinality(F) <= Cardinality(P)
    BY <2>11, <2>13, FS_Subset, FS_CardinalityType
  <2>15. Cardinality(F) <= n
    BY <2>8, <2>11, <2>14
  <2> QED
    BY <2>15 DEF F
<1> QED
  BY <1>3, <1>4

(* A limit counts on what was given: with what it lets through of E it is  *)
(* reached, or there was room for all of E.                                *)
LEMMA LimitAdds ==
  ASSUME NEW G, IsFiniteSet(G), NEW E \in SUBSET Nat, IsFiniteSet(E), G \cap E = {},
         NEW limit \in Nat, Cardinality(G) <= limit,
         NEW X, X = First(E, limit - Cardinality(G))
  PROVE  /\ X \subseteq E /\ Cardinality(G \cup X) <= limit
         /\ Cardinality(G \cup X) = limit \/ (X = E /\ Cardinality(G) # limit)
<1>1. PICK g \in Nat : g = Cardinality(G)
  BY FS_CardinalityType
<1>2. PICK room \in Nat : room = limit - g
  BY <1>1
<1>3. X \subseteq E /\ X = First(E, room)
  BY <1>1, <1>2 DEF First
<1>4. IsFiniteSet(X)
  BY <1>3, FS_Subset
<1>5. PICK x \in Nat : x = Cardinality(X)
  BY <1>4, FS_CardinalityType
<1>6. x <= room
  BY <1>3, <1>5, FirstAtMost
<1>7. Cardinality(G \cup X) = g + x
  <2>1. G \cap X = {}
    BY <1>3
  <2>2. Cardinality(G \cap X) = 0
    BY <2>1, FS_EmptySet
  <2>3. Cardinality(G \cup X) = Cardinality(G) + Cardinality(X) - Cardinality(G \cap X)
    BY <1>4, FS_Union
  <2> QED
    BY <1>1, <1>5, <2>2, <2>3
<1>8. x = room \/ X = E
  <2>1. PICK e \in Nat : e = Cardinality(E)
    BY FS_CardinalityType
  <2>2. CASE e <= room
    BY <1>3, <2>1, <2>2, FirstCount
  <2>3. CASE e > room
    <3>1. x >= room
      BY <1>3, <1>5, <2>1, <2>3, FirstCount
    <3> QED
      BY <1>6, <3>1
  <2> QED
    BY <2>1, <2>2, <2>3
<1>9. g + x <= limit
  BY <1>2, <1>6
<1>10. g + x = limit \/ (X = E /\ g # limit)
  <2>1. CASE x = room
    BY <1>2, <2>1
  <2>2. CASE x # room
    <3>1. g # limit
      BY <1>2, <1>6, <2>2
    <3> QED
      BY <1>8, <2>2, <3>1
  <2> QED
    BY <2>1, <2>2
<1> QED
  BY <1>1, <1>3, <1>7, <1>9, <1>10

-----------------------------------------------------------------------------
(* What each operator makes of a batch.                                    *)

(* A batch of types T whose rows are those of R with the numbers in D.     *)
Shows(b, T, D, R) ==
  b.ok /\ b.types = T /\ DOMAIN b.rows = D /\ \A i \in D : b.rows[i] = R[i]

(* The fields of a batch.                                                  *)
LEMMA BatchFields ==
  ASSUME NEW T, NEW R
  PROVE  Batch(T, R).ok /\ Batch(T, R).types = T /\ Batch(T, R).rows = R
BY DEF Batch

(* A batch shows the rows it was made with.                                *)
LEMMA BatchShows ==
  ASSUME NEW b, NEW T, NEW S, NEW D, NEW R, b = Batch(T, S), DOMAIN S = D,
         \A i \in D : S[i] = R[i]
  PROVE  Shows(b, T, D, R)
BY BatchFields DEF Shows

(* A failed batch ends the stream.                                         *)
LEMMA FailedIsNotOk == ~ Failed.ok
BY DEF Failed

Lets(flt, row) == flt \in {None, Empty} \/ Holds(flt, row)
Passing(D, flt, R) == {i \in D : Lets(flt, R[i])}

(* RowFilterExec keeps the passing rows, and compiled the filter.          *)
LEMMA FilterBatch ==
  ASSUME NEW b, NEW T, NEW D, NEW R, Shows(b, T, D, R), NEW flt,
         NEW E, E = Passing(D, flt, R),
         NEW x, x = apply_filter_to_batch(b, flt), x.ok
  PROVE  /\ Shows(x, T, E, R)
         /\ flt \notin {None, Empty} => Compiles(flt, T)
<1>0. b.types = T /\ DOMAIN b.rows = D /\ \A i \in D : b.rows[i] = R[i]
  BY DEF Shows
<1>1. CASE flt \in {None, Empty}
  <2>1. x = b
    BY <1>1 DEF apply_filter_to_batch
  <2>2. E = D
    BY <1>1 DEF Passing, Lets
  <2> QED
    BY <1>1, <2>1, <2>2
<1>2. CASE flt \notin {None, Empty}
  <2>1. Compiles(flt, T)
    BY <1>0, <1>2, FailedIsNotOk DEF apply_filter_to_batch
  <2> DEFINE S == Restrict(b.rows, {i \in DOMAIN b.rows : Holds(flt, b.rows[i])})
  <2>2. x = Batch(T, S)
    BY <1>0, <1>2, <2>1 DEF apply_filter_to_batch
  <2>3. E = {i \in DOMAIN b.rows : Holds(flt, b.rows[i])}
    BY <1>0, <1>2 DEF Passing, Lets
  <2>4. DOMAIN S = E /\ \A i \in E : S[i] = R[i]
    BY <1>0, <2>3 DEF Restrict
  <2> HIDE DEF S
  <2>5. Shows(x, T, E, R)
    BY <2>2, <2>4, BatchShows
  <2> QED
    BY <2>1, <2>5
<1> QED
  BY <1>1, <1>2

ActionOn(masks, col) == IF col \in DOMAIN masks THEN masks[col] ELSE "noop"

MaskedRow(T, masks, row) ==
  [col \in DOMAIN T |-> apply_mask_to_column(row[col], T[col], ActionOn(masks, col))]
AllMasked(N, T, masks, R) == [i \in N |-> MaskedRow(T, masks, R[i])]

(* The rows D of R are rows of a table with the types T.                   *)
Tabular(T, D, R) ==
  /\ T = [col \in DOMAIN T |-> T[col]]
  /\ \A i \in D : R[i] = [col \in DOMAIN T |-> R[i][col]]

(* MaskingExec masks each row and gives the batch the governed types.      *)
LEMMA MaskBatch ==
  ASSUME NEW b, NEW T, NEW D, NEW R, Shows(b, T, D, R), NEW masks,
         Tabular(T, D, R), NEW N, D \subseteq N, NEW schema, schema = masked_output_schema(T, masks),
         NEW W, W = AllMasked(N, T, masks, R),
         NEW x, x = apply_masking_to_batch(b, masks, schema), x.ok
  PROVE  Shows(x, schema, D, W)
<1>0. b.ok /\ b.types = T /\ DOMAIN b.rows = D /\ \A i \in D : b.rows[i] = R[i]
  BY DEF Shows
<1>3. T = [col \in DOMAIN T |-> T[col]] /\ \A i \in D : R[i] = [col \in DOMAIN T |-> R[i][col]]
  BY DEF Tabular
<1>4. \A i \in D : W[i] = MaskedRow(T, masks, R[i])
  BY DEF AllMasked
<1>1. CASE masks = Nothing
  <2>1. x = b
    BY <1>1 DEF apply_masking_to_batch
  <2>2. DOMAIN masks = {}
    BY <1>1 DEF Nothing
  <2>3. schema = T
    BY <1>3, <2>2 DEF masked_output_schema
  <2>4. ASSUME NEW i \in D PROVE W[i] = R[i]
    <3>1. MaskedRow(T, masks, R[i]) = [col \in DOMAIN T |-> R[i][col]]
      BY <2>2 DEF MaskedRow, ActionOn, apply_mask_to_column
    <3> QED
      BY <1>3, <1>4, <3>1
  <2> QED
    BY <1>0, <2>1, <2>3, <2>4 DEF Shows
<1>2. CASE masks # Nothing
  <2> DEFINE m(c) == IF c \in DOMAIN masks THEN masks[c] ELSE "noop"
             masked(r) == [c \in DOMAIN r |-> apply_mask_to_column(r[c], b.types[c], m(c))]
             S == [i \in DOMAIN b.rows |-> masked(b.rows[i])]
  <2>1. x = Batch(schema, S) \/ x = Failed
    BY <1>2 DEF apply_masking_to_batch
  <2>2. x = Batch(schema, S)
    BY <2>1, FailedIsNotOk
  <2>3. ASSUME NEW i \in D PROVE S[i] = W[i]
    <3>1. PICK r : r = R[i]
      OBVIOUS
    <3>2. r = [col \in DOMAIN T |-> r[col]] /\ b.rows[i] = r
      BY <1>0, <1>3, <3>1
    <3>3. masked(r) = MaskedRow(T, masks, r)
      BY <1>0, <3>2 DEF MaskedRow, ActionOn
    <3>4. S[i] = masked(r) /\ W[i] = MaskedRow(T, masks, r)
      BY <1>0, <1>4, <3>1, <3>2
    <3> QED
      BY <3>3, <3>4
  <2>4. DOMAIN S = D
    BY <1>0
  <2> HIDE DEF S
  <2> QED
    BY <2>2, <2>3, <2>4, BatchShows
<1> QED
  BY <1>1, <1>2

NoisedRow(dp, row) ==
  [col \in DOMAIN row |-> IF col \in DOMAIN dp /\ row[col].as # "null"
                          THEN Cell("noised", row[col]) ELSE row[col]]

AllNoised(N, dp, R) == [i \in N |-> NoisedRow(dp, R[i])]

(* LaplaceNoiseExec changes cells and no types.                            *)
LEMMA NoiseBatch ==
  ASSUME NEW b, NEW T, NEW D, NEW R, Shows(b, T, D, R), NEW dp,
         \A i \in D : DOMAIN R[i] = DOMAIN T, NEW N, D \subseteq N,
         NEW W, W = AllNoised(N, dp, R),
         NEW x, x = apply_dp_to_batch(b, dp), x.ok
  PROVE  Shows(x, T, D, W)
<1>0. b.types = T /\ DOMAIN b.rows = D /\ \A i \in D : b.rows[i] = R[i]
  BY DEF Shows
<1> DEFINE protected == DOMAIN dp \cap DOMAIN b.types
           noised(c, cell) == IF c \in protected /\ cell.as # "null" THEN Cell("noised", cell) ELSE cell
           S == [i \in DOMAIN b.rows |-> [c \in DOMAIN b.rows[i] |-> noised(c, b.rows[i][c])]]
<1>1. x = Batch(T, S) \/ x = Failed
  BY <1>0 DEF apply_dp_to_batch
<1>2. x = Batch(T, S)
  BY <1>1, FailedIsNotOk
<1>3. ASSUME NEW i \in D PROVE S[i] = W[i]
  <2>1. PICK r : r = R[i]
    OBVIOUS
  <2>2. b.rows[i] = r /\ DOMAIN r = DOMAIN T
    BY <1>0, <2>1
  <2>3. [c \in DOMAIN r |-> noised(c, r[c])] = NoisedRow(dp, r)
    BY <1>0, <2>2 DEF NoisedRow
  <2>4. S[i] = [c \in DOMAIN r |-> noised(c, r[c])] /\ W[i] = NoisedRow(dp, r)
    BY <1>0, <2>1, <2>2 DEF AllNoised
  <2> QED
    BY <2>3, <2>4
<1>4. DOMAIN S = D
  BY <1>0
<1> HIDE DEF S
<1> QED
  BY <1>2, <1>3, <1>4, BatchShows

ChosenRow(columns, row) == [col \in columns |-> row[col]]
AllChosen(N, columns, R) == [i \in N |-> ChosenRow(columns, R[i])]

(* The projection keeps the columns asked for.                             *)
LEMMA ProjectBatch ==
  ASSUME NEW b, NEW T, NEW D, NEW R, Shows(b, T, D, R), NEW columns,
         NEW N, D \subseteq N, NEW U, U = ChosenRow(columns, T),
         NEW W, W = AllChosen(N, columns, R), NEW x, x = Project(b, columns)
  PROVE  Shows(x, U, D, W)
<1>0. b.types = T /\ DOMAIN b.rows = D /\ \A i \in D : b.rows[i] = R[i]
  BY DEF Shows
<1> DEFINE S == [i \in DOMAIN b.rows |-> [c \in columns |-> b.rows[i][c]]]
<1>1. x = Batch(U, S)
  BY <1>0 DEF Project, ChosenRow
<1>2. DOMAIN S = D /\ \A i \in D : S[i] = W[i]
  BY <1>0 DEF AllChosen, ChosenRow
<1> HIDE DEF S
<1> QED
  BY <1>1, <1>2, BatchShows

Matching(D, where, R) == {i \in D : Matches(R[i], where)}

(* The query's predicate selects among the rows that come out.             *)
LEMMA WhereBatch ==
  ASSUME NEW b, NEW T, NEW D, NEW R, Shows(b, T, D, R), NEW where,
         NEW E, E = Matching(D, where, R), NEW x, x = Where(b, where)
  PROVE  Shows(x, T, E, R)
<1>0. b.types = T /\ DOMAIN b.rows = D /\ \A i \in D : b.rows[i] = R[i]
  BY DEF Shows
<1> DEFINE S == Restrict(b.rows, {i \in DOMAIN b.rows : Matches(b.rows[i], where)})
<1>1. x = Batch(T, S)
  BY <1>0 DEF Where
<1>2. E = {i \in DOMAIN b.rows : Matches(b.rows[i], where)}
  BY <1>0 DEF Matching
<1>3. DOMAIN S = E /\ \A i \in E : S[i] = R[i]
  BY <1>0, <1>2 DEF Restrict
<1> HIDE DEF S
<1> QED
  BY <1>1, <1>3, BatchShows

(* GlobalLimitExec counts on what was given before.                        *)
LEMMA LimitBatch ==
  ASSUME NEW b, NEW T, NEW D, NEW R, Shows(b, T, D, R), NEW room,
         NEW x, x = Limit(b, room)
  PROVE  Shows(x, T, First(D, room), R)
<1>0. b.types = T /\ DOMAIN b.rows = D /\ \A i \in D : b.rows[i] = R[i]
  BY DEF Shows
<1> DEFINE S == Restrict(b.rows, First(D, room))
<1>1. x = Batch(T, S)
  BY <1>0 DEF Limit
<1>2. First(D, room) \subseteq D
  BY DEF First
<1>3. DOMAIN S = First(D, room) /\ \A i \in First(D, room) : S[i] = R[i]
  BY <1>0, <1>2 DEF Restrict
<1> HIDE DEF S
<1> QED
  BY <1>1, <1>3, BatchShows

(* What the operators do to a batch that has not failed, and that one that *)
(* has stays so.                                                           *)
LEMMA RunWorks ==
  ASSUME NEW q, NEW b, b.ok, NEW h, h = to_bundle_handle(policy[q])
  PROVE  /\ Run(q, "RowFilterExec", b) = apply_filter_to_batch(b, h.row_filter)
         /\ Run(q, "MaskingExec", b) = apply_masking_to_batch(b, h.column_masking,
              masked_output_schema(Files[file[q]].types, h.column_masking))
         /\ Run(q, "LaplaceNoiseExec", b) = apply_dp_to_batch(b, h.dp_columns)
         /\ Run(q, "ProjectionExec", b) = Project(b, ask[q].columns)
         /\ Run(q, "FilterExec", b) = Where(b, ask[q].where)
         /\ Run(q, "GlobalLimitExec", b) =
              Limit(b, ask[q].limit - Cardinality(DOMAIN answer[q]))
BY DEF Run

(* An operator puts out a good batch only if it was given one.             *)
LEMMA OkBelow ==
  ASSUME NEW q, NEW op, NEW b, NEW S, If1(q, op, b, S).ok
  PROVE  b.ok
<1>1. CASE ~ b.ok
  <2>1. Run(q, op, b) = b
    BY <1>1 DEF Run
  <2>2. If1(q, op, b, S) = b
    BY <2>1 DEF If1
  <2> QED
    BY <1>1, <2>2
<1> QED
  BY <1>1

(* A row on its way out of the contract operators and the projection, and *)
(* the numbers that pass the contract's filter and the query's.            *)
OutRows(N, h, T, columns, R) ==
  AllChosen(N, columns, AllNoised(N, h.dp_columns, AllMasked(N, T, h.column_masking, R)))
Wheres(D, where, R) == IF where = None THEN D ELSE Matching(D, where, R)
StillGiven(D, limit, n) == IF limit = None THEN D ELSE First(D, limit - n)

(* The batch raw, the rows D of R, on its way up the plan of query q, and  *)
(* names for what it meets there.                                          *)
Rises(q, h, T, D, R, N, raw, up, Out, D1, D2, F) ==
  /\ plan[q] \in Seq(Operators) /\ Canonical(plan[q], policy[q], ask[q])
  /\ h = to_bundle_handle(policy[q]) /\ T = Files[file[q]].types
  /\ Tabular(T, D, R) /\ D \subseteq N
  /\ Shows(raw, T, D, R) /\ up = RunAll(q, raw) /\ up.ok
  /\ Out = OutRows(N, h, T, ask[q].columns, R)
  /\ D1 = Passing(D, h.row_filter, R)
  /\ D2 = Wheres(D1, ask[q].where, Out)
  /\ F = ChosenRow(ask[q].columns, masked_output_schema(T, h.column_masking))

(* One batch through a whole plan: filter, masks, noise, projection,       *)
(* predicate and limit, in this order whatever the optimizer did.          *)
LEMMA PlanShows ==
  ASSUME NEW q, NEW h, NEW T, NEW D, NEW R, NEW N, NEW raw, NEW up, NEW Out, NEW D1, NEW D2,
         NEW F, Rises(q, h, T, D, R, N, raw, up, Out, D1, D2, F)
  PROVE  /\ h.row_filter \notin {None, Empty} => Compiles(h.row_filter, T)
         /\ Shows(up, F, StillGiven(D2, ask[q].limit, Cardinality(DOMAIN answer[q])), Out)
<1>0. /\ plan[q] \in Seq(Operators) /\ Canonical(plan[q], policy[q], ask[q])
      /\ h = to_bundle_handle(policy[q]) /\ T = Files[file[q]].types
      /\ Tabular(T, D, R) /\ D \subseteq N
      /\ Shows(raw, T, D, R) /\ up = RunAll(q, raw) /\ up.ok
      /\ Out = OutRows(N, h, T, ask[q].columns, R)
      /\ D1 = Passing(D, h.row_filter, R)
      /\ D2 = Wheres(D1, ask[q].where, Out)
      /\ F = ChosenRow(ask[q].columns, masked_output_schema(T, h.column_masking))
  BY DEF Rises
<1>1. PICK S : S = Made(plan[q])
  OBVIOUS
<1>2. up = InOrder(q, raw, S)
  BY <1>0, <1>1, RunInOrder DEF Canonical, Made
<1>3. /\ "RowFilterExec" \in S /\ "MaskingExec" \in S /\ "ProjectionExec" \in S
      /\ "LaplaceNoiseExec" \in S <=> has_dp(policy[q])
      /\ "FilterExec" \in S <=> ask[q].where # None
      /\ "GlobalLimitExec" \in S <=> ask[q].limit # None
  BY <1>0, <1>1 DEF Canonical, Wanted, Working, ContractOperators
<1>4. PICK b1 : b1 = If1(q, "RowFilterExec", raw, S)
  OBVIOUS
<1>5. PICK b2 : b2 = If1(q, "MaskingExec", b1, S)
  OBVIOUS
<1>6. PICK b3 : b3 = If1(q, "LaplaceNoiseExec", b2, S)
  OBVIOUS
<1>7. PICK b4 : b4 = If1(q, "ProjectionExec", b3, S)
  OBVIOUS
<1>8. PICK b5 : b5 = If1(q, "FilterExec", b4, S)
  OBVIOUS
<1>9. up = If1(q, "GlobalLimitExec", b5, S)
  BY <1>0, <1>2, <1>4, <1>5, <1>6, <1>7, <1>8 DEF InOrder
<1>10. b5.ok
  BY <1>0, <1>9, OkBelow
<1>11. b4.ok
  BY <1>0, <1>8, <1>10, OkBelow
<1>12. b3.ok
  BY <1>0, <1>7, <1>11, OkBelow
<1>13. b2.ok
  BY <1>0, <1>6, <1>12, OkBelow
<1>14. b1.ok
  BY <1>0, <1>5, <1>13, OkBelow
<1>15. raw.ok
  BY <1>0 DEF Shows
<1>16. PICK M : M = masked_output_schema(T, h.column_masking)
  OBVIOUS
<1>17. b1 = apply_filter_to_batch(raw, h.row_filter)
  BY <1>0, <1>3, <1>4, <1>15, RunWorks DEF If1
<1>18. Shows(b1, T, D1, R)
  BY <1>0, <1>14, <1>17, FilterBatch
<1>19. h.row_filter \notin {None, Empty} => Compiles(h.row_filter, T)
  BY <1>0, <1>14, <1>17, FilterBatch
<1>20. b2 = apply_masking_to_batch(b1, h.column_masking, M)
  BY <1>0, <1>3, <1>5, <1>14, <1>16, RunWorks DEF If1
<1>21. PICK R2 : R2 = AllMasked(N, T, h.column_masking, R)
  OBVIOUS
<1>22. D1 \subseteq N /\ Tabular(T, D1, R)
  BY <1>0 DEF Passing, Tabular
<1>23. Shows(b2, M, D1, R2)
  BY <1>0, <1>13, <1>16, <1>18, <1>20, <1>21, <1>22, MaskBatch
<1>24. DOMAIN M = DOMAIN T
  BY <1>0, <1>16 DEF masked_output_schema
<1>25. PICK R3 : R3 = AllNoised(N, h.dp_columns, R2)
  OBVIOUS
<1>26. Shows(b3, M, D1, R3)
  <2>1. CASE has_dp(policy[q])
    <3>1. b3 = apply_dp_to_batch(b2, h.dp_columns)
      BY <1>0, <1>3, <1>6, <1>13, <2>1, RunWorks DEF If1
    <3>2. \A i \in D1 : DOMAIN R2[i] = DOMAIN M
      BY <1>0, <1>21, <1>22, <1>24 DEF AllMasked, MaskedRow
    <3> QED
      BY <1>0, <1>12, <1>22, <1>23, <1>25, <3>1, <3>2, NoiseBatch
  <2>2. CASE ~ has_dp(policy[q])
    <3>1. b3 = b2
      BY <1>0, <1>3, <1>6, <2>2 DEF If1
    <3>2. DOMAIN h.dp_columns = {}
      BY <1>0, <2>2 DEF has_dp, to_bundle_handle
    <3>3. ASSUME NEW i \in D1 PROVE R3[i] = R2[i]
      <4>1. PICK r : r = R2[i]
        OBVIOUS
      <4>2. r = MaskedRow(T, h.column_masking, R[i])
        BY <1>0, <1>21, <1>22, <4>1 DEF AllMasked
      <4>3. r = [col \in DOMAIN r |-> r[col]]
        BY <1>0, <4>2 DEF MaskedRow
      <4>4. NoisedRow(h.dp_columns, r) = [col \in DOMAIN r |-> r[col]]
        BY <1>0, <3>2 DEF NoisedRow
      <4> QED
        BY <1>0, <1>22, <1>25, <4>1, <4>3, <4>4 DEF AllNoised
    <3> QED
      BY <1>0, <1>23, <3>1, <3>3 DEF Shows
  <2> QED
    BY <1>0, <2>1, <2>2
<1>27. b4 = Project(b3, ask[q].columns)
  BY <1>0, <1>3, <1>7, <1>12, RunWorks DEF If1
<1>28. F = ChosenRow(ask[q].columns, M)
  BY <1>0, <1>16
<1>29. Out = AllChosen(N, ask[q].columns, R3)
  BY <1>0, <1>21, <1>25 DEF OutRows
<1>30. Shows(b4, F, D1, Out)
  BY <1>0, <1>22, <1>26, <1>27, <1>28, <1>29, ProjectBatch
<1>31. Shows(b5, F, D2, Out)
  <2>1. CASE ask[q].where # None
    <3>1. b5 = Where(b4, ask[q].where)
      BY <1>0, <1>3, <1>8, <1>11, <2>1, RunWorks DEF If1
    <3>2. D2 = Matching(D1, ask[q].where, Out)
      BY <1>0, <2>1 DEF Wheres
    <3> QED
      BY <1>0, <1>30, <3>1, <3>2, WhereBatch
  <2>2. CASE ask[q].where = None
    <3>1. b5 = b4
      BY <1>0, <1>3, <1>8, <2>2 DEF If1
    <3>2. D2 = D1
      BY <1>0, <2>2 DEF Wheres
    <3> QED
      BY <1>0, <1>30, <3>1, <3>2
  <2> QED
    BY <1>0, <2>1, <2>2
<1>32. CASE ask[q].limit # None
  <2>1. up = Limit(b5, ask[q].limit - Cardinality(DOMAIN answer[q]))
    BY <1>0, <1>3, <1>9, <1>10, <1>32, RunWorks DEF If1
  <2>2. Shows(up, F, First(D2, ask[q].limit - Cardinality(DOMAIN answer[q])), Out)
    BY <1>0, <1>31, <2>1, LimitBatch
  <2> QED
    BY <1>0, <1>19, <1>32, <2>2 DEF StillGiven
<1>33. CASE ask[q].limit = None
  <2>1. up = b5
    BY <1>0, <1>3, <1>9, <1>33 DEF If1
  <2> QED
    BY <1>0, <1>19, <1>31, <1>33, <2>1 DEF StillGiven
<1> QED
  BY <1>0, <1>32, <1>33

-----------------------------------------------------------------------------
(* The policy is the contract's, to the letter.                            *)

(* What contract c asks for on a column.                                   *)
Action(c, col) == IF col \in DOMAIN c.columns THEN parse(c.columns[col]) ELSE "noop"

(* The bundle h has the operators enforce contract c against a caller.     *)
Enforces(h, c, caller) ==
  IF caller.tenant = c.owner
  THEN /\ h.row_filter = None
       /\ \A col : ActionOn(h.column_masking, col) = "noop"
       /\ DOMAIN h.dp_columns = {}
  ELSE /\ \/ h.row_filter = c.filter
          \/ h.row_filter = None /\ c.filter \in {None, Empty, "1=1"}
       /\ \A col : /\ ActionOn(h.column_masking, col) = Action(c, col)
                   /\ Action(c, col) \in MaskActions
       /\ DOMAIN h.dp_columns = DOMAIN c.dp

(* The bundle handle has the policy's filter, noise and working masks.     *)
LEMMA Handles ==
  ASSUME NEW c, NEW decision, NEW masks, NEW flt, NEW dp,
         NEW p, p = Policy(c, decision, masks, flt, dp), NEW h, h = to_bundle_handle(p)
  PROVE  /\ p.decision = decision /\ h.row_filter = flt /\ h.dp_columns = dp
         /\ \A col : ActionOn(h.column_masking, col) = ActionOn(masks, col)
<1>1. p.column_masks = masks /\ p.row_filter = flt /\ p.dp_columns = dp /\ p.decision = decision
  BY DEF Policy
<1> DEFINE masked == {k \in DOMAIN p.column_masks : p.column_masks[k] # "noop"}
<1>2. /\ h.column_masking = [k \in masked |-> p.column_masks[k]]
      /\ h.row_filter = flt /\ h.dp_columns = dp
  BY <1>1 DEF to_bundle_handle
<1>3. ASSUME NEW col PROVE ActionOn(h.column_masking, col) = ActionOn(masks, col)
  BY <1>1, <1>2 DEF ActionOn
<1> QED
  BY <1>1, <1>2, <1>3

(* The owner's policy enforces nothing, as the owner's view asks.          *)
LEMMA AllowAll ==
  ASSUME NEW c, NEW k, NEW caller, caller.tenant = c.owner, NEW p, p = allow_all(k),
         NEW h, h = to_bundle_handle(p)
  PROVE  Enforces(h, c, caller)
<1>1. /\ h.row_filter = None /\ h.dp_columns = Nothing
      /\ \A col : ActionOn(h.column_masking, col) = ActionOn(Nothing, col)
  BY Handles DEF allow_all
<1>2. DOMAIN Nothing = {}
  BY DEF Nothing
<1> QED
  BY <1>1, <1>2 DEF Enforces, ActionOn

(* parse yields an action of the operator, or an error.                    *)
LEMMA Parses ==
  ASSUME NEW s, parse(s) # "error"
  PROVE  parse(s) \in MaskActions
BY DEF parse, MaskActions

(* A JSON contract.                                                        *)
LEMMA JsonEnforces ==
  ASSUME NEW cs, NEW d, NEW caller, NEW p, p = resolve(cs, d, caller), p.decision = "Allow",
         NEW h, h = to_bundle_handle(p)
  PROVE  d \in DOMAIN cs /\ Enforces(h, cs[d], caller)
<1> DEFINE c == cs[d]
           action == [col \in DOMAIN c.columns |-> parse(c.columns[col])]
           masks == [col \in {k \in DOMAIN action : action[k] # "noop"} |-> action[col]]
<1>1. p # Unresolved /\ p # Deny(c)
  BY Policies DEF Deny
<1>2. /\ d \in DOMAIN cs
      /\ \/ caller.tenant = c.owner /\ p = allow_all(c)
         \/ /\ caller.tenant # c.owner /\ p = Policy(c, "Allow", masks, c.filter, c.dp)
            /\ \A col \in DOMAIN action : action[col] # "error"
  BY <1>1 DEF resolve
<1>3. ASSUME caller.tenant # c.owner, p = Policy(c, "Allow", masks, c.filter, c.dp),
             \A col \in DOMAIN action : action[col] # "error"
      PROVE  Enforces(h, c, caller)
  <2>1. ASSUME NEW col
        PROVE  ActionOn(masks, col) = Action(c, col) /\ Action(c, col) \in MaskActions
    <3>1. CASE col \in DOMAIN c.columns
      <4>1. parse(c.columns[col]) # "error"
        BY <1>3, <3>1
      <4>2. Action(c, col) = parse(c.columns[col])
        BY <3>1 DEF Action
      <4>3. action[col] = Action(c, col) /\ col \in DOMAIN action
        BY <3>1, <4>2
      <4> HIDE DEF action
      <4>4. ActionOn(masks, col) = Action(c, col)
        BY <4>3 DEF ActionOn
      <4> QED
        BY <4>1, <4>2, <4>4, Parses
    <3>2. CASE col \notin DOMAIN c.columns
      BY <3>2 DEF Action, ActionOn, MaskActions
    <3> QED
      BY <3>1, <3>2
  <2> HIDE DEF masks, c
  <2>2. /\ h.row_filter = c.filter /\ h.dp_columns = c.dp
        /\ \A col : ActionOn(h.column_masking, col) = ActionOn(masks, col)
    BY <1>3, Handles
  <2> QED
    BY <1>3, <2>1, <2>2 DEF Enforces
<1> HIDE DEF masks
<1>4. ASSUME caller.tenant = c.owner, p = allow_all(c) PROVE Enforces(h, c, caller)
  BY <1>4, AllowAll
<1> QED
  BY <1>2, <1>3, <1>4

(* The words of a compiled template say the contract's masks and filter.   *)
LEMMA TemplateMasks ==
  ASSUME NEW c, NEW t, t = OtherTemplate(c),
         \A col \in DOMAIN c.columns : col # Empty /\ c.columns[col] \in DOMAIN CallFor
  PROVE  \A col : /\ ActionOn(masks_from_sql(t), col) = Action(c, col)
                  /\ Action(c, col) \in MaskActions
<1> DEFINE wraps(k) == {f \in DOMAIN MaskCalls : <<MaskCalls[f], k>> \in t.calls}
           columns == {call[2] : call \in t.calls} \ {Empty}
           masks == masks_from_sql(t)
<1>1. t.calls = {<<CallFor[c.columns[k]], k>> : k \in DOMAIN c.columns}
  BY Templates
<1>2. columns = DOMAIN c.columns
  <2>1. \A k \in DOMAIN c.columns : <<CallFor[c.columns[k]], k>>[2] = k
    OBVIOUS
  <2>2. ASSUME NEW k \in columns PROVE k \in DOMAIN c.columns
    BY <1>1, <2>1, <2>2
  <2>3. ASSUME NEW k \in DOMAIN c.columns PROVE k \in columns
    BY <1>1, <2>1, <2>3
  <2> HIDE DEF columns
  <2> QED
    BY <2>2, <2>3
<1>3. \A f, k : <<f, k>> \in t.calls <=> k \in DOMAIN c.columns /\ f = CallFor[c.columns[k]]
  BY <1>1
<1>4. DOMAIN MaskCalls = 1 .. 4 /\ MaskCalls[1] = "sha256_hex" /\ MaskCalls[2] = "mask_hash_sha256"
      /\ MaskCalls[3] = "mask_redact" /\ MaskCalls[4] = "mask_tokenize"
  BY DEF MaskCalls
<1>5. CallAction[1] = "hash_sha256" /\ CallAction[3] = "redact" /\ CallAction[4] = "tokenize"
  BY DEF CallAction
<1>6. /\ DOMAIN CallFor = {"hash_sha256", "redact", "tokenize"}
      /\ CallFor["hash_sha256"] = "sha256_hex" /\ CallFor["redact"] = "mask_redact"
      /\ CallFor["tokenize"] = "mask_tokenize"
  BY DEF CallFor
<1>7. ASSUME NEW k \in DOMAIN c.columns
      PROVE  \E f \in 1 .. 4 : wraps(k) = {f} /\ CallAction[f] = c.columns[k]
  <2>1. wraps(k) = {f \in 1 .. 4 : MaskCalls[f] = CallFor[c.columns[k]]}
    BY <1>3, <1>4
  <2>2. c.columns[k] \in {"hash_sha256", "redact", "tokenize"}
    BY <1>6
  <2>3. \A f \in 1 .. 4 : f = 1 \/ f = 2 \/ f = 3 \/ f = 4
    OBVIOUS
  <2> HIDE DEF wraps
  <2>4. CASE c.columns[k] = "hash_sha256"
    <3>1. wraps(k) = {1}
      BY <1>4, <1>6, <2>1, <2>3, <2>4
    <3> QED
      BY <1>5, <2>4, <3>1
  <2>5. CASE c.columns[k] = "redact"
    <3>1. wraps(k) = {3}
      BY <1>4, <1>6, <2>1, <2>3, <2>5
    <3> QED
      BY <1>5, <2>5, <3>1
  <2>6. CASE c.columns[k] = "tokenize"
    <3>1. wraps(k) = {4}
      BY <1>4, <1>6, <2>1, <2>3, <2>6
    <3> QED
      BY <1>5, <2>6, <3>1
  <2> QED
    BY <2>2, <2>4, <2>5, <2>6
<1>8. masks = [k \in {x \in columns : wraps(x) # {}} |->
                 CallAction[CHOOSE f \in wraps(k) : \A g \in wraps(k) : g <= f]]
  BY DEF masks_from_sql
<1> HIDE DEF masks, columns, wraps
<1>9. DOMAIN masks = DOMAIN c.columns
  <2>1. DOMAIN masks = {x \in columns : wraps(x) # {}}
    BY <1>8
  <2>2. \A x \in columns : wraps(x) # {}
    BY <1>2, <1>7
  <2> QED
    BY <1>2, <2>1, <2>2
<1>10. ASSUME NEW k \in DOMAIN c.columns PROVE masks[k] = c.columns[k]
  <2>1. PICK f \in 1 .. 4 : wraps(k) = {f} /\ CallAction[f] = c.columns[k]
    BY <1>7
  <2>2. masks[k] = CallAction[CHOOSE g \in wraps(k) : \A j \in wraps(k) : j <= g]
    BY <1>2, <1>8, <2>1
  <2>3. f <= f
    OBVIOUS
  <2>4. PICK x : x = CHOOSE g \in wraps(k) : \A j \in wraps(k) : j <= g
    OBVIOUS
  <2>5. x \in wraps(k)
    BY <2>1, <2>3, <2>4
  <2> QED
    BY <2>1, <2>2, <2>4, <2>5
<1>11. ASSUME NEW k \in DOMAIN c.columns PROVE Action(c, k) = c.columns[k] /\ c.columns[k] \in MaskActions
  <2>1. c.columns[k] \in MaskActions /\ c.columns[k] \notin DOMAIN Lowercase
    <3>1. c.columns[k] \in MaskActions
      BY <1>6 DEF MaskActions
    <3> QED
      BY <3>1, ScanConstants
  <2>2. PICK s : s = c.columns[k]
    OBVIOUS
  <2>3. parse(s) = s
    BY <2>1, <2>2 DEF parse, MaskActions
  <2> QED
    BY <2>1, <2>2, <2>3 DEF Action
<1> SUFFICES ASSUME NEW col
             PROVE  ActionOn(masks, col) = Action(c, col) /\ Action(c, col) \in MaskActions
  BY DEF masks
<1>12. CASE col \in DOMAIN c.columns
  BY <1>9, <1>10, <1>11, <1>12 DEF ActionOn
<1>13. CASE col \notin DOMAIN c.columns
  BY <1>9, <1>13 DEF ActionOn, Action, MaskActions
<1> QED
  BY <1>12, <1>13

(* The filter read back from a template is the contract's.                 *)
LEMMA TemplateFilter ==
  ASSUME NEW c, NEW t, t = OtherTemplate(c), NEW flt, flt = row_filter_from_sql(t)
  PROVE  flt = c.filter \/ (flt = None /\ c.filter \in {None, Empty, "1=1"})
BY Templates DEF row_filter_from_sql

(* A list that holds the two templates in either order.                    *)
LEMMA FindsOther ==
  ASSUME NEW c, NEW b, NEW k \in {1, 2}, DOMAIN b.templates = 1 .. 2,
         b.templates[k] = OtherTemplate(c),
         \A i \in 1 .. 2 : i # k => b.templates[i] = OwnerTemplate
  PROVE  non_owner_template(b) = k
<1> DEFINE hits == {i \in DOMAIN b.templates : "non-owner" \in b.templates[i].words}
<1>1. OtherTemplate(c).words = {"non-owner", "read"} /\ OwnerTemplate.words = {"read"}
  BY Templates
<1>2. ASSUME NEW i \in 1 .. 2 PROVE "non-owner" \in b.templates[i].words <=> i = k
  BY <1>1
<1>3. hits = {k}
  BY <1>2
<1>4. FirstWith(b.templates, "non-owner") = IF hits = {} THEN 0 ELSE CHOOSE i \in hits : \A j \in hits : i <= j
  BY DEF FirstWith
<1> HIDE DEF hits
<1>5. PICK x : x = CHOOSE i \in hits : \A j \in hits : i <= j
  OBVIOUS
<1>6. k <= k
  OBVIOUS
<1>7. x \in hits
  BY <1>3, <1>5, <1>6
<1>8. FirstWith(b.templates, "non-owner") = k
  BY <1>3, <1>4, <1>5, <1>7
<1> QED
  BY <1>8 DEF non_owner_template

(* A bundle with the owner and the templates of contract c.                *)
LEMMA BundleEnforces ==
  ASSUME NEW c, NEW b, NEW caller, NEW p, p = map_bundle_to_policy(b, caller),
         p.decision = "Allow", NEW h, h = to_bundle_handle(p),
         owner_tenant(b) = c.owner, c.owner # Empty,
         NEW k \in {1, 2}, non_owner_template(b) = k, b.templates[k] = OtherTemplate(c),
         \A col \in DOMAIN c.columns : col # Empty /\ c.columns[col] \in DOMAIN CallFor,
         DOMAIN c.dp = {}
  PROVE  Enforces(h, c, caller)
<1> DEFINE m == [contract_id |-> b.manifest.contract_id, version |-> b.manifest.version,
                 owner |-> owner_tenant(b)]
<1>1. PICK t : t = OtherTemplate(c)
  OBVIOUS
<1>2. p # Deny(m)
  BY Policies DEF Deny
<1>3. k # 0
  OBVIOUS
<1>4. \/ caller.tenant = c.owner /\ p = allow_all(m)
      \/ /\ caller.tenant # c.owner
         /\ p = Policy(m, "Allow", masks_from_sql(t), row_filter_from_sql(t), Nothing)
  BY <1>1, <1>2, <1>3 DEF map_bundle_to_policy
<1> HIDE DEF m
<1>5. ASSUME caller.tenant # c.owner,
             p = Policy(m, "Allow", masks_from_sql(t), row_filter_from_sql(t), Nothing)
      PROVE  Enforces(h, c, caller)
  <2>1. PICK masks, flt : masks = masks_from_sql(t) /\ flt = row_filter_from_sql(t)
    OBVIOUS
  <2>2. /\ h.row_filter = flt /\ h.dp_columns = Nothing
        /\ \A col : ActionOn(h.column_masking, col) = ActionOn(masks, col)
    BY <1>5, <2>1, Handles
  <2>3. \A col : ActionOn(masks, col) = Action(c, col) /\ Action(c, col) \in MaskActions
    BY <1>1, <2>1, TemplateMasks
  <2>4. flt = c.filter \/ (flt = None /\ c.filter \in {None, Empty, "1=1"})
    BY <1>1, <2>1, TemplateFilter
  <2>5. DOMAIN Nothing = {}
    BY DEF Nothing
  <2> QED
    BY <1>5, <2>2, <2>3, <2>4, <2>5 DEF Enforces
<1> QED
  BY <1>4, <1>5, AllowAll

(* The lists of a compiled contract, in either order: both templates, and  *)
(* entries of which the first names the owner.                             *)
LEMMA PairedLists ==
  ASSUME NEW c, NEW b, AsCompiled(b, c)
  PROVE  /\ \E k \in {1, 2} : /\ DOMAIN b.templates = 1 .. 2 /\ b.templates[k] = OtherTemplate(c)
                             /\ \A i \in 1 .. 2 : i # k => b.templates[i] = OwnerTemplate
         /\ owner_tenant(b) = c.owner
<1>1. PICK x, y : x = OwnerTemplate /\ y = OtherTemplate(c)
  OBVIOUS
<1>2. PICK s : s = Compile(c).templates
  OBVIOUS
<1>3. s = <<x, y>>
  BY <1>1, <1>2, Compiled
<1>4. Pair(b.templates, x, y) \/ Pair(b.templates, y, x)
  BY <1>2, <1>3, Pairs DEF AsCompiled, EitherWay
<1>5. \A i \in 1 .. 2 : i = 1 \/ i = 2
  OBVIOUS
<1>6. PICK v, w : v = Entry(c, "read") /\ w = Entry(c, "write")
  OBVIOUS
<1>7. v.tenant = c.owner /\ w.tenant = c.owner
  BY <1>6 DEF Entry
<1>8. PICK e : e = Compile(c).entries
  OBVIOUS
<1>9. e = <<v, w>>
  BY <1>6, <1>8, Compiled
<1>10. Pair(b.entries, v, w) \/ Pair(b.entries, w, v)
  BY <1>8, <1>9, Pairs DEF AsCompiled, EitherWay
<1>11. b.entries[1].tenant = c.owner
  BY <1>7, <1>10 DEF Pair
<1>12. b.entries # <<>>
  <2>1. DOMAIN b.entries = 1 .. 2
    BY <1>10 DEF Pair
  <2>2. 1 \in DOMAIN b.entries
    BY <2>1
  <2> QED
    BY <2>2
<1>13. owner_tenant(b) = c.owner
  BY <1>11, <1>12, Zenon DEF owner_tenant
<1>14. CASE Pair(b.templates, x, y)
  BY <1>1, <1>5, <1>13, <1>14 DEF Pair
<1>15. CASE Pair(b.templates, y, x)
  BY <1>1, <1>5, <1>13, <1>15 DEF Pair
<1> QED
  BY <1>4, <1>14, <1>15

(* A compiled bundle, in any order, enforces its contract.                 *)
LEMMA CompiledEnforces ==
  ASSUME NEW c, NEW b, AsCompiled(b, c), c.owner # Empty, DOMAIN c.dp = {},
         \A col \in DOMAIN c.columns : col # Empty /\ c.columns[col] \in DOMAIN CallFor,
         NEW caller, NEW p, p = map_bundle_to_policy(b, caller), p.decision = "Allow",
         NEW h, h = to_bundle_handle(p)
  PROVE  Enforces(h, c, caller)
<1>1. PICK n \in {1, 2} : /\ DOMAIN b.templates = 1 .. 2 /\ b.templates[n] = OtherTemplate(c)
                          /\ \A i \in 1 .. 2 : i # n => b.templates[i] = OwnerTemplate
  BY PairedLists
<1>2. owner_tenant(b) = c.owner
  BY PairedLists
<1>3. non_owner_template(b) = n
  BY <1>1, FindsOther
<1> QED
  BY <1>1, <1>2, <1>3, BundleEnforces

-----------------------------------------------------------------------------
(* The view of the contract, and what the operators let through of it.     *)

(* A cell tells what was done to it.                                       *)
LEMMA Cells ==
  ASSUME NEW as, NEW of
  PROVE  Cell(as, of).as = as
BY DEF Cell

(* A cell that an operator changes shows what the contract says it shows.  *)
LEMMA CellSeen ==
  ASSUME NEW c, NEW T, NEW col, NEW cell, NEW act, act = Action(c, col), act \in MaskActions,
         NEW dp, DOMAIN dp = DOMAIN c.dp,
         NEW x, x = apply_mask_to_column(cell, T[col], act)
  PROVE  Seen(c, col, cell) =
           (IF col \in DOMAIN dp /\ x.as # "null" THEN Cell("noised", x) ELSE x)
<1> DEFINE token == IF col \in DOMAIN c.columns THEN c.columns[col] ELSE "none"
           word == IF token \in DOMAIN Lowercase THEN Lowercase[token] ELSE token
           m == CASE word = "hash" -> "hash_sha256"
                  [] word = "none" -> "noop"
                  [] OTHER -> word
           masked == CASE m \in {"hash_sha256", "tokenize"} -> Cell("sha256", cell.of)
                       [] m = "partial" -> Cell("tail", cell.of)
                       [] m \in {"redact", "null"} -> Fixed
                       [] m = "noop" -> cell
                       [] OTHER -> Cell("refused", None)
<1>1. Seen(c, col, cell) =
        (IF cell.as = "null" THEN cell
         ELSE IF col \in DOMAIN c.dp THEN Cell("noised", masked) ELSE masked)
  BY DEF Seen
<1>2. m = act
  <2>1. CASE col \in DOMAIN c.columns
    <3>1. act = parse(token)
      BY <2>1 DEF Action
    <3>2. parse(token) = CASE word \in MaskActions -> word
                           [] word = "hash" -> "hash_sha256"
                           [] word = "none" -> "noop"
                           [] OTHER -> "error"
      BY DEF parse
    <3> HIDE DEF word
    <3> QED
      BY <3>1, <3>2 DEF MaskActions
  <2>2. CASE col \notin DOMAIN c.columns
    <3>1. token = "none" /\ "none" \notin DOMAIN Lowercase
      BY <2>2, ScanConstants
    <3>2. word = "none"
      BY <3>1
    <3> HIDE DEF word
    <3> QED
      BY <2>2, <3>2 DEF Action
  <2> QED
    BY <2>1, <2>2
<1> HIDE DEF m
<1>3. CASE cell.as = "null"
  <2>1. x = cell
    BY <1>3 DEF apply_mask_to_column
  <2> QED
    BY <1>1, <1>3, <2>1
<1>4. CASE cell.as # "null"
  <2>1. x = masked /\ x.as # "null"
    <3>1. CASE act = "noop"
      BY <1>2, <1>4, <3>1 DEF apply_mask_to_column
    <3>2. CASE act \in {"hash_sha256", "tokenize"}
      <4>1. x = mask_string_value(cell.of, act)
        BY <1>4, <3>2 DEF apply_mask_to_column, is_string_producing
      <4>2. x = Cell("sha256", cell.of)
        BY <3>2, <4>1 DEF mask_string_value, is_string_producing
      <4> QED
        BY <1>2, <3>2, <4>2, Cells
    <3>3. CASE act = "partial"
      <4>1. x = mask_string_value(cell.of, act)
        BY <1>4, <3>3 DEF apply_mask_to_column, is_string_producing
      <4>2. x = Cell("tail", cell.of)
        BY <3>3, <4>1 DEF mask_string_value, is_string_producing
      <4> QED
        BY <1>2, <3>3, <4>2, Cells
    <3>4. CASE act \in {"redact", "null"}
      <4>1. x = Fixed
        BY <1>4, <3>4 DEF apply_mask_to_column, mask_string_value, is_string_producing
      <4>2. masked = Fixed
        BY <1>2, <3>4
      <4>3. x.as = "fixed"
        BY <4>1, Cells DEF Fixed
      <4> QED
        BY <4>1, <4>2, <4>3
    <3> QED
      BY <3>1, <3>2, <3>3, <3>4 DEF MaskActions
  <2> QED
    BY <1>1, <1>4, <2>1
<1> QED
  BY <1>3, <1>4

(* The contract's filter lets the same rows through as the one compiled.   *)
LEMMA SameRows ==
  ASSUME NEW c \in Authored, NEW f \in DOMAIN Files, NEW i \in DOMAIN Files[f].rows,
         NEW flt, flt \notin {None, Empty} => Compiles(flt, Files[f].types),
         flt = c.filter \/ (flt = None /\ c.filter \in {None, Empty, "1=1"})
  PROVE  Lets(flt, Files[f].rows[i]) <=>
           (c.filter \in {None, Empty} \/ Meant(c.filter, Files[f].rows[i]))
<1>1. PICK row : row = Files[f].rows[i]
  OBVIOUS
<1>2. /\ (c.filter \notin {None, Empty} /\ Compiles(c.filter, Files[f].types)) =>
           (Holds(c.filter, row) <=> Meant(c.filter, row))
      /\ c.filter = "1=1" => Meant(c.filter, row)
  BY <1>1, FiltersMeanWhatTheySay
<1>3. CASE flt = c.filter
  BY <1>1, <1>2, <1>3 DEF Lets
<1>4. CASE flt = None /\ c.filter \in {None, Empty, "1=1"}
  BY <1>1, <1>2, <1>4 DEF Lets
<1> QED
  BY <1>3, <1>4

(* Filter, masks and noise of an enforcing bundle give the caller's view:  *)
(* the same rows, cell by cell.                                            *)
LEMMA ViewIsEnforced ==
  ASSUME NEW c \in Authored, NEW f \in DOMAIN Files, NEW caller, NEW h, Enforces(h, c, caller),
         NEW T, T = Files[f].types, NEW R, R = Files[f].rows, NEW N, N = DOMAIN R,
         Tabular(T, N, R),
         h.row_filter \notin {None, Empty} => N = {} \/ Compiles(h.row_filter, T),
         NEW V, V = View(c, caller, f),
         NEW R3, R3 = AllNoised(N, h.dp_columns, AllMasked(N, T, h.column_masking, R))
  PROVE  /\ DOMAIN V = Passing(N, h.row_filter, R)
         /\ \A i \in DOMAIN V : V[i] = R3[i]
<1>0. T = [col \in DOMAIN T |-> T[col]] /\ \A i \in N : R[i] = [col \in DOMAIN T |-> R[i][col]]
  BY DEF Tabular
<1>1. ASSUME NEW i \in N
      PROVE  R3[i] = NoisedRow(h.dp_columns, MaskedRow(T, h.column_masking, R[i]))
  BY DEF AllNoised, AllMasked
<1>2. CASE caller.tenant = c.owner
  <2>1. /\ h.row_filter = None /\ DOMAIN h.dp_columns = {}
        /\ \A col : ActionOn(h.column_masking, col) = "noop"
    BY <1>2 DEF Enforces
  <2>2. V = R
    BY <1>2 DEF View
  <2>3. Passing(N, h.row_filter, R) = N
    BY <2>1 DEF Passing, Lets
  <2>4. ASSUME NEW i \in N PROVE R3[i] = R[i]
    <3>1. PICK r : r = R[i]
      OBVIOUS
    <3>2. r = [col \in DOMAIN T |-> r[col]]
      BY <1>0, <3>1
    <3>3. MaskedRow(T, h.column_masking, r) = r
      BY <2>1, <3>2 DEF MaskedRow, apply_mask_to_column
    <3>4. NoisedRow(h.dp_columns, r) = r
      BY <2>1, <3>2 DEF NoisedRow
    <3> QED
      BY <1>1, <3>1, <3>3, <3>4
  <2> QED
    BY <2>2, <2>3, <2>4
<1>3. CASE caller.tenant # c.owner
  <2>1. /\ h.row_filter = c.filter \/ (h.row_filter = None /\ c.filter \in {None, Empty, "1=1"})
        /\ \A col : /\ ActionOn(h.column_masking, col) = Action(c, col)
                    /\ Action(c, col) \in MaskActions
        /\ DOMAIN h.dp_columns = DOMAIN c.dp
    BY <1>3 DEF Enforces
  <2> DEFINE kept == {i \in DOMAIN R : c.filter \in {None, Empty} \/ Meant(c.filter, R[i])}
  <2>2. V = [i \in kept |-> [col \in DOMAIN R[i] |-> Seen(c, col, R[i][col])]]
    BY <1>3 DEF View
  <2>3. kept = Passing(N, h.row_filter, R)
    <3>1. ASSUME NEW i \in N
          PROVE  Lets(h.row_filter, R[i]) <=>
                   (c.filter \in {None, Empty} \/ Meant(c.filter, R[i]))
      <4>1. h.row_filter \notin {None, Empty} => Compiles(h.row_filter, T)
        OBVIOUS
      <4> QED
        BY <2>1, <4>1, SameRows
    <3> QED
      BY <3>1 DEF Passing
  <2> HIDE DEF kept
  <2>4. kept \subseteq N
    BY DEF kept
  <2>5. ASSUME NEW i \in kept PROVE V[i] = R3[i]
    <3>1. PICK r : r = R[i]
      OBVIOUS
    <3>2. DOMAIN r = DOMAIN T
      BY <1>0, <2>4, <3>1
    <3>3. PICK M : M = MaskedRow(T, h.column_masking, r)
      OBVIOUS
    <3>4. DOMAIN M = DOMAIN T
      BY <3>3 DEF MaskedRow
    <3>5. ASSUME NEW col \in DOMAIN T
          PROVE  Seen(c, col, r[col]) =
                   (IF col \in DOMAIN h.dp_columns /\ M[col].as # "null"
                    THEN Cell("noised", M[col]) ELSE M[col])
      <4>1. PICK x : x = M[col]
        OBVIOUS
      <4>2. x = apply_mask_to_column(r[col], T[col], Action(c, col))
        BY <2>1, <3>3, <4>1 DEF MaskedRow
      <4> QED
        BY <2>1, <4>1, <4>2, CellSeen
    <3>6. V[i] = [col \in DOMAIN T |-> Seen(c, col, r[col])]
      BY <2>2, <3>1, <3>2
    <3>7. R3[i] = NoisedRow(h.dp_columns, M)
      BY <1>1, <2>4, <3>1, <3>3
    <3>8. NoisedRow(h.dp_columns, M) = [col \in DOMAIN T |-> Seen(c, col, r[col])]
      BY <3>4, <3>5 DEF NoisedRow
    <3> QED
      BY <3>6, <3>7, <3>8
  <2>6. DOMAIN V = kept
    BY <2>2
  <2> QED
    BY <2>3, <2>5, <2>6
<1> QED
  BY <1>2, <1>3

(* What the planner hands to a scan, and a part of the rows N of R.        *)
Whole(a) == /\ a.where # None => a.where.column \in a.columns
            /\ a.limit # None => a.limit \in Nat
PartOf(V, N, R) == DOMAIN V \subseteq N /\ \A i \in DOMAIN V : V[i] = R[i]

(* The rows of a view that the query chooses are those it chooses by what  *)
(* comes out, which has the columns that its predicate reads.              *)
LEMMA ChosenOfView ==
  ASSUME NEW a, Whole(a), NEW V, NEW R3, NEW N, PartOf(V, N, R3),
         NEW Out, Out = AllChosen(N, a.columns, R3),
         NEW C, C = Wheres(DOMAIN V, a.where, Out)
  PROVE  /\ C = {i \in DOMAIN V : a.where = None \/ Matches(V[i], a.where)}
         /\ \A i \in C : Out[i] = [col \in a.columns |-> V[i][col]]
<1> DEFINE chosen == {i \in DOMAIN V : a.where = None \/ Matches(V[i], a.where)}
<1>1. \A i \in DOMAIN V : Out[i] = ChosenRow(a.columns, V[i])
  BY DEF AllChosen, PartOf
<1>2. chosen = C
  <2>1. CASE a.where = None
    BY <2>1 DEF Wheres
  <2>2. CASE a.where # None
    <3>1. ASSUME NEW i \in DOMAIN V PROVE Matches(V[i], a.where) <=> Matches(Out[i], a.where)
      <4>1. Out[i][a.where.column] = V[i][a.where.column]
        <5>1. PICK w \in a.columns : w = a.where.column
          BY <2>2 DEF Whole
        <5>2. \A r : ChosenRow(a.columns, r)[w] = r[w]
          BY DEF ChosenRow
        <5> QED
          BY <1>1, <5>1, <5>2
      <4> QED
        BY <4>1 DEF Matches
    <3>2. C = {i \in DOMAIN V : Matches(Out[i], a.where)}
      BY <2>2 DEF Wheres, Matching
    <3> QED
      BY <2>2, <3>1, <3>2
  <2> QED
    BY <2>1, <2>2
<1>3. C \subseteq DOMAIN V
  BY <1>2
<1> QED
  BY <1>1, <1>2, <1>3 DEF ChosenRow

-----------------------------------------------------------------------------
(* The answer, as far as a file was read: a query with the bundle h asks a *)
(* of file f.                                                              *)
OutOf(f, h, a) ==
  OutRows(DOMAIN Files[f].rows, h, Files[f].types, a.columns, Files[f].rows)
ChosenOf(f, h, a) ==
  Wheres(Passing(DOMAIN Files[f].rows, h.row_filter, Files[f].rows), a.where, OutOf(f, h, a))

(* The rows of the batches S.                                              *)
ReadOf(f, S) == UNION {BatchRows(f, n) : n \in S}

(* A file is a finite table, and all of its rows are in its batches.       *)
LEMMA FileFacts ==
  ASSUME NEW f \in DOMAIN Files, NEW T, T = Files[f].types, NEW R, R = Files[f].rows
  PROVE  /\ DOMAIN R \subseteq Nat /\ IsFiniteSet(DOMAIN R)
         /\ Tabular(T, DOMAIN R, R)
         /\ ReadOf(f, Batches(f)) = DOMAIN R
<1>1. /\ T = [col \in DOMAIN T |-> T[col]]
      /\ Len(R) \in Nat /\ R = [i \in 1 .. Len(R) |-> R[i]]
      /\ \A i \in 1 .. Len(R) : R[i] = [col \in DOMAIN T |-> R[i][col]]
  BY FilesAreTables
<1>2. DOMAIN R = 1 .. Len(R)
  BY <1>1
<1>3. IsFiniteSet(1 .. Len(R))
  <2>1. 1 \in Int /\ Len(R) \in Int
    BY <1>1
  <2> QED
    BY <2>1, FS_Interval, Zenon
<1>4. DOMAIN R \subseteq Nat
  BY <1>1, <1>2
<1>5. UNION {BatchRows(f, n) : n \in Batches(f)} = 1 .. Len(R)
  BY FilesAreTables, Zenon
<1>6. ReadOf(f, Batches(f)) = DOMAIN R
  BY <1>2, <1>5 DEF ReadOf
<1> QED
  BY <1>1, <1>2, <1>3, <1>4, <1>6 DEF Tabular

(* A batch more is rows of the file that were not read before.             *)
LEMMA ReadMore ==
  ASSUME NEW f \in DOMAIN Files, NEW S, S \subseteq Batches(f),
         NEW n, n \in Batches(f), n \notin S
  PROVE  /\ BatchRows(f, n) \subseteq DOMAIN Files[f].rows
         /\ ReadOf(f, S) \cap BatchRows(f, n) = {}
         /\ ReadOf(f, S \cup {n}) = ReadOf(f, S) \cup BatchRows(f, n)
<1>0. PICK D, B : D = ReadOf(f, S) /\ B = BatchRows(f, n)
  OBVIOUS
<1>1. ReadOf(f, Batches(f)) = DOMAIN Files[f].rows
  BY FileFacts
<1>2. B \subseteq ReadOf(f, Batches(f))
  BY <1>0 DEF ReadOf
<1>3. ASSUME NEW m \in S PROVE BatchRows(f, m) \cap B = {}
  <2>1. m \in Batches(f) /\ n \in Batches(f) /\ m # n
    OBVIOUS
  <2>2. \A i, j \in Batches(f) : i # j => BatchRows(f, i) \cap BatchRows(f, j) = {}
    BY FilesAreTables, Zenon
  <2> QED
    BY <1>0, <2>1, <2>2
<1>4. D \cap B = {}
  BY <1>0, <1>3 DEF ReadOf
<1>5. ReadOf(f, S \cup {n}) = D \cup B
  BY <1>0 DEF ReadOf
<1> QED
  BY <1>0, <1>1, <1>2, <1>4, <1>5

(* The rows of a batch.                                                    *)
LEMMA RawShows ==
  ASSUME NEW f, NEW n, NEW B, B = BatchRows(f, n), NEW raw, raw = BatchOf(f, n)
  PROVE  Shows(raw, Files[f].types, B, Files[f].rows)
<1> DEFINE S == Restrict(Files[f].rows, B)
<1>1. raw = Batch(Files[f].types, S)
  BY DEF BatchOf
<1>2. DOMAIN S = B /\ \A i \in B : S[i] = Files[f].rows[i]
  BY DEF Restrict
<1> HIDE DEF S
<1> QED
  BY <1>1, <1>2, BatchShows

(* What passes of a batch is what passes of the file, in the batch.        *)
LEMMA ChosenInBatch ==
  ASSUME NEW N, NEW D, D \subseteq N, NEW flt, NEW R, NEW where, NEW Out,
         NEW C, C = Wheres(Passing(N, flt, R), where, Out),
         NEW E, E = Wheres(Passing(D, flt, R), where, Out)
  PROVE  E = C \cap D
<1>1. Passing(D, flt, R) = Passing(N, flt, R) \cap D
  BY DEF Passing
<1>2. CASE where = None
  BY <1>1, <1>2 DEF Wheres
<1>3. CASE where # None
  <2>1. PICK P, Q : P = Passing(N, flt, R) /\ Q = Passing(D, flt, R)
    OBVIOUS
  <2>2. C = Matching(P, where, Out) /\ E = Matching(Q, where, Out)
    BY <1>3, <2>1 DEF Wheres
  <2> QED
    BY <1>1, <2>1, <2>2 DEF Matching
<1> QED
  BY <1>2, <1>3

(* Rows are only ever selected.                                            *)
LEMMA ChosenInFile ==
  ASSUME NEW N, NEW flt, NEW R, NEW where, NEW Out
  PROVE  Wheres(Passing(N, flt, R), where, Out) \subseteq N
BY DEF Wheres, Passing, Matching

(* What has been answered when the rows D were read, C being those that    *)
(* are chosen in the whole file: the chosen ones, all or up to the limit.  *)
Partial(C, D, Out, limit, ans) ==
  /\ DOMAIN ans \subseteq C \cap D
  /\ \A i \in DOMAIN ans : ans[i] = Out[i]
  /\ limit = None => DOMAIN ans = C \cap D
  /\ limit # None => /\ Cardinality(DOMAIN ans) <= limit
                     /\ Cardinality(DOMAIN ans) = limit \/ DOMAIN ans = C \cap D

Answered(f, h, a, S, ans) == Partial(ChosenOf(f, h, a), ReadOf(f, S), OutOf(f, h, a), a.limit, ans)

(* It stays so with one more batch, whichever it is.                       *)
LEMMA OneBatchMore ==
  ASSUME NEW C \in SUBSET Nat, IsFiniteSet(C), NEW D, NEW B, D \cap B = {}, NEW Out,
         NEW limit, limit # None => limit \in Nat, NEW ans, Partial(C, D, Out, limit, ans),
         NEW X, X = StillGiven(C \cap B, limit, Cardinality(DOMAIN ans)),
         NEW more, DOMAIN more = X, \A i \in X : more[i] = Out[i]
  PROVE  Partial(C, D \cup B, Out, limit, Collected(ans, more))
<1>1. PICK G, E : G = DOMAIN ans /\ E = C \cap B
  OBVIOUS
<1>2. PICK all : all = Collected(ans, more)
  OBVIOUS
<1>3. DOMAIN all = G \cup X /\ \A i \in G \cup X : all[i] = IF i \in X THEN more[i] ELSE ans[i]
  BY <1>1, <1>2 DEF Collected
<1>4. /\ G \subseteq C \cap D /\ \A i \in G : ans[i] = Out[i]
      /\ limit = None => G = C \cap D
      /\ limit # None => /\ Cardinality(G) <= limit
                         /\ Cardinality(G) = limit \/ G = C \cap D
  BY <1>1 DEF Partial
<1>5. \A i \in DOMAIN all : all[i] = Out[i]
  BY <1>3, <1>4
<1>6. C \cap (D \cup B) = (C \cap D) \cup E
  BY <1>1
<1>7. CASE limit = None
  <2>1. X = E /\ G = C \cap D
    BY <1>1, <1>4, <1>7 DEF StillGiven
  <2>2. DOMAIN all = C \cap (D \cup B)
    BY <1>3, <1>6, <2>1
  <2> QED
    BY <1>2, <1>5, <1>7, <2>2 DEF Partial
<1>8. CASE limit # None
  <2>1. IsFiniteSet(G) /\ IsFiniteSet(E) /\ E \in SUBSET Nat /\ G \cap E = {}
    <3>1. G \subseteq C /\ E \subseteq C
      BY <1>1, <1>4
    <3>2. G \cap E = {}
      BY <1>1, <1>4
    <3> QED
      BY <3>1, <3>2, FS_Subset
  <2>2. X = First(E, limit - Cardinality(G))
    BY <1>1, <1>8 DEF StillGiven
  <2>3. limit \in Nat /\ Cardinality(G) <= limit
    BY <1>4, <1>8
  <2>4. /\ X \subseteq E /\ Cardinality(G \cup X) <= limit
        /\ Cardinality(G \cup X) = limit \/ (X = E /\ Cardinality(G) # limit)
    BY <2>1, <2>2, <2>3, LimitAdds
  <2>5. Cardinality(DOMAIN all) <= limit
    BY <1>3, <2>4
  <2>6. Cardinality(DOMAIN all) = limit \/ DOMAIN all = C \cap (D \cup B)
    BY <1>3, <1>4, <1>6, <1>8, <2>4
  <2>7. DOMAIN all \subseteq C \cap (D \cup B)
    BY <1>3, <1>4, <1>6, <2>4
  <2> QED
    BY <1>2, <1>5, <1>8, <2>5, <2>6, <2>7 DEF Partial
<1> QED
  BY <1>7, <1>8

(* Before anything is read the answer is empty.                            *)
LEMMA NoneRead ==
  ASSUME NEW f, NEW h, NEW a, Whole(a)
  PROVE  Answered(f, h, a, {}, Nothing)
<1>1. DOMAIN Nothing = {} /\ Cardinality({}) = 0
  BY Policies, FS_EmptySet
<1>2. ReadOf(f, {}) = {}
  BY DEF ReadOf
<1>3. a.limit # None => 0 <= a.limit
  BY DEF Whole
<1> QED
  BY <1>1, <1>2, <1>3 DEF Answered, Partial

(* When all batches are in, or the limit is reached, the answer is a       *)
(* result of the query on the view.                                        *)
LEMMA AllRead ==
  ASSUME NEW c \in Authored, NEW f \in DOMAIN Files, NEW caller, NEW h, Enforces(h, c, caller),
         NEW a, Whole(a), NEW S, NEW ans, Answered(f, h, a, S, ans),
         S = Batches(f) \/ (a.limit # None /\ Cardinality(DOMAIN ans) = a.limit),
         S = {} \/ h.row_filter \in {None, Empty} \/ Compiles(h.row_filter, Files[f].types)
  PROVE  IsResult(ans, a, View(c, caller, f))
<1>0. PICK T, R : T = Files[f].types /\ R = Files[f].rows
  OBVIOUS
<1>1. PICK N : N = DOMAIN R
  OBVIOUS
<1>2. Tabular(T, N, R) /\ ReadOf(f, Batches(f)) = N
  BY <1>0, <1>1, FileFacts
<1>3. PICK C, D, Out : C = ChosenOf(f, h, a) /\ D = ReadOf(f, S) /\ Out = OutOf(f, h, a)
  OBVIOUS
<1>4. Partial(C, D, Out, a.limit, ans)
  BY <1>3 DEF Answered
<1>5. PICK V : V = View(c, caller, f)
  OBVIOUS
<1>6. PICK chosen : chosen = {i \in DOMAIN V : a.where = None \/ Matches(V[i], a.where)}
  OBVIOUS
<1>7. a.limit # None => Cardinality(DOMAIN ans) <= a.limit
  BY <1>4 DEF Partial
<1>8. CASE h.row_filter \notin {None, Empty} => N = {} \/ Compiles(h.row_filter, T)
  <2>1. PICK R3 : R3 = AllNoised(N, h.dp_columns, AllMasked(N, T, h.column_masking, R))
    OBVIOUS
  <2>2. DOMAIN V = Passing(N, h.row_filter, R) /\ \A i \in DOMAIN V : V[i] = R3[i]
    BY <1>0, <1>1, <1>2, <1>5, <1>8, <2>1, ViewIsEnforced
  <2>3. Out = AllChosen(N, a.columns, R3)
    BY <1>0, <1>1, <1>3, <2>1 DEF OutOf, OutRows
  <2>4. C = Wheres(DOMAIN V, a.where, Out)
    BY <1>0, <1>1, <1>3, <2>2 DEF ChosenOf
  <2>5. PartOf(V, N, R3)
    BY <2>2 DEF Passing, PartOf
  <2>6. C = chosen /\ \A i \in C : Out[i] = [col \in a.columns |-> V[i][col]]
    BY <1>6, <2>3, <2>4, <2>5, ChosenOfView
  <2>7. C \subseteq N
    BY <1>0, <1>1, <1>3, ChosenInFile DEF ChosenOf
  <2>8. DOMAIN ans \subseteq chosen /\ \A i \in DOMAIN ans : ans[i] = [col \in a.columns |-> V[i][col]]
    BY <1>4, <2>6 DEF Partial
  <2>9. DOMAIN ans = chosen \/ (a.limit # None /\ Cardinality(DOMAIN ans) = a.limit)
    <3>1. CASE S = Batches(f)
      <4>1. C \cap D = chosen
        BY <1>2, <1>3, <2>6, <2>7, <3>1
      <4> QED
        BY <1>4, <4>1 DEF Partial
    <3> QED
      BY <3>1
  <2> QED
    BY <1>5, <1>6, <1>7, <2>8, <2>9 DEF IsResult
<1>9. CASE S = {} /\ ~ (h.row_filter \notin {None, Empty} => N = {} \/ Compiles(h.row_filter, T))
  <2>1. D = {}
    BY <1>3, <1>9 DEF ReadOf
  <2>2. DOMAIN ans = {}
    BY <1>4, <2>1 DEF Partial
  <2>3. S # Batches(f)
    BY <1>2, <1>3, <1>9, <2>1
  <2> QED
    BY <1>5, <1>6, <1>7, <2>2, <2>3 DEF IsResult
<1> QED
  BY <1>0, <1>8, <1>9

-----------------------------------------------------------------------------
(* What holds of every query on the way to its answer.                     *)

Bundle(q) == to_bundle_handle(policy[q])

(* Nothing is read before a plan runs.                                     *)
Fresh(q) ==
  at[q] \in {"idle", "resolving", "binding", "planning"} =>
    taken[q] = {} /\ answer[q] = Nothing /\ emitted[q] = {}

(* The policy is that of a contract somebody wrote, to the letter.         *)
Exact(q) ==
  policy[q].decision = "Allow" =>
    Contract(q) \in Authored /\ Enforces(Bundle(q), Contract(q), ask[q].caller)

Opened(q) ==
  at[q] \in {"planning", "running", "answered"} =>
    /\ file[q] \in DOMAIN Files
    /\ announced[q] = masked_output_schema(Files[file[q]].types, Bundle(q).column_masking)

(* The plan is in order, the batches are of the announced types, and the   *)
(* answer is what the batches read so far give.                            *)
Ran(q) ==
  /\ at[q] \in {"running", "answered"} =>
       /\ Canonical(plan[q], policy[q], ask[q])
       /\ Answered(file[q], Bundle(q), ask[q], taken[q], answer[q])
       /\ \/ taken[q] = {} \/ Bundle(q).row_filter \in {None, Empty}
          \/ Compiles(Bundle(q).row_filter, Files[file[q]].types)
  /\ at[q] = "answered" => taken[q] = Batches(file[q]) \/ LimitReached(q)
  /\ \A t \in emitted[q] : t = ChosenRow(ask[q].columns, announced[q])

Answering(q) ==
  /\ at[q] # "idle" => Whole(ask[q])
  /\ Fresh(q) /\ Exact(q) /\ Opened(q) /\ Ran(q)

Library ==
  /\ DOMAIN announced = Queries /\ DOMAIN answer = Queries /\ DOMAIN emitted = Queries
  /\ source = "json" => \A d \in DOMAIN contracts : contracts[d] \in Authored

Answers == Library /\ \A q \in Queries : Answering(q)

(* The contracts of a directory are documents of it.                       *)
LEMMA Loaded ==
  ASSUME NEW docs \in Directories, NEW d \in DOMAIN from_json_strs(docs)
  PROVE  from_json_strs(docs)[d] \in Authored
<1> DEFINE S == {i \in DOMAIN docs : docs[i].dataset = d}
           last == CHOOSE i \in DOMAIN docs :
                     /\ docs[i].dataset = d
                     /\ \A j \in DOMAIN docs : docs[j].dataset = d => j <= i
<1>1. PICK n \in Nat : n = Len(docs) /\ DOMAIN docs = 1 .. n
  BY ScanConstants
<1>2. /\ d \in {docs[i].dataset : i \in DOMAIN docs}
      /\ from_json_strs(docs)[d] = docs[last]
  BY DEF from_json_strs
<1>3. \E i \in DOMAIN docs : /\ docs[i].dataset = d
                             /\ \A j \in DOMAIN docs : docs[j].dataset = d => j <= i
  <2> DEFINE Bounds == {k \in Nat : \A i \in S : i <= k}
  <2>1. n \in Bounds
    BY <1>1
  <2>2. Bounds \subseteq Nat /\ Bounds # {}
    BY <2>1
  <2>3. PICK k \in Bounds : \A j \in Bounds : k <= j
    <3> HIDE DEF Bounds
    <3> QED
      BY <2>2, Least
  <2>4. PICK e \in S : TRUE
    BY <1>2
  <2>5. k \in Nat /\ k >= 1
    BY <1>1, <2>4
  <2>6. k \in S
    <3> SUFFICES ASSUME k \notin S PROVE FALSE
      OBVIOUS
    <3>1. PICK m \in Nat : m = k - 1
      BY <2>5
    <3>2. \A i \in S : i <= m
      <4> TAKE i \in S
      <4>1. i \in Nat /\ i <= k /\ i # k
        BY <1>1
      <4> QED
        BY <2>5, <3>1, <4>1
    <3>3. m \in Bounds
      BY <3>2
    <3> QED
      BY <2>3, <2>5, <3>1, <3>3
  <2> QED
    BY <2>3, <2>6
<1>4. last \in DOMAIN docs
  BY <1>3
<1> HIDE DEF last
<1>5. docs[last] \in Range(docs)
  BY <1>4 DEF Range
<1> QED
  BY <1>2, <1>5 DEF Authored

(* So is what the authority publishes.                                     *)
LEMMA Published ==
  ASSUME NEW d \in DOMAIN Versions, NEW v \in 1 .. Len(Versions[d])
  PROVE  Versions[d][v] \in Authored
<1>1. v \in DOMAIN Versions[d]
  BY ScanConstants
<1>2. Versions[d][v] \in Range(Versions[d])
  BY <1>1 DEF Range
<1> QED
  BY <1>2 DEF Authored

SameOut(p) == announced'[p] = announced[p] /\ answer'[p] = answer[p] /\ emitted'[p] = emitted[p]

(* A query that does not move keeps what it has.                           *)
LEMMA AnsweringStays ==
  ASSUME NEW p \in Queries, Phase(p), Answering(p), Same(p), SameOut(p),
         UNCHANGED <<source, contracts>> \/ source = "unloaded"
  PROVE  Answering(p)'
<1>1. Bundle(p)' = Bundle(p)
  BY DEF Bundle, Same
<1>2. Fresh(p)' /\ (at'[p] # "idle" => Whole(ask'[p]))
  BY DEF Answering, Fresh, Same, SameOut
<1>3. Exact(p)'
  <2>1. CASE source = "unloaded"
    BY <2>1 DEF Phase, Exact, Same, Platforms
  <2>2. CASE UNCHANGED <<source, contracts>>
    <3>1. Contract(p)' = Contract(p)
      BY <2>2 DEF Contract, Same
    <3> QED
      BY <1>1, <3>1 DEF Answering, Exact, Same
  <2> QED
    BY <2>1, <2>2
<1>4. Opened(p)'
  BY <1>1 DEF Answering, Opened, Same, SameOut
<1>5. Ran(p)'
  BY <1>1 DEF Answering, Ran, Same, SameOut, LimitReached
<1> QED
  BY <1>2, <1>3, <1>4, <1>5 DEF Answering

(* One query moves.                                                        *)
LEMMA OneAnswers ==
  ASSUME Inv, Answers, NEW q \in Queries, UNCHANGED <<source, contracts>>,
         DOMAIN announced' = Queries, DOMAIN answer' = Queries, DOMAIN emitted' = Queries,
         \A p \in Queries : p # q => Same(p) /\ SameOut(p), Answering(q)'
  PROVE  Answers'
<1>1. ASSUME NEW p \in Queries, p # q PROVE Answering(p)'
  <2>1. Phase(p) /\ Answering(p)
    BY DEF Inv, Query, Answers
  <2> QED
    BY <1>1, <2>1, AnsweringStays
<1>2. Library'
  BY DEF Answers, Library
<1> QED
  BY <1>1, <1>2 DEF Answers

(* A new query has no rows, and its predicate reads its own columns.       *)
LEMMA SubmitAnswers ==
  ASSUME Inv, Answers, NEW q \in Queries, NEW caller \in Callers, NEW a \in Asks,
         Submit(q, caller, a)
  PROVE  Answers'
<1>1. PICK place \in {"failed", "resolving"} : at' = [at EXCEPT ![q] = place]
  BY DEF Submit
<1>2. PICK asked : asked = Asked(caller, a)
  OBVIOUS
<1>3. /\ at[q] = "idle" /\ ask' = [ask EXCEPT ![q] = asked]
      /\ since' = [since EXCEPT ![q] = published]
      /\ UNCHANGED <<source, contracts, policy, file, announced, plan, taken, answer, emitted,
                     envelope>>
  BY <1>2 DEF Submit
<1>4. Whole(asked)
  <2>1. asked.columns = a.columns /\ asked.where = a.where /\ asked.limit = a.limit
    BY <1>2 DEF Asked
  <2> QED
    BY <2>1, AsksAreWhole DEF Whole
<1>5. \A p \in Queries : p # q => Same(p) /\ SameOut(p)
  BY <1>1, <1>3 DEF Inv, Maps, Same, SameOut
<1>6. at'[q] = place /\ ask'[q] = asked
  BY <1>1, <1>3 DEF Inv, Maps
<1>7. policy[q].decision = "Error" /\ taken[q] = {} /\ answer[q] = Nothing /\ emitted[q] = {}
  BY <1>3 DEF Inv, Query, Phase, Answers, Answering, Fresh
<1>8. Answering(q)'
  BY <1>1, <1>3, <1>4, <1>6, <1>7 DEF Answering, Fresh, Exact, Opened, Ran
<1>9. DOMAIN announced' = Queries /\ DOMAIN answer' = Queries /\ DOMAIN emitted' = Queries
  BY <1>3 DEF Answers, Library
<1> QED
  BY <1>3, <1>5, <1>8, <1>9, OneAnswers

(* table(), first half.                                                    *)
LEMMA ResolvedAnswers ==
  ASSUME Inv, Answers, NEW q \in Queries, at[q] = "resolving", NEW p, Resolved(q, p),
         NEW c, p.decision = "Allow" =>
           /\ c \in Authored /\ Enforces(to_bundle_handle(p), c, ask[q].caller)
           /\ source = "json" => c = contracts[ask[q].dataset]
           /\ source \in Platforms => c = Versions[p.contract_id][p.version]
  PROVE  Answers'
<1>1. PICK place \in {"failed", "binding"} : at' = [at EXCEPT ![q] = place]
  BY DEF Resolved
<1>2. /\ policy' = [policy EXCEPT ![q] = p]
      /\ UNCHANGED <<source, contracts, published, ask, since, file, announced, plan, taken,
                     answer, emitted, envelope>>
  BY DEF Resolved
<1>3. \A r \in Queries : r # q => Same(r) /\ SameOut(r)
  BY <1>1, <1>2 DEF Inv, Maps, Same, SameOut
<1>4. at'[q] = place /\ policy'[q] = p
  BY <1>1, <1>2 DEF Inv, Maps
<1>5. /\ taken[q] = {} /\ answer[q] = Nothing /\ emitted[q] = {} /\ Whole(ask[q])
      /\ source \in {"json"} \cup Platforms
  BY DEF Inv, Query, Phase, Answers, Answering, Fresh
<1>6. Exact(q)'
  <2> SUFFICES ASSUME p.decision = "Allow"
               PROVE  /\ Contract(q)' \in Authored
                      /\ Enforces(Bundle(q)', Contract(q)', ask'[q].caller)
    BY <1>4 DEF Exact
  <2>1. Bundle(q)' = to_bundle_handle(p)
    BY <1>4 DEF Bundle
  <2>2. Contract(q)' = c
    BY <1>2, <1>4, <1>5 DEF Contract
  <2> QED
    BY <1>2, <2>1, <2>2
<1>7. Answering(q)'
  BY <1>1, <1>2, <1>4, <1>5, <1>6 DEF Answering, Fresh, Opened, Ran
<1>8. DOMAIN announced' = Queries /\ DOMAIN answer' = Queries /\ DOMAIN emitted' = Queries
  BY <1>2 DEF Answers, Library
<1> QED
  BY <1>2, <1>3, <1>7, <1>8, OneAnswers

(* A JSON contract becomes a policy that enforces it.                      *)
LEMMA ResolveJsonAnswers ==
  ASSUME Inv, Answers, NEW q \in Queries, ResolveJson(q)
  PROVE  Answers'
<1>1. PICK p : p = resolve(contracts, ask[q].dataset, ask[q].caller)
  OBVIOUS
<1>2. at[q] = "resolving" /\ source = "json" /\ Resolved(q, p)
  BY <1>1 DEF ResolveJson
<1>3. PICK c : c = contracts[ask[q].dataset]
  OBVIOUS
<1>4. ASSUME p.decision = "Allow"
      PROVE  c \in Authored /\ Enforces(to_bundle_handle(p), c, ask[q].caller)
  <2>1. ask[q].dataset \in DOMAIN contracts
    BY <1>1, <1>4, JsonEnforces
  <2>2. Enforces(to_bundle_handle(p), c, ask[q].caller)
    BY <1>1, <1>3, <1>4, JsonEnforces
  <2> QED
    BY <1>2, <1>3, <2>1, <2>2 DEF Answers, Library
<1> QED
  BY <1>2, <1>3, <1>4, ResolvedAnswers DEF Platforms

(* So does a bundle that was accepted, whatever its order.                 *)
LEMMA ResolvePlatformAnswers ==
  ASSUME Inv, Answers, NEW q \in Queries, ResolvePlatform(q)
  PROVE  Answers'
<1>1. at[q] = "resolving" /\ source \in Platforms
  BY DEF ResolvePlatform
<1>2. CASE ask[q].dataset \in DOMAIN Versions
  <2>1. PICK d \in DOMAIN Versions : d = ask[q].dataset
    BY <1>2
  <2>2. PICK f \in Responses(d) : Resolved(q, fetch(q, f))
    BY <1>2, <2>1 DEF ResolvePlatform
  <2>3. PICK p : p = fetch(q, f)
    OBVIOUS
  <2>4. \A e \in DOMAIN Versions : published[e] \in 1 .. Len(Versions[e])
    BY DEF Inv, Maps
  <2>5. ASSUME p.decision = "Allow"
        PROVE  \E c : /\ c \in Authored /\ Enforces(to_bundle_handle(p), c, ask[q].caller)
                      /\ c = Versions[p.contract_id][p.version]
    <3>1. PICK e, v : /\ Public(e, v, d) /\ AsCompiled(f.bundle, Versions[e][v])
                      /\ p = map_bundle_to_policy(f.bundle, ask[q].caller)
                      /\ FromContract(p, Versions[e][v], ask[q].caller)
      BY <2>3, <2>4, <2>5, ResponsePolicy
    <3>2. e \in DOMAIN Versions /\ v \in 1 .. Len(Versions[e])
      BY <2>4, <3>1, ScanConstants DEF Public
    <3>3. PICK c : c = Versions[e][v]
      OBVIOUS
    <3>4. c.contract_id = e /\ c.version = v /\ DOMAIN c.dp = {}
      BY <3>2, <3>3, ScanConstants
    <3>5. /\ c.owner # Empty
          /\ \A col \in DOMAIN c.columns : col # Empty /\ c.columns[col] \in DOMAIN CallFor
      BY <3>2, <3>3, PublishedCompile
    <3>6. c \in Authored
      BY <3>2, <3>3, Published
    <3>7. Enforces(to_bundle_handle(p), c, ask[q].caller)
      BY <2>5, <3>1, <3>3, <3>4, <3>5, CompiledEnforces
    <3>8. p.contract_id = e /\ p.version = v
      BY <3>1, <3>3, <3>4 DEF FromContract
    <3> QED
      BY <3>3, <3>6, <3>7, <3>8
  <2>6. PICK c : p.decision = "Allow" => /\ c \in Authored /\ c = Versions[p.contract_id][p.version]
                                         /\ Enforces(to_bundle_handle(p), c, ask[q].caller)
    BY <2>5
  <2> QED
    BY <1>1, <2>1, <2>2, <2>3, <2>6, ResolvedAnswers DEF Platforms
<1>3. CASE ask[q].dataset \notin DOMAIN Versions
  <2>1. Resolved(q, fetch(q, None))
    BY <1>3 DEF ResolvePlatform
  <2>2. PICK p : p = fetch(q, None)
    OBVIOUS
  <2>3. p.decision # "Allow"
    BY <2>2, Policies DEF fetch
  <2> QED
    BY <1>1, <2>1, <2>2, <2>3, ResolvedAnswers
<1> QED
  BY <1>2, <1>3

(* The later steps of a query leave its policy alone.                      *)
LEMMA ExactStays ==
  ASSUME Answers, NEW q \in Queries, UNCHANGED <<source, contracts, ask, policy>>
  PROVE  Exact(q)' /\ Bundle(q)' = Bundle(q)
<1>1. Contract(q)' = Contract(q)
  BY DEF Contract
<1>2. Bundle(q)' = Bundle(q)
  BY DEF Bundle
<1> QED
  BY <1>1, <1>2 DEF Answers, Answering, Exact

(* The announced schema is the masked one of the file bound here.          *)
LEMMA BindAnswers ==
  ASSUME Inv, Answers, NEW q \in Queries, Bind(q)
  PROVE  Answers'
<1>1. /\ at[q] = "binding"
      /\ UNCHANGED <<source, contracts, published, ask, since, policy, plan, taken, answer,
                     emitted, envelope>>
  BY DEF Bind
<1>2. PICK f, schema : f = BoundFile(q) /\ schema = masked_output_schema(Files[f].types, Bundle(q).column_masking)
  OBVIOUS
<1>3. \/ at' = [at EXCEPT ![q] = "failed"] /\ file' = file /\ announced' = announced
      \/ /\ at' = [at EXCEPT ![q] = "planning"] /\ f \in DOMAIN Files
         /\ file' = [file EXCEPT ![q] = f] /\ announced' = [announced EXCEPT ![q] = schema]
  BY <1>2 DEF Bind, Fail, Bundle
<1>4. DOMAIN announced = Queries /\ DOMAIN answer = Queries /\ DOMAIN emitted = Queries
  BY DEF Answers, Library
<1>5. DOMAIN announced' = Queries /\ DOMAIN answer' = Queries /\ DOMAIN emitted' = Queries
  BY <1>1, <1>3, <1>4
<1>6. \A p \in Queries : p # q => Same(p) /\ SameOut(p)
  BY <1>1, <1>3, <1>4 DEF Inv, Maps, Same, SameOut
<1>7. \/ at'[q] = "failed"
      \/ /\ at'[q] = "planning" /\ file'[q] = f /\ f \in DOMAIN Files /\ announced'[q] = schema
  BY <1>3, <1>4 DEF Inv, Maps
<1>8. taken[q] = {} /\ answer[q] = Nothing /\ emitted[q] = {} /\ Whole(ask[q])
  BY <1>1 DEF Answers, Answering, Fresh
<1>9. Exact(q)' /\ Bundle(q)' = Bundle(q)
  BY <1>1, ExactStays
<1>10. Opened(q)'
  BY <1>2, <1>7, <1>9 DEF Opened
<1>11. Answering(q)'
  BY <1>1, <1>7, <1>8, <1>9, <1>10 DEF Answering, Fresh, Ran
<1> QED
  BY <1>1, <1>5, <1>6, <1>11, OneAnswers

(* A fresh plan is in order, and nothing has been read.                    *)
LEMMA PlanAnswers ==
  ASSUME Inv, Answers, NEW q \in Queries, Plan(q)
  PROVE  Answers'
<1>1. /\ at[q] = "planning"
      /\ UNCHANGED <<source, contracts, published, ask, since, policy, file, announced, taken,
                     answer, emitted, envelope>>
  BY DEF Plan
<1>2. \/ at' = [at EXCEPT ![q] = "failed"] /\ plan' = plan
      \/ /\ at' = [at EXCEPT ![q] = "running"]
         /\ plan' = [plan EXCEPT ![q] = scan(policy[q], ask[q])]
  BY DEF Plan, Fail
<1>3. DOMAIN announced' = Queries /\ DOMAIN answer' = Queries /\ DOMAIN emitted' = Queries
  BY <1>1 DEF Answers, Library
<1>4. \A p \in Queries : p # q => Same(p) /\ SameOut(p)
  BY <1>1, <1>2 DEF Inv, Maps, Same, SameOut
<1>5. \/ at'[q] = "failed"
      \/ at'[q] = "running" /\ plan'[q] = scan(policy[q], ask[q])
  BY <1>2 DEF Inv, Maps
<1>6. /\ taken[q] = {} /\ answer[q] = Nothing /\ emitted[q] = {} /\ Whole(ask[q])
      /\ Opened(q)
  BY <1>1 DEF Answers, Answering, Fresh
<1>7. Exact(q)' /\ Bundle(q)' = Bundle(q)
  BY <1>1, ExactStays
<1>8. Opened(q)'
  BY <1>1, <1>5, <1>6, <1>7 DEF Opened
<1>9. Ran(q)'
  <2>1. CASE at'[q] = "failed"
    BY <1>1, <1>6, <2>1 DEF Ran
  <2>2. CASE at'[q] = "running" /\ plan'[q] = scan(policy[q], ask[q])
    <3>1. Canonical(plan'[q], policy'[q], ask'[q])
      BY <1>1, <2>2, ScanCanonical
    <3>2. Answered(file'[q], Bundle(q)', ask'[q], taken'[q], answer'[q])
      BY <1>1, <1>6, NoneRead
    <3> QED
      BY <1>1, <1>6, <2>2, <3>1, <3>2 DEF Ran
  <2> QED
    BY <1>5, <2>1, <2>2
<1>10. Answering(q)'
  BY <1>1, <1>5, <1>6, <1>7, <1>8, <1>9 DEF Answering, Fresh
<1> QED
  BY <1>1, <1>3, <1>4, <1>10, OneAnswers

(* A rewritten plan still is.                                              *)
LEMMA OptimizeAnswers ==
  ASSUME Inv, Answers, NEW q \in Queries, Optimize(q)
  PROVE  Answers'
<1>1. /\ at[q] = "running"
      /\ UNCHANGED <<source, contracts, published, ask, since, policy, file, announced, taken,
                     answer, emitted, envelope>>
  BY DEF Optimize
<1>2. \/ at' = [at EXCEPT ![q] = "failed"] /\ plan' = plan
      \/ \E p \in Rewrites(plan[q]) : at' = at /\ plan' = [plan EXCEPT ![q] = p]
  BY DEF Optimize, Fail
<1>3. DOMAIN announced' = Queries /\ DOMAIN answer' = Queries /\ DOMAIN emitted' = Queries
  BY <1>1 DEF Answers, Library
<1>4. \A p \in Queries : p # q => Same(p) /\ SameOut(p)
  BY <1>1, <1>2 DEF Inv, Maps, Same, SameOut
<1>5. \/ at'[q] = "failed"
      \/ at'[q] = "running" /\ plan'[q] \in Rewrites(plan[q])
  BY <1>1, <1>2 DEF Inv, Maps
<1>6. Opened(q) /\ Ran(q) /\ Whole(ask[q])
  BY <1>1 DEF Answers, Answering
<1>7. Exact(q)' /\ Bundle(q)' = Bundle(q)
  BY <1>1, ExactStays
<1>8. Opened(q)'
  BY <1>1, <1>5, <1>6, <1>7 DEF Opened
<1>9. Ran(q)'
  <2>1. CASE at'[q] = "failed"
    BY <1>1, <1>6, <2>1 DEF Ran
  <2>2. CASE at'[q] = "running" /\ plan'[q] \in Rewrites(plan[q])
    <3>1. plan[q] \in Seq(Operators) /\ Canonical(plan[q], policy[q], ask[q])
      BY <1>1, <1>6 DEF Ran, Inv, Query, Built
    <3>2. Canonical(plan'[q], policy[q], ask[q])
      BY <2>2, <3>1, RewritesCanonical
    <3> QED
      BY <1>1, <1>6, <1>7, <2>2, <3>2 DEF Ran
  <2> QED
    BY <1>5, <2>1, <2>2
<1>10. Answering(q)'
  BY <1>1, <1>5, <1>6, <1>7, <1>8, <1>9 DEF Answering, Fresh
<1> QED
  BY <1>1, <1>3, <1>4, <1>10, OneAnswers

(* A batch that comes through the plan has the announced types, and adds   *)
(* its rows to the answer.                                                 *)
LEMMA BatchAnswers ==
  ASSUME Inv, Answers, NEW q \in Queries, at[q] = "running",
         NEW f, f = file[q], NEW n \in Batches(f) \ taken[q],
         NEW up, up = RunAll(q, BatchOf(f, n)), up.ok
  PROVE  /\ Answered(f, Bundle(q), ask[q], taken[q] \cup {n}, Collected(answer[q], up.rows))
         /\ up.types = ChosenRow(ask[q].columns, announced[q])
         /\ Bundle(q).row_filter \notin {None, Empty} =>
              Compiles(Bundle(q).row_filter, Files[f].types)
<1>1. PICK h, a : h = Bundle(q) /\ a = ask[q]
  OBVIOUS
<1>2. f \in DOMAIN Files /\ f # None
  BY ScanConstants DEF Answers, Answering, Opened
<1>3. /\ Whole(a) /\ taken[q] \subseteq Batches(f)
      /\ announced[q] = masked_output_schema(Files[f].types, h.column_masking)
      /\ plan[q] \in Seq(Operators) /\ Canonical(plan[q], policy[q], ask[q])
      /\ Answered(f, h, a, taken[q], answer[q])
  BY <1>1, <1>2 DEF Answers, Answering, Opened, Ran, Inv, Query, Phase, Built
<1>4. PICK T, R : T = Files[f].types /\ R = Files[f].rows
  OBVIOUS
<1>5. PICK N : N = DOMAIN R
  OBVIOUS
<1>6. N \subseteq Nat /\ IsFiniteSet(N) /\ Tabular(T, N, R)
  BY <1>2, <1>4, <1>5, FileFacts
<1>7. PICK D, B : D = ReadOf(f, taken[q]) /\ B = BatchRows(f, n)
  OBVIOUS
<1>8. B \subseteq N /\ D \cap B = {} /\ ReadOf(f, taken[q] \cup {n}) = D \cup B
  <2>1. PICK S : S = taken[q] /\ S \subseteq Batches(f) /\ n \in Batches(f) /\ n \notin S
    BY <1>3
  <2>2. /\ BatchRows(f, n) \subseteq DOMAIN Files[f].rows
        /\ ReadOf(f, S) \cap BatchRows(f, n) = {}
        /\ ReadOf(f, S \cup {n}) = ReadOf(f, S) \cup BatchRows(f, n)
    BY <1>2, <2>1, ReadMore
  <2> QED
    BY <1>4, <1>5, <1>7, <2>1, <2>2
<1>9. Tabular(T, B, R)
  BY <1>6, <1>8 DEF Tabular
<1>10. PICK raw : raw = BatchOf(f, n)
  OBVIOUS
<1>11. Shows(raw, T, B, R)
  BY <1>4, <1>7, <1>10, RawShows
<1>12. PICK Out : Out = OutRows(N, h, T, ask[q].columns, R)
  OBVIOUS
<1>13. PICK D1 : D1 = Passing(B, h.row_filter, R)
  OBVIOUS
<1>14. PICK D2 : D2 = Wheres(D1, ask[q].where, Out)
  OBVIOUS
<1>15. PICK F : F = ChosenRow(ask[q].columns, masked_output_schema(T, h.column_masking))
  OBVIOUS
<1>16. h = to_bundle_handle(policy[q]) /\ T = Files[file[q]].types /\ up = RunAll(q, raw)
  BY <1>1, <1>4, <1>10 DEF Bundle
<1>17. /\ h.row_filter \notin {None, Empty} => Compiles(h.row_filter, T)
       /\ Shows(up, F, StillGiven(D2, ask[q].limit, Cardinality(DOMAIN answer[q])), Out)
  <2>1. Rises(q, h, T, B, R, N, raw, up, Out, D1, D2, F)
    BY <1>3, <1>8, <1>9, <1>11, <1>12, <1>13, <1>14, <1>15, <1>16 DEF Rises
  <2> QED
    BY <2>1, PlanShows
<1>18. PICK C : C = ChosenOf(f, h, a)
  OBVIOUS
<1>19. Out = OutOf(f, h, a) /\ C = Wheres(Passing(N, h.row_filter, R), a.where, Out)
  BY <1>1, <1>4, <1>5, <1>12, <1>18 DEF OutOf, ChosenOf
<1>20. D2 = C \cap B
  BY <1>1, <1>8, <1>13, <1>14, <1>19, ChosenInBatch
<1>21. C \subseteq N
  BY <1>19, ChosenInFile
<1>22. C \in SUBSET Nat /\ IsFiniteSet(C)
  BY <1>6, <1>21, FS_Subset
<1>23. PICK ans, limit : ans = answer[q] /\ limit = a.limit
  OBVIOUS
<1>24. Partial(C, D, Out, limit, ans) /\ (limit # None => limit \in Nat)
  BY <1>3, <1>7, <1>18, <1>19, <1>23 DEF Answered, Whole
<1>25. PICK X : X = StillGiven(C \cap B, limit, Cardinality(DOMAIN ans))
  OBVIOUS
<1>26. Shows(up, F, X, Out)
  BY <1>1, <1>17, <1>20, <1>23, <1>25
<1>27. PICK more : more = up.rows
  OBVIOUS
<1>28. DOMAIN more = X /\ (\A i \in X : more[i] = Out[i]) /\ up.types = F
  BY <1>26, <1>27 DEF Shows
<1>29. Partial(C, D \cup B, Out, limit, Collected(ans, more))
  BY <1>8, <1>22, <1>24, <1>25, <1>28, OneBatchMore
<1>30. Answered(f, h, a, taken[q] \cup {n}, Collected(ans, more))
  BY <1>8, <1>18, <1>19, <1>23, <1>29 DEF Answered
<1> QED
  BY <1>1, <1>3, <1>4, <1>15, <1>17, <1>23, <1>27, <1>28, <1>30

(* A batch extends the answer or fails the query.                          *)
LEMMA CollectAnswers ==
  ASSUME Inv, Answers, NEW q \in Queries, CollectBatch(q)
  PROVE  Answers'
<1>1. /\ at[q] = "running"
      /\ UNCHANGED <<source, contracts, published, ask, since, policy, file, announced, plan,
                     envelope>>
  BY DEF CollectBatch
<1>2. PICK n \in Batches(file[q]) \ taken[q] : LET up == RunAll(q, BatchOf(file[q], n)) IN
        \/ /\ up.ok /\ at' = at
           /\ answer' = [answer EXCEPT ![q] = Collected(@, up.rows)]
           /\ emitted' = [emitted EXCEPT ![q] = @ \cup {up.types}]
           /\ taken' = [taken EXCEPT ![q] = @ \cup {n}]
        \/ /\ at' = [at EXCEPT ![q] = "failed"]
           /\ answer' = [answer EXCEPT ![q] = Nothing] /\ taken' = taken /\ emitted' = emitted
  BY DEF CollectBatch, Fail
<1>3. PICK up : up = RunAll(q, BatchOf(file[q], n))
  OBVIOUS
<1>4. DOMAIN announced = Queries /\ DOMAIN answer = Queries /\ DOMAIN emitted = Queries
  BY DEF Answers, Library
<1>5. DOMAIN announced' = Queries /\ DOMAIN answer' = Queries /\ DOMAIN emitted' = Queries
  BY <1>1, <1>2, <1>3, <1>4
<1>6. \A p \in Queries : p # q => Same(p) /\ SameOut(p)
  BY <1>1, <1>2, <1>3, <1>4 DEF Inv, Maps, Same, SameOut
<1>7. \/ /\ up.ok /\ at'[q] = "running" /\ taken'[q] = taken[q] \cup {n}
         /\ answer'[q] = Collected(answer[q], up.rows)
         /\ emitted'[q] = emitted[q] \cup {up.types}
      \/ at'[q] = "failed" /\ emitted'[q] = emitted[q]
  BY <1>1, <1>2, <1>3, <1>4 DEF Inv, Maps
<1>8. Opened(q) /\ Ran(q) /\ Whole(ask[q])
  BY <1>1 DEF Answers, Answering
<1>9. Exact(q)' /\ Bundle(q)' = Bundle(q)
  BY <1>1, ExactStays
<1>10. Opened(q)'
  BY <1>1, <1>7, <1>8, <1>9 DEF Opened
<1>11. Ran(q)'
  <2>1. CASE at'[q] = "failed" /\ emitted'[q] = emitted[q]
    BY <1>1, <1>8, <2>1 DEF Ran
  <2>2. CASE /\ up.ok /\ at'[q] = "running" /\ taken'[q] = taken[q] \cup {n}
             /\ answer'[q] = Collected(answer[q], up.rows)
             /\ emitted'[q] = emitted[q] \cup {up.types}
    <3>1. PICK f : f = file[q]
      OBVIOUS
    <3>2. /\ Answered(f, Bundle(q), ask[q], taken[q] \cup {n}, Collected(answer[q], up.rows))
          /\ up.types = ChosenRow(ask[q].columns, announced[q])
          /\ Bundle(q).row_filter \notin {None, Empty} =>
               Compiles(Bundle(q).row_filter, Files[f].types)
      BY <1>1, <1>3, <2>2, <3>1, BatchAnswers
    <3> QED
      BY <1>1, <1>8, <1>9, <2>2, <3>1, <3>2 DEF Ran
  <2> QED
    BY <1>7, <2>1, <2>2
<1>12. Answering(q)'
  BY <1>1, <1>7, <1>8, <1>9, <1>10, <1>11 DEF Answering, Fresh
<1> QED
  BY <1>1, <1>5, <1>6, <1>12, OneAnswers

(* The end of the stream changes no rows.                                  *)
LEMMA FinishAnswers ==
  ASSUME Inv, Answers, NEW q \in Queries, Finish(q)
  PROVE  Answers'
<1>1. /\ at[q] = "running" /\ at' = [at EXCEPT ![q] = "answered"]
      /\ taken[q] = Batches(file[q]) \/ LimitReached(q)
      /\ UNCHANGED <<source, contracts, published, ask, since, policy, file, announced, plan,
                     taken, answer, emitted>>
  BY DEF Finish
<1>2. \E e : envelope' = envelope \/ envelope' = [envelope EXCEPT ![q] = e]
  BY DEF Finish
<1>3. DOMAIN announced' = Queries /\ DOMAIN answer' = Queries /\ DOMAIN emitted' = Queries
  BY <1>1 DEF Answers, Library
<1>4. \A p \in Queries : p # q => Same(p) /\ SameOut(p)
  BY <1>1, <1>2 DEF Inv, Maps, Same, SameOut
<1>5. at'[q] = "answered"
  BY <1>1 DEF Inv, Maps
<1>6. Opened(q) /\ Ran(q) /\ Whole(ask[q])
  BY <1>1 DEF Answers, Answering
<1>7. Exact(q)' /\ Bundle(q)' = Bundle(q)
  BY <1>1, ExactStays
<1>8. Opened(q)' /\ Ran(q)'
  BY <1>1, <1>5, <1>6, <1>7 DEF Opened, Ran, LimitReached
<1>9. Answering(q)'
  BY <1>1, <1>5, <1>6, <1>7, <1>8 DEF Answering, Fresh
<1> QED
  BY <1>1, <1>3, <1>4, <1>9, OneAnswers

(* The source is chosen before any query.                                  *)
LEMMA SourceAnswers ==
  ASSUME Inv, Answers,
         \/ \E docs \in Directories : LoadDirectory(docs)
         \/ UsePlatform
         \/ \E d \in DOMAIN Versions : Publish(d)
         \/ UNCHANGED vars
  PROVE  Answers'
<1>1. UNCHANGED <<at, ask, since, policy, file, announced, plan, taken, answer, emitted, envelope>>
  BY DEF LoadDirectory, UsePlatform, Publish, vars
<1>2. UNCHANGED <<source, contracts>> \/ source = "unloaded"
  BY DEF LoadDirectory, UsePlatform, Publish, vars
<1>3. \/ UNCHANGED <<source, contracts>> \/ source' # "json"
      \/ \E docs \in Directories : contracts' = from_json_strs(docs)
  BY DEF LoadDirectory, UsePlatform, Publish, vars, Platforms
<1>4. Library'
  BY <1>1, <1>3, Loaded DEF Answers, Library
<1>5. ASSUME NEW p \in Queries PROVE Answering(p)'
  <2>1. Phase(p) /\ Answering(p) /\ Same(p) /\ SameOut(p)
    BY <1>1 DEF Inv, Query, Answers, Same, SameOut
  <2> QED
    BY <1>2, <2>1, AnsweringStays
<1> QED
  BY <1>4, <1>5 DEF Answers

(* No query has been asked.                                                *)
LEMMA AnswersInit == Init => Answers
<1> SUFFICES ASSUME Init PROVE Answers
  OBVIOUS
<1>1. Library
  BY DEF Init, Library
<1>2. ASSUME NEW q \in Queries PROVE Answering(q)
  <2>1. /\ at[q] = "idle" /\ policy[q] = Unresolved /\ taken[q] = {}
        /\ answer[q] = Nothing /\ emitted[q] = {}
    BY <1>2 DEF Init
  <2>2. policy[q].decision # "Allow"
    BY <2>1, Policies
  <2> QED
    BY <2>1, <2>2 DEF Answering, Fresh, Exact, Opened, Ran
<1> QED
  BY <1>1, <1>2 DEF Answers

(* The invariant holds throughout.                                         *)
LEMMA AnswersAlways == Spec => []Answers
<1>1. Inv /\ Answers /\ [Next]_vars => Answers'
  BY SubmitAnswers, ResolveJsonAnswers, ResolvePlatformAnswers, BindAnswers, PlanAnswers,
     OptimizeAnswers, CollectAnswers, FinishAnswers, SourceAnswers DEF Next
<1> QED
  BY <1>1, AnswersInit, InvAlways, PTL DEF Spec

-----------------------------------------------------------------------------
(* Results.                                                                *)

(* "They MUST agree" (masking_exec.rs), for every contract, file and plan: *)
(* no batch leaves a plan with types other than those announced.           *)
THEOREM BatchesAsAnnounced == Spec => []SchemaAsAnnounced
<1>1. Answers => SchemaAsAnnounced
  BY DEF Answers, Answering, Ran, ChosenRow, SchemaAsAnnounced
<1> QED
  BY <1>1, AnswersAlways, PTL

(* Every answer is given to a caller the contract permits and is, row for  *)
(* row, a result of the query on that caller's view of the data: whatever  *)
(* the optimizer put between the operators, and in whatever order the      *)
(* batches came.                                                           *)
THEOREM AnsweredFromTheView == Spec => []AnswersFromView
<1>1. Inv /\ Answers => AnswersFromView
  <2> SUFFICES ASSUME Inv, Answers, NEW q \in Queries, at[q] = "answered"
               PROVE  /\ Permitted(Contract(q), ask[q].caller)
                      /\ IsResult(answer[q], ask[q], View(Contract(q), ask[q].caller, file[q]))
    BY DEF AnswersFromView
  <2>1. policy[q].decision = "Allow"
    BY DEF Inv, Query, Phase
  <2>2. Permitted(Contract(q), ask[q].caller)
    BY <2>1 DEF Inv, Query, Governed, FromContract
  <2>3. PICK c : c = Contract(q)
    OBVIOUS
  <2>4. PICK f, h, a, caller : f = file[q] /\ h = Bundle(q) /\ a = ask[q] /\ caller = ask[q].caller
    OBVIOUS
  <2>5. c \in Authored /\ Enforces(h, c, caller)
    BY <2>1, <2>3, <2>4 DEF Answers, Answering, Exact
  <2>6. f \in DOMAIN Files /\ Whole(a)
    BY <2>4 DEF Answers, Answering, Opened
  <2>7. /\ Answered(f, h, a, taken[q], answer[q])
        /\ taken[q] = Batches(f) \/ (a.limit # None /\ Cardinality(DOMAIN answer[q]) = a.limit)
        /\ \/ taken[q] = {} \/ h.row_filter \in {None, Empty}
           \/ Compiles(h.row_filter, Files[f].types)
    BY <2>4 DEF Answers, Answering, Ran, LimitReached
  <2>8. IsResult(answer[q], a, View(c, caller, f))
    BY <2>5, <2>6, <2>7, AllRead
  <2> QED
    BY <2>2, <2>3, <2>4, <2>8
<1> QED
  BY <1>1, InvAlways, AnswersAlways, PTL
=============================================================================
