------------------------ MODULE LaplaceNoiseProofs ------------------------
(***************************************************************************)
(* The noise operator and its budget for any number of execs, partitions   *)
(* and batches, any schema and any epsilons: types, the budget that races  *)
(* cannot overdraw, and what the envelope's epsilon is.                    *)
(***************************************************************************)
EXTENDS LaplaceNoise, FiniteSetTheorems, TLAPS

Failed(r) == [r EXCEPT !.at = "failed"]

(* Only partition p of exec e moved, and to r.                             *)
Moved(e, p, r) ==
  /\ part' \in [Execs -> [Partitions -> Parts]]
  /\ part'[e][p] = r
  /\ \A f \in Execs, q \in Partitions : (f # e \/ q # p) => part'[f][q] = part[f][q]

LEMMA PartMoves ==
  ASSUME part \in [Execs -> [Partitions -> Parts]],
         NEW e \in Execs, NEW p \in Partitions, NEW r \in Parts,
         part' = [part EXCEPT ![e] = [part[e] EXCEPT ![p] = r]]
  PROVE  Moved(e, p, r)
BY DEF Moved

(* What each step of a partition does to it.                               *)
LEMMA PartitionMoves ==
  ASSUME TypeOK, NEW e \in Execs, NEW p \in Partitions
  PROVE  LET r == part[e][p] IN
    /\ BatchArrives(e, p) => Moved(e, p, Applying(r.left - 1, 1, r.acc))
    /\ BatchFails(e, p) \/ BudgetExhausted(e, p) =>
         Moved(e, p, Failed(r))
    /\ SkipColumn(e, p) => Moved(e, p, Applying(r.left, r.col + 1, r.acc))
    /\ NoiseColumn(e, p) =>
         IF Column(e, p) \in Noisable[e]
         THEN Moved(e, p, Applying(r.left, r.col + 1, r.acc + Epsilon[Column(e, p)]))
         ELSE Moved(e, p, Failed(r))
    /\ BatchLeaves(e, p) => Moved(e, p, Waiting(r.left, r.acc))
<1> DEFINE r == part[e][p]
<1>a. /\ part \in [Execs -> [Partitions -> Parts]] /\ r \in Parts
      /\ Len(Schema) \in Nat /\ DOMAIN Schema = 1 .. Len(Schema)
  BY LaplaceConstants DEF TypeOK
<1>b. /\ r.at \in {"waiting", "applying", "failed"} /\ r.left \in 0 .. MaxBatches
      /\ r.col \in 0 .. Len(Schema) + 1 /\ r.acc \in Nat
  BY <1>a DEF Parts
<1>1. ASSUME BatchArrives(e, p)
      PROVE  Moved(e, p, Applying(r.left - 1, 1, r.acc))
  <2>1. Applying(r.left - 1, 1, r.acc) \in Parts
    BY <1>1, <1>a, <1>b, LaplaceConstants DEF BatchArrives, Parts, Applying
  <2>2. part' = [part EXCEPT ![e] = [part[e] EXCEPT ![p] = Applying(r.left - 1, 1, r.acc)]]
    BY <1>1 DEF BatchArrives
  <2> QED
    BY <2>1, <2>2, <1>a, PartMoves
<1>2. ASSUME BatchFails(e, p) \/ BudgetExhausted(e, p)
      PROVE  Moved(e, p, Failed(r))
  <2>1. Failed(r) \in Parts
    BY <1>a, <1>b DEF Parts, Failed
  <2>2. part' = [part EXCEPT ![e] = [part[e] EXCEPT ![p] = Failed(r)]]
    BY <1>2 DEF BatchFails, BudgetExhausted, Failed
  <2> QED
    BY <2>1, <2>2, <1>a, PartMoves
<1>3. ASSUME SkipColumn(e, p)
      PROVE  Moved(e, p, Applying(r.left, r.col + 1, r.acc))
  <2>1. Applying(r.left, r.col + 1, r.acc) \in Parts
    BY <1>3, <1>a, <1>b DEF SkipColumn, Parts, Applying
  <2>2. part' = [part EXCEPT ![e] = [part[e] EXCEPT ![p] = Applying(r.left, r.col + 1, r.acc)]]
    BY <1>3 DEF SkipColumn
  <2> QED
    BY <2>1, <2>2, <1>a, PartMoves
<1>4. ASSUME NoiseColumn(e, p)
      PROVE  IF Column(e, p) \in Noisable[e]
             THEN Moved(e, p, Applying(r.left, r.col + 1, r.acc + Epsilon[Column(e, p)]))
             ELSE Moved(e, p, Failed(r))
  <2> DEFINE c == Column(e, p)
  <2>1. r.at = "applying" /\ r.col \in DOMAIN Schema /\ c \in Protected
    BY <1>4 DEF NoiseColumn, AtProtectedColumn
  <2>2. Epsilon[c] \in Nat
    BY <2>1, LaplaceConstants
  <2>3. CASE c \in Noisable[e]
    <3>1. Applying(r.left, r.col + 1, r.acc + Epsilon[c]) \in Parts
      BY <2>1, <2>2, <1>a, <1>b DEF Parts, Applying
    <3>3. part' = [part EXCEPT ![e] = [part[e] EXCEPT ![p] =
                     Applying(r.left, r.col + 1, r.acc + Epsilon[c])]]
      BY <1>4, <2>3 DEF NoiseColumn
    <3> QED
      BY <3>1, <3>3, <2>3, <1>a, PartMoves
  <2>4. CASE c \notin Noisable[e]
    <3>1. Failed(r) \in Parts
      BY <1>a, <1>b DEF Parts, Failed
    <3>2. part' = [part EXCEPT ![e][p].at = "failed"]
      BY <1>4, <2>4 DEF NoiseColumn
    <3>3. part' = [part EXCEPT ![e] = [part[e] EXCEPT ![p] = Failed(r)]]
      BY <3>2 DEF Failed
    <3> QED
      BY <3>1, <3>3, <2>4, <1>a, PartMoves
  <2> QED
    BY <2>3, <2>4
<1>5. ASSUME BatchLeaves(e, p)
      PROVE  Moved(e, p, Waiting(r.left, r.acc))
  <2>1. Waiting(r.left, r.acc) \in Parts
    BY <1>a, <1>b DEF Parts, Waiting
  <2>2. part' = [part EXCEPT ![e] = [part[e] EXCEPT ![p] = Waiting(r.left, r.acc)]]
    BY <1>5 DEF BatchLeaves
  <2> QED
    BY <2>1, <2>2, <1>a, PartMoves
<1> QED
  BY <1>1, <1>2, <1>3, <1>4, <1>5

(* How often a column is in the schema is a number, and the same number    *)
(* of debits is held for it by a batch that has been through every column. *)
LEMMA InSchemaFinite ==
  /\ IsFiniteSet(DOMAIN Schema)
  /\ \A c : InSchema(c) \in Nat
<1>1. Len(Schema) \in Nat /\ DOMAIN Schema = 1 .. Len(Schema)
  BY LaplaceConstants
<1>2. IsFiniteSet(1 .. Len(Schema))
  BY <1>1, FS_Interval
<1>3. ASSUME NEW c PROVE InSchema(c) \in Nat
  <2> DEFINE S == {i \in DOMAIN Schema : Schema[i] = c}
  <2>1. IsFiniteSet(S)
    BY <1>1, <1>2, FS_Subset
  <2> QED
    BY <2>1, FS_CardinalityType DEF InSchema
<1> QED
  BY <1>1, <1>2, <1>3

-----------------------------------------------------------------------------
(* Types.                                                                  *)

(* A batch in hand is at a column of the schema, or past the last one.     *)
InBatch ==
  \A e \in Execs, p \in Partitions :
    part[e][p].at = "applying" => part[e][p].col \in 1 .. Len(Schema) + 1

Typed == TypeOK /\ InBatch

LEMMA TypedInit == Init => Typed
<1> SUFFICES ASSUME Init PROVE Typed
  OBVIOUS
<1>1. Len(Schema) \in Nat
  BY LaplaceConstants
<1>2. Waiting(0, 0) \in Parts
  BY <1>1, LaplaceConstants DEF Waiting, Parts
<1>3. part \in [Execs -> [Partitions -> Parts]]
  BY <1>2 DEF Init
<1>4. InBatch
  BY DEF Init, InBatch, Waiting
<1>5. spent \in [Execs -> [Partitions -> Nat]]
  BY DEF Init, NothingSpent
<1>6. remaining \in [Protected -> Int] /\ released \in [Protected -> Nat]
  BY LaplaceConstants DEF Init
<1>7. runs \in [Execs -> 0 .. MaxRuns]
  BY LaplaceConstants DEF Init
<1> QED
  BY <1>3, <1>4, <1>5, <1>6, <1>7 DEF Init, Typed, TypeOK

LEMMA InBatchMoves ==
  ASSUME InBatch, NEW e \in Execs, NEW p \in Partitions, NEW r, Moved(e, p, r),
         r.at = "applying" => r.col \in 1 .. Len(Schema) + 1
  PROVE  InBatch'
BY DEF InBatch, Moved

LEMMA TypedStep == Typed /\ [Next]_vars => Typed'
<1> SUFFICES ASSUME Typed, [Next]_vars PROVE Typed'
  OBVIOUS
<1>a. TypeOK /\ InBatch
  BY DEF Typed
<1>b. part \in [Execs -> [Partitions -> Parts]]
  BY <1>a DEF TypeOK
<1>s. Len(Schema) \in Nat /\ DOMAIN Schema = 1 .. Len(Schema)
  BY LaplaceConstants
<1>1. ASSUME NEW e \in Execs, Execute(e) PROVE Typed'
  <2>1. PICK n \in [Partitions -> 0 .. MaxBatches] :
          part' = [part EXCEPT ![e] = [p \in Partitions |-> Waiting(n[p], 0)]]
    BY <1>1 DEF Execute
  <2>2. \A p \in Partitions : Waiting(n[p], 0) \in Parts
    BY <1>s DEF Waiting, Parts
  <2>3. part' \in [Execs -> [Partitions -> Parts]]
    BY <2>1, <2>2, <1>b
  <2>4. InBatch'
    BY <2>1, <1>a, <1>b DEF InBatch, Waiting
  <2>5. runs' \in [Execs -> 0 .. MaxRuns] /\ phase' \in [Execs -> {"new", "running", "attested", "failed"}]
    BY <1>1, <1>a, LaplaceConstants DEF Execute, TypeOK
  <2>6. spent' \in [Execs -> [Partitions -> Nat]]
    BY <1>1, <1>a DEF Execute, TypeOK, NothingSpent
  <2> QED
    BY <2>3, <2>4, <2>5, <2>6, <1>1, <1>a DEF Execute, Typed, TypeOK
<1>2. ASSUME NEW e \in Execs, Attest(e) PROVE Typed'
  BY <1>2, <1>a DEF Attest, Typed, TypeOK, InBatch
<1>3. ASSUME NEW e \in Execs, Abort(e) PROVE Typed'
  BY <1>3, <1>a DEF Abort, Typed, TypeOK, InBatch
<1>4. ASSUME NEW e \in Execs, NEW p \in Partitions, Partition(e, p) PROVE Typed'
  <2> DEFINE r == part[e][p]
  <2>r. r.col \in 0 .. Len(Schema) + 1 /\ r.acc \in Nat
    BY <1>b DEF Parts
  <2>1. CASE BatchArrives(e, p)
    <3>1. Moved(e, p, Applying(r.left - 1, 1, r.acc))
      BY <2>1, <1>a, PartitionMoves
    <3>2. InBatch'
      BY <3>1, <1>a, <1>s, InBatchMoves DEF Applying
    <3> QED
      BY <3>1, <3>2, <2>1, <1>a DEF BatchArrives, Typed, TypeOK, Moved
  <2>2. CASE BatchFails(e, p) \/ BudgetExhausted(e, p)
    <3>1. Moved(e, p, Failed(r))
      BY <2>2, <1>a, PartitionMoves
    <3>2. Failed(r).at = "failed"
      BY <1>b DEF Failed, Parts
    <3>3. InBatch'
      BY <3>1, <3>2, <1>a, InBatchMoves
    <3> QED
      BY <3>1, <3>3, <2>2, <1>a DEF BatchFails, BudgetExhausted, Typed, TypeOK, Moved
  <2>3. CASE SkipColumn(e, p)
    <3>1. Moved(e, p, Applying(r.left, r.col + 1, r.acc))
      BY <2>3, <1>a, PartitionMoves
    <3>2. r.col + 1 \in 1 .. Len(Schema) + 1
      BY <2>3, <2>r, <1>s DEF SkipColumn
    <3>3. InBatch'
      BY <3>1, <3>2, <1>a, <1>s, InBatchMoves DEF Applying
    <3> QED
      BY <3>1, <3>3, <2>3, <1>a DEF SkipColumn, Typed, TypeOK, Moved
  <2>4. CASE NoiseColumn(e, p)
    <3> DEFINE c == Column(e, p)
    <3>0. c \in Protected /\ r.col \in DOMAIN Schema
      BY <2>4 DEF NoiseColumn, AtProtectedColumn
    <3>1. Epsilon[c] \in Nat
      BY <3>0, LaplaceConstants
    <3>2. spent' \in [Execs -> [Partitions -> Nat]]
      BY <2>4, <3>1, <1>a DEF NoiseColumn, Consume, TypeOK
    <3>3. remaining' \in [Protected -> Int]
      <4>1. remaining' = [remaining EXCEPT ![c] = @ - Epsilon[c]] \/ remaining' = remaining
        BY <2>4 DEF NoiseColumn, Consume
      <4>2. remaining \in [Protected -> Int]
        BY <1>a DEF TypeOK
      <4> QED
        BY <4>1, <4>2, <3>0, <3>1
    <3>4. part' \in [Execs -> [Partitions -> Parts]] /\ InBatch'
      <4>1. CASE c \in Noisable[e]
        <5>1. Moved(e, p, Applying(r.left, r.col + 1, r.acc + Epsilon[c]))
          BY <4>1, <2>4, <1>a, PartitionMoves
        <5>2. r.col + 1 \in 1 .. Len(Schema) + 1
          BY <3>0, <2>r, <1>s
        <5> QED
          BY <5>1, <5>2, <1>a, InBatchMoves DEF Moved, Applying
      <4>2. CASE c \notin Noisable[e]
        <5>1. Moved(e, p, Failed(r))
          BY <4>2, <2>4, <1>a, PartitionMoves
        <5>2. Failed(r).at = "failed"
          BY <1>b DEF Failed, Parts
        <5> QED
          BY <5>1, <5>2, <1>a, InBatchMoves DEF Moved
      <4> QED
        BY <4>1, <4>2
    <3> QED
      BY <3>2, <3>3, <3>4, <2>4, <1>a DEF NoiseColumn, Typed, TypeOK
  <2>5. CASE BatchLeaves(e, p)
    <3>1. Moved(e, p, Waiting(r.left, r.acc))
      BY <2>5, <1>a, PartitionMoves
    <3>2. InBatch'
      BY <3>1, <1>a, InBatchMoves DEF Waiting
    <3>3. out' \in [Execs -> Nat]
      BY <2>5, <2>r, <1>a DEF BatchLeaves, TypeOK
    <3>4. \A c : InSchema(c) \in Nat
      BY InSchemaFinite
    <3>5. released' \in [Protected -> Nat]
      BY <2>5, <3>4, <1>a DEF BatchLeaves, TypeOK
    <3> QED
      BY <3>1, <3>2, <3>3, <3>5, <2>5, <1>a DEF BatchLeaves, Typed, TypeOK, Moved
  <2> QED
    BY <1>4, <2>1, <2>2, <2>3, <2>4, <2>5 DEF Partition
<1>5. CASE UNCHANGED vars
  BY <1>5, <1>a DEF vars, Typed, TypeOK, InBatch
<1> QED
  BY <1>1, <1>2, <1>3, <1>4, <1>5 DEF Next

(* The values stay in their ranges whatever the partitions and execs do:   *)
(* in particular no partition takes a batch past the end of its stream     *)
(* (execute) and apply_dp_to_batch never leaves the schema.                *)
THEOREM TypeCorrect == Spec => []TypeOK
<1>1. Typed => TypeOK
  BY DEF Typed
<1> QED
  BY TypedInit, TypedStep, <1>1, PTL DEF Spec

-----------------------------------------------------------------------------
(* The budget.                                                             *)

Debits == (Execs \X Partitions) \X DOMAIN Schema

(* The debits for column c of batches still in an operator.                *)
Held(c) ==
  {x \in Debits :
     /\ part[x[1][1]][x[1][2]].at = "applying"
     /\ x[2] < part[x[1][1]][x[1][2]].col
     /\ Schema[x[2]] = c}

(* What has left and what is still held was paid for.                      *)
Paid ==
  enabled => \A c \in Protected :
    /\ remaining[c] >= - Slack
    /\ Epsilon[c] * (released[c] + Cardinality(Held(c))) <= Seeded[c] - remaining[c]

LEMMA DebitsFinite ==
  ASSUME NEW T \in SUBSET Debits
  PROVE  IsFiniteSet(T) /\ Cardinality(T) \in Nat
<1>1. IsFiniteSet(Execs \X Partitions)
  BY LaplaceConstants, FS_Product
<1>2. IsFiniteSet(Debits)
  BY <1>1, InSchemaFinite, FS_Product DEF Debits
<1> QED
  BY <1>2, FS_Subset, FS_CardinalityType

LEMMA HeldDebits == \A c : Held(c) \in SUBSET Debits /\ Held(c)' \in SUBSET Debits
BY DEF Held

(* The debits for c of one partition, if it were in state r, and those of  *)
(* all the others.                                                         *)
HeldIn(r, c) ==
  {i \in DOMAIN Schema : r.at = "applying" /\ i < r.col /\ Schema[i] = c}
HeldBy(e, p, r, c) == {x \in Debits : x[1] = <<e, p>> /\ x[2] \in HeldIn(r, c)}
Others(e, p, c) == {x \in Held(c) : x[1] # <<e, p>>}

LEMMA HeldSplits ==
  ASSUME NEW e \in Execs, NEW p \in Partitions, NEW c
  PROVE  /\ Held(c) = Others(e, p, c) \cup HeldBy(e, p, part[e][p], c)
         /\ \A r : Moved(e, p, r) => Held(c)' = Others(e, p, c) \cup HeldBy(e, p, r, c)
<1>1. \A x \in Debits : x[1] \in Execs \X Partitions /\ x[2] \in DOMAIN Schema
  BY DEF Debits
<1>2. \A y \in Execs \X Partitions : y[1] \in Execs /\ y[2] \in Partitions /\ y = <<y[1], y[2]>>
  OBVIOUS
<1>3. \A x \in Debits : x[1][1] \in Execs /\ x[1][2] \in Partitions /\ x[1] = <<x[1][1], x[1][2]>>
  BY <1>1, <1>2
<1>4. \A x \in Debits : x \in Held(c) <=> x[2] \in HeldIn(part[x[1][1]][x[1][2]], c)
  BY <1>1 DEF Held, HeldIn
<1>5. \A x \in Debits : x \in Held(c)' <=> x[2] \in HeldIn(part'[x[1][1]][x[1][2]], c)
  BY <1>1 DEF Held, HeldIn
<1>6. \A x \in Debits : x[1] = <<e, p>> => x[1][1] = e /\ x[1][2] = p
  OBVIOUS
<1>7. Held(c) = Others(e, p, c) \cup HeldBy(e, p, part[e][p], c)
  BY <1>4, <1>6, HeldDebits DEF Others, HeldBy
<1>8. ASSUME NEW r, Moved(e, p, r)
      PROVE  Held(c)' = Others(e, p, c) \cup HeldBy(e, p, r, c)
  <2>1. \A x \in Debits : x[1] = <<e, p>> => part'[x[1][1]][x[1][2]] = r
    BY <1>6, <1>8 DEF Moved
  <2>2. \A x \in Debits : x[1] # <<e, p>> =>
          part'[x[1][1]][x[1][2]] = part[x[1][1]][x[1][2]]
    BY <1>3, <1>8 DEF Moved
  <2>3. \A x \in Debits : x \in Held(c)' <=> x \in Others(e, p, c) \cup HeldBy(e, p, r, c)
    BY <1>4, <1>5, <2>1, <2>2, HeldDebits DEF Others, HeldBy
  <2> QED
    BY <2>3, HeldDebits DEF Others, HeldBy
<1> QED
  BY <1>7, <1>8

LEMMA Products ==
  \A a, b, d \in Nat : a * (b + 1) = a * b + a /\ (b <= d => a * b <= a * d)
OBVIOUS

(* A step that debits nothing pays for everything if it leaves no more     *)
(* held and released than there was.                                       *)
LEMMA PaidKept ==
  ASSUME Typed, Typed', Paid, UNCHANGED <<enabled, remaining>>,
         \A c \in Protected :
           released'[c] + Cardinality(Held(c)') <= released[c] + Cardinality(Held(c))
  PROVE  Paid'
<1> SUFFICES ASSUME enabled, NEW c \in Protected
             PROVE  /\ remaining[c] >= - Slack
                    /\ Epsilon[c] * (released'[c] + Cardinality(Held(c)')) <= Seeded[c] - remaining[c]
  BY DEF Paid
<1> DEFINE n == released[c] + Cardinality(Held(c))
           m == released'[c] + Cardinality(Held(c)')
<1>1. Cardinality(Held(c)) \in Nat /\ Cardinality(Held(c)') \in Nat
  BY HeldDebits, DebitsFinite
<1>2. released[c] \in Nat /\ released'[c] \in Nat
  BY DEF Typed, TypeOK
<1>3. n \in Nat /\ m \in Nat /\ m <= n
  BY <1>1, <1>2
<1>4. Epsilon[c] \in Nat /\ Seeded[c] \in Nat /\ remaining[c] \in Int
  BY LaplaceConstants DEF Typed, TypeOK
<1>5. Epsilon[c] * n <= Seeded[c] - remaining[c] /\ remaining[c] >= - Slack
  BY DEF Paid
<1>6. Epsilon[c] * m <= Epsilon[c] * n /\ Epsilon[c] * m \in Int /\ Epsilon[c] * n \in Int
  BY <1>3, <1>4, Products
<1> HIDE DEF n, m
<1>7. Epsilon[c] * m <= Seeded[c] - remaining[c]
  BY <1>4, <1>5, <1>6
<1> QED
  BY <1>5, <1>7 DEF m

LEMMA PaidInit == Init => Paid
<1> SUFFICES ASSUME Init, NEW c \in Protected
             PROVE  /\ remaining[c] >= - Slack
                    /\ Epsilon[c] * (released[c] + Cardinality(Held(c))) <= Seeded[c] - remaining[c]
  BY DEF Paid
<1>1. \A x \in Debits : part[x[1][1]][x[1][2]].at = "waiting"
  BY DEF Init, Waiting, Debits
<1>2. Held(c) = {}
  BY <1>1 DEF Held
<1>3. Cardinality(Held(c)) = 0
  BY <1>2, FS_EmptySet
<1>4. released[c] = 0 /\ remaining[c] = Seeded[c]
  BY DEF Init
<1>5. Epsilon[c] \in Nat /\ Seeded[c] \in Nat /\ Slack \in Nat
  BY LaplaceConstants
<1> QED
  BY <1>3, <1>4, <1>5

LEMMA PaidStep == Typed /\ Typed' /\ Paid /\ [Next]_vars => Paid'
<1> SUFFICES ASSUME Typed, Typed', Paid, [Next]_vars PROVE Paid'
  OBVIOUS
<1>a. TypeOK /\ InBatch
  BY DEF Typed
<1>b. part \in [Execs -> [Partitions -> Parts]]
  BY <1>a DEF TypeOK
<1>s. Len(Schema) \in Nat /\ DOMAIN Schema = 1 .. Len(Schema)
  BY LaplaceConstants
<1>n. \A c : /\ Cardinality(Held(c)) \in Nat /\ Cardinality(Held(c)') \in Nat
             /\ IsFiniteSet(Held(c)) /\ IsFiniteSet(Held(c)')
  BY HeldDebits, DebitsFinite
<1>r. \A c \in Protected : released[c] \in Nat /\ released'[c] \in Nat
  BY DEF Typed, TypeOK
<1>k. ASSUME UNCHANGED <<enabled, remaining, released>>,
             \A c \in Protected : Held(c)' \subseteq Held(c)
      PROVE  Paid'
  <2>1. \A c \in Protected : Cardinality(Held(c)') <= Cardinality(Held(c))
    BY <1>k, <1>n, FS_Subset
  <2> QED
    BY <2>1, <1>k, <1>n, <1>r, PaidKept
<1>1. ASSUME NEW e \in Execs, Execute(e) PROVE Paid'
  <2>1. PICK n \in [Partitions -> 0 .. MaxBatches] :
          part' = [part EXCEPT ![e] = [p \in Partitions |-> Waiting(n[p], 0)]]
    BY <1>1 DEF Execute
  <2>2. ASSUME NEW f \in Execs, NEW q \in Partitions, part'[f][q].at = "applying"
        PROVE  part'[f][q] = part[f][q]
    BY <2>1, <2>2, <1>b DEF Waiting
  <2>3. \A x \in Debits : part'[x[1][1]][x[1][2]].at = "applying" =>
          part'[x[1][1]][x[1][2]] = part[x[1][1]][x[1][2]]
    BY <2>2 DEF Debits
  <2>4. \A c : Held(c)' \subseteq Held(c)
    BY <2>3 DEF Held
  <2> QED
    BY <2>4, <1>1, <1>k DEF Execute
<1>2. ASSUME UNCHANGED <<enabled, remaining, released, part>> PROVE Paid'
  BY <1>2, <1>k DEF Held
<1>3. ASSUME NEW e \in Execs, NEW p \in Partitions, Partition(e, p) PROVE Paid'
  <2> DEFINE r == part[e][p]
  <2>r. /\ r.at \in {"waiting", "applying", "failed"} /\ r.col \in 0 .. Len(Schema) + 1
        /\ r.at = "applying" => r.col \in 1 .. Len(Schema) + 1
    BY <1>a, <1>b DEF Parts, InBatch
  <2>k. ASSUME NEW q, Moved(e, p, q), UNCHANGED <<enabled, remaining, released>>,
               \A c \in Protected : HeldIn(q, c) \subseteq HeldIn(r, c)
        PROVE  Paid'
    <3>1. \A c \in Protected : Held(c)' \subseteq Held(c)
      BY <2>k, HeldSplits DEF HeldBy
    <3> QED
      BY <3>1, <2>k, <1>k
  <2>1. CASE BatchArrives(e, p)
    <3>1. Moved(e, p, Applying(r.left - 1, 1, r.acc))
      BY <2>1, <1>a, PartitionMoves
    <3>2. \A c : HeldIn(Applying(r.left - 1, 1, r.acc), c) = {}
      BY <1>s DEF HeldIn, Applying
    <3> QED
      BY <3>1, <3>2, <2>1, <2>k DEF BatchArrives
  <2>2. CASE BatchFails(e, p) \/ BudgetExhausted(e, p)
    <3>1. Moved(e, p, Failed(r))
      BY <2>2, <1>a, PartitionMoves
    <3>2. Failed(r).at = "failed"
      BY <1>b DEF Failed, Parts
    <3>3. \A c : HeldIn(Failed(r), c) = {}
      BY <3>2 DEF HeldIn
    <3> QED
      BY <3>1, <3>3, <2>2, <2>k DEF BatchFails, BudgetExhausted
  <2>3. CASE SkipColumn(e, p)
    <3> DEFINE q == Applying(r.left, r.col + 1, r.acc)
    <3>1. Moved(e, p, q)
      BY <2>3, <1>a, PartitionMoves
    <3>2. q.at = "applying" /\ q.col = r.col + 1 /\ r.at = "applying"
      BY <2>3 DEF Applying, SkipColumn
    <3>3. Schema[r.col] \notin Protected
      BY <2>3 DEF SkipColumn, Column
    <3>4. \A c \in Protected : HeldIn(q, c) \subseteq HeldIn(r, c)
      BY <3>2, <3>3, <2>r, <1>s DEF HeldIn
    <3> HIDE DEF q
    <3> QED
      BY <3>1, <3>4, <2>3, <2>k DEF SkipColumn
  <2>4. CASE NoiseColumn(e, p)
    <3>c. PICK c : c = Column(e, p)
      OBVIOUS
    <3>0. c \in Protected /\ r.col \in DOMAIN Schema /\ r.at = "applying" /\ c = Schema[r.col]
      BY <3>c, <2>4 DEF NoiseColumn, AtProtectedColumn, Column
    <3>1. UNCHANGED <<enabled, released>>
      BY <2>4 DEF NoiseColumn
    <3>2. Epsilon[c] \in Nat /\ Seeded[c] \in Nat /\ Slack \in Nat
      BY <3>0, LaplaceConstants
    <3>3. enabled => /\ remaining' = [remaining EXCEPT ![c] = @ - Epsilon[c]]
                     /\ ~ (remaining[c] < Epsilon[c] - Slack)
      BY <3>c, <2>4 DEF NoiseColumn, Consume, Exhausted
    <3>4. remaining \in [Protected -> Int]
      BY <1>a DEF TypeOK
    <3>5. \E q : /\ Moved(e, p, q)
                 /\ \A d \in Protected \ {c} : HeldIn(q, d) \subseteq HeldIn(r, d)
                 /\ HeldIn(q, c) \subseteq HeldIn(r, c) \cup {r.col}
      <4>1. CASE c \in Noisable[e]
        <5> DEFINE q == Applying(r.left, r.col + 1, r.acc + Epsilon[c])
        <5>1. Moved(e, p, q)
          BY <4>1, <3>c, <2>4, <1>a, PartitionMoves
        <5>2. q.at = "applying" /\ q.col = r.col + 1
          BY DEF Applying
        <5> HIDE DEF q
        <5>3. \A d \in Protected \ {c} : HeldIn(q, d) \subseteq HeldIn(r, d)
          BY <5>2, <3>0, <2>r, <1>s DEF HeldIn
        <5>4. HeldIn(q, c) \subseteq HeldIn(r, c) \cup {r.col}
          BY <5>2, <3>0, <2>r, <1>s DEF HeldIn
        <5> QED
          BY <5>1, <5>3, <5>4
      <4>2. CASE c \notin Noisable[e]
        <5>1. Moved(e, p, Failed(r))
          BY <4>2, <3>c, <2>4, <1>a, PartitionMoves
        <5>2. Failed(r).at = "failed"
          BY <1>b DEF Failed, Parts
        <5>3. \A d : HeldIn(Failed(r), d) = {}
          BY <5>2 DEF HeldIn
        <5> QED
          BY <5>1, <5>3
      <4> QED
        BY <4>1, <4>2
    <3>6. PICK q : /\ Moved(e, p, q)
                   /\ \A d \in Protected \ {c} : HeldIn(q, d) \subseteq HeldIn(r, d)
                   /\ HeldIn(q, c) \subseteq HeldIn(r, c) \cup {r.col}
      BY <3>5
    <3>7. \A d \in Protected \ {c} : Held(d)' \subseteq Held(d)
      BY <3>6, HeldSplits DEF HeldBy
    <3>8. Held(c)' \subseteq Held(c) \cup {<<<<e, p>>, r.col>>}
      <4>1. \A x \in Debits : x = <<x[1], x[2]>>
        BY DEF Debits
      <4> QED
        BY <4>1, <3>6, HeldSplits DEF HeldBy
    <3> HIDE DEF r
    <3>9. Cardinality(Held(c)') <= Cardinality(Held(c)) + 1
      <4>0. PICK y : y = <<<<e, p>>, r.col>>
        OBVIOUS
      <4> DEFINE T == Held(c) \cup {y}
      <4>1. IsFiniteSet(T) /\ Cardinality(T) <= Cardinality(Held(c)) + 1
        <5>1. IsFiniteSet(Held(c)) /\ Cardinality(Held(c)) \in Nat
          BY <1>n
        <5>2. /\ IsFiniteSet(T)
              /\ Cardinality(T) = Cardinality(Held(c)) \/ Cardinality(T) = Cardinality(Held(c)) + 1
          BY <5>1, FS_AddElement
        <5> QED
          BY <5>1, <5>2
      <4>2. Cardinality(Held(c)') <= Cardinality(T) /\ Cardinality(T) \in Nat
        BY <4>0, <4>1, <3>8, FS_Subset, FS_CardinalityType
      <4> QED
        BY <4>1, <4>2, <1>n
    <3>10. ASSUME enabled, NEW d \in Protected
           PROVE  /\ remaining'[d] >= - Slack
                  /\ Epsilon[d] * (released'[d] + Cardinality(Held(d)')) <= Seeded[d] - remaining'[d]
      <4> DEFINE n == released[d] + Cardinality(Held(d))
                 m == released'[d] + Cardinality(Held(d)')
      <4>1. n \in Nat /\ m \in Nat
        BY <1>n, <1>r
      <4>2. /\ Epsilon[d] * n <= Seeded[d] - remaining[d] /\ remaining[d] >= - Slack
            /\ Epsilon[d] \in Nat /\ Seeded[d] \in Nat /\ remaining[d] \in Int /\ Slack \in Nat
        BY <3>10, <3>4, LaplaceConstants DEF Paid
      <4>3. CASE d = c
        <5>1. m <= n + 1
          BY <4>3, <3>9, <3>1, <1>n, <1>r
        <5>2. remaining'[d] = remaining[d] - Epsilon[d] /\ remaining[d] >= Epsilon[d] - Slack
          BY <4>3, <4>2, <3>10, <3>3, <3>4
        <5> HIDE DEF n, m
        <5>3. /\ Epsilon[d] * m <= Epsilon[d] * (n + 1) /\ Epsilon[d] * (n + 1) = Epsilon[d] * n + Epsilon[d]
              /\ Epsilon[d] * m \in Int /\ Epsilon[d] * n \in Int
          <6>1. n + 1 \in Nat
            BY <4>1
          <6>2. Epsilon[d] * m <= Epsilon[d] * (n + 1)
            BY <6>1, <5>1, <4>1, <4>2, Products
          <6>3. Epsilon[d] * (n + 1) = Epsilon[d] * n + Epsilon[d]
            BY <4>1, <4>2, Products
          <6> QED
            BY <6>2, <6>3, <4>1, <4>2
        <5>4. Epsilon[d] * m <= Seeded[d] - remaining'[d]
          BY <5>2, <5>3, <4>2
        <5>5. remaining'[d] >= - Slack
          BY <5>2, <4>2
        <5> QED
          BY <5>4, <5>5 DEF m
      <4>4. CASE d # c
        <5>1. Cardinality(Held(d)') <= Cardinality(Held(d))
          BY <4>4, <3>7, <1>n, FS_Subset
        <5>2. m <= n
          BY <5>1, <3>1, <1>n, <1>r
        <5>3. remaining'[d] = remaining[d]
          BY <4>4, <3>10, <3>3, <3>4
        <5> HIDE DEF n, m
        <5>4. Epsilon[d] * m <= Epsilon[d] * n /\ Epsilon[d] * m \in Int /\ Epsilon[d] * n \in Int
          BY <5>2, <4>1, <4>2, Products
        <5>5. Epsilon[d] * m <= Seeded[d] - remaining'[d]
          BY <5>3, <5>4, <4>2
        <5> QED
          BY <5>3, <5>5, <4>2 DEF m
      <4> QED
        BY <4>3, <4>4
    <3> QED
      BY <3>1, <3>10 DEF Paid
  <2>5. CASE BatchLeaves(e, p)
    <3> DEFINE q == Waiting(r.left, r.acc)
    <3>1. Moved(e, p, q)
      BY <2>5, <1>a, PartitionMoves
    <3>2. r.at = "applying" /\ r.col = Len(Schema) + 1
      BY <2>5, <2>r, <1>s DEF BatchLeaves
    <3>3. \A c : HeldIn(q, c) = {} /\ HeldIn(r, c) = {i \in DOMAIN Schema : Schema[i] = c}
      BY <3>2, <1>s DEF HeldIn, Waiting
    <3>4. ASSUME NEW c \in Protected
          PROVE  released'[c] + Cardinality(Held(c)') <= released[c] + Cardinality(Held(c))
      <4> DEFINE S == {i \in DOMAIN Schema : Schema[i] = c}
                 T == HeldBy(e, p, r, c)
      <4>1. T = {x \in Debits : x[1] = <<e, p>> /\ x[2] \in S}
        BY <3>3 DEF HeldBy
      <4>2. Held(c)' = Others(e, p, c) /\ Held(c) = Others(e, p, c) \cup T
        <5>1. HeldBy(e, p, q, c) = {}
          BY <3>3 DEF HeldBy
        <5>2. Held(c)' = Others(e, p, c) \cup HeldBy(e, p, q, c)
          BY <3>1, HeldSplits
        <5> QED
          BY <5>1, <5>2, HeldSplits
      <4>3. Others(e, p, c) \cap T = {}
        BY <4>1 DEF Others
      <4>4. IsFiniteSet(T) /\ Cardinality(T) \in Nat
        BY <4>1, DebitsFinite
      <4>5. Cardinality(T) = InSchema(c)
        <5> DEFINE g == [i \in S |-> <<<<e, p>>, i>>]
        <5>1. g \in [S -> T]
          BY <4>1 DEF Debits
        <5>2. \A i, j \in S : g[i] = g[j] => i = j
          OBVIOUS
        <5>3. \A x \in T : x = <<<<e, p>>, x[2]>> /\ x[2] \in S
          BY <4>1 DEF Debits
        <5>4. \A x \in T : \E i \in S : g[i] = x
          BY <5>3
        <5>5. g \in Bijection(S, T)
          BY <5>1, <5>2, <5>4 DEF Bijection, Injection, Surjection, IsInjective
        <5>6. ExistsBijection(S, T)
          BY <5>5 DEF ExistsBijection
        <5>7. IsFiniteSet(S)
          BY InSchemaFinite, FS_Subset
        <5> QED
          BY <5>6, <5>7, FS_Bijection DEF InSchema
      <4>6. Cardinality(Held(c)) = Cardinality(Held(c)') + Cardinality(T)
        <5> HIDE DEF T
        <5>1. IsFiniteSet(Others(e, p, c)) /\ Cardinality(Others(e, p, c)) \in Nat
          BY <4>2, <1>n
        <5>2. Cardinality(Others(e, p, c) \cup T) =
                Cardinality(Others(e, p, c)) + Cardinality(T) - Cardinality({})
          BY <5>1, <4>3, <4>4, FS_Union
        <5> QED
          BY <5>1, <5>2, <4>2, <4>4, FS_EmptySet
      <4>7. released'[c] = released[c] + InSchema(c)
        BY <2>5 DEF BatchLeaves
      <4> HIDE DEF T
      <4> QED
        BY <4>4, <4>5, <4>6, <4>7, <1>n, <1>r
    <3> QED
      BY <3>4, <2>5, PaidKept DEF BatchLeaves
  <2> QED
    BY <1>3, <2>1, <2>2, <2>3, <2>4, <2>5 DEF Partition
<1>4. ASSUME NEW e \in Execs, Attest(e) \/ Abort(e) PROVE Paid'
  BY <1>2, <1>4 DEF Attest, Abort
<1>5. CASE UNCHANGED vars
  BY <1>2, <1>5 DEF vars
<1> QED
  BY <1>1, <1>3, <1>4, <1>5 DEF Next

(* PrivacyBudgetTracker::consume under any number of partitions and execs  *)
(* that race for it, any schema (a column may be in it more than once) and *)
(* any budget: a column's budget is never overdrawn by more than the       *)
(* rounding slack, and no more noised batches leave than it paid for.      *)
THEOREM BudgetHolds == Spec => []ReleasedWithinBudget
<1>1. Typed /\ Paid => ReleasedWithinBudget
  <2> SUFFICES ASSUME Typed, Paid, enabled, NEW c \in Protected
               PROVE  /\ remaining[c] >= - Slack
                      /\ released[c] * Epsilon[c] <= Seeded[c] - remaining[c]
    BY DEF ReleasedWithinBudget
  <2> DEFINE n == released[c] + Cardinality(Held(c))
  <2>1. Cardinality(Held(c)) \in Nat /\ released[c] \in Nat
    BY HeldDebits, DebitsFinite DEF Typed, TypeOK
  <2>2. n \in Nat /\ released[c] <= n
    BY <2>1
  <2>3. Epsilon[c] \in Nat /\ Seeded[c] \in Nat /\ remaining[c] \in Int
    BY LaplaceConstants DEF Typed, TypeOK
  <2>4. Epsilon[c] * n <= Seeded[c] - remaining[c] /\ remaining[c] >= - Slack
    BY DEF Paid
  <2> HIDE DEF n
  <2>5. /\ released[c] * Epsilon[c] <= Epsilon[c] * n
        /\ Epsilon[c] * n \in Int /\ released[c] * Epsilon[c] \in Int
    BY <2>1, <2>2, <2>3, Products
  <2> QED
    BY <2>3, <2>4, <2>5
<1> QED
  BY TypedInit, TypedStep, PaidInit, PaidStep, <1>1, PTL DEF Spec

-----------------------------------------------------------------------------
(* The envelope.                                                           *)

(* While an exec runs, what a partition that has not failed spent is its   *)
(* running total; epsilon_consumed is the total of a partition that is     *)
(* between batches, or of one that will overwrite it before it is again.   *)
Totals(e) ==
  /\ \A p \in Partitions : part[e][p].at # "failed" => spent[e][p] = part[e][p].acc
  /\ runs[e] = 1 =>
       /\ out[e] # 0 => \E p \in Partitions :
            /\ part[e][p].acc # 0
            /\ part[e][p].at = "waiting" => part[e][p].acc = out[e]
       /\ out[e] = 0 => \A p \in Partitions :
            part[e][p].at = "waiting" => part[e][p].acc = 0

Account(e) ==
  /\ runs[e] = 0 => out[e] = 0 /\ phase[e] = "new"
  /\ phase[e] = "new" => \A p \in Partitions : part[e][p].at = "waiting"
  /\ phase[e] \in {"running", "attested"} => Totals(e)
  /\ phase[e] = "attested" =>
       envelope[e] = out[e] /\ \A p \in Partitions : part[e][p].at = "waiting"

Accounts == \A e \in Execs : Account(e)

LEMMA AccountsInit == Init => Accounts
BY DEF Init, Accounts, Account, Waiting

LEMMA AccountKept ==
  ASSUME NEW e \in Execs, Account(e),
         UNCHANGED <<runs[e], out[e], phase[e], envelope[e], spent[e], part[e]>>
  PROVE  Account(e)'
BY DEF Account, Totals

LEMMA AccountsStep == Typed /\ Typed' /\ Accounts /\ [Next]_vars => Accounts'
<1> SUFFICES ASSUME Typed, Typed', Accounts, [Next]_vars PROVE Accounts'
  OBVIOUS
<1>a. TypeOK /\ TypeOK'
  BY DEF Typed
<1>b. part \in [Execs -> [Partitions -> Parts]] /\ part' \in [Execs -> [Partitions -> Parts]]
  BY <1>a DEF TypeOK
<1>t. /\ runs \in [Execs -> 0 .. MaxRuns]
      /\ phase \in [Execs -> {"new", "running", "attested", "failed"}]
      /\ out \in [Execs -> Nat] /\ envelope \in [Execs -> Nat]
      /\ spent \in [Execs -> [Partitions -> Nat]]
  BY <1>a DEF TypeOK
<1>o. ASSUME NEW e \in Execs, Account(e)',
             \A f \in Execs \ {e} :
               UNCHANGED <<runs[f], out[f], phase[f], envelope[f], spent[f], part[f]>>
      PROVE  Accounts'
  <2>1. ASSUME NEW f \in Execs \ {e} PROVE Account(f)'
    BY <1>o, AccountKept DEF Accounts
  <2> QED
    BY <1>o, <2>1 DEF Accounts
<1>1. ASSUME NEW e \in Execs, Execute(e) PROVE Accounts'
  <2>0. Account(e)
    BY DEF Accounts
  <2>1. PICK n \in [Partitions -> 0 .. MaxBatches] :
          part' = [part EXCEPT ![e] = [p \in Partitions |-> Waiting(n[p], 0)]]
    BY <1>1 DEF Execute
  <2>2. \A p \in Partitions : part'[e][p].at = "waiting" /\ part'[e][p].acc = 0
    BY <2>1, <1>b DEF Waiting
  <2>3. \A p \in Partitions : spent'[e][p] = 0
    BY <1>1, <1>t DEF Execute, NothingSpent
  <2>4. runs'[e] = runs[e] + 1 /\ phase'[e] = "running" /\ out'[e] = out[e] /\ runs[e] \in Nat
    BY <1>1, <1>t DEF Execute
  <2>5. runs'[e] = 1 => out'[e] = 0
    BY <2>0, <2>4 DEF Account
  <2>6. Totals(e)'
    BY <2>2, <2>3, <2>5 DEF Totals
  <2>7. Account(e)'
    BY <2>4, <2>6 DEF Account
  <2>8. \A f \in Execs \ {e} :
          UNCHANGED <<runs[f], out[f], phase[f], envelope[f], spent[f], part[f]>>
    BY <1>1, <2>1, <1>b, <1>t DEF Execute
  <2> QED
    BY <2>7, <2>8, <1>o
<1>2. ASSUME NEW e \in Execs, Attest(e) PROVE Accounts'
  <2>1. Account(e) /\ phase[e] = "running"
    BY <1>2 DEF Attest, Accounts
  <2>2. phase'[e] = "attested" /\ envelope'[e] = out[e] /\ UNCHANGED <<runs, part, out, spent>>
    BY <1>2, <1>t DEF Attest
  <2>3. \A p \in Partitions : part[e][p].at = "waiting"
    BY <1>2 DEF Attest
  <2>4. Account(e)'
    BY <2>1, <2>2, <2>3 DEF Account, Totals
  <2>5. \A f \in Execs \ {e} :
          UNCHANGED <<runs[f], out[f], phase[f], envelope[f], spent[f], part[f]>>
    BY <1>2, <1>t DEF Attest
  <2> QED
    BY <2>4, <2>5, <1>o
<1>3. ASSUME NEW e \in Execs, Abort(e) PROVE Accounts'
  <2>1. Account(e) /\ phase[e] = "running"
    BY <1>3 DEF Abort, Accounts
  <2>2. phase'[e] = "failed" /\ UNCHANGED <<runs, part, out, spent>>
    BY <1>3, <1>t DEF Abort
  <2>3. Account(e)'
    BY <2>1, <2>2 DEF Account
  <2>4. \A f \in Execs \ {e} :
          UNCHANGED <<runs[f], out[f], phase[f], envelope[f], spent[f], part[f]>>
    BY <1>3, <1>t DEF Abort
  <2> QED
    BY <2>3, <2>4, <1>o
<1>4. ASSUME NEW e \in Execs, NEW p \in Partitions, Partition(e, p) PROVE Accounts'
  <2> DEFINE r == part[e][p]
  <2>a. Account(e)
    BY DEF Accounts
  <2>r. r.at \in {"waiting", "applying", "failed"} /\ r.acc \in Nat
    BY <1>b DEF Parts
  <2>b. phase[e] \in {"running", "failed"} /\ UNCHANGED <<phase, runs, envelope>>
    <3>1. phase[e] = "running" \/ r.at = "applying"
      BY <1>4 DEF Partition, BatchArrives, BatchFails, SkipColumn, BudgetExhausted,
                  NoiseColumn, AtProtectedColumn, BatchLeaves
    <3>2. UNCHANGED <<phase, runs, envelope>>
      BY <1>4 DEF Partition, BatchArrives, BatchFails, SkipColumn, BudgetExhausted,
                  NoiseColumn, BatchLeaves
    <3> QED
      BY <3>1, <3>2, <2>a, <1>t DEF Account
  <2>c. runs[e] # 0
    BY <2>a, <2>b DEF Account
  \* It is enough to keep the totals of a running exec.
  <2>d. ASSUME NEW q, Moved(e, p, q),
               \A f \in Execs \ {e} : UNCHANGED <<out[f], spent[f]>>,
               Totals(e) => Totals(e)'
        PROVE  Accounts'
    <3>1. \A f \in Execs \ {e}, x \in Partitions : part'[f][x] = part[f][x]
      BY <2>d DEF Moved
    <3>2. \A f \in Execs \ {e} : part'[f] = part[f]
      BY <3>1, <1>b
    <3>3. Account(e)'
      BY <2>a, <2>b, <2>c, <2>d DEF Account
    <3> QED
      BY <3>2, <3>3, <2>b, <2>d, <1>o
  \* A partition that does not go back to waiting, nor spends.
  <2>e. ASSUME NEW q, Moved(e, p, q), UNCHANGED <<out, spent>>,
               q.at # "waiting", q.acc = r.acc, q.at # "failed" => r.at # "failed"
        PROVE  Accounts'
    <3>1. Totals(e) => Totals(e)'
      BY <2>b, <2>e DEF Totals, Moved
    <3> QED
      BY <3>1, <2>d, <2>e
  <2>1. CASE BatchArrives(e, p)
    <3> DEFINE q == Applying(r.left - 1, 1, r.acc)
    <3>1. Moved(e, p, q)
      BY <2>1, <1>a, PartitionMoves
    <3>2. q.at = "applying" /\ q.acc = r.acc
      BY DEF Applying
    <3> HIDE DEF q
    <3> QED
      BY <3>1, <3>2, <2>1, <2>e DEF BatchArrives
  <2>2. CASE BatchFails(e, p) \/ BudgetExhausted(e, p)
    <3>1. Moved(e, p, Failed(r))
      BY <2>2, <1>a, PartitionMoves
    <3>2. Failed(r).at = "failed" /\ Failed(r).acc = r.acc
      BY <1>b DEF Failed, Parts
    <3> QED
      BY <3>1, <3>2, <2>2, <2>e DEF BatchFails, BudgetExhausted
  <2>3. CASE SkipColumn(e, p)
    <3> DEFINE q == Applying(r.left, r.col + 1, r.acc)
    <3>1. Moved(e, p, q)
      BY <2>3, <1>a, PartitionMoves
    <3>2. q.at = "applying" /\ q.acc = r.acc
      BY DEF Applying
    <3> HIDE DEF q
    <3> QED
      BY <3>1, <3>2, <2>3, <2>e DEF SkipColumn
  <2>4. CASE NoiseColumn(e, p)
    <3>c. PICK c : c = Column(e, p)
      OBVIOUS
    <3>0. c \in Protected /\ r.at = "applying"
      BY <3>c, <2>4 DEF NoiseColumn, AtProtectedColumn
    <3>1. Epsilon[c] \in Nat /\ Epsilon[c] # 0
      BY <3>0, LaplaceConstants
    <3>2. UNCHANGED out /\ spent' = [spent EXCEPT ![e][p] = @ + Epsilon[c]]
      BY <3>c, <2>4 DEF NoiseColumn, Consume
    <3>3. /\ spent'[e][p] = spent[e][p] + Epsilon[c]
          /\ \A x \in Partitions \ {p} : spent'[e][x] = spent[e][x]
          /\ \A f \in Execs \ {e} : spent'[f] = spent[f]
      BY <3>2, <1>t
    <3>4. \E q : /\ Moved(e, p, q)
                 /\ q.at # "waiting" /\ (q.acc # 0 \/ q.acc = r.acc)
                 /\ q.at # "failed" => q.acc = r.acc + Epsilon[c]
      <4>1. CASE c \in Noisable[e]
        <5> DEFINE q == Applying(r.left, r.col + 1, r.acc + Epsilon[c])
        <5>1. Moved(e, p, q)
          BY <4>1, <3>c, <2>4, <1>a, PartitionMoves
        <5>2. q.at = "applying" /\ q.acc = r.acc + Epsilon[c]
          BY DEF Applying
        <5>3. r.acc + Epsilon[c] # 0
          BY <3>1, <2>r
        <5> HIDE DEF q
        <5> QED
          BY <5>1, <5>2, <5>3
      <4>2. CASE c \notin Noisable[e]
        <5>1. Moved(e, p, Failed(r))
          BY <4>2, <3>c, <2>4, <1>a, PartitionMoves
        <5>2. Failed(r).at = "failed" /\ Failed(r).acc = r.acc
          BY <1>b DEF Failed, Parts
        <5> QED
          BY <5>1, <5>2
      <4> QED
        BY <4>1, <4>2
    <3>5. PICK q : /\ Moved(e, p, q)
                   /\ q.at # "waiting" /\ (q.acc # 0 \/ q.acc = r.acc)
                   /\ q.at # "failed" => q.acc = r.acc + Epsilon[c]
      BY <3>4
    <3>6. Totals(e) => Totals(e)'
      <4> SUFFICES ASSUME Totals(e) PROVE Totals(e)'
        OBVIOUS
      <4>1. \A x \in Partitions : part'[e][x].at # "failed" => spent'[e][x] = part'[e][x].acc
        BY <3>0, <3>3, <3>5 DEF Totals, Moved
      <4>2. runs'[e] = 1 /\ out'[e] # 0 => \E x \in Partitions :
              part'[e][x].acc # 0 /\ (part'[e][x].at = "waiting" => part'[e][x].acc = out'[e])
        BY <3>2, <3>5, <2>b DEF Totals, Moved
      <4>3. runs'[e] = 1 /\ out'[e] = 0 => \A x \in Partitions :
              part'[e][x].at = "waiting" => part'[e][x].acc = 0
        BY <3>2, <3>5, <2>b DEF Totals, Moved
      <4> QED
        BY <4>1, <4>2, <4>3 DEF Totals
    <3> QED
      BY <3>2, <3>3, <3>5, <3>6, <2>d
  <2>5. CASE BatchLeaves(e, p)
    <3> DEFINE q == Waiting(r.left, r.acc)
    <3>1. Moved(e, p, q)
      BY <2>5, <1>a, PartitionMoves
    <3>2. q.at = "waiting" /\ q.acc = r.acc /\ r.at = "applying" /\ UNCHANGED spent
      BY <2>5 DEF Waiting, BatchLeaves
    <3>3. /\ \A f \in Execs \ {e} : out'[f] = out[f]
          /\ r.acc # 0 => out'[e] = r.acc
          /\ r.acc = 0 => out'[e] = out[e]
      BY <2>5, <2>r, <1>t DEF BatchLeaves
    <3> HIDE DEF q
    <3>4. Totals(e) => Totals(e)'
      <4> SUFFICES ASSUME Totals(e) PROVE Totals(e)'
        OBVIOUS
      <4>1. \A x \in Partitions : part'[e][x].at # "failed" => spent'[e][x] = part'[e][x].acc
        BY <3>1, <3>2 DEF Totals, Moved
      <4>2. runs'[e] = 1 /\ out'[e] # 0 => \E x \in Partitions :
              part'[e][x].acc # 0 /\ (part'[e][x].at = "waiting" => part'[e][x].acc = out'[e])
        BY <3>1, <3>2, <3>3, <2>b DEF Totals, Moved
      <4>3. runs'[e] = 1 /\ out'[e] = 0 => \A x \in Partitions :
              part'[e][x].at = "waiting" => part'[e][x].acc = 0
        BY <3>1, <3>2, <3>3, <2>b DEF Totals, Moved
      <4> QED
        BY <4>1, <4>2, <4>3 DEF Totals
    <3> QED
      BY <3>1, <3>2, <3>3, <3>4, <2>d
  <2> QED
    BY <1>4, <2>1, <2>2, <2>3, <2>4, <2>5 DEF Partition
<1>5. CASE UNCHANGED vars
  BY <1>5, AccountKept DEF vars, Accounts
<1> QED
  BY <1>1, <1>2, <1>3, <1>4, <1>5 DEF Next

(* execute_attested over any number of partitions: the envelope of an      *)
(* exec's first execution states what one of its partitions consumed, and  *)
(* nothing only if none consumed anything.                                 *)
THEOREM EnvelopeFromOnePartition == Spec => []EnvelopeIsOnePartition
<1>1. Accounts => EnvelopeIsOnePartition
  <2> SUFFICES ASSUME Accounts, NEW e \in Execs, phase[e] = "attested", runs[e] = 1
               PROVE  /\ envelope[e] # 0 => \E p \in Partitions : envelope[e] = spent[e][p]
                      /\ envelope[e] = 0 => \A p \in Partitions : spent[e][p] = 0
    BY DEF EnvelopeIsOnePartition
  <2>1. Totals(e) /\ envelope[e] = out[e] /\ \A p \in Partitions : part[e][p].at = "waiting"
    BY DEF Accounts, Account
  <2> QED
    BY <2>1 DEF Totals
<1> QED
  BY TypedInit, TypedStep, AccountsInit, AccountsStep, <1>1, PTL DEF Spec
=============================================================================
