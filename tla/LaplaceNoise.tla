---------------------------- MODULE LaplaceNoise ----------------------------
(***************************************************************************)
(* Differential privacy at execution time:                                 *)
(* src/src/physical/laplace_noise_exec.rs over the PrivacyBudgetTracker of *)
(* src/src/optimizer_rules/dp_noise.rs, read by execute_attested of        *)
(* src/src/physical/attestation_exec.rs.                                   *)
(*                                                                         *)
(* A LaplaceNoiseExec is executed once per partition; the partitions run   *)
(* concurrently, and execs made from one another by with_new_children      *)
(* share one tracker.  Each batch debits the tracker column by column, and *)
(* each debit is one critical section.  Epsilons are integers on a grid    *)
(* fine enough for the contract's values; Slack is f64::EPSILON on it.     *)
(***************************************************************************)
EXTENDS Integers, Sequences, FiniteSets, FiniteSetsExt

CONSTANTS Execs,        \* plans that share the tracker
          Partitions,   \* output partitions of the plan below
          Schema,       \* the columns of a batch, in order
          Epsilon,      \* dp_columns: protected column -> epsilon
          Noisable,     \* per exec: its columns of type Float64 or Int64
          Seeded,       \* the tracker's initial budgets; 0 where none is set
          Slack,
          MaxBatches, MaxRuns  \* bounds: batches per partition, executions per exec

Columns == {Schema[i] : i \in DOMAIN Schema}
Protected == DOMAIN Epsilon

(* validate_dp_params: epsilons are positive.                              *)
ASSUME LaplaceConstants ==
  /\ Schema \in Seq(Columns)
  /\ Epsilon \in [Protected -> Nat \ {0}]
  /\ Seeded \in [Protected -> Nat]
  /\ Noisable \in [Execs -> SUBSET Columns]
  /\ Slack \in Nat /\ MaxBatches \in Nat /\ MaxRuns \in Nat
  /\ IsFiniteSet(Execs) /\ IsFiniteSet(Partitions)

VARIABLES enabled,    \* whether the tracker enforces its budgets
          remaining,  \* the tracker: budget left per protected column
          phase,      \* per exec: "new", "running", "attested", "failed"
          runs,       \* per exec: executions started
          part,       \* per exec and partition: [at, left, col, acc]
          out,        \* per exec: epsilon_consumed (0 for None)
          envelope,   \* per exec: epsilon_consumed of its last envelope
          spent,      \* history, per exec and partition: epsilon consumed by the current execution
          released    \* history, per column: batches that left with noise on it

vars == <<enabled, remaining, phase, runs, part, out, envelope, spent, released>>

NothingSpent == [p \in Partitions |-> 0]

(* A partition between batches, with `left` batches still to come.         *)
Waiting(left, acc) == [at |-> "waiting", left |-> left, col |-> 0, acc |-> acc]

(* A partition with a batch in hand, at column `col` of it.                *)
Applying(left, col, acc) == [at |-> "applying", left |-> left, col |-> col, acc |-> acc]

-----------------------------------------------------------------------------
Init ==
  /\ enabled \in BOOLEAN
  /\ remaining = Seeded
  /\ phase = [e \in Execs |-> "new"]
  /\ runs = [e \in Execs |-> 0]
  /\ part = [e \in Execs |-> [p \in Partitions |-> Waiting(0, 0)]]
  /\ out = [e \in Execs |-> 0]
  /\ envelope = [e \in Execs |-> 0]
  /\ spent = [e \in Execs |-> NothingSpent]
  /\ released = [c \in Protected |-> 0]

(* execute_attested: collect() executes every partition, each with an      *)
(* accumulator of its own; epsilon_consumed is not reset.                  *)
Execute(e) ==
  /\ phase[e] # "running"
  /\ \A p \in Partitions : part[e][p].at # "applying"
  /\ runs[e] < MaxRuns
  /\ runs' = [runs EXCEPT ![e] = @ + 1]
  /\ phase' = [phase EXCEPT ![e] = "running"]
  /\ \E n \in [Partitions -> 0 .. MaxBatches] :
       part' = [part EXCEPT ![e] = [p \in Partitions |-> Waiting(n[p], 0)]]
  /\ spent' = [spent EXCEPT ![e] = NothingSpent]
  /\ UNCHANGED <<enabled, remaining, out, envelope, released>>

(* Faulty variant: the end of the stream is not noticed.                   *)
BatchArrives_PastEnd(e, p) ==
  /\ phase[e] = "running"
  /\ part[e][p].at = "waiting"
  /\ part' = [part EXCEPT ![e][p] = Applying(@.left - 1, 1, @.acc)]
  /\ UNCHANGED <<enabled, remaining, phase, runs, out, envelope, spent, released>>

(* The next batch of the plan below arrives ...                            *)
BatchArrives(e, p) ==
  /\ phase[e] = "running"
  /\ part[e][p].at = "waiting" /\ part[e][p].left > 0
  /\ part' = [part EXCEPT ![e][p] = Applying(@.left - 1, 1, @.acc)]
  /\ UNCHANGED <<enabled, remaining, phase, runs, out, envelope, spent, released>>

(* ... or an error in its place.                                           *)
BatchFails(e, p) ==
  /\ phase[e] = "running"
  /\ part[e][p].at = "waiting" /\ part[e][p].left > 0
  /\ part' = [part EXCEPT ![e][p].at = "failed"]
  /\ UNCHANGED <<enabled, remaining, phase, runs, out, envelope, spent, released>>

Column(e, p) == Schema[part[e][p].col]
AtProtectedColumn(e, p) ==
  /\ part[e][p].at = "applying"
  /\ part[e][p].col \in DOMAIN Schema
  /\ Column(e, p) \in Protected

(* Faulty variant: any budget left is enough.                              *)
Exhausted_OnlyWhenEmpty(c) == enabled /\ remaining[c] <= 0

Exhausted(c) == enabled /\ remaining[c] < Epsilon[c] - Slack

(* apply_dp_to_batch: an unprotected column is passed on.                  *)
SkipColumn(e, p) ==
  /\ part[e][p].at = "applying"
  /\ part[e][p].col \in DOMAIN Schema
  /\ Column(e, p) \notin Protected
  /\ part' = [part EXCEPT ![e][p] = Applying(@.left, @.col + 1, @.acc)]
  /\ UNCHANGED <<enabled, remaining, phase, runs, out, envelope, spent, released>>

(* consume(): the budget does not allow it and the batch fails.            *)
BudgetExhausted(e, p) ==
  /\ AtProtectedColumn(e, p)
  /\ Exhausted(Column(e, p))
  /\ part' = [part EXCEPT ![e][p].at = "failed"]
  /\ UNCHANGED <<enabled, remaining, phase, runs, out, envelope, spent, released>>

(* consume(): the debit, when enforcement is on.                           *)
Consume(e, p, c) ==
  /\ remaining' = IF enabled THEN [remaining EXCEPT ![c] = @ - Epsilon[c]] ELSE remaining
  /\ spent' = [spent EXCEPT ![e][p] = @ + Epsilon[c]]

(* apply_dp_to_batch: debit, then noise; a column that takes no noise      *)
(* fails the batch after its debit.                                        *)
NoiseColumn(e, p) ==
  /\ AtProtectedColumn(e, p)
  /\ ~ Exhausted(Column(e, p))
  /\ Consume(e, p, Column(e, p))
  /\ \/ /\ Column(e, p) \in Noisable[e]
        /\ part' = [part EXCEPT ![e][p] =
                         Applying(@.left, @.col + 1, @.acc + Epsilon[Column(e, p)])]
     \/ /\ Column(e, p) \notin Noisable[e]
        /\ part' = [part EXCEPT ![e][p].at = "failed"]
  /\ UNCHANGED <<enabled, phase, runs, out, envelope, released>>

InSchema(c) == Cardinality({i \in DOMAIN Schema : Schema[i] = c})

(* Faulty variant: the running total is added to epsilon_consumed.         *)
BatchLeaves_Added(e, p) ==
  /\ part[e][p].at = "applying"
  /\ part[e][p].col \notin DOMAIN Schema
  /\ out' = [out EXCEPT ![e] = @ + part[e][p].acc]
  /\ part' = [part EXCEPT ![e][p] = Waiting(@.left, @.acc)]
  /\ released' = [c \in Protected |-> released[c] + InSchema(c)]
  /\ UNCHANGED <<enabled, remaining, phase, runs, envelope, spent>>

(* The batch leaves the operator; epsilon_consumed is overwritten with the *)
(* total of this partition.                                                *)
BatchLeaves(e, p) ==
  /\ part[e][p].at = "applying"
  /\ part[e][p].col \notin DOMAIN Schema
  /\ out' = IF part[e][p].acc > 0 THEN [out EXCEPT ![e] = part[e][p].acc] ELSE out
  /\ part' = [part EXCEPT ![e][p] = Waiting(@.left, @.acc)]
  /\ released' = [c \in Protected |-> released[c] + InSchema(c)]
  /\ UNCHANGED <<enabled, remaining, phase, runs, envelope, spent>>

(* execute_attested: every stream has ended, the envelope is assembled.    *)
Attest(e) ==
  /\ phase[e] = "running"
  /\ \A p \in Partitions : part[e][p].at = "waiting" /\ part[e][p].left = 0
  /\ phase' = [phase EXCEPT ![e] = "attested"]
  /\ envelope' = [envelope EXCEPT ![e] = out[e]]
  /\ UNCHANGED <<enabled, remaining, runs, part, out, spent, released>>

(* collect() fails with the first error: no rows and no envelope.  A       *)
(* partition in the middle of a batch still finishes that batch.           *)
Abort(e) ==
  /\ phase[e] = "running"
  /\ \E p \in Partitions : part[e][p].at = "failed"
  /\ phase' = [phase EXCEPT ![e] = "failed"]
  /\ UNCHANGED <<enabled, remaining, runs, part, out, envelope, spent, released>>

Partition(e, p) ==
  \/ BatchArrives(e, p) \/ BatchFails(e, p) \/ SkipColumn(e, p)
  \/ BudgetExhausted(e, p) \/ NoiseColumn(e, p) \/ BatchLeaves(e, p)

Next ==
  \E e \in Execs :
    \/ Execute(e) \/ Attest(e) \/ Abort(e)
    \/ \E p \in Partitions : Partition(e, p)

Spec == Init /\ [][Next]_vars

-----------------------------------------------------------------------------
Parts ==
  [at : {"waiting", "applying", "failed"}, left : 0 .. MaxBatches,
   col : 0 .. Len(Schema) + 1, acc : Nat]

(* Types of the tracker, of the executions and of their partitions.        *)
TypeOK ==
  /\ enabled \in BOOLEAN
  /\ remaining \in [Protected -> Int]
  /\ phase \in [Execs -> {"new", "running", "attested", "failed"}]
  /\ runs \in [Execs -> 0 .. MaxRuns]
  /\ part \in [Execs -> [Partitions -> Parts]]
  /\ out \in [Execs -> Nat] /\ envelope \in [Execs -> Nat]
  /\ spent \in [Execs -> [Partitions -> Nat]]
  /\ released \in [Protected -> Nat]

(* The point of the tracker: whatever partitions and execs race for it, no *)
(* more noised batches leave than the seeded budget pays for (but for the  *)
(* rounding slack, once), and what left was paid for before it left.       *)
ReleasedWithinBudget ==
  enabled => \A c \in Protected :
    /\ remaining[c] >= - Slack
    /\ released[c] * Epsilon[c] <= Seeded[c] - remaining[c]

(* What an envelope really states: for the first successful execution of   *)
(* an exec it shows what one partition consumed, a partition that consumed *)
(* something if there is any.  So it never overstates, and with one        *)
(* partition it is exact.                                                  *)
EnvelopeIsOnePartition ==
  \A e \in Execs : phase[e] = "attested" /\ runs[e] = 1 =>
    /\ envelope[e] # 0 => \E p \in Partitions : envelope[e] = spent[e][p]
    /\ envelope[e] = 0 => \A p \in Partitions : spent[e][p] = 0

-----------------------------------------------------------------------------
(* AttestationEnvelope: "Total epsilon consumed by LaplaceNoiseExec during *)
(* this query".                                                            *)
EnvelopeIsTotal ==
  \A e \in Execs : phase[e] = "attested" =>
    LET consumed(p) == spent[e][p] IN envelope[e] = MapThenSumSet(consumed, Partitions)
=============================================================================
