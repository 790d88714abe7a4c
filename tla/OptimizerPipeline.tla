-------------------------- MODULE OptimizerPipeline --------------------------
(***************************************************************************)
(* The four logical rules of the optimizer pipeline: contract check, row   *)
(* filter, masking, DP noise.  A plan is a tree; each rule rewrites the    *)
(* whole tree top-down and never descends into what it has just put there. *)
(* The optimizer (external) runs the rules in order, over and over, until  *)
(* a pass changes nothing or MaxPasses are made, and gives a query up when *)
(* a rule fails or changes the columns of the result.  The rules outlive   *)
(* the query: budgets and audit records carry over to the next one.        *)
(***************************************************************************)
EXTENDS ContractFilter, FiniteSets, SequencesExt

CONSTANTS
  Plans,        \* sequence of plans that queries are planned to
  Filters,      \* sequence of SQL fragments a contract may hold
  Bundles,      \* the contract bundles
  Principals,   \* the callers
  Rows,         \* the rows of every table
  ColumnType,   \* the type of each column of a table
  Seeded,       \* initial budget of each column with one
  Slack,        \* f64::EPSILON, on the grid of the budgets
  MaxPasses,    \* the optimizer's limit of passes over the rules
  MaxQueries    \* bound: queries through one pipeline

VARIABLES
  bundle, principal,  \* what the pipeline was built with
  enforcing,          \* whether the budget tracker enforces
  budgets,            \* remaining budget of each column
  audit,              \* audit records since the last drain, counted by kind
  phase,              \* the rule to run next, or how the query stands
  pass,               \* number of the current pass
  origin,             \* number in Plans of the current query
  plan,               \* its plan
  before,             \* the plan when the current pass began
  denials,            \* history: scans of refused queries since the last drain
  queries,            \* queries started so far
  debited             \* history: epsilon taken for the current query

vars == <<bundle, principal, enforcing, budgets, audit, phase, pass, origin,
          plan, before, denials, queries, debited>>

Kinds == {"ContractCheckDenied", "PurposeMismatch", "TierMismatch",
          "ClassificationMismatch", "ContractCheckApproved", "PrivacyBudgetExhausted"}

-----------------------------------------------------------------------------
(* Plans.  exprs are the columns of a projection or the arguments of an    *)
(* aggregate, name the table, the noised column or the kind of a filter.   *)

PlanNode(op, name, exprs, inputs) ==
  [op |-> op, name |-> name, exprs |-> exprs, inputs |-> inputs]

\* An expression over one column: bare, under an alias, or in a function
\* call.  masks are the masks around it, innermost first.
Expr(form, col, name) ==
  [form |-> form, col |-> col, name |-> name, type |-> ColumnType[col], masks |-> <<>>]

\* Op applied to the inputs of a node, of which there are at most two.
MapInputs(Op(_), p) ==
  CASE Len(p.inputs) = 0 -> <<>>
    [] Len(p.inputs) = 1 -> <<Op(p.inputs[1])>>
    [] OTHER -> <<Op(p.inputs[1]), Op(p.inputs[2])>>

RECURSIVE Nodes(_)
\* The nodes of a plan in preorder, each with its whole subtree.
Nodes(p) == <<p>> \o FlattenSeq(MapInputs(Nodes, p))

Select(p, op) == SelectSeq(Nodes(p), LAMBDA n : n.op = op)

subtree_has_approval_marker(p) == Select(p, "ContractApproved") # <<>>

\* Columns of a result.  A join has those of both sides, every other node
\* without expressions those of its input.
RECURSIVE SchemaOf(_)
SchemaOf(p) ==
  CASE p.op = "TableScan" -> << <<"*", p.name>> >>
    [] p.op = "EmptyRelation" -> << <<"*", p.name>> >>
    [] p.op \in {"Projection", "Aggregate"} ->
         [i \in DOMAIN p.exprs |-> <<p.exprs[i].name, p.exprs[i].type>>]
    [] OTHER -> FlattenSeq(MapInputs(SchemaOf, p))

-----------------------------------------------------------------------------
(* ContractCheckRule.                                                      *)

\* The sections of the bundle a rule can read: all rules parse the same
\* bytes, each with the types it expects.
Reads(rule) == rule \in bundle.readable

TierOrder == <<"bronze", "silver", "gold">>
tier_rank(tier) == IF tier \in ToSet(TierOrder)
                   THEN CHOOSE i \in DOMAIN TierOrder : TierOrder[i] = tier ELSE 0

TierTooLow ==
  LET required == tier_rank(bundle.tier)
      has == tier_rank(principal.tier)
  IN required > 0 /\ has > 0 /\ has < required

\* The verdict of a scan; it is the same for all scans.
check_principal ==
  IF bundle.purposes # {} /\ principal.purpose \notin bundle.purposes THEN "PurposeMismatch"
  ELSE IF TierTooLow THEN "TierMismatch"
  ELSE IF bundle.class # "" /\ principal.class # bundle.class THEN "ClassificationMismatch"
  ELSE "ContractCheckApproved"

Verdict == IF Reads("check") THEN check_principal ELSE "ContractCheckDenied"
Approves == Verdict = "ContractCheckApproved"

\* A refused scan stays in the plan, below the empty relation.
evaluate_scan_Kept(scan) ==
  IF Approves THEN PlanNode("ContractApproved", "", <<>>, <<scan>>)
              ELSE PlanNode("EmptyRelation", scan.name, <<>>, <<scan>>)

evaluate_scan(scan) ==
  IF Approves THEN PlanNode("ContractApproved", "", <<>>, <<scan>>)
              ELSE PlanNode("EmptyRelation", scan.name, <<>>, <<>>)

RECURSIVE CheckScans_OneSide(_)
\* Only the first input of a node is walked.
CheckScans_OneSide(p) ==
  IF p.op = "TableScan" THEN evaluate_scan(p)
  ELSE IF p.inputs = <<>> THEN p ELSE [p EXCEPT !.inputs[1] = CheckScans_OneSide(@)]

RECURSIVE CheckScans(_)
CheckScans(p) ==
  IF p.op = "TableScan" THEN evaluate_scan(p)
  ELSE [p EXCEPT !.inputs = MapInputs(CheckScans, p)]

-----------------------------------------------------------------------------
(* RowFilterRule.  0 stands for an absent, null or empty filter.           *)

effective_row_filter ==
  IF principal.id \in DOMAIN bundle.per_principal
  THEN bundle.per_principal[principal.id] ELSE bundle.row_filter

parse_filter_expr == sql_expr_to_df_expr(Filters[effective_row_filter])

FilterWanted == Reads("filter") /\ effective_row_filter # 0

RECURSIVE InjectFilter_FirstPath(_)
\* Only the first input of a node is walked.
InjectFilter_FirstPath(p) ==
  IF p.op = "ContractApproved" THEN PlanNode("Filter", "contract", <<>>, <<p>>)
  ELSE IF p.inputs = <<>> THEN p ELSE [p EXCEPT !.inputs[1] = InjectFilter_FirstPath(@)]

RECURSIVE InjectFilter(_)
InjectFilter(p) ==
  IF p.op = "ContractApproved" THEN PlanNode("Filter", "contract", <<>>, <<p>>)
  ELSE [p EXCEPT !.inputs = MapInputs(InjectFilter, p)]

-----------------------------------------------------------------------------
(* MaskingRule.                                                            *)

MaskPolicies == {"redact", "hash_sha256", "partial", "null", "tokenize"}
from_bundle_str(s) == IF s \in MaskPolicies THEN s ELSE "noop"

PolicyOf(col) == IF col \in DOMAIN bundle.masks
                 THEN from_bundle_str(bundle.masks[col]) ELSE "noop"

\* A masked expression is an alias of something that is not a column; it is
\* named after the column, and every mask makes it a string.
apply_mask(e) ==
  [e EXCEPT !.form = "AliasOfExpr", !.name = e.col, !.type = "Utf8",
            !.masks = Append(@, PolicyOf(e.col))]

MaskExpr_AnyAlias(e) == IF e.form # "Function" /\ PolicyOf(e.col) # "noop"
                        THEN apply_mask(e) ELSE e

\* Only a bare column and an alias of one are recognised.
MaskExpr(e) == IF e.form \in {"Column", "AliasOfColumn"} /\ PolicyOf(e.col) # "noop"
               THEN apply_mask(e) ELSE e

RECURSIVE MaskProjections(_)
MaskProjections(p) ==
  LET below == [p EXCEPT !.inputs = MapInputs(MaskProjections, p)]
  IN IF p.op = "Projection" /\ subtree_has_approval_marker(p.inputs[1])
     THEN [below EXCEPT !.exprs = [i \in DOMAIN @ |-> MaskExpr(@[i])]]
     ELSE below

-----------------------------------------------------------------------------
(* DPNoiseRule.  The walk carries the state st: the budgets, the epsilon   *)
(* taken by this rewrite and the column that could not pay.                *)

\* The rest of the budget is stored under the tenant instead of the column.
consume_WrongKey(st, col) ==
  LET eps == bundle.dp[col]
      left == IF col \in DOMAIN st.budgets THEN st.budgets[col] ELSE 0
  IN IF enforcing /\ left < eps - Slack
     THEN [st EXCEPT !.error = col]
     ELSE [st EXCEPT !.budgets = [c \in DOMAIN @ \cup {"tenant"} |->
                                   IF c = "tenant" THEN left - eps ELSE @[c]],
                     !.taken[col] = @ + eps]

consume(st, col) ==
  LET eps == bundle.dp[col]
      left == IF col \in DOMAIN st.budgets THEN st.budgets[col] ELSE 0
  IN IF enforcing /\ left < eps - Slack
     THEN [st EXCEPT !.error = col]
     ELSE [st EXCEPT
             !.budgets = IF enforcing THEN [c \in DOMAIN @ \cup {col} |->
                                             IF c = col THEN left - eps ELSE @[c]]
                         ELSE @,
             !.taken[col] = @ + eps]

\* The DP columns below the arguments of an aggregate, in order and with
\* repetitions; a function call hides its column.
collect_agg_columns(p) ==
  LET visible == SelectSeq(p.exprs, LAMBDA e : e.form # "Function" /\ e.col \in DOMAIN bundle.dp)
  IN [i \in DOMAIN visible |-> visible[i].col]

ConsumeAll(st, cols) ==
  FoldLeft(LAMBDA s, c : IF s.error # "" THEN s ELSE consume(s, c), st, cols)

\* Only the first protected column gets a node.
Wrap_FirstOnly(p, cols) == PlanNode("LaplaceNoise", cols[1], <<>>, <<p>>)

Wrap(p, cols) == FoldLeft(LAMBDA q, c : PlanNode("LaplaceNoise", c, <<>>, <<q>>), p, cols)

RECURSIVE NoiseWalk_Unmarked(_, _)
\* Aggregates are noised whether or not their input was approved.
NoiseWalk_Unmarked(p, st) ==
  LET cols == collect_agg_columns(p)
      paid == ConsumeAll(st, cols)
  IN IF p.op = "Aggregate" /\ cols # <<>> /\ st.error = ""
     THEN [plan |-> IF paid.error = "" THEN Wrap(p, cols) ELSE p, st |-> paid]
     ELSE FoldLeft(LAMBDA acc, i :
            LET sub == NoiseWalk_Unmarked(p.inputs[i], acc.st)
            IN [plan |-> [acc.plan EXCEPT !.inputs[i] = sub.plan], st |-> sub.st],
            [plan |-> p, st |-> st], [i \in DOMAIN p.inputs |-> i])

RECURSIVE NoiseWalk(_, _)
NoiseWalk(p, st) ==
  LET cols == collect_agg_columns(p)
      paid == ConsumeAll(st, cols)
  IN IF /\ p.op = "Aggregate" /\ cols # <<>> /\ st.error = ""
        /\ subtree_has_approval_marker(p.inputs[1])
     THEN [plan |-> IF paid.error = "" THEN Wrap(p, cols) ELSE p, st |-> paid]
     ELSE FoldLeft(LAMBDA acc, i :
            LET sub == NoiseWalk(p.inputs[i], acc.st)
            IN [plan |-> [acc.plan EXCEPT !.inputs[i] = sub.plan], st |-> sub.st],
            [plan |-> p, st |-> st], [i \in DOMAIN p.inputs |-> i])

-----------------------------------------------------------------------------
NoEpsilon == [c \in DOMAIN ColumnType |-> 0]
NoAudit == [k \in Kinds |-> 0]

build_pipeline ==
  /\ bundle \in Bundles
  /\ principal \in Principals
  /\ enforcing \in BOOLEAN
  /\ budgets = IF enforcing THEN Seeded ELSE <<>>
  /\ audit = NoAudit

Init ==
  /\ build_pipeline
  /\ phase = "idle" /\ pass = 0 /\ origin = 0
  /\ plan = PlanNode("EmptyRelation", "", <<>>, <<>>) /\ before = plan
  /\ denials = 0 /\ queries = 0 /\ debited = NoEpsilon

\* The optimizer starts on a plan.
StartQuery ==
  /\ phase \in {"idle", "done", "failed"}
  /\ queries < MaxQueries /\ queries' = queries + 1
  /\ \E q \in DOMAIN Plans :
       /\ origin' = q /\ plan' = Plans[q] /\ before' = Plans[q]
  /\ phase' = "check" /\ pass' = 1 /\ debited' = NoEpsilon
  /\ UNCHANGED <<bundle, principal, enforcing, budgets, audit, denials>>

\* drain_audit_records of the contract check and of the noise rule.
drain_audit_records ==
  /\ phase \in {"done", "failed"}
  /\ audit # NoAudit
  /\ audit' = NoAudit /\ denials' = 0
  /\ UNCHANGED <<bundle, principal, enforcing, budgets, phase, pass, origin, plan, before, queries, debited>>

\* The optimizer takes the rewritten plan, unless its columns changed.
Accept(rewritten, next) ==
  /\ plan' = rewritten
  /\ phase' = IF SchemaOf(rewritten) = SchemaOf(plan) THEN next ELSE "failed"

ContractCheckRewrite ==
  /\ phase = "check"
  /\ LET scans == Len(Select(plan, "TableScan")) IN
       /\ audit' = [audit EXCEPT ![Verdict] = @ + scans]
       /\ denials' = denials + IF Approves \/ pass > 1 THEN 0
                               ELSE Len(Select(Plans[origin], "TableScan"))
  /\ Accept(CheckScans(plan), "filter")
  /\ UNCHANGED <<bundle, principal, enforcing, budgets, pass, origin, before, queries, debited>>

RowFilterRewrite ==
  /\ phase = "filter"
  /\ IF ~FilterWanted THEN plan' = plan /\ phase' = "mask"
     ELSE IF parse_filter_expr.kind = "Err" THEN plan' = plan /\ phase' = "failed"
     ELSE Accept(InjectFilter(plan), "mask")
  /\ UNCHANGED <<bundle, principal, enforcing, budgets, audit, pass, origin, before, queries, denials, debited>>

MaskingRewrite ==
  /\ phase = "mask"
  /\ IF Reads("mask") /\ DOMAIN bundle.masks # {}
     THEN Accept(MaskProjections(plan), "noise")
     ELSE plan' = plan /\ phase' = "noise"
  /\ UNCHANGED <<bundle, principal, enforcing, budgets, audit, pass, origin, before, queries, denials, debited>>

\* Debits of a rewrite that fails are kept, its plan is not.
DPNoiseRewrite ==
  /\ phase = "noise"
  /\ IF Reads("dp") /\ DOMAIN bundle.dp # {}
     THEN LET w == NoiseWalk(plan, [budgets |-> budgets, taken |-> debited, error |-> ""]) IN
            /\ budgets' = w.st.budgets
            /\ debited' = w.st.taken
            /\ IF w.st.error = ""
               THEN Accept(w.plan, "passed") /\ audit' = audit
               ELSE /\ plan' = plan /\ phase' = "failed"
                    /\ audit' = [audit EXCEPT !["PrivacyBudgetExhausted"] = @ + 1]
     ELSE plan' = plan /\ phase' = "passed" /\ UNCHANGED <<budgets, audit, debited>>
  /\ UNCHANGED <<bundle, principal, enforcing, pass, origin, before, queries, denials>>

\* The optimizer's end of a pass.
EndPass ==
  /\ phase = "passed"
  /\ IF plan = before \/ pass = MaxPasses
     THEN phase' = "done" /\ UNCHANGED <<pass, before>>
     ELSE phase' = "check" /\ pass' = pass + 1 /\ before' = plan
  /\ UNCHANGED <<bundle, principal, enforcing, budgets, audit, origin, plan, queries, denials, debited>>

Next == \/ StartQuery \/ ContractCheckRewrite \/ RowFilterRewrite \/ MaskingRewrite
        \/ DPNoiseRewrite \/ EndPass \/ drain_audit_records

Spec == Init /\ [][Next]_vars

-----------------------------------------------------------------------------
(* Properties.                                                             *)

TypeOK ==
  /\ bundle \in Bundles /\ principal \in Principals /\ enforcing \in BOOLEAN
  /\ DOMAIN budgets \subseteq DOMAIN ColumnType
  /\ audit \in [Kinds -> Nat] /\ debited \in [DOMAIN ColumnType -> Nat]
  /\ phase \in {"idle", "check", "filter", "mask", "noise", "passed", "done", "failed"}
  /\ pass \in 0..MaxPasses /\ origin \in 0..Len(Plans) /\ queries \in 0..MaxQueries

\* The check has been made in this pass.
Checked == phase \in {"filter", "mask", "noise", "passed", "done"}

\* The row filter has been put in, in this pass or an earlier one.
Filtered == phase \in {"mask", "noise", "passed", "done"}

\* The rows a plan reads, each with its table.  A user's own filter keeps
\* the rows of region 1.
RECURSIVE RowsOf(_)
RowsOf(p) ==
  LET below == UNION ToSet(MapInputs(RowsOf, p))
  IN CASE p.op = "TableScan" -> {<<p.name, r>> : r \in Rows}
       [] p.op = "Filter" /\ p.name = "contract" ->
            {x \in below : Eval(parse_filter_expr, x[2]) = TRUE}
       [] p.op = "Filter" /\ p.name = "user" -> {x \in below : x[2].region = 1}
       [] OTHER -> below

(***************************************************************************)
(* ContractCheckRule judges every scan of the plan, on both sides of a     *)
(* join and in every pass: afterwards a scan is either gone or directly    *)
(* below an approval marker, and a refused query reads no table.           *)
(***************************************************************************)
EveryScanJudged ==
  Checked =>
    /\ ~Approves => Select(plan, "TableScan") = <<>>
    /\ plan.op # "TableScan"
    /\ \A n \in ToSet(Nodes(plan)) :
         (\E i \in DOMAIN n.inputs : n.inputs[i].op = "TableScan") => n.op = "ContractApproved"

PermittedRows ==
  {x \in RowsOf(Plans[origin]) :
     Approves /\ (FilterWanted => Meaning(Filters[effective_row_filter], x[2]) = TRUE)}

(***************************************************************************)
(* Whatever the passes and wherever the filters were put, a plan reads     *)
(* exactly the rows of the query that the contract's SQL filter accepts in *)
(* three-valued logic (none, when the check refused it).  A filter that    *)
(* RowFilterRule cannot translate lets no plan through; one with an ESCAPE *)
(* clause, which it translates to something else, is set apart.  Without a *)
(* readable filter section the rule passes all rows.                       *)
(***************************************************************************)
ReadsPermittedRows ==
  Filtered /\ ~(FilterWanted /\ HasEscape(Filters[effective_row_filter]))
    => RowsOf(plan) = PermittedRows

\* The masking rule has run, in this pass or an earlier one.
Masked == phase \in {"noise", "passed", "done"} /\ Reads("mask")

\* The values that leave a plan: the column of the table each one is, the
\* names it goes by on the way, the masks put around it, the projections it
\* passes, and whether it was only ever projected, bare or under an alias.
RECURSIVE Values(_)
Values(p) ==
  LET below == UNION ToSet(MapInputs(Values, p))
      Through(e, v) == [v EXCEPT !.name = e.name, !.names = @ \cup {e.name},
                                 !.masks = @ \o e.masks, !.levels = @ + 1,
                                 !.projected = @ /\ p.op = "Projection" /\ e.form # "Function"]
  IN CASE p.op = "TableScan" ->
            {[name |-> c, col |-> c, names |-> {c}, masks |-> <<>>, levels |-> 0,
              projected |-> TRUE] : c \in DOMAIN ColumnType}
       [] p.op \in {"Projection", "Aggregate"} ->
            {Through(e, v) : <<e, v>> \in {x \in ToSet(p.exprs) \X below : x[2].name = x[1].col}}
       [] OTHER -> below

ProjectedValues == UNION {Values(n) : n \in ToSet(Select(plan, "Projection"))}

(***************************************************************************)
(* From the scan to any projection, through aliases, joins and derived     *)
(* tables, a value of a column with a mask policy is masked at least once  *)
(* unless a function call or an aggregate took it in; each projection on   *)
(* the way masks it at most once, however many passes are made, because    *)
(* MaskingRule does not take its own result for a column; and a value that *)
(* never went by the name of such a column is left alone.                  *)
(***************************************************************************)
MaskedOnTheWay ==
  Masked => \A v \in ProjectedValues :
    /\ v.projected /\ PolicyOf(v.col) # "noop" => v.masks # <<>>
    /\ Len(v.masks) <= v.levels
    /\ v.masks # <<>> => \E c \in v.names : PolicyOf(c) # "noop"

(***************************************************************************)
(* In a plan that has not failed every epsilon DPNoiseRule took for the    *)
(* query stands for a noise node on that column, and the other way round:  *)
(* no budget is spent without noise, none saved by sharing a node.         *)
(***************************************************************************)
DebitsAreNoise ==
  phase \notin {"idle", "failed"} =>
    \A c \in DOMAIN ColumnType :
      debited[c] = (IF c \in DOMAIN bundle.dp THEN bundle.dp[c] ELSE 0)
                   * Len(SelectSeq(Select(plan, "LaplaceNoise"), LAMBDA n : n.name = c))

(***************************************************************************)
(* A query that ContractCheckRule refuses costs no budget, although the    *)
(* aggregate is still in its plan when DPNoiseRule sees it.                *)
(***************************************************************************)
RefusedIsFree == ~Approves => debited = NoEpsilon

(***************************************************************************)
(* Later passes of the optimizer do not report a refusal again: the audit  *)
(* records hold one refusal per scan of the refused queries.               *)
(***************************************************************************)
RefusalsAuditedOnce ==
  audit["ContractCheckDenied"] + audit["PurposeMismatch"] + audit["TierMismatch"]
    + audit["ClassificationMismatch"] = denials

(***************************************************************************)
(* dp_noise.rs jumps over the chain it inserts because "the wrapped        *)
(* Aggregate is already processed and recursing would double-consume       *)
(* budget": a query pays epsilon_per_query once for each mention of a      *)
(* column in an aggregate.                                                 *)
(***************************************************************************)
PaysOncePerMention ==
  \A c \in DOMAIN bundle.dp :
    debited[c] <= bundle.dp[c] * Len(SelectSeq(
      FlattenSeq([k \in DOMAIN Select(plan, "Aggregate") |-> Select(plan, "Aggregate")[k].exprs]),
      LAMBDA e : e.col = c))
=============================================================================
