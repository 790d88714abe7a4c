---------------------------- MODULE ContractFilter ----------------------------
(***************************************************************************)
(* The row filter of a contract: a SQL WHERE fragment, its translation     *)
(* into an expression of the query engine, and what each of them says      *)
(* about a row in SQL's three-valued logic.  A parsed fragment and an      *)
(* expression are trees of the same shape; leaf is a column or a literal.  *)
(***************************************************************************)
EXTENDS Integers, Sequences

CONSTANTS
  NULL,        \* the SQL null; also the truth value "unknown"
  LikeTable    \* the pairs <<value, pattern>> that match

Node(kind, op, neg, leaf, args) ==
  [kind |-> kind, op |-> op, neg |-> neg, leaf |-> leaf, args |-> args]

Err == Node("Err", "", FALSE, "", <<>>)

\* Operators the translation knows; the parser produces more.
SupportedOps == {"Eq", "NotEq", "Lt", "LtEq", "Gt", "GtEq", "And", "Or",
                 "LikeMatch", "NotLikeMatch"}

(***************************************************************************)
(* The translation.  An operator, a literal or a node it does not know     *)
(* makes the whole filter an error.                                        *)
(***************************************************************************)
RECURSIVE sql_expr_to_df_expr(_)
sql_expr_to_df_expr(e) ==
  LET args == [i \in DOMAIN e.args |-> sql_expr_to_df_expr(e.args[i])]
      Build(kind, op, neg) ==
        IF \E i \in DOMAIN args : args[i].kind = "Err"
        THEN Err ELSE Node(kind, op, neg, e.leaf, args)
  IN CASE e.kind = "BinaryOp" -> IF e.op \in SupportedOps
                                 THEN Build("BinaryExpr", e.op, FALSE) ELSE Err
       [] e.kind \in {"Not", "IsNull", "IsNotNull"} -> Build(e.kind, "", FALSE)
       [] e.kind = "InList" -> Build("InList", "", e.neg)
       [] e.kind = "Like" ->      \* an ESCAPE clause is dropped
            Build("BinaryExpr", IF e.neg THEN "NotLikeMatch" ELSE "LikeMatch", FALSE)
       [] e.kind = "Identifier" -> Build("Column", "", FALSE)
       [] e.kind = "Value" -> Build("Literal", "", FALSE)
       [] e.kind = "Nested" -> args[1]
       [] OTHER -> Err      \* "Other": BETWEEN, sub-queries, unary minus, ...

(***************************************************************************)
(* RowFilterExec has a translation of its own, for fewer constructs.       *)
(***************************************************************************)

RECURSIVE sql_ast_to_df_expr(_)
sql_ast_to_df_expr(e) ==
  LET args == [i \in DOMAIN e.args |-> sql_ast_to_df_expr(e.args[i])]
      Build(kind, op) == IF \E i \in DOMAIN args : args[i].kind = "Err"
                         THEN Err ELSE Node(kind, op, FALSE, e.leaf, args)
  IN CASE e.kind = "BinaryOp" -> IF e.op \in SupportedOps \ {"LikeMatch", "NotLikeMatch"}
                                 THEN Build("BinaryExpr", e.op) ELSE Err
       [] e.kind = "Identifier" -> Build("Column", "")
       [] e.kind = "Value" -> Build("Literal", "")
       [] e.kind = "Nested" -> args[1]
       [] OTHER -> Err

-----------------------------------------------------------------------------
Not3(a) == IF a = NULL THEN NULL ELSE ~a
And3(a, b) == IF FALSE \in {a, b} THEN FALSE
              ELSE IF NULL \in {a, b} THEN NULL ELSE TRUE
Or3(a, b) == Not3(And3(Not3(a), Not3(b)))

Apply(op, a, b) ==
  IF op = "And" THEN And3(a, b)
  ELSE IF op = "Or" THEN Or3(a, b)
  ELSE IF a = NULL \/ b = NULL THEN NULL
  ELSE CASE op = "Eq" -> a = b
         [] op = "NotEq" -> a # b
         [] op = "Lt" -> a < b
         [] op = "LtEq" -> a <= b
         [] op = "Gt" -> a > b
         [] op = "GtEq" -> a >= b
         [] op = "LikeMatch" -> <<a, b>> \in LikeTable
         [] op = "NotLikeMatch" -> <<a, b>> \notin LikeTable

In3(v, list) ==
  LET hits == {Apply("Eq", v, list[i]) : i \in DOMAIN list}
  IN IF TRUE \in hits THEN TRUE ELSE IF NULL \in hits THEN NULL ELSE FALSE

\* How the engine evaluates an expression on a row.
RECURSIVE Eval(_, _)
Eval(e, row) ==
  LET v == [i \in DOMAIN e.args |-> Eval(e.args[i], row)] IN
  CASE e.kind = "Column" -> row[e.leaf]
    [] e.kind = "Literal" -> e.leaf
    [] e.kind = "BinaryExpr" -> Apply(e.op, v[1], v[2])
    [] e.kind = "Not" -> Not3(v[1])
    [] e.kind = "IsNull" -> v[1] = NULL
    [] e.kind = "IsNotNull" -> v[1] # NULL
    [] e.kind = "InList" -> IF e.neg THEN Not3(In3(v[1], Tail(v)))
                                     ELSE In3(v[1], Tail(v))

\* What SQL says the fragment means on a row; BETWEEN stands for the
\* constructs that the translation refuses, and a pattern with an ESCAPE
\* clause has all its wildcards escaped, so that it matches its own text.
RECURSIVE Meaning(_, _)
Meaning(e, row) ==
  LET v == [i \in DOMAIN e.args |-> Meaning(e.args[i], row)]
      Signed(x) == IF e.neg THEN Not3(x) ELSE x
  IN CASE e.kind = "Identifier" -> row[e.leaf]
       [] e.kind = "Value" -> e.leaf
       [] e.kind = "Nested" -> v[1]
       [] e.kind = "BinaryOp" -> Apply(e.op, v[1], v[2])
       [] e.kind = "Not" -> Not3(v[1])
       [] e.kind = "IsNull" -> v[1] = NULL
       [] e.kind = "IsNotNull" -> v[1] # NULL
       [] e.kind = "InList" -> Signed(In3(v[1], Tail(v)))
       [] e.kind = "Like" ->
            Signed(Apply(IF e.op = "Escape" THEN "Eq" ELSE "LikeMatch", v[1], v[2]))
       [] e.kind = "Other" -> And3(Apply("LtEq", v[2], v[1]), Apply("LtEq", v[1], v[3]))

RECURSIVE HasEscape(_)
HasEscape(e) == e.op = "Escape" \/ \E i \in DOMAIN e.args : HasEscape(e.args[i])
=============================================================================
