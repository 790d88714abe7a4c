------------------------- MODULE MCOptimizerPipeline -------------------------
(***************************************************************************)
(* OptimizerPipeline over plans with joins, nested aggregates, aliases and *)
(* function calls, and over bundles that vary one thing at a time.         *)
(***************************************************************************)
EXTENDS OptimizerPipeline, TLC

Id(c) == Node("Identifier", "", FALSE, c, <<>>)
Lit(v) == Node("Value", "", FALSE, v, <<>>)
Bin(op, a, b) == Node("BinaryOp", op, FALSE, "", <<a, b>>)
Un(kind, a) == Node(kind, "", FALSE, "", <<a>>)
InL(neg, a, list) == Node("InList", "", neg, "", <<a>> \o list)
LikeP(neg, a, b) == Node("Like", "", neg, "", <<a, b>>)

Us == Bin("Eq", Id("region"), Lit(1))
Senior == Bin("GtEq", Id("level"), Lit(2))

MCFilters == <<
  Us,
  Bin("And", Us, Un("Not", Un("Nested", Senior))),
  Bin("Or", Un("IsNull", Id("region")), Senior),
  InL(TRUE, Id("region"), <<Lit(1), Lit(NULL)>>),
  InL(TRUE, Id("region"), <<Lit(2)>>),
  InL(FALSE, Id("level"), <<Lit(1), Lit(2)>>),
  LikeP(TRUE, Id("level"), Lit(2)),
  Bin("And", Un("IsNotNull", Id("level")), Bin("NotEq", Id("region"), Id("level"))),
  Bin("Or", Us, Node("Other", "", FALSE, "", <<Id("level"), Lit(1), Lit(2)>>)),
  Bin("Plus", Id("level"), Lit(1)),
  Node("Like", "Escape", FALSE, "", <<Id("level"), Lit(2)>>) >>

MCLike == {<<1, 1>>, <<1, 2>>}
MCRows == [region : {1, 2, NULL}, level : {1, 3, NULL}]
MCColumnType == [email |-> "Utf8", salary |-> "Int64", bonus |-> "Int64"]

C(c) == Expr("Column", c, c)
As(c, n) == Expr("AliasOfColumn", c, n)
F(c) == Expr("Function", c, "f")
Scan(t) == PlanNode("TableScan", t, <<>>, <<>>)
Where(p) == PlanNode("Filter", "user", <<>>, <<p>>)
Proj(es, p) == PlanNode("Projection", "", es, <<p>>)
Agg(es, p) == PlanNode("Aggregate", "", es, <<p>>)
Join(p, q) == PlanNode("Join", "", <<>>, <<p, q>>)

MCPlans == <<
  Scan("t"),
  Proj(<<C("email"), F("email")>>, Where(Scan("t"))),
  Proj(<<As("email", "email")>>,
       Join(Proj(<<C("email"), F("salary")>>, Scan("t")), Proj(<<C("bonus")>>, Scan("u")))),
  Proj(<<As("email", "email")>>, Proj(<<As("salary", "email"), C("bonus")>>, Scan("t"))),
  Proj(<<C("email")>>, Join(Proj(<<As("email", "e"), C("salary")>>, Scan("t")), Scan("u"))),
  Proj(<<As("email", "e")>>, Scan("t")),
  Agg(<<C("salary"), C("bonus"), C("salary")>>, Join(Scan("t"), Scan("u"))),
  Agg(<<F("salary")>>, Agg(<<C("salary")>>, Where(Scan("t")))),
  Agg(<<C("bonus")>>, Agg(<<C("salary")>>, Scan("t"))),
  Proj(<<C("email")>>, PlanNode("EmptyRelation", "v", <<>>, <<>>)) >>

All == {"check", "filter", "mask", "dp"}
None == [c \in {} |-> 0]
Base == [readable |-> All, purposes |-> {"analytics"}, tier |-> "silver", class |-> "internal",
         row_filter |-> 1, per_principal |-> None,
         masks |-> [email |-> "hash_sha256", salary |-> "noop"],
         dp |-> [salary |-> 2, bonus |-> 3]]

MCBundles ==
  {[Base EXCEPT !.row_filter = f] : f \in 0..Len(MCFilters)}
  \cup {[Base EXCEPT !.per_principal = ("alice" :> f)] : f \in {0, 4, 9}}
  \cup {[Base EXCEPT !.readable = r] : r \in {{}, All \ {"filter"}, All \ {"mask"}, All \ {"dp"}}}
  \cup {[Base EXCEPT !.masks = m] : m \in {None, [email |-> "null", salary |-> "redact"]}}
  \cup {[Base EXCEPT !.dp = d] : d \in {None, [bonus |-> 1]}}
  \cup {[Base EXCEPT !.purposes = {}], [Base EXCEPT !.purposes = {"billing"}],
        [Base EXCEPT !.tier = "gold"], [Base EXCEPT !.tier = "platinum"],
        [Base EXCEPT !.class = ""], [Base EXCEPT !.class = "restricted"]}

MCPrincipals ==
  {[id |-> "alice", purpose |-> "analytics", tier |-> "silver", class |-> "internal"],
   [id |-> "bob", purpose |-> "analytics", tier |-> "guest", class |-> "internal"]}

MCSeeded == [salary |-> 13, bonus |-> 9]
=============================================================================
