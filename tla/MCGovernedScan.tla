---------------------------- MODULE MCGovernedScan ----------------------------
(***************************************************************************)
(* GovernedScan over three small files, directories in every order of two  *)
(* contracts for one dataset, and two platform contracts, one of them with *)
(* two versions.                                                           *)
(* The filters are translated and evaluated by ContractFilter.             *)
(***************************************************************************)
EXTENDS GovernedScan, ContractFilter

Id(c) == Node("Identifier", "", FALSE, c, <<>>)
Lit(v) == Node("Value", "", FALSE, v, <<>>)
Bin(op, a, b) == Node("BinaryOp", op, FALSE, "", <<a, b>>)

Eu == Bin("Eq", Id("region"), Lit("EU"))
FilterText ==
  [eu |-> Eu,
   eu_or_ann |-> Node("Nested", "", FALSE, "", <<Bin("Or", Eu, Bin("Eq", Id("email"), Lit("ann")))>>),
   not_us |-> Bin("NotEq", Id("region"), Lit("US")),
   listed |-> Node("InList", "", FALSE, "", <<Id("region"), Lit("EU")>>),
   elsewhere |-> Bin("Eq", Id("city"), Lit("Rome"))]
FilterColumns ==
  [eu |-> {"region"}, eu_or_ann |-> {"region", "email"}, not_us |-> {"region"},
   listed |-> {"region"}, elsewhere |-> {"city"}]

MCCompiles(f, types) ==
  /\ sql_ast_to_df_expr(FilterText[f]).kind # "Err"
  /\ FilterColumns[f] \subseteq DOMAIN types

\* A cell that is not raw any more equals no literal.
Values(row) ==
  [c \in DOMAIN row |-> CASE row[c].as = "null" -> NULL
                         [] row[c].as = "raw" -> row[c].of
                         [] OTHER -> row[c].as]
MCHolds(f, row) == Eval(sql_ast_to_df_expr(FilterText[f]), Values(row)) = TRUE
MCMeant(f, row) == Meaning(FilterText[f], Values(row)) = TRUE

Raw(v) == Cell("raw", v)
NullCell == Cell("null", None)
Row(e, r, a) == [email |-> e, region |-> r, age |-> a]

People ==
  [types |-> [email |-> "Utf8", region |-> "LargeUtf8", age |-> "Int64"],
   rows |-> <<Row(Raw("ann"), Raw("US"), Raw("30")), Row(Raw("bob"), Raw("EU"), NullCell),
              Row(NullCell, Raw("EU"), Raw("40")), Row(Raw("bob"), NullCell, Raw("30"))>>,
   ends |-> <<2, 2, 4>>]
Dated ==
  [types |-> [email |-> "Utf8", born |-> "Date32", tags |-> "Struct"],
   rows |-> <<[email |-> Raw("ann"), born |-> Raw("1990"), tags |-> Raw("x")]>>,
   ends |-> <<1>>]
MCFiles == [people |-> People, dated |-> Dated, empty |-> [People EXCEPT !.rows = <<>>, !.ends = <<>>]]

C(version, parquet, purposes, columns, filter, dp) ==
  [contract_id |-> "c", version |-> version, dataset |-> "d", parquet |-> parquet,
   owner |-> "acme", purposes |-> purposes, columns |-> columns, filter |-> filter,
   dp |-> dp, wellformed |-> TRUE]

Dp(e) == [age |-> [epsilon |-> e, sensitivity |-> 1]]
Masked == [email |-> "HASH", region |-> "redact", age |-> "null"]
Base == C(1, "people", {"analytics"}, Masked, "eu", Nothing)

MCContracts ==
  << Base,
     C(2, "people", {}, [email |-> "partial", age |-> "tokenize"], "eu_or_ann", Nothing),
     C(1, "people", {}, [email |-> "none", region |-> "hash_sha256"], "", Dp(1)),
     C(1, "people", {"analytics"}, [email |-> "rainbow"], None, Nothing),
     C(1, "people", {}, [age |-> "hash"], None, Dp(1)),
     C(1, "people", {}, [age |-> "redact"], "not_us", Dp(0)),
     C(1, "people", {}, [age |-> "redact"], "not_us", Dp(2)),
     C(1, "people", {}, Nothing, "listed", Nothing),
     C(1, "empty", {}, Masked, "elsewhere", Nothing),
     C(1, "people", {}, Masked, "elsewhere", Nothing),
     C(1, "dated", {}, [born |-> "hash_sha256", email |-> "null"], None, Nothing),
     C(1, "dated", {}, [born |-> "redact"], None, Nothing),
     C(1, "dated", {}, [tags |-> "partial"], None, Nothing),
     C(1, "gone", {}, Nothing, None, Nothing),
     [Base EXCEPT !.contract_id = ""],
     C(0, "people", {}, Nothing, None, Nothing) >>

Docs(i) == MCContracts[i]
MCDirectories ==
  {<<Docs(i)>> : i \in DOMAIN MCContracts}
  \cup {<<Docs(1), Docs(2)>>, <<Docs(2), Docs(1)>>, <<Docs(1), [Docs(2) EXCEPT !.wellformed = FALSE]>>}

P(id, version, purposes, columns, filter) ==
  [C(version, "", purposes, columns, filter, Nothing) EXCEPT !.contract_id = id, !.dataset = id]
MCVersions ==
  [d |-> << P("d", 1, {}, [email |-> "hash_sha256"], None),
            P("d", 2, {"analytics"}, [email |-> "redact", age |-> "tokenize"], "eu") >>,
   e |-> << [P("e", 1, {}, [region |-> "redact"], None) EXCEPT !.owner = "globex"] >>]
MCPlatformFiles == [d |-> "people", e |-> "dated"]

MCCallers == [purpose : {"analytics", "ads"}, tenant : {"acme", "globex"}]

Ask(columns, where, limit, attested) ==
  [dataset |-> "d", columns |-> columns, where |-> where, limit |-> limit,
   attested |-> attested, ddl |-> FALSE]
Bob == [column |-> "email", value |-> "bob"]
MCAsks ==
  {Ask({"email", "region", "age"}, None, None, TRUE), Ask({"email"}, Bob, None, FALSE),
   Ask({"email", "age"}, None, 1, FALSE), Ask({"email", "born", "tags"}, None, None, FALSE),
   Ask({"email", "age"}, Bob, 1, FALSE),
   [Ask({"email"}, None, None, FALSE) EXCEPT !.dataset = "unknown"],
   [Ask({"email"}, None, None, FALSE) EXCEPT !.ddl = TRUE]}

MCLowercase == [HASH |-> "hash"]
MCCastable == {"Int64", "Float64", "Boolean", "Date32"}
=============================================================================
