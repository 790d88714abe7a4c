----------------------------- MODULE EngineShell -----------------------------
(***************************************************************************)
(* K04DEngine of src/src/lib.rs: its construction, the bundle it must be   *)
(* given, the tables registered with it, and the two gates every statement *)
(* passes, the second of which is the DDL guard.                           *)
(*                                                                         *)
(* SQL is a sequence of characters, where "V" stands for a word the guard  *)
(* does not allow (in any case) and "w" for any other word.  A statement   *)
(* is typed piece by piece; a piece is [kind, body, text], so that what    *)
(* the pieces mean is known without reading their text.                    *)
(***************************************************************************)
EXTENDS Naturals, Sequences, FiniteSets, SequencesExt

CONSTANTS
  None,
  Configs,        \* sets of the InitConfig fields that are filled in
  Bundles, Tables,
  Chars,          \* what a statement is written in
  Pieces,         \* what a statement may be made of
  MaxPieces       \* bound: pieces in a statement

VARIABLES
  engine,         \* "none", "refused" or "ready"
  contract_bundle,
  ctx,            \* whether the session context exists
  tables,         \* registered in the context
  typed,          \* the pieces of the next statement
  last            \* the last statement: [pieces, bundle, outcome], or None

vars == <<engine, contract_bundle, ctx, tables, typed, last>>

-----------------------------------------------------------------------------
(* Pieces.  What makes a piece a comment or a literal is how SQL reads it, *)
(* whatever is in its body.                                                *)

Blank == {" ", "\n"}

ASSUME CharsAssumption == Blank \cup {"V", "w", "(", ";", "'", "-", "/", "*"} \subseteq Chars

LineComment(text) ==
  /\ text \in Seq(Chars) /\ Len(text) >= 3
  /\ text[1] = "-" /\ text[2] = "-"
  /\ \A i \in 3 .. Len(text) : text[i] = "\n" <=> i = Len(text)

(* Block comments nest: some of the delimiters in the text, opens and      *)
(* closes, are matched, and the last closes the first.  What looks like a  *)
(* delimiter and is not one begins with the second character of one.       *)
Opening(text) == {i \in 1 .. Len(text) - 1 : text[i] = "/" /\ text[i + 1] = "*"}
Closing(text) == {i \in 1 .. Len(text) - 1 : text[i] = "*" /\ text[i + 1] = "/"}

Nested(text, opens, closes) ==
  /\ 1 \in opens /\ Len(text) - 1 \in closes
  /\ \A i \in Opening(text) \cup Closing(text) :
       i \notin opens \cup closes <=> i - 1 \in opens \cup closes
  /\ \A i \in 1 .. Len(text) - 2 :
       Cardinality(closes \cap (1 .. i)) < Cardinality(opens \cap (1 .. i))
  /\ Cardinality(closes) = Cardinality(opens)

BlockComment(text) ==
  /\ text \in Seq(Chars)
  /\ \E opens \in SUBSET Opening(text), closes \in SUBSET Closing(text) :
       Nested(text, opens, closes)

ASSUME PiecesAreLexed ==
  \A x \in Pieces :
    \/ x.kind = "verb" /\ x.text = <<"V">>
    \/ x.kind = "word" /\ x.text = <<"w">>
    \/ x.kind = "paren" /\ x.text = <<"(">>
    \/ x.kind = "semicolon" /\ x.text = <<";">>
    \/ x.kind = "blank" /\ \E ch \in Blank : x.text = <<ch>>
    \/ x.kind = "comment" /\ (LineComment(x.text) \/ BlockComment(x.text))
    \/ x.kind = "literal" /\ x.body \in Seq(Chars) /\ x.text = <<"'">> \o x.body \o <<"'">>

-----------------------------------------------------------------------------
(* The DDL guard                                                           *)

(* strip_comments reads the text once; skip is set when a character was    *)
(* consumed together with the one before it.  A doubled quote ends the     *)
(* literal it is in.                                                       *)
Start == [at |-> "code", depth |-> 0, skip |-> FALSE, out |-> <<>>]

ReadChar(s, ch, nx) ==
  LET Emit(st, c) == [st EXCEPT !.out = Append(@, c)] IN
  IF s.skip THEN [s EXCEPT !.skip = FALSE]
  ELSE
  CASE s.at = "block" ->
         IF ch = "/" /\ nx = "*" THEN [s EXCEPT !.depth = @ + 1, !.skip = TRUE]
         ELSE IF ch = "*" /\ nx = "/"
         THEN [s EXCEPT !.at = IF s.depth = 1 THEN "code" ELSE "block",
                        !.depth = @ - 1, !.skip = TRUE]
         ELSE s
    [] s.at = "line" -> IF ch = "\n" THEN Emit([s EXCEPT !.at = "code"], ch) ELSE s
    [] s.at = "string" ->
         IF ch # "'" THEN Emit(s, ch)
         ELSE IF nx = "'" THEN Emit(Emit([s EXCEPT !.at = "code", !.skip = TRUE], "'"), "'")
         ELSE Emit([s EXCEPT !.at = "code"], ch)
    [] OTHER ->
         IF ch = "/" /\ nx = "*"
         THEN Emit([s EXCEPT !.at = "block", !.depth = 1, !.skip = TRUE], " ")
         ELSE IF ch = "-" /\ nx = "-" THEN Emit([s EXCEPT !.at = "line", !.skip = TRUE], " ")
         ELSE Emit([s EXCEPT !.at = IF ch = "'" THEN "string" ELSE "code"], ch)

Ahead(sql, i) == IF i < Len(sql) THEN sql[i + 1] ELSE "end"

(* The state of strip_comments after each character.                       *)
Reading(sql) ==
  LET read[i \in 0 .. Len(sql)] ==
        IF i = 0 THEN Start ELSE ReadChar(read[i - 1], sql[i], Ahead(sql, i))
  IN read

strip_comments(sql) == Reading(sql)[Len(sql)].out

(* reject_unsafe_ddl: split at every ";", and look at the first word that  *)
(* blanks delimit.                                                         *)

\* Faulty variant: only the first statement is looked at.
reject_unsafe_ddl_First(sql) ==
  LET clean == strip_comments(sql) IN
  \E i \in DOMAIN clean :
    /\ clean[i] = "V"
    /\ i < Len(clean) => clean[i + 1] \in Blank \cup {";"}
    /\ \A k \in 1 .. i - 1 : clean[k] \in Blank

\* Faulty variant: a longer word that begins like a disallowed one counts.
reject_unsafe_ddl_Prefix(sql) ==
  LET clean == strip_comments(sql) IN
  \E i \in DOMAIN clean, p \in DOMAIN clean :
    /\ clean[i] = "V"
    /\ p <= i /\ (p > 1 => clean[p - 1] = ";")
    /\ \A k \in p .. i - 1 : clean[k] \in Blank

reject_unsafe_ddl(sql) ==
  LET clean == strip_comments(sql) IN
  \E i \in DOMAIN clean, p \in DOMAIN clean :
    /\ clean[i] = "V"
    /\ i < Len(clean) => clean[i + 1] \in Blank \cup {";"}
    /\ p <= i /\ (p > 1 => clean[p - 1] = ";")
    /\ \A k \in p .. i - 1 : clean[k] \in Blank

-----------------------------------------------------------------------------
Init ==
  /\ engine = "none"
  /\ contract_bundle = None
  /\ ctx = FALSE
  /\ tables = {}
  /\ typed = <<>>
  /\ last = None

(* InitConfig::validate and new_with_config                                *)
Fields == {"tenant_id", "contract_bundle_endpoint", "attestation_endpoint",
           "max_result_rows", "storaged_socket"}
new_with_config(filled) ==
  /\ engine = "none"
  /\ engine' = IF filled = Fields THEN "ready" ELSE "refused"
  /\ UNCHANGED <<contract_bundle, ctx, tables, typed, last>>

inject_contract_bundle(b) ==
  /\ engine = "ready" /\ typed = <<>>
  /\ contract_bundle' = b
  /\ UNCHANGED <<engine, ctx, tables, typed, last>>

(* register_memory_table, register_parquet_table and register_lance_table: *)
(* the context is made first, and stays when the table cannot be opened.   *)
register_table(t) ==
  /\ engine = "ready" /\ typed = <<>>
  /\ ctx' = TRUE
  /\ \/ tables' = tables \cup {t}
     \/ tables' = tables
  /\ UNCHANGED <<engine, contract_bundle, typed, last>>

Type(piece) ==
  /\ engine = "ready"
  /\ Len(typed) < MaxPieces
  /\ typed' = Append(typed, piece)
  /\ last' = None
  /\ UNCHANGED <<engine, contract_bundle, ctx, tables>>

Text(pieces) == FlattenSeq([i \in DOMAIN pieces |-> pieces[i].text])

(* query: the bundle, the guard, the context, then the statement runs.     *)

Outcome(pieces, bundle) ==
  IF bundle = None THEN "NoContractBundle"
  ELSE IF reject_unsafe_ddl(Text(pieces)) THEN "UnsafeDdlRejected"
  ELSE "ran"

query ==
  /\ engine = "ready" /\ typed # <<>>
  /\ last' = [pieces |-> typed, bundle |-> contract_bundle,
              outcome |-> Outcome(typed, contract_bundle)]
  /\ ctx' = (ctx \/ Outcome(typed, contract_bundle) = "ran")
  /\ typed' = <<>>
  /\ UNCHANGED <<engine, contract_bundle, tables>>

Next ==
  \/ \E filled \in Configs : new_with_config(filled)
  \/ \E b \in Bundles : inject_contract_bundle(b)
  \/ \E t \in Tables : register_table(t)
  \/ \E piece \in Pieces : Type(piece)
  \/ query

Spec == Init /\ [][Next]_vars

-----------------------------------------------------------------------------
(* What the pieces mean, read off their kinds.  A statement begins at the  *)
(* first piece or after a ";", and comments count as blanks.               *)

Blanks == {"blank", "comment"}

BeginsStatement(pieces, i) ==
  \E p \in 1 .. i : /\ p > 1 => pieces[p - 1].kind = "semicolon"
                    /\ \A k \in p .. i - 1 : pieces[k].kind \in Blanks

(* The first token of a statement is a disallowed word.  To SQL a word     *)
(* ends where its letters end, also before a "(" or a quote.               *)
VerbFirst(pieces, i) ==
  /\ pieces[i].kind = "verb" /\ BeginsStatement(pieces, i)
  /\ i < Len(pieces) => pieces[i + 1].kind \notin {"verb", "word"}

StartsWithVerb(pieces) == \E i \in DOMAIN pieces : VerbFirst(pieces, i)

(* To the guard, which splits at white space, it does not end there.       *)
RunsOn(pieces, i) == i < Len(pieces) /\ pieces[i + 1].kind \in {"literal", "paren"}

HasLiteral(pieces, c) ==
  \E i \in DOMAIN pieces : pieces[i].kind = "literal" /\ c \in ToSet(pieces[i].body)

(* Two literals side by side are one literal with a quote in it.           *)
HasQuoteInLiteral(pieces) ==
  \/ HasLiteral(pieces, "'")
  \/ \E i \in 2 .. Len(pieces) : {pieces[i - 1].kind, pieces[i].kind} = {"literal"}

(* INV-1 and rule (d): a statement that ran did so under a bundle, and     *)
(* none of its statements begins with a word the guard does not allow,     *)
(* however comments, literals and semicolons are arranged around it; but   *)
(* for a word with a "(" or a literal right behind it, and as long as no   *)
(* literal has a quote in it.                                              *)
NothingUnguardedRuns ==
  last # None /\ last.outcome = "ran" =>
    /\ last.bundle # None
    /\ ~ HasQuoteInLiteral(last.pieces) =>
         \A i \in DOMAIN last.pieces :
           VerbFirst(last.pieces, i) => RunsOn(last.pieces, i)

(* The guard is no broader than that: what it turns away does begin a      *)
(* statement with such a word, unless a literal has a ";" or a quote in    *)
(* it.  A ";" inside a literal is taken for the end of a statement.        *)
OnlyUnsafeTurnedAway ==
  last # None /\ last.outcome = "UnsafeDdlRejected" =>
    \/ StartsWithVerb(last.pieces)
    \/ HasLiteral(last.pieces, ";") \/ HasQuoteInLiteral(last.pieces)
=============================================================================
