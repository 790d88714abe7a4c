---------------------------- MODULE MCEngineShell ----------------------------
(***************************************************************************)
(* EngineShell over every statement of up to MaxPieces pieces: words,      *)
(* blanks, semicolons, comments that hold quotes, verbs, semicolons or     *)
(* other comments, and literals that hold what looks like a comment.       *)
(***************************************************************************)
EXTENDS EngineShell

Piece(kind, body, text) == [kind |-> kind, body |-> body, text |-> text]
Block(body) == Piece("comment", body, <<"/", "*">> \o body \o <<"*", "/">>)
Line(body) == Piece("comment", body, <<"-", "-">> \o body \o <<"\n">>)
Literal(body) == Piece("literal", body, <<"'">> \o body \o <<"'">>)

MCChars == Blank \cup {"V", "w", "(", ";", "'", "-", "/", "*"}

MCPieces ==
  {Piece("verb", <<>>, <<"V">>), Piece("word", <<>>, <<"w">>),
   Piece("paren", <<>>, <<"(">>), Piece("blank", <<>>, <<" ">>), Piece("semicolon", <<>>, <<";">>),
   Block(<<>>), Block(<<"'", ";", "V">>), Block(<<"/", "*", "*", "/", "w">>),
   Block(<<"-", "-">>), Block(<<"*">>),
   Line(<<"/", "*">>), Line(<<"'", "V">>),
   Literal(<<>>), Literal(<<"-", "-">>), Literal(<<"/", "*">>), Literal(<<"w", ";", "V">>),
   Literal(<<"w", "'", "'", "w">>)}

MCConfigs == {Fields, Fields \ {"tenant_id"}, Fields \ {"max_result_rows"}}
=============================================================================
