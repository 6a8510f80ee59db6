------------------------------- MODULE MCLexer -------------------------------
(***************************************************************************)
(* Lexer on every file of at most four characters.                         *)
(***************************************************************************)
EXTENDS Lexer

MCTexts == UNION {[1..n -> Chars] : n \in 0..4}
=============================================================================
