------------------------------- MODULE MCParser -------------------------------
(***************************************************************************)
(* Parser on every input of a few tokens of any kind, and on longer ones   *)
(* that explore the statements of a body, the initializer of a variable,   *)
(* and literals of literals.                                               *)
(***************************************************************************)
EXTENDS Parser

MainHeader == << "def", "id", "(", ")", "{" >>

AllTokens == {"def", "var", "return", "id", "builtin", "num", ";", "(", ")", "{", "}",
              "[", "]", "<", ">", ",", "=", "op", "other", "eof"}
StmtTokens == {"var", "return", "id", "num", ";", "}", "<", ">", ",", "=", "op", "eof"}
ExprTokens == {"id", "builtin", "num", ";", "(", ")", "}", "[", "]", ",", "op", "eof"}
LiteralTokens == {"num", ";", "}", "[", "]", ",", "eof"}

MCInputs ==
    {[header |-> << >>, tokens |-> AllTokens, bound |-> 10],
     [header |-> MainHeader, tokens |-> StmtTokens, bound |-> 14],
     [header |-> MainHeader \o << "var", "id", "=" >>, tokens |-> ExprTokens, bound |-> 15],
     [header |-> MainHeader \o << "var", "id", "=", "[", "[", "num" >>,
      tokens |-> LiteralTokens, bound |-> 20]}
=============================================================================
