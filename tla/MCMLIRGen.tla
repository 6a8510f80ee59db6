------------------------------ MODULE MCMLIRGen ------------------------------
(***************************************************************************)
(* MLIRGen on modules of a few functions: one run explores all statements, *)
(* expressions and calls, another the expression statements of a single    *)
(* function, whose errors do not fail it.                                  *)
(***************************************************************************)
EXTENDS MLIRGen

OneLiteral == {<< 2, 3 >>}
=============================================================================
