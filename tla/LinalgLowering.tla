---------------------------- MODULE LinalgLowering ----------------------------
(***************************************************************************)
(* The patterns of LinAlgLoweringPass.  A toy.reshape becomes the chain of *)
(* tensor operations ReshapeLowering finds, here one view.                 *)
(***************************************************************************)
EXTENDS LoweredCode

IntoEmpty(p, o, code, items) == ReplaceOp(code, o, << Alloc(o, p[o].type) >> \o items)

LowerElementwiseToLinalg(p, o, args, code) ==
    IntoEmpty(p, o, code, << Nest(o, p[o].type, p[o].kind, args, << "same", "same" >>, 1, FALSE) >>)

(* A permutation that swaps the last two dimensions, if there are two.     *)
LinalgTransposeOpLowering(p, o, args, code) ==
    LET access == IF Len(p[o].type) > 1 THEN "swapped" ELSE "same"
    IN  IntoEmpty(p, o, code, << Nest(o, p[o].type, "transpose", args, << access >>, 1, FALSE) >>)

(* linalg.fill with zero, then linalg.matmul accumulates into the result.  *)
LinalgMatrixMulOpLowering(p, o, args, code) ==
    IntoEmpty(p, o, code, << Fill(o),
        Nest(o, p[o].type, "matrix_mul", args, << "lhs", "rhs" >>, Last(p[p[o].args[1]].type), FALSE) >>)

LinalgConstantOpLowering(p, o, code) ==
    IntoEmpty(p, o, code, << Store(o, LoopOrder(p[o].type),
        [k \in 1..NumElements(p[o].type) |-> << "lit", p[o].data, k >>]) >>)

(* tensor.cast to dynamic extents and a call of lucid_print_<rank>d.       *)
LinalgPrintOpLowering(p, o, args, code) ==
    ReplaceOp(code, o, << PrintCall(args[1], p[p[o].args[1]].type) >>)

LinalgReshapeOpLowering(p, o, args, code) == ReplaceOp(code, o, << View(o, p[o].type, args[1]) >>)

LinalgReturnOpLowering(o, code) == ReplaceOp(code, o, << Return >>)

LinalgLowered(p, o, args, code) ==
    CASE p[o].kind \in Elementwise -> LowerElementwiseToLinalg(p, o, args, code)
      [] p[o].kind = "transpose"   -> LinalgTransposeOpLowering(p, o, args, code)
      [] p[o].kind = "matrix_mul"  -> LinalgMatrixMulOpLowering(p, o, args, code)
      [] p[o].kind = "constant"    -> LinalgConstantOpLowering(p, o, code)
      [] p[o].kind = "print"       -> LinalgPrintOpLowering(p, o, args, code)
      [] p[o].kind = "reshape"     -> LinalgReshapeOpLowering(p, o, args, code)
      [] p[o].kind = "return"      -> LinalgReturnOpLowering(o, code)

(* Every pattern looks for a ranked type; a reshape finds no chain when    *)
(* the counts differ.                                                      *)
LinalgMatches(p, o) ==
    LET in == [k \in DOMAIN p[o].args |-> p[p[o].args[k]].type]
    IN  /\ p[o].kind \notin {"cast", "generic_call"}
        /\ p[o].kind \notin Sinks => IsRanked(p[o].type)
        /\ p[o].kind \in {"print", "reshape"} => IsRanked(in[1])
        /\ p[o].kind = "reshape" => NumElements(in[1]) = NumElements(p[o].type)

(* linalg.matmul is for matrices; linalg.transpose compares the shapes.    *)
LinalgVerifiesAfter(p, o) ==
    LET in == [k \in DOMAIN p[o].args |-> p[p[o].args[k]].type]
    IN  /\ p[o].kind = "matrix_mul" => Len(in[1]) = 2 /\ Len(in[2]) = 2
        /\ p[o].kind = "transpose" => p[o].type = TransposeShape(in[1])
=============================================================================
