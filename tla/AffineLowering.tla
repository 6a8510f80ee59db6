---------------------------- MODULE AffineLowering ----------------------------
(***************************************************************************)
(* The patterns of AffineLoweringPass: operation o of body p, its operands *)
(* already in buffers args, is replaced in code.                           *)
(***************************************************************************)
EXTENDS LoweredCode

(* Faulty: moved behind the last item of the block, the return.            *)
FaultyInsertAllocAndDealloc(code, b, s) == << Alloc(b, s) >> \o code \o << Dealloc(b) >>

(* The first and the last item of the block, whatever they are by now.     *)
InsertAllocAndDealloc(code, b, s) ==
    LET c == << Alloc(b, s) >> \o code
    IN  InsertAt(c, Len(c), Dealloc(b))

(* The buffer of the result, and the item in place of the operation.       *)
IntoBuffer(p, o, code, item) == InsertAllocAndDealloc(ReplaceOp(code, o, << item >>), o, p[o].type)

AffineBinaryOpLowering(p, o, args, code) ==
    IntoBuffer(p, o, code, Nest(o, p[o].type, p[o].kind, args, << "same", "same" >>, 1, FALSE))

AffineTransposeOpLowering(p, o, args, code) ==
    IntoBuffer(p, o, code, Nest(o, p[o].type, "transpose", args, << "swapped" >>, 1, FALSE))

(* The accumulator is the result itself, set to zero in the outer loops;   *)
(* the inner loop runs over the last extent of the left operand.           *)
AffineMatrixMulOpLowering(p, o, args, code) ==
    IntoBuffer(p, o, code,
        Nest(o, p[o].type, "matrix_mul", args, << "lhs", "rhs" >>, Last(p[p[o].args[1]].type), TRUE))

(* recuriveCreatScala walks the indices while valueIt walks the values.    *)
AffineConstantOpLowering(p, o, code) ==
    LET ixs == LoopOrder(p[o].type)
    IN  IntoBuffer(p, o, code, Store(o, ixs, [k \in DOMAIN ixs |-> << "lit", p[o].data, k >>]))

AffinePrintOpLowering(p, o, args, code) ==
    ReplaceOp(code, o, << PrintCall(args[1], p[p[o].args[1]].type) >>)

(* A memref.cast makes no buffer: it is the operand under another type.    *)
AffineReshapeOpLowering(o, code) == ReplaceOp(code, o, << >>)

AffineReturnOpLowering(o, code) == ReplaceOp(code, o, << Return >>)

(* The code after the pattern of operation o.                              *)
AffineLowered(p, o, args, code) ==
    CASE p[o].kind \in Elementwise -> AffineBinaryOpLowering(p, o, args, code)
      [] p[o].kind = "transpose"   -> AffineTransposeOpLowering(p, o, args, code)
      [] p[o].kind = "matrix_mul"  -> AffineMatrixMulOpLowering(p, o, args, code)
      [] p[o].kind = "constant"    -> AffineConstantOpLowering(p, o, code)
      [] p[o].kind = "print"       -> AffinePrintOpLowering(p, o, args, code)
      [] p[o].kind = "reshape"     -> AffineReshapeOpLowering(o, code)
      [] p[o].kind = "return"      -> AffineReturnOpLowering(o, code)

(* llvm::cast to RankedTensorType, and an affine.load whose indices do not *)
(* match the rank of what it loads from, fail assertions.                  *)
AffineAborts(p, o) ==
    \/ p[o].kind \in Elementwise \cup {"transpose", "matrix_mul", "reshape"} /\ ~ IsRanked(p[o].type)
    \/ p[o].kind = "matrix_mul" /\ IsRanked(p[o].type) /\ \E k \in {1, 2} : Len(p[p[o].args[k]].type) # Len(p[o].type)

(* Whether the driver finds the operation converted.  The pattern of       *)
(* transpose reports success for rank 0 and 1 but replaces nothing.        *)
AffineMatches(p, o) ==
    /\ p[o].kind \notin {"cast", "generic_call"}
    /\ p[o].kind = "transpose" => Len(p[o].type) >= 2

(* memref.cast demands equal shapes.                                       *)
AffineVerifiesAfter(p, o) == p[o].kind = "reshape" => p[o].type = p[p[o].args[1]].type
=============================================================================
