----------------------------- MODULE ToyFunction -----------------------------
(***************************************************************************)
(* The body of a toy.func as the passes see it: the block arguments, then  *)
(* the operations, in SSA form.  Entry o defines value o; its operands are *)
(* values defined before it.                                               *)
(***************************************************************************)
EXTENDS ToyDialect

Operation == [kind : Kinds, args : Seq(Nat), type : Type]

(* The number of operands each operation is declared with.                 *)
ArityOK(kind, n) ==
    /\ kind \in {"arg", "constant"} => n = 0
    /\ kind \in {"transpose", "cast", "reshape", "print"} => n = 1
    /\ kind = "return" => n \in {0, 1}
    /\ kind \in Elementwise \cup {"matrix_mul"} => n = 2

(* The types ty gives to the operands of operation o of program p.         *)
OperandTypes(p, ty, o) == [k \in DOMAIN p[o].args |-> ty[p[o].args[k]]]

BuiltTypes(p) == [o \in DOMAIN p |-> p[o].type]

(* An operation that may follow those of p.                                *)
MayFollow(p, op) ==
    LET in == [k \in DOMAIN op.args |-> p[op.args[k]].type]
    IN  /\ op \in Operation
        /\ ArityOK(op.kind, Len(op.args))
        /\ op.kind = "arg" => \A o \in DOMAIN p : p[o].kind = "arg"
        /\ \A k \in DOMAIN op.args :
              op.args[k] \in 1..Len(p) /\ p[op.args[k]].kind \notin Sinks
        /\ BuildType(op.kind, in, op.type)
        /\ Verifies(op.kind, in, op.type)

(* A body as MLIRGen, the inliner and its canonicalizer leave it: built by *)
(* the builders, in dominance order, and accepted by the verifier.         *)
WellFormed(p) ==
    /\ p \in Seq(Operation)
    /\ \A o \in DOMAIN p : MayFollow(SubSeq(p, 1, o - 1), p[o])

-----------------------------------------------------------------------------
(* Faulty: all_of instead of any_of, true of an operation without result.  *)
FaultyDynamicShapeReturn(p, ty, o) == p[o].kind # "arg" /\ ty[o] = Unranked

(* hasDynamicShapeReturn: the operations that have a type to infer.        *)
HasDynamicShapeReturn(p, ty, o) ==
    p[o].kind \notin Sinks \cup {"arg"} /\ ty[o] = Unranked

(* Faulty: any_of instead of all_of.                                       *)
FaultyOperandsInferred(p, ty, o) ==
    p[o].args = << >> \/ \E k \in DOMAIN p[o].args : IsRanked(ty[p[o].args[k]])

(* isAllOperandsInfered: every operand has a RankedTensorType.             *)
IsAllOperandsInferred(p, ty, o) ==
    \A k \in DOMAIN p[o].args : IsRanked(ty[p[o].args[k]])

(* The result type inferShapes() gives to o when the types are ty.         *)
InferredType(p, ty, o) == InferShapes(p[o].kind, OperandTypes(p, ty, o), Unranked)

(* ty is a solution of the typing equations of p: a type that was there    *)
(* stays, an operation whose operands are ranked has the inferred type,    *)
(* any other stays unranked.                                               *)
TypeEquation(p, ty, o) ==
    ty[o] = IF /\ HasDynamicShapeReturn(p, BuiltTypes(p), o)
               /\ IsAllOperandsInferred(p, ty, o)
            THEN InferredType(p, ty, o)
            ELSE p[o].type

Solution(p, ty) == \A o \in DOMAIN p : TypeEquation(p, ty, o)

(* The solution found by visiting the operations in program order.         *)
InOrderTypes(p) ==
    LET t[o \in DOMAIN p] ==
          IF /\ HasDynamicShapeReturn(p, BuiltTypes(p), o)
             /\ \A k \in DOMAIN p[o].args : IsRanked(t[p[o].args[k]])
          THEN InferShapes(p[o].kind,
                           [k \in DOMAIN p[o].args |-> t[p[o].args[k]]], Unranked)
          ELSE p[o].type
    IN  t

(* What the operations of a correct program mean: the type an operation    *)
(* must have once its operands and its result are ranked.  (A reshape is   *)
(* the subject of ReshapeLowering.)                                        *)
WellTypedOp(kind, in, t) ==
    /\ kind \in Elementwise \cup {"cast"} => \A k \in DOMAIN in : in[k] = t
    /\ kind = "matrix_mul" => MatmulCompatible(in[1], in[2])
                              /\ t = MatmulShape(in[1], in[2])
    /\ kind = "transpose" => t = TransposeShape(in[1])

(* Every operation whose operands and result are ranked is well typed.     *)
WellTyped(p, ty) ==
    \A o \in DOMAIN p :
        IsAllOperandsInferred(p, ty, o) /\ IsRanked(ty[o]) =>
            WellTypedOp(p[o].kind, OperandTypes(p, ty, o), ty[o])
=============================================================================
