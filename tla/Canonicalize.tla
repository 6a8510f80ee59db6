---------------------------- MODULE Canonicalize ----------------------------
(***************************************************************************)
(* The rewrites of the canonicalizer and of CSE, as operators on a body:   *)
(* each gives the set of bodies it can turn p into at operation o, empty   *)
(* when it does not match.                                                 *)
(***************************************************************************)
EXTENDS ToyTensors

Op(kind, args, type) == [kind |-> kind, args |-> args, type |-> type, data |-> "none"]

(* The body with every use of value a turned into one of F(a).             *)
RenameUses(p, F(_)) == [o \in DOMAIN p |-> [p[o] EXCEPT !.args = [k \in DOMAIN @ |-> F(@[k])]]]

(* Faulty: the values behind o keep their numbers.                         *)
FaultyReplaceBy(p, o, v) == RemoveAt(RenameUses(p, LAMBDA a : IF a = o THEN v ELSE a), o)

(* The uses of o become uses of the earlier value v, and o is erased.      *)
ReplaceBy(p, o, v) ==
    RemoveAt(RenameUses(p, LAMBDA a : IF a = o THEN v ELSE IF a > o THEN a - 1 ELSE a), o)

InsertBefore(p, o, op) ==
    InsertAt(RenameUses(p, LAMBDA a : IF a >= o THEN a + 1 ELSE a), o, op)

Operand(p, o) == p[p[o].args[1]]
When(match, body) == IF match THEN {body} ELSE {}

(* isOpTriviallyDead: pure, and nobody uses it (external).                 *)
Effects == Sinks \cup {"arg", "generic_call"}
Dead(p, o) == p[o].kind \notin Effects /\ \A u \in DOMAIN p : o \notin Range(p[u].args)
EraseDead(p, o) == When(Dead(p, o), ReplaceBy(p, o, o))

(* foldCastInterfaceOp: a cast between equal types is its operand          *)
(* (external).                                                             *)
FoldCast(p, o) ==
    When(p[o].kind = "cast" /\ p[o].type = Operand(p, o).type, ReplaceBy(p, o, p[o].args[1]))

-----------------------------------------------------------------------------
(* Faulty: transpose(transpose(x)) = transpose(x).                         *)
FaultyTransposeTranspose(p, o) ==
    When(p[o].kind = "transpose" /\ Operand(p, o).kind = "transpose", ReplaceBy(p, o, p[o].args[1]))

(* transpose(transpose(x)) = x.                                            *)
TransposeTranspose(p, o) ==
    When(p[o].kind = "transpose" /\ Operand(p, o).kind = "transpose",
         ReplaceBy(p, o, Operand(p, o).args[1]))

(* The transpose of a vector is a column.  The pattern also reports        *)
(* success, without a change, for any other ranked operand: rounds in      *)
(* which that is all that happens are left out, the driver limits them.    *)
TansposeVector2Reshape(p, o) ==
    LET t == Operand(p, o).type
    IN  When(p[o].kind = "transpose" /\ IsRanked(t) /\ Len(t) = 1,
             [p EXCEPT ![o] = Op("reshape", @.args, << t[1], 1 >>)])

(* reshape(reshape(x)) = reshape(x), with the outer type.                  *)
ReshapeReshape(p, o) ==
    When(p[o].kind = "reshape" /\ Operand(p, o).kind = "reshape",
         [p EXCEPT ![o].args = Operand(p, o).args])

(* Faulty: the constraint TypesAreIdentical is missing.                    *)
FaultyRedundantReshape(p, o) == When(p[o].kind = "reshape", ReplaceBy(p, o, p[o].args[1]))

(* A reshape to the type of its operand.                                   *)
RedundantReshape(p, o) ==
    When(p[o].kind = "reshape" /\ p[o].type = Operand(p, o).type, ReplaceBy(p, o, p[o].args[1]))

ReshapesConstant(p, o) == p[o].kind = "reshape" /\ Operand(p, o).kind = "constant"

(* A reshaped literal is a literal with the same data.                     *)
FoldReshapeConstant(p, o) ==
    When(ReshapesConstant(p, o) /\ IsRanked(p[o].type),
         [p EXCEPT ![o] = [Operand(p, o) EXCEPT !.type = p[o].type]])

(* DenseElementsAttr::reshape has no elements to count in tensor<*xf64>.   *)
FoldAborts(p, o) == ReshapesConstant(p, o) /\ ~ IsRanked(p[o].type)

(* The product at o with operand k reshaped to s before it: its type is    *)
(* the inferred one if that exists, and else stays as it was.              *)
Promoted(p, o, k, s) ==
    LET in    == [OperandTypes(p, BuiltTypes(p), o) EXCEPT ![k] = s]
        type  == IF CanInfer("matrix_mul", in) THEN MatmulShape(in[1], in[2]) ELSE p[o].type
        wider == InsertBefore(p, o, Op("reshape", << p[o].args[k] >>, s))
    IN  [wider EXCEPT ![o + 1] = Op("matrix_mul", [@.args EXCEPT ![k] = o], type)]

IsVector(p, o, k) ==
    LET t == p[p[o].args[k]].type IN IsRanked(t) /\ Len(t) = 1

(* Faulty: the shape of the reshape forgot the leading 1.                  *)
FaultyPromoteVectorMatrix(p, o) ==
    LET n == Operand(p, o).type[1]
    IN  When(p[o].kind = "matrix_mul" /\ IsVector(p, o, 1), Promoted(p, o, 1, << n >>))

(* A vector on the left is a row.                                          *)
PromoteVectorMatrix(p, o) ==
    LET n == Operand(p, o).type[1]
    IN  When(p[o].kind = "matrix_mul" /\ IsVector(p, o, 1), Promoted(p, o, 1, << 1, n >>))

(* A vector on the right is a column.                                      *)
PromoteMatrixVector(p, o) ==
    LET n == p[p[o].args[2]].type[1]
    IN  When(p[o].kind = "matrix_mul" /\ IsVector(p, o, 2), Promoted(p, o, 2, << n, 1 >>))

(* Some rewrite still changes the body.                                    *)
Rewrites(p, o) ==
    IF Dead(p, o) THEN EraseDead(p, o)
    ELSE FoldCast(p, o)
         \cup TransposeTranspose(p, o) \cup TansposeVector2Reshape(p, o)
         \cup ReshapeReshape(p, o) \cup RedundantReshape(p, o) \cup FoldReshapeConstant(p, o)
         \cup PromoteVectorMatrix(p, o) \cup PromoteMatrixVector(p, o)

IsCanonical(p) == \A o \in DOMAIN p : Rewrites(p, o) = {} /\ ~ FoldAborts(p, o)

(* CSE: the same pure operation on the same operands, done before          *)
(* (external).                                                             *)
MergeDuplicate(p, o) ==
    {ReplaceBy(p, o, v) : v \in {w \in 1..(o - 1) : p[w] = p[o] /\ p[o].kind \notin Effects}}
=============================================================================
