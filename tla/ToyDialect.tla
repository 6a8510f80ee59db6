------------------------------ MODULE ToyDialect ------------------------------
(***************************************************************************)
(* The toy dialect: tensor types, the operations that carry a result, how  *)
(* each builder types a fresh operation, what inferShapes() makes of the   *)
(* operand types, and what the verifier of each operation accepts.         *)
(*                                                                         *)
(* A type is either Unranked (tensor<*xf64>) or the shape of a             *)
(* RankedTensorType.  The element type is always f64, and no production of *)
(* the language writes a dynamic extent, so ShapedType::kDynamic never     *)
(* appears: compatibleJudge is equality on the shapes that can exist.      *)
(***************************************************************************)
EXTENDS Integers, Sequences, SequencesExt

CONSTANTS
    Unranked,     \* tensor<*xf64>
    IntModulus    \* number of values of the C++ int (2^32; scaled down in runs)

Shape == Seq(Nat)
Type  == Shape \cup {Unranked}

ASSUME UnrankedAssumption == Unranked \notin Seq(Nat)
ASSUME ModulusAssumption  == IntModulus \in Nat \ {0} /\ IntModulus % 2 = 0

IsRanked(t) == t # Unranked

-----------------------------------------------------------------------------
(* inferMatmulResultType.                                                  *)

(* One operand may be a vector, and the ranks differ by at most one.       *)
MatmulRanks(l, r) ==
    /\ Len(l) >= 1 /\ Len(r) >= 1
    /\ Len(l) >= 2 \/ Len(r) >= 2
    /\ Len(l) - Len(r) \in {-1, 0, 1}

(* The leading batch dimensions; both operands have as many.               *)
Batch(l, r) == SubSeq(l, 1, IF Len(l) >= Len(r) THEN Len(l) - 2 ELSE Len(l) - 1)

(* The extent of rhs that is contracted with the last extent of lhs.       *)
Contracted(l, r) == IF Len(l) > Len(r) THEN r[Len(r)] ELSE r[Len(r) - 1]

MatmulCompatible(l, r) ==
    /\ MatmulRanks(l, r)
    /\ l[Len(l)] = Contracted(l, r)
    /\ \A i \in 1..Len(Batch(l, r)) : l[i] = r[i]

(* With B the batch: BxMxK @ BxK -> BxM, BxMxK @ BxKxN -> BxMxN,            *)
(* BxK @ BxKxN -> BxN.                                                     *)
MatmulShape(l, r) ==
    Batch(l, r)
      \o (IF Len(l) >= Len(r) THEN << l[Len(l) - 1] >> ELSE << >>)
      \o (IF Len(l) <= Len(r) THEN << r[Len(r)] >> ELSE << >>)

-----------------------------------------------------------------------------
(* Swap the last two extents; a vector keeps its shape.                    *)
TransposeShape(s) ==
    IF Len(s) > 1
    THEN [s EXCEPT ![Len(s)] = s[Len(s) - 1], ![Len(s) - 1] = s[Len(s)]]
    ELSE s

(* The number of elements, as an unbounded number.                         *)
NumElements(s) == FoldLeft(LAMBDA n, d : n * d, 1, s)

(* The value of n once stored in a signed int.                             *)
ToInt(n) == ((n + IntModulus \div 2) % IntModulus) - IntModulus \div 2

(* The same product accumulated in an int: std::accumulate with an int     *)
(* seed truncates every partial product.                                   *)
IntProduct(s) == FoldLeft(LAMBDA n, d : ToInt(n * d), 1, s)

(* verifyCompatibleShape: an unranked type is compatible with anything.    *)
CompatibleTypes(t, u) == t = Unranked \/ u = Unranked \/ t = u

-----------------------------------------------------------------------------
(* Operations.  "arg" is a block argument of the function, the only value  *)
(* that no operation defines; print and return define none.                *)

Elementwise == {"add", "sub", "mul", "div"}
Sinks == {"print", "return"}
Kinds == Elementwise \cup Sinks \cup
    {"arg", "constant", "matrix_mul", "transpose", "cast", "reshape", "generic_call"}

(* Operations declared with DeclareOpInterfaceMethods<ShapeInference>.     *)
HasShapeInference(kind) == kind \in Elementwise \cup {"matrix_mul", "transpose", "cast"}

(* When the operand types let inferShapes() set a result type; otherwise   *)
(* it returns early.                                                       *)
CanInfer(kind, in) ==
    \/ kind \in Elementwise \cup {"cast"} /\ IsRanked(in[1])
    \/ kind = "matrix_mul" /\ IsRanked(in[1]) /\ IsRanked(in[2])
                           /\ MatmulCompatible(in[1], in[2])
    \/ kind = "transpose" /\ IsRanked(in[1]) /\ Len(in[1]) > 0

ResultShape(kind, in) ==
    IF kind = "matrix_mul" THEN MatmulShape(in[1], in[2])
    ELSE IF kind = "transpose" THEN TransposeShape(in[1])
    ELSE in[1]

(* The result types an operation can have before shape inference, given    *)
(* its operand types.  An elementwise builder copies the type its first    *)
(* operand has at that moment; a product is built unranked, but the        *)
(* inliner's canonicalizer may rebuild it with the type it infers; a cast  *)
(* is inserted by the inliner, from a ranked actual to an unranked formal; *)
(* a reshape has the declared type of a variable, unranked for <>.         *)
(* Unranked also stands for the missing result of print and return.        *)
BuildType(kind, in, t) ==
    /\ kind \in Elementwise => t \in {in[1], Unranked}
    /\ kind = "matrix_mul" /\ IsRanked(t) => CanInfer(kind, in) /\ t = ResultShape(kind, in)
    /\ kind = "constant" => IsRanked(t)
    /\ kind = "cast" => IsRanked(in[1])
    /\ kind \in Sinks \cup {"arg", "transpose", "cast"} => t = Unranked

(* inferShapes(): the result type afterwards, old being the one before.    *)
InferShapes(kind, in, old) == IF CanInfer(kind, in) THEN ResultShape(kind, in) ELSE old

(* Faulty: the elementwise operations lost SameOperandsAndResultType.       *)
FaultyVerifies(kind, in, t) ==
    /\ kind = "cast" => CompatibleTypes(in[1], t)
    /\ kind = "matrix_mul" /\ IsRanked(t) /\ IsRanked(in[1]) /\ IsRanked(in[2]) =>
            MatmulCompatible(in[1], in[2]) /\ t = MatmulShape(in[1], in[2])
    /\ kind = "reshape" /\ IsRanked(t) /\ IsRanked(in[1]) =>
            IntProduct(in[1]) = IntProduct(t)

(* The verifier of an operation (traits SameOperandsAndResultType and      *)
(* SameOperandsAndResultShape, areCastCompatible, and the verify methods). *)
(* Transpose and generic_call have none.                                   *)
Verifies(kind, in, t) ==
    /\ kind \in Elementwise \cup {"cast"} =>
            \A i \in DOMAIN in : CompatibleTypes(in[i], t)
    /\ kind = "matrix_mul" /\ IsRanked(t) /\ IsRanked(in[1]) /\ IsRanked(in[2]) =>
            MatmulCompatible(in[1], in[2]) /\ t = MatmulShape(in[1], in[2])
    /\ kind = "reshape" /\ IsRanked(t) /\ IsRanked(in[1]) =>
            IntProduct(in[1]) = IntProduct(t)
=============================================================================
