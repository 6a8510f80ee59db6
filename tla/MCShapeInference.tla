--------------------------- MODULE MCShapeInference ---------------------------
(***************************************************************************)
(* ShapeInference on every well formed body of three operations of any     *)
(* kind, and of four operations of the kinds that make orders matter.      *)
(***************************************************************************)
EXTENDS ShapeInference

SmallShapes == {<< >>, << 2 >>, << 2, 3 >>, << 3, 2 >>}
AllKinds == {"arg", "constant", "add", "matrix_mul", "transpose", "cast",
             "reshape", "generic_call", "print"}
TwoShapes == {<< >>, << 2, 3 >>}
OrderKinds == {"arg", "constant", "add", "matrix_mul", "transpose", "generic_call"}

(* Every operation, of the given kinds and shapes, that may follow p.      *)
Candidates(p, kinds, shapes) ==
    LET values == 1..Len(p)
        Make(k, a, ts) == {[kind |-> k, args |-> a, type |-> t] : t \in ts}
        Unary  == {<< v >> : v \in values}
        Binary == {<< v, w >> : v, w \in values}
        Product(a) == LET in == [k \in {1, 2} |-> p[a[k]].type]
                      IN  IF CanInfer("matrix_mul", in) THEN {MatmulShape(in[1], in[2])} ELSE {}
        Fresh(k) ==
          CASE k = "arg"        -> Make(k, << >>, {Unranked})
            [] k = "constant"   -> Make(k, << >>, shapes)
            [] k = "matrix_mul" -> UNION {Make(k, a, {Unranked} \cup Product(a)) : a \in Binary}
            [] k \in Elementwise -> UNION {Make(k, a, {p[a[1]].type, Unranked}) : a \in Binary}
            [] k = "reshape"    -> UNION {Make(k, a, shapes \cup {Unranked}) : a \in Unary}
            [] OTHER            -> UNION {Make(k, a, {Unranked}) : a \in Unary}
    IN  {op \in UNION {Fresh(k) : k \in kinds} : MayFollow(p, op)}

(* The bodies of n operations.                                             *)
Bodies(n, kinds, shapes) ==
    FoldLeft(LAMBDA ps, k : UNION {{Append(p, op) : op \in Candidates(p, kinds, shapes)} : p \in ps},
             {<< >>}, [k \in 1..n |-> k])

MCPrograms == Bodies(3, AllKinds, SmallShapes) \cup Bodies(4, OrderKinds, TwoShapes)
=============================================================================
