------------------------------- MODULE MCLowering -------------------------------
(***************************************************************************)
(* Lowering on every main function of two literals, one or two further     *)
(* operations of any kind, and prints of the values nobody else uses; on a *)
(* function with an argument, and on one that reshapes and reshapes.       *)
(***************************************************************************)
EXTENDS Lowering

Op(kind, args, type) == [kind |-> kind, args |-> args, type |-> type, data |-> "none"]
Literal(name, s) == [kind |-> "constant", args |-> << >>, type |-> s, data |-> name]

LiteralShapes == {<< << >>, << >> >>, << << 2 >>, << 2 >> >>, << << 2, 3 >>, << 2, 3 >> >>,
                  << << 2, 3 >>, << 3, 1 >> >>, << << 2, 3 >>, << 3 >> >>,
                  << << 2, 1, 2 >>, << 2, 2, 2 >> >>, << << 2, 1, 2 >>, << 2, 2 >> >>}

(* The operations that may follow p: with the type inferred for them, and  *)
(* where the verifier does not look also with another.                     *)
OpsAfter(p) ==
    LET vals == {v \in DOMAIN p : p[v].kind \notin Sinks}
        T(v) == p[v].type
        Product(l, r) == IF IsRanked(l) /\ IsRanked(r) /\ MatmulCompatible(l, r)
                         THEN MatmulShape(l, r) ELSE Unranked
        Transposed(t) == IF IsRanked(t) /\ Len(t) > 0 THEN TransposeShape(t) ELSE Unranked
    IN  {Op("sub", << v, w >>, T(v)) : v, w \in vals}
        \cup {Op("matrix_mul", << v, w >>, Product(T(v), T(w))) : v, w \in vals}
        \cup {Op("transpose", << v >>, Transposed(T(v))) : v \in vals}
        \cup {Op("transpose", << v >>, << 3 >>) : v \in vals}
        \cup {Op("reshape", << v >>, s) : v \in vals, s \in {<< 2, 3 >>, << 3, 2 >>, << 2, 1 >>}}
        \cup {Op("cast", << v >>, t) : v \in vals, t \in {<< 2, 3 >>, Unranked}}
        \cup {Op("generic_call", << 1 >>, Unranked), Op("print", << 1 >>, Unranked)}

(* One more operation, on the last value if there is one besides literals. *)
Grow(ps) ==
    UNION {{Append(p, op) : op \in
               {x \in OpsAfter(p) : Verified(Append(p, x)) /\ (Len(p) = 2 \/ Len(p) \in Range(x.args))}}
           : p \in ps}

(* Print, last one first, what no operation uses, and return.              *)
Unused(p) == {v \in DOMAIN p : p[v].kind \notin Sinks /\ \A o \in DOMAIN p : v \notin Range(p[o].args)}
Complete(p, result) ==
    p \o [k \in 1..Cardinality(Unused(p)) |->
             Op("print", << Reverse(SetToSortSeq(Unused(p), <))[k] >>, Unranked)]
      \o << Op("return", result, Unranked) >>

Literals == {<< Literal("a", s[1]), Literal("b", s[2]) >> : s \in LiteralShapes}
Odd == {<< Op("arg", << >>, Unranked) >>}

(* Reshapes that the affine pass drops, until fewer items are left than it *)
(* has gone through.                                                       *)
Chain == {<< Literal("a", << 2 >>) >> \o [k \in 1..5 |-> Op("reshape", << k >>, << 2 >>)]}

MCPrograms ==
    {Complete(p, << >>) : p \in Grow(Literals) \cup Grow(Grow(Literals)) \cup Odd \cup Chain}
    \cup {Complete(p, << 1 >>) : p \in Literals}
=============================================================================
