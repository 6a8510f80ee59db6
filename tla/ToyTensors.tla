------------------------------ MODULE ToyTensors ------------------------------
(***************************************************************************)
(* Tensors, and what the operations of the dialect compute on them.  The   *)
(* operations of a body carry, besides kind, operands and type, the name   *)
(* of the literal a constant holds (data).                                 *)
(*                                                                         *)
(* Numbers are symbolic: element k of literal c is << "lit", c, k >>, the  *)
(* sum of two is << "add", a, b >>, a sum of products << "dot", pairs >>.  *)
(* Two programs print the same numbers when they print equal terms.        *)
(*                                                                         *)
(* A tensor is its shape and its elements in row-major order; an index is  *)
(* a sequence of positions that count from 0.                              *)
(***************************************************************************)
EXTENDS ToyFunction

Undef == << >>                 \* an element nothing has been stored in
Zero  == << "dot", << >> >>
PlusProduct(acc, a, b) == << "dot", Append(acc[2], << a, b >>) >>

(* The distance of neighbours along dimension d.                           *)
Stride(s, d) == NumElements(SubSeq(s, d + 1, Len(s)))

(* The index of the k-th element, and the position of the element at ix.   *)
IndexAt(s, k) == [d \in DOMAIN s |-> ((k - 1) \div Stride(s, d)) % s[d]]
Position(s, ix) == 1 + FoldLeft(LAMBDA n, d : n + ix[d] * Stride(s, d), 0, [d \in DOMAIN s |-> d])

InBounds(s, ix) == DOMAIN ix = DOMAIN s /\ \A d \in DOMAIN s : ix[d] \in 0..(s[d] - 1)

At(t, ix) == t.elems[Position(t.shape, ix)]
Tensor(s, F(_)) == [shape |-> s, elems |-> [k \in 1..NumElements(s) |-> F(IndexAt(s, k))]]

SwapLast(ix) == TransposeShape(ix)

(* The sum of products at ix of a matrix product of any of the three forms *)
(* inferMatmulResultType knows.                                            *)
DotAt(l, r, ix) ==
    LET b    == SubSeq(ix, 1, Len(Batch(l.shape, r.shape)))
        row  == IF Len(l.shape) >= Len(r.shape) THEN << ix[Len(b) + 1] >> ELSE << >>
        col  == IF Len(l.shape) <= Len(r.shape) THEN << ix[Len(ix)] >> ELSE << >>
    IN  << "dot", [k \in 1..Last(l.shape) |->
                      << At(l, b \o row \o << k - 1 >>), At(r, b \o << k - 1 >> \o col) >>] >>

(* What operation op computes from the tensors in.                         *)
Apply(op, in) ==
    CASE op.kind = "constant" ->
           [shape |-> op.type, elems |-> [k \in 1..NumElements(op.type) |-> << "lit", op.data, k >>]]
      [] op.kind \in Elementwise ->
           Tensor(in[1].shape, LAMBDA ix : << op.kind, At(in[1], ix), At(in[2], ix) >>)
      [] op.kind = "transpose" ->
           Tensor(TransposeShape(in[1].shape), LAMBDA ix : At(in[1], SwapLast(ix)))
      [] op.kind = "matrix_mul" ->
           Tensor(MatmulShape(in[1].shape, in[2].shape), LAMBDA ix : DotAt(in[1], in[2], ix))
      [] op.kind = "reshape" /\ IsRanked(op.type) -> [in[1] EXCEPT !.shape = op.type]
      [] OTHER -> in[1]

(* Whether the operation is defined on tensors of these shapes.            *)
Defined(op, shapes) ==
    /\ op.kind \in Elementwise => shapes[1] = shapes[2]
    /\ op.kind = "matrix_mul" => MatmulCompatible(shapes[1], shapes[2])
    /\ op.kind = "reshape" /\ IsRanked(op.type) => NumElements(op.type) = NumElements(shapes[1])

None == [shape |-> << 0 >>, elems |-> << >>]       \* no value

(* The value of every operation of body p, called with these tensors; Call *)
(* says what a call returns.                                               *)
Values(p, actuals, Call(_)) ==
    LET ValueOf(op, o, in) ==
          IF \E k \in DOMAIN in : in[k] = None THEN None
          ELSE CASE op.kind = "arg" -> IF o \in DOMAIN actuals THEN actuals[o] ELSE None
                 [] op.kind = "generic_call" -> Call(in)
                 [] op.kind = "return" /\ in = << >> -> None
                 [] OTHER -> IF Defined(op, [k \in DOMAIN in |-> in[k].shape])
                             THEN Apply(op, in) ELSE None
    IN  FoldLeft(LAMBDA ms, o : Append(ms, ValueOf(p[o], o, [k \in DOMAIN p[o].args |-> ms[p[o].args[k]]])),
                 << >>, [o \in DOMAIN p |-> o])

NoCall(in) == None
Meaning(p) == Values(p, << >>, NoCall)

Prints(p) == SelectSeq([o \in DOMAIN p |-> o], LAMBDA o : p[o].kind = "print")

(* How a tensor is laid out as text: its elements in row-major order, and  *)
(* a newline whenever a dimension other than the first has been gone       *)
(* through.                                                                *)
Newline == << "nl" >>
Layout(t) ==
    FlattenSeq([k \in DOMAIN t.elems |->
        << t.elems[k] >> \o
        [n \in 1..Cardinality({d \in 1..(Len(t.shape) - 1) : k % Stride(t.shape, d) = 0}) |-> Newline]])

-----------------------------------------------------------------------------
(* What the passes before leave: verified, and a transpose (which nothing  *)
(* verifies) has the type of its operand transposed, or that of a vector   *)
(* its operand no longer is.                                               *)
Verified(p) ==
    \A o \in DOMAIN p :
        LET in == OperandTypes(p, BuiltTypes(p), o)
        IN  /\ ArityOK(p[o].kind, Len(p[o].args))
            /\ \A k \in DOMAIN p[o].args : p[o].args[k] \in 1..(o - 1)
            /\ Verifies(p[o].kind, in, p[o].type)
            /\ p[o].kind = "transpose" /\ IsRanked(p[o].type) /\ Len(p[o].type) # 1 =>
                  p[o].type = TransposeShape(in[1])

(* What a main function must look like for either lowering.                *)
Closed(p) ==
    /\ \A o \in DOMAIN p : p[o].kind \notin {"arg", "generic_call"}
    /\ \A o \in DOMAIN p : p[o].kind = "return" => p[o].args = << >>
    /\ \A o \in DOMAIN p : p[o].kind \notin Sinks => IsRanked(p[o].type)

InTypes(p, o) == OperandTypes(p, BuiltTypes(p), o)

(* Casts that change no type disappear in any conversion.                  *)
CastsAreTrivial(p) == \A o \in DOMAIN p : p[o].kind = "cast" => InTypes(p, o)[1] = p[o].type

AffineLowers(p) ==
    /\ Closed(p) /\ CastsAreTrivial(p)
    /\ \A o \in DOMAIN p :
         /\ p[o].kind = "transpose" => Len(p[o].type) >= 2
         /\ p[o].kind = "matrix_mul" => Len(InTypes(p, o)[1]) = Len(InTypes(p, o)[2])
         /\ p[o].kind = "reshape" => InTypes(p, o)[1] = p[o].type

LinalgLowers(p) ==
    /\ Closed(p) /\ CastsAreTrivial(p)
    /\ \A o \in DOMAIN p :
         /\ p[o].kind = "transpose" => p[o].type = TransposeShape(InTypes(p, o)[1])
         /\ p[o].kind = "matrix_mul" => Len(InTypes(p, o)[1]) = 2 /\ Len(InTypes(p, o)[2]) = 2
         /\ p[o].kind = "reshape" => NumElements(InTypes(p, o)[1]) = NumElements(p[o].type)
=============================================================================
