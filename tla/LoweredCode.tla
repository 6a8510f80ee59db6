------------------------------ MODULE LoweredCode ------------------------------
(***************************************************************************)
(* The code both lowerings produce, as a sequence of items, and what each  *)
(* item does to memory.  A buffer is named after the value it was made     *)
(* for.  A linalg operation and the tensor.empty it fills are the same     *)
(* buffer: no tensor.empty has two users.                                  *)
(*                                                                         *)
(* A loop nest is its bounds, the buffers it loads from, and for each of   *)
(* them how the index is made from the induction variables.                *)
(***************************************************************************)
EXTENDS ToyTensors

Toy(o)        == [op |-> "toy", at |-> o]         \* operation o, not converted yet
Alloc(b, s)   == [op |-> "alloc", buf |-> b, shape |-> s]
Dealloc(b)    == [op |-> "dealloc", buf |-> b]
Fill(b)       == [op |-> "fill", buf |-> b]
View(b, s, a) == [op |-> "view", buf |-> b, shape |-> s, args |-> << a >>]
Store(b, ixs, terms) == [op |-> "store", buf |-> b, ixs |-> ixs, terms |-> terms]
PrintCall(b, s) == [op |-> "print", buf |-> b, shape |-> s]
Printf(b, loops) == [op |-> "printf", buf |-> b, loops |-> loops]
Return        == [op |-> "return"]
Nest(b, s, kind, args, access, depth, zero) ==
    [op |-> "nest", buf |-> b, shape |-> s, kind |-> kind, args |-> args,
     access |-> access, depth |-> depth, zero |-> zero]

(* The rewriter puts what a pattern creates where the operation was.       *)
ReplaceOp(code, o, items) ==
    FlattenSeq([k \in DOMAIN code |-> IF code[k] = Toy(o) THEN items ELSE << code[k] >>])

(* All beginnings of indices of shape s.                                   *)
IndexPrefixes(s) == UNION {{IndexAt(SubSeq(s, 1, n), k) : k \in 1..NumElements(SubSeq(s, 1, n))}
                        : n \in 0..Len(s)}

(* The indices in the order nested loops visit them.                       *)
LoopOrder(s) ==
    LET from[ix \in IndexPrefixes(s)] ==
          IF Len(ix) = Len(s) THEN << ix >>
          ELSE FlattenSeq([i \in 1..s[Len(ix) + 1] |-> from[Append(ix, i - 1)]])
    IN  from[<< >>]

(* The index a load uses at induction variables ix and inner variable k.   *)
LoadIndex(access, ix, k) ==
    LET n == Len(ix)
    IN  CASE access = "same" -> ix
          [] access = "swapped" -> SwapLast(ix)
          [] access = "lhs" -> SubSeq(ix, 1, n - 1) \o << k >>
          [] access = "rhs" -> SubSeq(ix, 1, n - 2) \o << k, ix[n] >>

Load(mem, b, ix) ==
    IF b \in DOMAIN mem /\ InBounds(mem[b].shape, ix) THEN At(mem[b], ix) ELSE Undef

Loads(mem, item, ix, k) ==
    [a \in DOMAIN item.args |-> Load(mem, item.args[a], LoadIndex(item.access[a], ix, k))]

(* What the body of a nest leaves in element ix.                           *)
Computed(mem, item, ix) ==
    CASE item.kind = "transpose" -> Loads(mem, item, ix, 0)[1]
      [] item.kind \in Elementwise -> << item.kind >> \o Loads(mem, item, ix, 0)
      [] item.kind = "matrix_mul" ->
           FoldLeft(LAMBDA acc, k : LET x == Loads(mem, item, ix, k - 1) IN PlusProduct(acc, x[1], x[2]),
                    IF item.zero THEN Zero ELSE Load(mem, item.buf, ix),
                    [k \in 1..item.depth |-> k])

(* An item that reads what was never stored or is not there (any more), or *)
(* frees what is not there.                                                *)
Faults(mem, item) ==
    \/ item.op \in {"dealloc", "fill", "store", "nest", "print", "printf"} /\ item.buf \notin DOMAIN mem
    \/ item.op = "view" /\ item.args[1] \notin DOMAIN mem
    \/ /\ item.op \in {"print", "printf"} /\ item.buf \in DOMAIN mem
       /\ \E k \in DOMAIN mem[item.buf].elems : mem[item.buf].elems[k] = Undef
    \/ /\ item.op = "nest"
       /\ \E n \in 1..NumElements(item.shape), k \in 0..(item.depth - 1) :
            \/ Undef \in Range(Loads(mem, item, IndexAt(item.shape, n), k))
            \/ item.kind = "matrix_mul" /\ ~ item.zero
               /\ Load(mem, item.buf, IndexAt(item.shape, n)) = Undef

Put(mem, b, t) == [c \in DOMAIN mem \cup {b} |-> IF c = b THEN t ELSE mem[c]]

(* Memory after the item.                                                  *)
Exec(mem, item) ==
    CASE item.op = "alloc" -> Put(mem, item.buf, Tensor(item.shape, LAMBDA ix : Undef))
      [] item.op = "dealloc" -> [b \in DOMAIN mem \ {item.buf} |-> mem[b]]
      [] item.op = "fill" -> Put(mem, item.buf, Tensor(mem[item.buf].shape, LAMBDA ix : Zero))
      [] item.op = "view" -> Put(mem, item.buf, [mem[item.args[1]] EXCEPT !.shape = item.shape])
      [] item.op = "store" ->
           Put(mem, item.buf, Tensor(mem[item.buf].shape, LAMBDA ix :
                  LET stores == {k \in DOMAIN item.ixs : item.ixs[k] = ix}
                  IN  IF stores = {} THEN At(mem[item.buf], ix) ELSE item.terms[Max(stores)]))
      [] item.op = "nest" ->
           Put(mem, item.buf, Tensor(item.shape, LAMBDA ix : Computed(mem, item, ix)))
      [] OTHER -> mem

(* What a loop nest around printf prints.                                  *)
PrintedBy(t, loops) ==
    LET run[ix \in IndexPrefixes([d \in DOMAIN loops |-> loops[d].bound])] ==
          IF Len(ix) = Len(loops) THEN << At(t, ix) >>
          ELSE LET loop == loops[Len(ix) + 1]
               IN  FlattenSeq([i \in 1..loop.bound |->
                       run[Append(ix, i - 1)] \o (IF loop.newline THEN << Newline >> ELSE << >>)])
    IN  run[<< >>]
=============================================================================
