---------------------------- MODULE LoweringProofs ----------------------------
(***************************************************************************)
(* Theorems about Lowering, for every main function of any length and both *)
(* targets: each stage stays inside what it walks over, the module has     *)
(* every symbol the code uses, and none twice, a function is refused       *)
(* exactly when the target cannot express it, the code that runs finds its *)
(* buffers live and frees what it allocates, and it reads no element       *)
(* before one is stored.                                                   *)
(***************************************************************************)
EXTENDS Lowering, ToyDialectProofs

-----------------------------------------------------------------------------
(* What the operators on code do.                                          *)

(* Replacing an operation by items: what comes out is made of both, and    *)
(* ends as before unless the last one is replaced.                         *)
LEMMA ReplaceOpIn ==
    ASSUME NEW X, NEW c \in Seq(X), Len(c) > 0, NEW o, NEW items \in Seq(X)
    PROVE  LET r == ReplaceOp(c, o, items)
           IN  /\ r \in Seq(X)
               /\ c[Len(c)] # Toy(o) => Len(r) > 0 /\ r[Len(r)] = c[Len(c)]
               /\ c[Len(c)] = Toy(o) /\ Len(items) > 0 =>
                      Len(r) > 0 /\ r[Len(r)] = items[Len(items)]
<1> DEFINE n == Len(c)
           ss == [k \in 1..n |-> IF c[k] = Toy(o) THEN items ELSE << c[k] >>]
           flat == FlattenSeq(ss)
<1>1. n \in Nat /\ n > 0 /\ DOMAIN c = 1..n /\ \A k \in 1..n : c[k] \in X
  OBVIOUS
<1>2. ReplaceOp(c, o, items) = flat
  BY <1>1 DEF ReplaceOp
<1> HIDE DEF n
<1>3. ss \in Seq(Seq(X)) /\ Len(ss) = n
  <2>1. \A k \in 1..n : (IF c[k] = Toy(o) THEN items ELSE << c[k] >>) \in Seq(X)
    BY <1>1
  <2> QED BY <1>1, <2>1
<1>4. ss[n] = IF c[n] = Toy(o) THEN items ELSE << c[n] >>
  BY <1>1
<1> HIDE DEF ss
<1>5. /\ flat \in Seq(X)
      /\ Len(ss[n]) > 0 => Len(flat) > 0 /\ flat[Len(flat)] = ss[n][Len(ss[n])]
  BY <1>1, <1>3, Flattened
<1> HIDE DEF flat
<1>6. c[n] # Toy(o) => Len(flat) > 0 /\ flat[Len(flat)] = c[n]
  BY <1>4, <1>5
<1>7. c[n] = Toy(o) /\ Len(items) > 0 => Len(flat) > 0 /\ flat[Len(flat)] = items[Len(items)]
  BY <1>4, <1>5
<1> QED BY <1>2, <1>5, <1>6, <1>7 DEF n

(* A buffer around the code: the last item stays the last.                 *)
LEMMA InsertIn ==
    ASSUME NEW X, NEW c \in Seq(X), Len(c) > 0, NEW b, NEW s, Alloc(b, s) \in X, Dealloc(b) \in X
    PROVE  LET r == InsertAllocAndDealloc(c, b, s)
           IN  r \in Seq(X) /\ Len(r) > 0 /\ r[Len(r)] = c[Len(c)]
<1> DEFINE a == Alloc(b, s)
           d == Dealloc(b)
           e == << a >> \o c
           n == Len(e)
           front == SubSeq(e, 1, n - 1)
           back == SubSeq(e, n, n)
           r == (front \o << d >>) \o back
<1>1. a \in X /\ d \in X
  OBVIOUS
<1> HIDE DEF a, d
<1>2. e \in Seq(X) /\ n = Len(c) + 1 /\ e[n] = c[Len(c)]
  BY <1>1
<1>3. InsertAllocAndDealloc(c, b, s) = r
  BY DEF InsertAllocAndDealloc, InsertAt, a, d
<1>4. n \in Nat /\ n > 1
  BY <1>2
<1> HIDE DEF e
<1>5. front \in Seq(X) /\ Len(front) = n - 1
  BY <1>2, <1>4
<1>6. back \in Seq(X) /\ Len(back) = 1 /\ back[1] = e[n]
  BY <1>2, <1>4
<1> HIDE DEF front, back
<1>7. front \o << d >> \in Seq(X) /\ Len(front \o << d >>) = n
  BY <1>1, <1>4, <1>5
<1>8. r \in Seq(X) /\ Len(r) = n + 1 /\ r[n + 1] = back[1]
  <2> DEFINE l == front \o << d >>
  <2> HIDE DEF l, n
  <2>1. l \in Seq(X) /\ Len(l) = n
    BY <1>7 DEF l
  <2>2. l \o back \in Seq(X) /\ Len(l \o back) = n + 1 /\ (l \o back)[n + 1] = back[1]
    <3> DEFINE m == back
    <3> HIDE DEF m
    <3>1. m \in Seq(X) /\ Len(m) = 1
      BY <1>6 DEF m
    <3>2. /\ l \o m \in Seq(X) /\ Len(l \o m) = n + 1
          /\ \A i \in 1..(n + 1) : (l \o m)[i] = IF i <= n THEN l[i] ELSE m[i - n]
      <4>1. /\ l \o m \in Seq(X) /\ Len(l \o m) = Len(l) + Len(m)
            /\ \A i \in 1..(Len(l) + Len(m)) : (l \o m)[i] = IF i <= Len(l) THEN l[i] ELSE m[i - Len(l)]
        BY <2>1, <3>1, ConcatProperties
      <4>2. Len(l) = n /\ Len(m) = 1
        BY <2>1, <3>1
      <4> QED BY <4>1, <4>2
    <3>3. n + 1 \in 1..(n + 1) /\ ~ (n + 1 <= n) /\ (n + 1) - n = 1
      BY <1>4
    <3>4. (l \o m)[n + 1] = m[1]
      BY <3>2, <3>3
    <3> QED BY <3>2, <3>4 DEF m
  <2> QED BY <2>2 DEF l
<1>9. r[Len(r)] = c[Len(c)] /\ Len(r) > 0
  <2> HIDE DEF r, n
  <2> QED BY <1>2, <1>4, <1>6, <1>8
<1> HIDE DEF r
<1> QED BY <1>3, <1>8, <1>9

(* An item the pattern of operation o makes of operands args.              *)
Buffering == {"alloc", "dealloc", "fill", "view", "store", "nest"}

MadeFor(x, p, o, args) ==
    \/ x = Return /\ p[o].kind = "return"
    \/ x = PrintCall(args[1], p[p[o].args[1]].type) /\ p[o].kind = "print"
    \/ x.op \in Buffering /\ x.buf = o

(* The items patterns emit for an operation work on its buffer.            *)
LEMMA BufferItems ==
    ASSUME NEW p, NEW o, NEW args, NEW b, NEW c, NEW d, NEW e, NEW f
    PROVE  /\ MadeFor(Alloc(o, b), p, o, args) /\ MadeFor(Dealloc(o), p, o, args)
           /\ MadeFor(Fill(o), p, o, args) /\ MadeFor(View(o, b, c), p, o, args)
           /\ MadeFor(Store(o, b, c), p, o, args)
           /\ \A z : MadeFor(Nest(o, b, c, d, e, f, z), p, o, args)
  BY DEF MadeFor, Buffering, Alloc, Dealloc, Fill, View, Store, Nest

(* What the pattern of operation o makes of code c: items that were there, *)
(* items made for the operation, and the same end.                         *)
Converted(r, c, p, o, args) ==
    /\ IsSeq(r)
    /\ \A k \in 1..Len(r) : r[k] \in Range(c) \/ MadeFor(r[k], p, o, args)
    /\ c[Len(c)] # Toy(o) => Len(r) > 0 /\ r[Len(r)] = c[Len(c)]
    /\ c[Len(c)] = Toy(o) /\ p[o].kind = "return" => Len(r) > 0 /\ r[Len(r)] = Return

(* An operation replaced where it stands by items made for it is converted. *)
LEMMA InPlace ==
    ASSUME NEW c, IsSeq(c), Len(c) > 0, NEW p, NEW o, NEW args,
           NEW S, NEW items \in Seq(S), \A x \in S : MadeFor(x, p, o, args),
           p[o].kind = "return" => items = << Return >>
    PROVE  Converted(ReplaceOp(c, o, items), c, p, o, args)
<1> DEFINE R == Range(c)
           X == R \cup S
           r == ReplaceOp(c, o, items)
<1>1. c \in Seq(R) /\ c \in Seq(X) /\ items \in Seq(X)
  <2>1. c \in Seq(R)
    BY DEF IsSeq
  <2> HIDE DEF R
  <2> QED BY <2>1, SeqMonotonic
<1> HIDE DEF R, X
<1>2. /\ r \in Seq(X)
      /\ c[Len(c)] # Toy(o) => Len(r) > 0 /\ r[Len(r)] = c[Len(c)]
      /\ c[Len(c)] = Toy(o) /\ Len(items) > 0 => Len(r) > 0 /\ r[Len(r)] = items[Len(items)]
  BY <1>1, ReplaceOpIn
<1> HIDE DEF r
<1>3. IsSeq(r) /\ \A k \in 1..Len(r) : r[k] \in X
  BY <1>2, SeqIsSeq
<1>4. p[o].kind = "return" => Len(items) > 0 /\ items[Len(items)] = Return
  BY SMTT(30)
<1>5. \A x \in X : x \in Range(c) \/ MadeFor(x, p, o, args)
  BY DEF X, R
<1>6. Converted(r, c, p, o, args)
  BY <1>2, <1>3, <1>4, <1>5 DEF Converted
<1> QED BY <1>6 DEF r

(* The same with a single item.                                            *)
LEMMA InPlaceOfOne ==
    ASSUME NEW c, IsSeq(c), Len(c) > 0, NEW p, NEW o, NEW args,
           NEW x, MadeFor(x, p, o, args), p[o].kind = "return" => x = Return
    PROVE  Converted(ReplaceOp(c, o, << x >>), c, p, o, args)
<1> DEFINE items == << x >>
           S == {x}
<1>1. items \in Seq(S) /\ \A y \in S : MadeFor(y, p, o, args)
  OBVIOUS
<1>2. p[o].kind = "return" => items = << Return >>
  OBVIOUS
<1> HIDE DEF items, S
<1>3. Converted(ReplaceOp(c, o, items), c, p, o, args)
  BY <1>1, <1>2, InPlace
<1> QED BY <1>3 DEF items

(* So is one with its buffer put around the code.                          *)
LEMMA Around ==
    ASSUME NEW c, IsSeq(c), Len(c) > 0, NEW p, NEW o, NEW args,
           NEW item, MadeFor(item, p, o, args), p[o].kind # "return"
    PROVE  Converted(IntoBuffer(p, o, c, item), c, p, o, args)
<1> DEFINE R == Range(c)
           A == Alloc(o, p[o].type)
           D == Dealloc(o)
           X == R \cup {item, A, D}
           m == ReplaceOp(c, o, << item >>)
           r == InsertAllocAndDealloc(m, o, p[o].type)
<1>1. c \in Seq(X) /\ << item >> \in Seq(X)
  <2>1. c \in Seq(R)
    BY DEF IsSeq
  <2> HIDE DEF R
  <2> QED BY <2>1, SeqMonotonic
<1>2. A \in X /\ D \in X /\ MadeFor(A, p, o, args) /\ MadeFor(D, p, o, args)
  BY BufferItems
<1>3. \A x \in X : x \in Range(c) \/ MadeFor(x, p, o, args)
  <2> HIDE DEF A, D
  <2> QED BY <1>2
<1> HIDE DEF R, X
<1>4. /\ m \in Seq(X) /\ Len(m) > 0
      /\ c[Len(c)] # Toy(o) => m[Len(m)] = c[Len(c)]
  <2> DEFINE items == << item >>
  <2>1. items \in Seq(X) /\ Len(items) > 0
    BY <1>1
  <2>2. m = ReplaceOp(c, o, items)
    OBVIOUS
  <2> HIDE DEF items, m
  <2> QED BY <1>1, <2>1, <2>2, ReplaceOpIn
<1> HIDE DEF m
<1>5. r \in Seq(X) /\ Len(r) > 0 /\ r[Len(r)] = m[Len(m)]
  BY <1>2, <1>4, InsertIn
<1>6. IntoBuffer(p, o, c, item) = r
  BY DEF IntoBuffer, m
<1> HIDE DEF r
<1>7. IsSeq(r) /\ \A k \in 1..Len(r) : r[k] \in X
  BY <1>5, SeqIsSeq
<1>8. Converted(r, c, p, o, args)
  BY <1>3, <1>4, <1>5, <1>7 DEF Converted
<1> QED BY <1>6, <1>8

(* Both targets: every kind a pattern matches is converted that way.       *)
LEMMA AffineConverts ==
    ASSUME NEW c, IsSeq(c), Len(c) > 0, NEW p, NEW o, NEW args,
           p[o].kind \in Kinds \ {"arg", "cast", "generic_call"}
    PROVE  Converted(AffineLowered(p, o, args, c), c, p, o, args)
<1> DEFINE kind == p[o].kind
           r == AffineLowered(p, o, args, c)
<1> SUFFICES Converted(r, c, p, o, args)
  OBVIOUS
<1>1. ASSUME NEW item, MadeFor(item, p, o, args), kind # "return", r = IntoBuffer(p, o, c, item)
      PROVE  Converted(r, c, p, o, args)
  <2> HIDE DEF r
  <2> QED BY <1>1, Around
<1>2. ASSUME NEW x, MadeFor(x, p, o, args), kind = "return" => x = Return, r = ReplaceOp(c, o, << x >>)
      PROVE  Converted(r, c, p, o, args)
  <2> HIDE DEF r
  <2> QED BY <1>2, InPlaceOfOne
<1>3. CASE kind \in Elementwise
  <2>1. r = IntoBuffer(p, o, c, Nest(o, p[o].type, kind, args, << "same", "same" >>, 1, FALSE))
    BY <1>3 DEF AffineLowered, AffineBinaryOpLowering, Elementwise
  <2>2. kind # "return"
    BY <1>3 DEF Elementwise
  <2> HIDE DEF r
  <2> QED BY <1>1, <2>1, <2>2, BufferItems
<1>4. CASE kind = "transpose"
  <2>1. r = IntoBuffer(p, o, c, Nest(o, p[o].type, "transpose", args, << "swapped" >>, 1, FALSE))
    BY <1>4 DEF AffineLowered, AffineTransposeOpLowering, Elementwise
  <2> HIDE DEF r
  <2> QED BY <1>1, <1>4, <2>1, BufferItems
<1>5. CASE kind = "matrix_mul"
  <2>1. r = IntoBuffer(p, o, c,
              Nest(o, p[o].type, "matrix_mul", args, << "lhs", "rhs" >>, Last(p[p[o].args[1]].type), TRUE))
    BY <1>5 DEF AffineLowered, AffineMatrixMulOpLowering, Elementwise
  <2> HIDE DEF r
  <2> QED BY <1>1, <1>5, <2>1, BufferItems
<1>6. CASE kind = "constant"
  <2> DEFINE ixs == LoopOrder(p[o].type)
             terms == [k \in DOMAIN ixs |-> << "lit", p[o].data, k >>]
  <2>1. r = IntoBuffer(p, o, c, Store(o, ixs, terms))
    BY <1>6 DEF AffineLowered, AffineConstantOpLowering, Elementwise
  <2> HIDE DEF r, ixs, terms
  <2> QED BY <1>1, <1>6, <2>1, BufferItems
<1>7. CASE kind = "print"
  <2> DEFINE item == PrintCall(args[1], p[p[o].args[1]].type)
  <2>1. r = ReplaceOp(c, o, << item >>)
    BY <1>7 DEF AffineLowered, AffinePrintOpLowering, Elementwise
  <2>2. MadeFor(item, p, o, args)
    BY <1>7 DEF MadeFor
  <2> HIDE DEF r, item
  <2> QED BY <1>2, <1>7, <2>1, <2>2
<1>8. CASE kind = "reshape"
  <2>1. r = ReplaceOp(c, o, << >>)
    BY <1>8 DEF AffineLowered, AffineReshapeOpLowering, Elementwise
  <2> DEFINE items == << >>
  <2>2. items \in Seq({}) /\ \A x \in {} : MadeFor(x, p, o, args)
    OBVIOUS
  <2>3. kind # "return" /\ r = ReplaceOp(c, o, items)
    BY <1>8, <2>1
  <2> HIDE DEF r, items
  <2> QED BY <2>2, <2>3, InPlace
<1>9. CASE kind = "return"
  <2>1. r = ReplaceOp(c, o, << Return >>)
    BY <1>9 DEF AffineLowered, AffineReturnOpLowering, Elementwise
  <2>2. MadeFor(Return, p, o, args)
    BY <1>9 DEF MadeFor
  <2> HIDE DEF r
  <2> QED BY <1>2, <2>1, <2>2
<1> QED BY <1>3, <1>4, <1>5, <1>6, <1>7, <1>8, <1>9 DEF Kinds, Sinks

(* Each pattern of the linalg pass converts the operation it matches.      *)
LEMMA LinalgConverts ==
    ASSUME NEW c, IsSeq(c), Len(c) > 0, NEW p, NEW o, NEW args,
           p[o].kind \in Kinds \ {"arg", "cast", "generic_call"}
    PROVE  Converted(LinalgLowered(p, o, args, c), c, p, o, args)
<1> DEFINE kind == p[o].kind
           r == LinalgLowered(p, o, args, c)
           made(x) == MadeFor(x, p, o, args)
           A == Alloc(o, p[o].type)
<1> SUFFICES Converted(r, c, p, o, args)
  OBVIOUS
<1>1. ASSUME NEW x, made(x), kind # "return", r = IntoEmpty(p, o, c, << x >>)
      PROVE  Converted(r, c, p, o, args)
  <2> DEFINE items == << A >> \o << x >>
  <2>1. r = ReplaceOp(c, o, items)
    <3> HIDE DEF r
    <3> QED BY <1>1 DEF IntoEmpty
  <2>2. \A y \in {A, x} : MadeFor(y, p, o, args)
    BY <1>1, BufferItems
  <2>3. items \in Seq({A, x})
    <3> HIDE DEF A
    <3> QED OBVIOUS
  <2> HIDE DEF r, A, items
  <2> QED BY <1>1, <2>1, <2>2, <2>3, InPlace
<1>2. ASSUME NEW x, made(x), kind = "return" => x = Return, r = ReplaceOp(c, o, << x >>)
      PROVE  Converted(r, c, p, o, args)
  <2> HIDE DEF r, A
  <2> QED BY <1>2, InPlaceOfOne
<1>3. CASE kind \in Elementwise
  <2>1. r = IntoEmpty(p, o, c, << Nest(o, p[o].type, kind, args, << "same", "same" >>, 1, FALSE) >>)
    BY <1>3 DEF LinalgLowered, LowerElementwiseToLinalg, Elementwise
  <2>2. kind # "return"
    BY <1>3 DEF Elementwise
  <2> HIDE DEF r
  <2> QED BY <1>1, <2>1, <2>2, BufferItems
<1>4. CASE kind = "transpose"
  <2> DEFINE access == IF Len(p[o].type) > 1 THEN "swapped" ELSE "same"
  <2>1. r = IntoEmpty(p, o, c, << Nest(o, p[o].type, "transpose", args, << access >>, 1, FALSE) >>)
    BY <1>4 DEF LinalgLowered, LinalgTransposeOpLowering, Elementwise
  <2> HIDE DEF r, access
  <2> QED BY <1>1, <1>4, <2>1, BufferItems
<1>5. CASE kind = "matrix_mul"
  <2> DEFINE F == Fill(o)
             N == Nest(o, p[o].type, "matrix_mul", args, << "lhs", "rhs" >>, Last(p[p[o].args[1]].type), FALSE)
             items == << A >> \o << F, N >>
  <2>1. r = ReplaceOp(c, o, items)
    BY <1>5 DEF LinalgLowered, LinalgMatrixMulOpLowering, IntoEmpty, Elementwise
  <2>2. \A y \in {A, F, N} : MadeFor(y, p, o, args)
    BY BufferItems
  <2> HIDE DEF r, A, F, N
  <2>3. items \in Seq({A, F, N})
    OBVIOUS
  <2> HIDE DEF items
  <2>4. kind # "return"
    BY <1>5
  <2> QED BY <2>1, <2>2, <2>3, <2>4, InPlace
<1>6. CASE kind = "constant"
  <2> DEFINE ixs == LoopOrder(p[o].type)
             terms == [k \in 1..NumElements(p[o].type) |-> << "lit", p[o].data, k >>]
  <2>1. r = IntoEmpty(p, o, c, << Store(o, ixs, terms) >>)
    BY <1>6 DEF LinalgLowered, LinalgConstantOpLowering, Elementwise
  <2> HIDE DEF r, ixs, terms
  <2> QED BY <1>1, <1>6, <2>1, BufferItems
<1>7. CASE kind = "print"
  <2> DEFINE item == PrintCall(args[1], p[p[o].args[1]].type)
  <2>1. r = ReplaceOp(c, o, << item >>)
    BY <1>7 DEF LinalgLowered, LinalgPrintOpLowering, Elementwise
  <2>2. made(item)
    BY <1>7 DEF MadeFor
  <2> HIDE DEF r, item
  <2> QED BY <1>2, <1>7, <2>1, <2>2
<1>8. CASE kind = "reshape"
  <2>1. r = ReplaceOp(c, o, << View(o, p[o].type, args[1]) >>)
    BY <1>8 DEF LinalgLowered, LinalgReshapeOpLowering, Elementwise
  <2> HIDE DEF r
  <2> QED BY <1>2, <1>8, <2>1, BufferItems
<1>9. CASE kind = "return"
  <2>1. r = ReplaceOp(c, o, << Return >>)
    BY <1>9 DEF LinalgLowered, LinalgReturnOpLowering, Elementwise
  <2>2. MadeFor(Return, p, o, args)
    BY <1>9 DEF MadeFor
  <2> HIDE DEF r
  <2> QED BY <1>2, <2>1, <2>2
<1> QED BY <1>3, <1>4, <1>5, <1>6, <1>7, <1>8, <1>9 DEF Kinds, Sinks

-----------------------------------------------------------------------------
(* What a target can express, and what the conversion asks.                *)

(* What a program is, by assumption.                                       *)
LEMMA ProgramFacts ==
    ASSUME NEW p \in Programs
    PROVE  /\ Len(p) \in Nat \ {0} /\ DOMAIN p = 1..Len(p) /\ p[Len(p)].kind = "return"
           /\ Verified(p)
           /\ \A o \in DOMAIN p :
                /\ p[o].kind = "return" <=> o = Len(p)
                /\ p[o].kind \in Kinds /\ p[o].args \in Seq(DOMAIN p) /\ p[o].type \in Type
                /\ p[o].kind = "constant" => IsRanked(p[o].type)
                /\ ArityOK(p[o].kind, Len(p[o].args))
                /\ Verifies(p[o].kind, InTypes(p, o), p[o].type)
                /\ \A k \in 1..Len(p[o].args) :
                     p[o].args[k] \in 1..(o - 1) /\ p[p[o].args[k]].kind \notin Sinks
<1>1. /\ p \in Seq(Range(p)) /\ p # << >> /\ Verified(p)
      /\ \A o \in DOMAIN p :
              /\ p[o].kind = "return" <=> o = Len(p)
              /\ p[o].kind \in Kinds /\ p[o].args \in Seq(DOMAIN p) /\ p[o].type \in Type
              /\ \A k \in DOMAIN p[o].args : p[p[o].args[k]].kind \notin Sinks
              /\ p[o].kind = "constant" => IsRanked(p[o].type)
  BY ProgramsAssumption
<1>2. Len(p) \in Nat \ {0} /\ DOMAIN p = 1..Len(p)
  <2> DEFINE R == Range(p)
  <2>1. p \in Seq(R) /\ p # << >>
    BY <1>1
  <2> HIDE DEF R
  <2> QED BY <2>1
<1>3. ASSUME NEW o \in DOMAIN p
      PROVE  /\ ArityOK(p[o].kind, Len(p[o].args))
             /\ Verifies(p[o].kind, InTypes(p, o), p[o].type)
             /\ \A k \in 1..Len(p[o].args) :
                     p[o].args[k] \in 1..(o - 1) /\ p[p[o].args[k]].kind \notin Sinks
  <2>1. DOMAIN p[o].args = 1..Len(p[o].args)
    <3>1. p[o].args \in Seq(DOMAIN p)
      BY <1>1
    <3> QED BY <3>1
  <2>2. ArityOK(p[o].kind, Len(p[o].args))
    BY <1>1 DEF Verified
  <2>3. Verifies(p[o].kind, InTypes(p, o), p[o].type)
    BY <1>1 DEF Verified, InTypes
  <2>4. \A k \in DOMAIN p[o].args : p[o].args[k] \in 1..(o - 1)
    BY <1>1 DEF Verified
  <2> QED BY <1>1, <2>1, <2>2, <2>3, <2>4
<1> QED BY <1>1, <1>2, <1>3

(* The operands of an operation, counted.                                  *)
LEMMA OperandFacts ==
    ASSUME NEW p \in Programs, NEW o \in DOMAIN p
    PROVE  /\ p[o].kind \in {"transpose", "cast", "reshape", "print"} => Len(p[o].args) = 1
           /\ p[o].kind \in Elementwise \cup {"matrix_mul"} => Len(p[o].args) = 2
           /\ \A k \in 1..Len(p[o].args) : InTypes(p, o)[k] = p[p[o].args[k]].type
           /\ Len(p[o].args) \in Nat
<1>1. ArityOK(p[o].kind, Len(p[o].args)) /\ p[o].args \in Seq(DOMAIN p)
  BY ProgramFacts
<1>2. DOMAIN p[o].args = 1..Len(p[o].args) /\ Len(p[o].args) \in Nat
  BY <1>1
<1>3. ASSUME NEW k \in 1..Len(p[o].args) PROVE InTypes(p, o)[k] = p[p[o].args[k]].type
  <2>1. p[o].args[k] \in DOMAIN p
    BY <1>1
  <2> QED BY <1>2, <2>1 DEF InTypes, OperandTypes, BuiltTypes
<1> QED BY <1>1, <1>2, <1>3 DEF ArityOK

CanLower == IF target = "affine" THEN AffineLowers(prog) ELSE LinalgLowers(prog)

MainOK ==
    \A o \in DOMAIN prog : prog[o].kind # "arg" /\ (prog[o].kind = "return" => prog[o].args = << >>)

Passed(o) == ~ Aborts(o) /\ (Matches(o) \/ FoldsAway(o))

(* A product of operands of one rank has that rank.                        *)
LEMMA RankOfProduct ==
    ASSUME NEW l \in Seq(Nat), NEW r \in Seq(Nat), MatmulCompatible(l, r), Len(l) = Len(r)
    PROVE  Len(MatmulShape(l, r)) = Len(l)
<1> DEFINE n == Len(l)
           b == SubSeq(l, 1, n - 2)
           x == << l[n - 1] >>
           y == << r[n] >>
<1>1. n \in Nat /\ n >= 2
  BY DEF MatmulCompatible, MatmulRanks
<1>2. b \in Seq(Nat) /\ Len(b) = n - 2
  <2>1. Len(l) = n
    OBVIOUS
  <2> HIDE DEF n
  <2>2. \A i \in 1..(n - 2) : l[i] \in Nat
    BY <1>1, <2>1
  <2> QED BY <1>1, <2>1, <2>2, SubSeqProperties
<1>3. x \in Seq(Nat) /\ Len(x) = 1 /\ y \in Seq(Nat) /\ Len(y) = 1
  <2>1. l[n - 1] \in Nat /\ r[n] \in Nat
    BY <1>1
  <2> QED BY <2>1
<1>4. MatmulShape(l, r) = (b \o x) \o y
  <2>1. Len(l) >= Len(r) /\ Len(l) <= Len(r) /\ Len(r) = n
    BY <1>1
  <2>2. Batch(l, r) = b
    BY <2>1 DEF Batch
  <2>3. (IF Len(l) >= Len(r) THEN x ELSE << >>) = x /\ (IF Len(l) <= Len(r) THEN y ELSE << >>) = y
    BY <2>1
  <2>4. MatmulShape(l, r) = Batch(l, r) \o (IF Len(l) >= Len(r) THEN x ELSE << >>)
                                        \o (IF Len(l) <= Len(r) THEN y ELSE << >>)
    BY <2>1 DEF MatmulShape
  <2> HIDE DEF b, x, y
  <2> QED BY <2>2, <2>3, <2>4
<1> HIDE DEF b, x, y, n
<1>5. b \o x \in Seq(Nat) /\ Len(b \o x) = n - 1
  <2>1. b \o x \in Seq(Nat) /\ Len(b \o x) = Len(b) + Len(x)
    BY <1>2, <1>3, ConcatProperties
  <2> QED BY <1>1, <1>2, <1>3, <2>1
<1>6. Len((b \o x) \o y) = n
  <2>1. Len((b \o x) \o y) = Len(b \o x) + Len(y)
    BY <1>3, <1>5, ConcatProperties
  <2> QED BY <1>1, <1>3, <1>5, <2>1
<1> QED BY <1>4, <1>6 DEF n

(* Whatever got through the patterns is ranked.                            *)
LEMMA PassedIsRanked ==
    ASSUME prog \in Programs, target \in {"affine", "linalg"}, MainOK, \A o \in DOMAIN prog : Passed(o)
    PROVE  \A o \in DOMAIN prog : prog[o].kind \notin Sinks => IsRanked(prog[o].type)
<1> DEFINE n == Len(prog)
           U == {o \in 1..n : prog[o].kind \notin Sinks /\ ~ IsRanked(prog[o].type)}
<1>1. n \in Nat /\ DOMAIN prog = 1..n
  BY ProgramFacts
<1> SUFFICES ASSUME U # {} PROVE FALSE
  BY <1>1
<1>2. PICK m \in U : \A k \in U : m <= k
  <2>1. U \in SUBSET Nat
    BY <1>1
  <2> HIDE DEF U
  <2> QED BY <2>1, LeastNumber
<1>3. m \in DOMAIN prog /\ prog[m].kind \notin Sinks /\ ~ IsRanked(prog[m].type)
  BY <1>1, <1>2
<1>4. prog[m].kind \in Kinds /\ prog[m].kind # "arg" /\ prog[m].kind # "constant"
  BY <1>3, ProgramFacts DEF MainOK
<1>5. Passed(m)
  BY <1>3
<1>6. CASE FoldsAway(m)
  <2>1. prog[m].kind = "cast" /\ prog[m].type = prog[prog[m].args[1]].type
    BY <1>6 DEF FoldsAway
  <2>2. 1 \in 1..Len(prog[m].args)
    BY <1>3, <2>1, OperandFacts
  <2>3. prog[m].args[1] \in 1..(m - 1) /\ prog[prog[m].args[1]].kind \notin Sinks
    BY <1>3, <2>2, ProgramFacts
  <2>4. m \in 1..n
    BY <1>2
  <2>5. prog[m].args[1] \in U /\ ~ (m <= prog[m].args[1])
    BY <1>1, <1>3, <2>1, <2>3, <2>4
  <2> HIDE DEF U
  <2> QED BY <1>2, <2>5
<1>7. CASE ~ Aborts(m) /\ Matches(m)
  <2>1. CASE target = "affine"
    BY <1>3, <1>4, <1>7, <2>1 DEF Aborts, Matches, AffineAborts, AffineMatches, Kinds, Elementwise, Sinks
  <2>2. CASE target # "affine"
    BY <1>3, <1>7, <2>2 DEF Matches, LinalgMatches
  <2> QED BY <2>1, <2>2
<1> QED BY <1>5, <1>6, <1>7 DEF Passed

(* The conversion and the verifier behind it accept every operation        *)
(* exactly when the target can express the function.                       *)
LEMMA LowersIfPassed ==
    ASSUME prog \in Programs, target \in {"affine", "linalg"}, MainOK,
           \A o \in DOMAIN prog : Passed(o) /\ VerifiesAfter(o)
    PROVE  CanLower
<1>1. \A o \in DOMAIN prog : prog[o].kind \notin Sinks => IsRanked(prog[o].type)
  BY PassedIsRanked
<1>2. \A o \in DOMAIN prog : prog[o].kind # "generic_call"
  <2> SUFFICES ASSUME NEW o \in DOMAIN prog, prog[o].kind = "generic_call" PROVE FALSE
    OBVIOUS
  <2>1. Passed(o)
    OBVIOUS
  <2> QED BY <2>1 DEF Passed, Matches, FoldsAway, AffineMatches, LinalgMatches
<1>3. Closed(prog)
  BY <1>1, <1>2 DEF Closed, MainOK
<1>4. CastsAreTrivial(prog)
  <2> SUFFICES ASSUME NEW o \in DOMAIN prog, prog[o].kind = "cast"
               PROVE  InTypes(prog, o)[1] = prog[o].type
    BY DEF CastsAreTrivial
  <2>1. Passed(o)
    OBVIOUS
  <2>2. prog[o].type = prog[prog[o].args[1]].type
    BY <2>1 DEF Passed, Matches, FoldsAway, AffineMatches, LinalgMatches
  <2>3. 1 \in 1..Len(prog[o].args)
    BY OperandFacts
  <2> QED BY <2>2, <2>3, OperandFacts
<1>5. ASSUME target = "affine", NEW o \in DOMAIN prog
      PROVE  /\ prog[o].kind = "transpose" => Len(prog[o].type) >= 2
             /\ prog[o].kind = "matrix_mul" => Len(InTypes(prog, o)[1]) = Len(InTypes(prog, o)[2])
             /\ prog[o].kind = "reshape" => InTypes(prog, o)[1] = prog[o].type
  <2>1. Passed(o) /\ VerifiesAfter(o)
    OBVIOUS
  <2>2. CASE prog[o].kind = "transpose"
    BY <1>5, <2>1, <2>2 DEF Passed, Matches, FoldsAway, AffineMatches
  <2>3. CASE prog[o].kind = "matrix_mul"
    <3>1. 1 \in 1..Len(prog[o].args) /\ 2 \in 1..Len(prog[o].args)
      BY <2>3, OperandFacts, SMTT(30)
    <3>2. \A k \in {1, 2} : Len(prog[prog[o].args[k]].type) = Len(prog[o].type)
      BY <1>1, <1>5, <2>1, <2>3 DEF Passed, Aborts, AffineAborts, Sinks
    <3> QED BY <2>3, <3>1, <3>2, OperandFacts
  <2>4. CASE prog[o].kind = "reshape"
    <3>1. 1 \in 1..Len(prog[o].args)
      BY <2>4, OperandFacts
    <3>2. prog[o].type = prog[prog[o].args[1]].type
      BY <1>5, <2>1, <2>4 DEF VerifiesAfter, AffineVerifiesAfter
    <3> QED BY <2>4, <3>1, <3>2, OperandFacts
  <2> QED BY <2>2, <2>3, <2>4
<1>6. ASSUME target # "affine", NEW o \in DOMAIN prog
      PROVE  /\ prog[o].kind = "transpose" => prog[o].type = TransposeShape(InTypes(prog, o)[1])
             /\ prog[o].kind = "matrix_mul" => Len(InTypes(prog, o)[1]) = 2 /\ Len(InTypes(prog, o)[2]) = 2
             /\ prog[o].kind = "reshape" => NumElements(InTypes(prog, o)[1]) = NumElements(prog[o].type)
  <2> DEFINE in == [k \in DOMAIN prog[o].args |-> prog[prog[o].args[k]].type]
  <2>1. Passed(o) /\ VerifiesAfter(o)
    OBVIOUS
  <2>2. \A k \in 1..Len(prog[o].args) : in[k] = InTypes(prog, o)[k]
    <3>1. DOMAIN prog[o].args = 1..Len(prog[o].args)
      <4>1. prog[o].args \in Seq(DOMAIN prog)
        BY ProgramFacts
      <4> QED BY <4>1
    <3> QED BY <3>1, OperandFacts
  <2>3. LinalgVerifiesAfter(prog, o)
    BY <1>6, <2>1 DEF VerifiesAfter
  <2>4. CASE prog[o].kind = "transpose"
    <3>1. 1 \in 1..Len(prog[o].args)
      BY <2>4, OperandFacts
    <3>2. prog[o].type = TransposeShape(in[1])
      BY <2>3, <2>4 DEF LinalgVerifiesAfter
    <3> HIDE DEF in
    <3> QED BY <2>2, <2>4, <3>1, <3>2
  <2>5. CASE prog[o].kind = "matrix_mul"
    <3>1. 1 \in 1..Len(prog[o].args) /\ 2 \in 1..Len(prog[o].args)
      BY <2>5, OperandFacts, SMTT(30)
    <3>2. Len(in[1]) = 2 /\ Len(in[2]) = 2
      BY <2>3, <2>5 DEF LinalgVerifiesAfter
    <3> HIDE DEF in
    <3> QED BY <2>2, <2>5, <3>1, <3>2
  <2>6. CASE prog[o].kind = "reshape"
    <3>1. 1 \in 1..Len(prog[o].args)
      BY <2>6, OperandFacts
    <3>2. NumElements(in[1]) = NumElements(prog[o].type)
      BY <1>6, <2>1, <2>6 DEF Passed, Matches, FoldsAway, LinalgMatches
    <3> HIDE DEF in
    <3> QED BY <2>2, <2>6, <3>1, <3>2
  <2> QED BY <2>4, <2>5, <2>6
<1> QED BY <1>3, <1>4, <1>5, <1>6 DEF CanLower, AffineLowers, LinalgLowers

(* The patterns and the verifier let through what the target can express.  *)
LEMMA PassedIfLowers ==
    ASSUME prog \in Programs, target \in {"affine", "linalg"}, CanLower
    PROVE  MainOK /\ \A o \in DOMAIN prog : Passed(o) /\ VerifiesAfter(o)
<1>1. Closed(prog) /\ CastsAreTrivial(prog)
  BY DEF CanLower, AffineLowers, LinalgLowers
<1>2. MainOK
  BY <1>1 DEF Closed, MainOK
<1> SUFFICES ASSUME NEW o \in DOMAIN prog PROVE Passed(o) /\ VerifiesAfter(o)
  BY <1>2
<1> DEFINE kind == prog[o].kind
           T(k) == prog[prog[o].args[k]].type
<1>3. kind \in Kinds \ {"arg", "generic_call"} /\ (kind \notin Sinks => IsRanked(prog[o].type))
  BY <1>1, ProgramFacts DEF Closed
<1>4. ASSUME NEW k \in 1..Len(prog[o].args)
      PROVE  IsRanked(T(k)) /\ T(k) \in Seq(Nat) /\ InTypes(prog, o)[k] = T(k)
  <2>1. prog[o].args[k] \in 1..(o - 1) /\ prog[prog[o].args[k]].kind \notin Sinks
    BY ProgramFacts
  <2>2. DOMAIN prog = 1..Len(prog) /\ Len(prog) \in Nat
    BY ProgramFacts
  <2>3. prog[o].args[k] \in DOMAIN prog
    BY <2>1, <2>2
  <2>4. IsRanked(T(k)) /\ T(k) \in Type
    BY <1>1, <2>1, <2>3, ProgramFacts DEF Closed
  <2>5. InTypes(prog, o)[k] = T(k)
    BY OperandFacts
  <2> QED BY <2>4, <2>5 DEF Type, Shape, IsRanked
<1>5. kind = "cast" => FoldsAway(o)
  <2> SUFFICES ASSUME kind = "cast" PROVE FoldsAway(o)
    OBVIOUS
  <2>1. 1 \in 1..Len(prog[o].args)
    BY OperandFacts
  <2>2. InTypes(prog, o)[1] = prog[o].type
    BY <1>1 DEF CastsAreTrivial
  <2> QED BY <1>4, <2>1, <2>2 DEF FoldsAway
<1>6. CASE target = "affine"
  <2>1. /\ kind = "transpose" => Len(prog[o].type) >= 2
        /\ kind = "matrix_mul" => Len(InTypes(prog, o)[1]) = Len(InTypes(prog, o)[2])
        /\ kind = "reshape" => InTypes(prog, o)[1] = prog[o].type
    BY <1>6 DEF CanLower, AffineLowers
  <2>2. ASSUME kind = "matrix_mul"
        PROVE  \A k \in {1, 2} : Len(T(k)) = Len(prog[o].type)
    <3>1. 1 \in 1..Len(prog[o].args) /\ 2 \in 1..Len(prog[o].args)
      BY <2>2, OperandFacts, SMTT(30)
    <3>2. /\ IsRanked(T(1)) /\ T(1) \in Seq(Nat) /\ InTypes(prog, o)[1] = T(1)
          /\ IsRanked(T(2)) /\ T(2) \in Seq(Nat) /\ InTypes(prog, o)[2] = T(2)
      BY <1>4, <3>1
    <3>3. IsRanked(prog[o].type)
      BY <1>3, <2>2 DEF Sinks
    <3>4. Verifies(kind, InTypes(prog, o), prog[o].type)
      BY ProgramFacts
    <3> HIDE DEF T
    <3>5. MatmulCompatible(T(1), T(2)) /\ prog[o].type = MatmulShape(T(1), T(2))
      BY <2>2, <3>2, <3>3, <3>4 DEF Verifies
    <3>6. Len(T(1)) = Len(T(2))
      BY <2>1, <2>2, <3>2
    <3>7. Len(prog[o].type) = Len(T(1))
      BY <3>2, <3>5, <3>6, RankOfProduct
    <3> QED BY <3>6, <3>7
  <2>3. ~ Aborts(o)
    <3>1. kind \in Elementwise \cup {"transpose", "matrix_mul", "reshape"} => IsRanked(prog[o].type)
      BY <1>3 DEF Elementwise, Sinks
    <3> QED BY <2>2, <3>1 DEF Aborts, AffineAborts
  <2>4. kind # "cast" => Matches(o)
    BY <1>3, <1>6, <2>1 DEF Matches, AffineMatches
  <2>5. kind = "reshape" => prog[o].type = T(1)
    <3> SUFFICES ASSUME kind = "reshape" PROVE prog[o].type = T(1)
      OBVIOUS
    <3>1. 1 \in 1..Len(prog[o].args)
      BY OperandFacts
    <3> QED BY <1>4, <2>1, <3>1
  <2> QED BY <1>5, <1>6, <2>3, <2>4, <2>5 DEF Passed, VerifiesAfter, AffineVerifiesAfter
<1>7. CASE target # "affine"
  <2> DEFINE in == [k \in DOMAIN prog[o].args |-> prog[prog[o].args[k]].type]
  <2>1. /\ kind = "transpose" => prog[o].type = TransposeShape(InTypes(prog, o)[1])
        /\ kind = "matrix_mul" => Len(InTypes(prog, o)[1]) = 2 /\ Len(InTypes(prog, o)[2]) = 2
        /\ kind = "reshape" => NumElements(InTypes(prog, o)[1]) = NumElements(prog[o].type)
    BY <1>7 DEF CanLower, LinalgLowers
  <2>2. \A k \in 1..Len(prog[o].args) : in[k] = InTypes(prog, o)[k] /\ IsRanked(in[k])
    <3>1. DOMAIN prog[o].args = 1..Len(prog[o].args)
      <4>1. prog[o].args \in Seq(DOMAIN prog)
        BY ProgramFacts
      <4> QED BY <4>1
    <3> QED BY <1>4, <3>1
  <2>3. /\ kind \in {"transpose", "print", "reshape"} => 1 \in 1..Len(prog[o].args)
        /\ kind = "matrix_mul" => 1 \in 1..Len(prog[o].args) /\ 2 \in 1..Len(prog[o].args)
    <3>1. /\ kind \in {"transpose", "print", "reshape"} => Len(prog[o].args) = 1
          /\ kind = "matrix_mul" => Len(prog[o].args) = 2
      BY OperandFacts
    <3>2. ASSUME Len(prog[o].args) = 1 PROVE 1 \in 1..Len(prog[o].args)
      BY <3>2
    <3>3. ASSUME Len(prog[o].args) = 2 PROVE 1 \in 1..Len(prog[o].args) /\ 2 \in 1..Len(prog[o].args)
      BY <3>3
    <3> HIDE DEF kind, in, T
    <3> QED BY <3>1, <3>2, <3>3
  <2>4. LinalgVerifiesAfter(prog, o)
    <3>1. kind = "matrix_mul" => Len(in[1]) = 2 /\ Len(in[2]) = 2
      <4> HIDE DEF in
      <4> QED BY <2>1, <2>2, <2>3
    <3>2. kind = "transpose" => prog[o].type = TransposeShape(in[1])
      <4> HIDE DEF in
      <4> QED BY <2>1, <2>2, <2>3
    <3> QED BY <3>1, <3>2 DEF LinalgVerifiesAfter
  <2>5. kind # "cast" => LinalgMatches(prog, o)
    <3>1. kind \in {"print", "reshape"} => IsRanked(in[1])
      <4> HIDE DEF in
      <4> QED BY <2>2, <2>3
    <3>2. kind = "reshape" => NumElements(in[1]) = NumElements(prog[o].type)
      <4> HIDE DEF in
      <4> QED BY <2>1, <2>2, <2>3
    <3> QED BY <1>3, <3>1, <3>2 DEF LinalgMatches
  <2> QED BY <1>5, <1>7, <2>4, <2>5 DEF Passed, Aborts, Matches, VerifiesAfter
<1> QED BY <1>6, <1>7

-----------------------------------------------------------------------------
(* The invariant.                                                          *)

PrintfNames == {"printf", "frmt_spec", "nl"}

(* An item works on the buffer of an operation; what it calls is declared. *)
ItemOK(x, p, tg, d) ==
    /\ x.op \in Buffering => x.buf \in DOMAIN p
    /\ x.op = "print" /\ tg = "linalg" => LucidPrint(x.shape) \in Range(d)
    /\ x.op = "printf" => PrintfNames \subseteq Range(d)

Produced == {"llvm", "run", "done", "fault"}

ProgOK ==
    /\ prog \in Programs /\ target \in {"affine", "linalg"}
    /\ pc \in Produced \cup {"function", "convert", "refused", "aborted"}

CodeOK ==
    /\ IsSeq(code) /\ Len(code) > 0
    /\ \A k \in 1..Len(code) : ItemOK(code[k], prog, target, decls)

(* The last item stands for the return, or is the return.                  *)
EndOK ==
    /\ pc \in {"function", "convert"} =>
           code[Len(code)] = IF next <= Len(prog) THEN Toy(Len(prog)) ELSE Return
    /\ pc \in Produced => code[Len(code)] = Return

(* Where the stage is.                                                     *)
WalkOK ==
    /\ next \in Nat \ {0}
    /\ pc = "function" => next = 1 /\ value = << >>
    /\ pc = "convert" => next <= Len(prog) + 1 /\ Len(value) = next - 1
    /\ pc \in {"refused", "aborted"} => next <= Len(prog) + 1
    /\ pc = "llvm" => next <= Len(code) + 1
    /\ pc = "run" => next <= Len(code)
    /\ pc \in {"done", "fault"} => next <= Len(code) + 1

(* The prints the LLVM pass has gone past are gone.                        *)
PrintsOK ==
    /\ pc = "llvm" => target = "affine" /\ \A k \in 1..(next - 1) : code[k].op # "print"
    /\ pc = "run" /\ target = "affine" => \A k \in 1..Len(code) : code[k].op # "print"

DataOK ==
    /\ value \in Seq(DOMAIN prog) /\ DOMAIN mem \subseteq DOMAIN prog
    /\ IsSeq(decls) /\ IsInjective(decls)

(* Why the conversion goes on, or does not.                                *)
RefusalOK ==
    /\ pc = "convert" => MainOK /\ \A o \in 1..(next - 1) : Passed(o)
    /\ pc \in Produced => CanLower
    /\ pc \in {"refused", "aborted"} => ~ CanLower

IInv == ProgOK /\ CodeOK /\ EndOK /\ WalkOK /\ PrintsOK /\ DataOK /\ RefusalOK

-----------------------------------------------------------------------------
(* The symbols.                                                            *)

(* Looking before inserting keeps every symbol single.                     *)
LEMMA GetOrInsertFacts ==
    ASSUME NEW d, IsSeq(d), IsInjective(d), NEW name
    PROVE  LET r == GetOrInsert(d, name)
           IN  IsSeq(r) /\ IsInjective(r) /\ Range(d) \subseteq Range(r) /\ name \in Range(r)
<1> DEFINE R == Range(d)
           S == R \cup {name}
           n == Len(d)
           h == << name >>
           e == h \o d
<1>1. CASE name \in Range(d)
  BY <1>1 DEF GetOrInsert
<1>2. CASE name \notin Range(d)
  <2>1. GetOrInsert(d, name) = e
    BY <1>2 DEF GetOrInsert
  <2>2. n \in Nat /\ DOMAIN d = 1..n /\ \A x : x \in R <=> \E k \in 1..n : d[k] = x
    BY SeqFacts
  <2>3. d \in Seq(S) /\ h \in Seq(S) /\ Len(h) = 1 /\ h[1] = name
    <3>1. d \in Seq(R)
      BY DEF IsSeq
    <3> HIDE DEF R
    <3>2. d \in Seq(S)
      BY <3>1, SeqMonotonic
    <3> QED BY <3>2
  <2> HIDE DEF R, S, h, n
  <2>4. /\ e \in Seq(S) /\ Len(e) = 1 + n
        /\ \A i \in 1..(1 + n) : e[i] = IF i <= 1 THEN h[i] ELSE d[i - 1]
    <3>1. /\ e \in Seq(S) /\ Len(e) = Len(h) + Len(d)
          /\ \A i \in 1..(Len(h) + Len(d)) : e[i] = IF i <= Len(h) THEN h[i] ELSE d[i - Len(h)]
      BY <2>3, ConcatProperties
    <3> HIDE DEF e
    <3> QED BY <2>3, <3>1 DEF n
  <2> HIDE DEF e
  <2>5. e[1] = name /\ \A i \in 1..n : e[i + 1] = d[i]
    <3>1. 1 \in 1..(1 + n) /\ 1 <= 1
      BY <2>2
    <3>2. \A i \in 1..n : i + 1 \in 1..(1 + n) /\ ~ (i + 1 <= 1) /\ (i + 1) - 1 = i
      BY <2>2
    <3> QED BY <2>3, <2>4, <3>1, <3>2
  <2>6. IsSeq(e) /\ DOMAIN e = 1..(1 + n) /\ \A x : x \in Range(e) <=> \E k \in 1..(1 + n) : e[k] = x
    <3>1. IsSeq(e)
      BY <2>4, SeqIsSeq
    <3> QED BY <2>4, <3>1, SeqFacts
  <2>7. name \in Range(e) /\ \A x \in R : x \in Range(e)
    <3>1. 1 \in 1..(1 + n) /\ \A i \in 1..n : i + 1 \in 1..(1 + n)
      BY <2>2
    <3> QED BY <2>2, <2>5, <2>6, <3>1
  <2>8. IsInjective(e)
    <3> SUFFICES ASSUME NEW i \in 1..(1 + n), NEW j \in 1..(1 + n), e[i] = e[j] PROVE i = j
      BY <2>6 DEF IsInjective
    <3>1. \A k \in 1..(1 + n) : k = 1 \/ (k - 1 \in 1..n /\ (k - 1) + 1 = k)
      BY <2>2
    <3>2. \A k \in 1..n : d[k] # name
      BY <1>2, <2>2 DEF R
    <3>3. \A k \in 1..(1 + n) : k # 1 => k - 1 \in 1..n /\ e[k] = d[k - 1]
      BY <2>5, <3>1
    <3>4. CASE i # 1 /\ j # 1
      <4>1. d[i - 1] = d[j - 1] /\ i - 1 \in 1..n /\ j - 1 \in 1..n
        BY <3>3, <3>4
      <4>2. i - 1 = j - 1
        BY <2>2, <4>1 DEF IsInjective
      <4> QED BY <2>2, <4>2
    <3>5. CASE i = 1 \/ j = 1
      BY <2>5, <3>2, <3>3, <3>5
    <3> QED BY <3>4, <3>5
  <2> QED BY <2>1, <2>6, <2>7, <2>8 DEF R
<1> QED BY <1>1, <1>2

(* The fold over the three names is three insertions.                      *)
LEMMA PrintfSymbolsUnfold ==
    ASSUME NEW d
    PROVE  PrintfSymbols(d) =
             GetOrInsert(GetOrInsert(GetOrInsert(d, "printf"), "frmt_spec"), "nl")
<1> DEFINE names == << "printf", "frmt_spec", "nl" >>
           D == 1..3
           Folds(g) == g = [T \in SUBSET D |->
                              IF T = {} THEN d ELSE GetOrInsert(g[T \ {Max(T)}], names[Max(T)])]
           f == CHOOSE g : Folds(g)
           a(T) == IF 1 \in T THEN GetOrInsert(d, "printf") ELSE d
           b(T) == IF 2 \in T THEN GetOrInsert(a(T), "frmt_spec") ELSE a(T)
           h == [T \in SUBSET D |-> IF 3 \in T THEN GetOrInsert(b(T), "nl") ELSE b(T)]
<1>1. DOMAIN names = D /\ names[1] = "printf" /\ names[2] = "frmt_spec" /\ names[3] = "nl"
  OBVIOUS
<1>2. PrintfSymbols(d) = f[D]
  BY <1>1 DEF PrintfSymbols, FoldLeft, MapThenFoldSet
<1> HIDE DEF names
<1>3. ASSUME NEW T \in SUBSET D
      PROVE  h[T] = IF T = {} THEN d ELSE GetOrInsert(h[T \ {Max(T)}], names[Max(T)])
  <2>1. CASE 3 \in T
    <3>1. Max(T) = 3
      BY <2>1, MaxIsBound
    <3>2. T \ {3} \in SUBSET D /\ 3 \notin T \ {3} /\ (1 \in T \ {3} <=> 1 \in T) /\ (2 \in T \ {3} <=> 2 \in T)
      OBVIOUS
    <3>3. h[T \ {3}] = b(T)
      BY <3>2
    <3>4. h[T] = GetOrInsert(b(T), "nl")
      BY <2>1
    <3> HIDE DEF h, b
    <3> QED BY <1>1, <2>1, <3>1, <3>3, <3>4
  <2>2. CASE 3 \notin T /\ 2 \in T
    <3>1. Max(T) = 2
      <4>1. T \in SUBSET (1..2)
        BY <2>2
      <4> QED BY <2>2, <4>1, MaxIsBound
    <3>2. T \ {2} \in SUBSET D /\ 3 \notin T \ {2} /\ 2 \notin T \ {2} /\ (1 \in T \ {2} <=> 1 \in T)
      BY <2>2
    <3>3. h[T \ {2}] = a(T)
      BY <3>2
    <3>4. h[T] = GetOrInsert(a(T), "frmt_spec")
      BY <2>2
    <3> HIDE DEF h, a
    <3> QED BY <1>1, <2>2, <3>1, <3>3, <3>4
  <2>3. CASE 3 \notin T /\ 2 \notin T /\ 1 \in T
    <3>1. Max(T) = 1
      <4>1. T \in SUBSET (1..1)
        BY <2>3
      <4> QED BY <2>3, <4>1, MaxIsBound
    <3>2. T \ {1} \in SUBSET D /\ 3 \notin T \ {1} /\ 2 \notin T \ {1} /\ 1 \notin T \ {1}
      BY <2>3
    <3>3. h[T \ {1}] = d
      BY <3>2
    <3>4. h[T] = GetOrInsert(d, "printf")
      BY <2>3
    <3> HIDE DEF h
    <3> QED BY <1>1, <2>3, <3>1, <3>3, <3>4
  <2>4. CASE 3 \notin T /\ 2 \notin T /\ 1 \notin T
    <3>1. T = {}
      BY <2>4
    <3>2. h[T] = d
      BY <2>4
    <3> HIDE DEF h
    <3> QED BY <3>1, <3>2
  <2> QED BY <2>1, <2>2, <2>3, <2>4
<1>4. h = [T \in SUBSET D |-> h[T]]
  OBVIOUS
<1>5. h[D] = GetOrInsert(GetOrInsert(GetOrInsert(d, "printf"), "frmt_spec"), "nl")
  OBVIOUS
<1> HIDE DEF h, D
<1>6. Folds(h)
  BY <1>3, <1>4
<1>7. Folds(f)
  <2> HIDE DEF Folds
  <2> QED BY <1>6
<1> HIDE DEF f
<1>8. ASSUME NEW n \in 0..3 PROVE \A T \in SUBSET D : T \subseteq 1..n => f[T] = h[T]
  <2> DEFINE Same == {m \in 0..3 : \A T \in SUBSET D : T \subseteq 1..m => f[T] = h[T]}
  <2>1. 0 \in Same
    <3>1. \A T : T \subseteq 1..0 => T = {}
      OBVIOUS
    <3>2. \A T \in SUBSET D : T = {} => f[T] = d /\ h[T] = d
      BY <1>6, <1>7
    <3> QED BY <3>1, <3>2
  <2>2. ASSUME NEW m \in 1..3, m - 1 \in Same PROVE m \in Same
    <3> SUFFICES ASSUME NEW T \in SUBSET D, T \subseteq 1..m, T # {} PROVE f[T] = h[T]
      <4>1. \A T \in SUBSET D : T = {} => f[T] = d /\ h[T] = d
        BY <1>6, <1>7
      <4> QED BY <4>1
    <3>1. Max(T) \in T /\ \A k \in T : k <= Max(T)
      BY MaxOfNumbers
    <3>2. T \ {Max(T)} \in SUBSET D /\ T \ {Max(T)} \subseteq 1..(m - 1)
      <4>1. \A k \in T \ {Max(T)} : k \in 1..m /\ k <= Max(T) /\ k # Max(T) /\ Max(T) \in 1..m
        BY <3>1
      <4>2. \A k \in T \ {Max(T)} : k \in 1..(m - 1)
        BY <4>1
      <4> QED BY <4>2
    <3>3. f[T \ {Max(T)}] = h[T \ {Max(T)}]
      BY <2>2, <3>2
    <3> QED BY <1>6, <1>7, <3>3
  <2> HIDE DEF Same
  <2>3. 0..3 \subseteq Same
    BY <2>1, <2>2, UpTo
  <2> QED BY <2>3 DEF Same
<1>9. f[D] = h[D]
  BY <1>8 DEF D
<1> QED BY <1>2, <1>5, <1>9

(* So a print leaves its three symbols in the module, each once.           *)
LEMMA PrintfSymbolsFacts ==
    ASSUME NEW d, IsSeq(d), IsInjective(d)
    PROVE  LET r == PrintfSymbols(d)
           IN  IsSeq(r) /\ IsInjective(r) /\ Range(d) \subseteq Range(r) /\ PrintfNames \subseteq Range(r)
<1> DEFINE x == GetOrInsert(d, "printf")
           y == GetOrInsert(x, "frmt_spec")
           z == GetOrInsert(y, "nl")
<1>1. IsSeq(x) /\ IsInjective(x) /\ Range(d) \subseteq Range(x) /\ "printf" \in Range(x)
  BY GetOrInsertFacts
<1>2. PrintfSymbols(d) = z
  BY PrintfSymbolsUnfold
<1> HIDE DEF x
<1>3. IsSeq(y) /\ IsInjective(y) /\ Range(x) \subseteq Range(y) /\ "frmt_spec" \in Range(y)
  BY <1>1, GetOrInsertFacts
<1> HIDE DEF y
<1>4. IsSeq(z) /\ IsInjective(z) /\ Range(y) \subseteq Range(z) /\ "nl" \in Range(z)
  BY <1>3, GetOrInsertFacts
<1> HIDE DEF z
<1> QED BY <1>1, <1>2, <1>3, <1>4 DEF PrintfNames

-----------------------------------------------------------------------------
(* The steps.                                                              *)

(* What depends on the function and the target alone stays.                *)
LEMMA PassedStays ==
    ASSUME UNCHANGED << prog, target >>
    PROVE  /\ MainOK' = MainOK /\ CanLower' = CanLower
           /\ \A o : Passed(o)' = Passed(o)
<1>1. prog' = prog /\ target' = target
  OBVIOUS
<1>2. MainOK' = MainOK
  BY <1>1 DEF MainOK
<1>3. CanLower' = CanLower
  BY <1>1 DEF CanLower
<1>4. ASSUME NEW o PROVE Passed(o)' = Passed(o)
  BY <1>1 DEF Passed, Aborts, Matches, FoldsAway
<1> QED BY <1>2, <1>3, <1>4

(* What holds of the code stays while code and symbols do.                 *)
LEMMA CodeStays ==
    ASSUME CodeOK, prog' = prog, target' = target, code' = code, decls' = decls
    PROVE  CodeOK'
  BY DEF CodeOK

(* Each step preserves the invariant, and the initial states satisfy it.   *)
LEMMA InitInv == Init => IInv
<1> SUFFICES ASSUME Init PROVE IInv
  OBVIOUS
<1>1. prog \in Programs /\ DOMAIN prog = 1..Len(prog) /\ Len(prog) \in Nat \ {0}
  BY ProgramFacts DEF Init
<1>2. code = [o \in 1..Len(prog) |-> Toy(o)] /\ next = 1 /\ pc = "function"
  BY <1>1 DEF Init
<1> DEFINE S == {Toy(o) : o \in 1..Len(prog)}
<1>3. code \in Seq(S) /\ Len(code) = Len(prog) /\ \A k \in 1..Len(prog) : code[k] = Toy(k)
  BY <1>1, <1>2
<1>4. ProgOK
  BY <1>1, <1>2 DEF ProgOK, Init
<1>5. CodeOK
  <2>1. IsSeq(code)
    <3> HIDE DEF S
    <3> QED BY <1>3, SeqIsSeq
  <2>2. ASSUME NEW k \in 1..Len(code) PROVE ItemOK(code[k], prog, target, decls)
    <3>1. code[k] = Toy(k)
      BY <1>3
    <3> QED BY <3>1 DEF ItemOK, Toy, Buffering
  <2> QED BY <1>1, <1>3, <2>1, <2>2 DEF CodeOK
<1>6. EndOK
  BY <1>1, <1>2, <1>3 DEF EndOK, Produced
<1>7. WalkOK
  BY <1>2 DEF WalkOK, Init
<1>8. PrintsOK
  BY <1>2 DEF PrintsOK
<1>9. DataOK
  <2>1. value \in Seq(DOMAIN prog) /\ DOMAIN mem \subseteq DOMAIN prog
    BY DEF Init
  <2>2. decls = << >>
    BY DEF Init
  <2>3. IsSeq(decls) /\ IsInjective(decls)
    <3>1. decls \in Seq({}) /\ DOMAIN decls = {}
      BY <2>2
    <3> QED BY <3>1, SeqIsSeq DEF IsInjective
  <2> QED BY <2>1, <2>3 DEF DataOK
<1>10. RefusalOK
  BY <1>2 DEF RefusalOK, Produced
<1> QED BY <1>4, <1>5, <1>6, <1>7, <1>8, <1>9, <1>10 DEF IInv

(* A step that stops, or takes up a stage, without touching the code.      *)
LEMMA LowerFunctionInv == IInv /\ LowerFunction => IInv'
<1> SUFFICES ASSUME IInv, LowerFunction PROVE IInv'
  OBVIOUS
<1>1. /\ UNCHANGED << prog, target, next, code, value, decls, mem >> /\ pc = "function"
      /\ pc' \in {"refused", "convert"}
      /\ pc' = "convert" <=> ~ \E o \in DOMAIN prog : \/ prog[o].kind = "arg"
                                                      \/ prog[o].kind = "return" /\ prog[o].args # << >>
  BY DEF LowerFunction
<1>2. pc' = "convert" <=> MainOK
  BY <1>1 DEF MainOK
<1>3. ProgOK'
  BY <1>1 DEF IInv, ProgOK
<1>4. CodeOK'
  BY <1>1, CodeStays DEF IInv
<1>5. EndOK'
  BY <1>1 DEF IInv, EndOK, Produced
<1>6. WalkOK'
  <2>1. next = 1 /\ value = << >> /\ next' = 1 /\ value' = << >> /\ Len(prog) \in Nat \ {0} /\ prog' = prog
    BY <1>1, ProgramFacts DEF IInv, WalkOK, ProgOK
  <2> QED BY <1>1, <2>1 DEF WalkOK
<1>7. PrintsOK'
  BY <1>1 DEF PrintsOK
<1>8. DataOK'
  BY <1>1 DEF IInv, DataOK
<1>9. RefusalOK'
  <2>1. next' = 1
    BY <1>1 DEF IInv, WalkOK
  <2>2. ~ MainOK => ~ CanLower
    BY PassedIfLowers DEF IInv, ProgOK
  <2>3. MainOK' = MainOK /\ CanLower' = CanLower
    BY <1>1, PassedStays
  <2> QED BY <1>1, <1>2, <2>1, <2>2, <2>3 DEF RefusalOK, Produced
<1> QED BY <1>3, <1>4, <1>5, <1>6, <1>7, <1>8, <1>9 DEF IInv

(* A conversion that stops at an operation that does not pass.             *)
LEMMA GiveUpInv ==
    ASSUME IInv, UNCHANGED << prog, target, next, code, value, decls, mem >>,
           Converting, ~ Passed(next), pc' \in {"refused", "aborted"}
    PROVE  IInv'
<1>1. pc = "convert" /\ next \in DOMAIN prog
  BY DEF Converting
<1>2. ProgOK'
  BY DEF IInv, ProgOK
<1>3. CodeOK'
  BY CodeStays DEF IInv
<1>4. EndOK'
  BY DEF EndOK, Produced
<1>5. WalkOK'
  BY <1>1 DEF IInv, WalkOK
<1>6. PrintsOK'
  BY DEF PrintsOK
<1>7. DataOK'
  BY DEF IInv, DataOK
<1>8. RefusalOK'
  <2>1. ~ CanLower
    BY <1>1, PassedIfLowers DEF IInv, ProgOK
  <2>2. CanLower' = CanLower
    BY PassedStays
  <2> QED BY <2>1, <2>2 DEF RefusalOK, Produced
<1> QED BY <1>2, <1>3, <1>4, <1>5, <1>6, <1>7, <1>8 DEF IInv

(* No pattern, or one that leaves the operation behind.                    *)
LEMMA RejectOpInv == IInv /\ RejectOp => IInv'
<1> SUFFICES ASSUME IInv, RejectOp PROVE IInv'
  OBVIOUS
<1>1. ~ Passed(next) /\ Converting
  BY DEF RejectOp, Passed
<1>2. UNCHANGED << prog, target, next, code, value, decls, mem >> /\ pc' \in {"refused", "aborted"}
  BY DEF RejectOp
<1> QED BY <1>1, <1>2, GiveUpInv

(* A cast that fails.                                                      *)
LEMMA AbortOpInv == IInv /\ AbortOp => IInv'
<1> SUFFICES ASSUME IInv, AbortOp PROVE IInv'
  OBVIOUS
<1>1. ~ Passed(next) /\ Converting
  BY DEF AbortOp, Passed
<1>2. UNCHANGED << prog, target, next, code, value, decls, mem >> /\ pc' \in {"refused", "aborted"}
  BY DEF AbortOp
<1> QED BY <1>1, <1>2, GiveUpInv

(* An operation is converted: what all patterns have in common.            *)
LEMMA AdvanceInv ==
    ASSUME IInv, Converting, Passed(next), UNCHANGED << prog, target, pc, mem >>,
           next' = next + 1, NEW v \in DOMAIN prog, value' = Append(value, v),
           NEW args, Converted(code', code, prog, next, args),
           IsSeq(decls'), IsInjective(decls'), Range(decls) \subseteq Range(decls'),
           prog[next].kind = "print" /\ target = "linalg" =>
               LucidPrint(prog[prog[next].args[1]].type) \in Range(decls')
    PROVE  IInv'
<1> DEFINE n == Len(prog)
           D == Range(decls)
           E == Range(decls')
<1>1. /\ pc = "convert" /\ next \in 1..n /\ n \in Nat \ {0} /\ DOMAIN prog = 1..n /\ next \in Nat
      /\ prog[n].kind = "return"
  <2>1. prog \in Programs /\ pc = "convert" /\ next \in DOMAIN prog
    BY DEF IInv, ProgOK, Converting
  <2>2. n \in Nat \ {0} /\ DOMAIN prog = 1..n /\ prog[n].kind = "return"
    BY <2>1, ProgramFacts
  <2> HIDE DEF n
  <2> QED BY <2>1, <2>2
<1>2. IsSeq(code) /\ Len(code) > 0 /\ \A k \in 1..Len(code) : ItemOK(code[k], prog, target, decls)
  BY DEF IInv, CodeOK
<1>3. code[Len(code)] = Toy(n)
  BY <1>1 DEF IInv, EndOK
<1>4. Len(code') > 0 /\ code'[Len(code')] = IF next + 1 <= n THEN Toy(n) ELSE Return
  <2>1. CASE next = n
    <3>1. code[Len(code)] = Toy(next) /\ prog[next].kind = "return" /\ ~ (next + 1 <= n)
      BY <1>1, <1>3, <2>1
    <3> HIDE DEF n
    <3> QED BY <3>1 DEF Converted
  <2>2. CASE next # n
    <3>1. code[Len(code)] # Toy(next) /\ next + 1 <= n
      <4>1. Toy(n).at = n /\ Toy(next).at = next
        BY DEF Toy
      <4> HIDE DEF n
      <4>2. next + 1 <= n
        BY <1>1, <2>2
      <4> QED BY <1>3, <2>2, <4>1, <4>2
    <3> HIDE DEF n
    <3> QED BY <1>3, <3>1 DEF Converted
  <2> QED BY <2>1, <2>2
<1>5. ProgOK'
  BY DEF IInv, ProgOK
<1>6. ASSUME NEW k \in 1..Len(code') PROVE ItemOK(code'[k], prog, target, decls')
  <2> DEFINE x == code'[k]
  <2>1. x \in Range(code) \/ MadeFor(x, prog, next, args)
    BY DEF Converted
  <2> HIDE DEF x
  <2>2. CASE x \in Range(code)
    <3>1. ItemOK(x, prog, target, decls)
      BY <1>2, <2>2, SeqFacts
    <3> QED BY <3>1 DEF ItemOK, x
  <2>3. CASE x = Return
    BY <2>3 DEF ItemOK, Return, Buffering, x
  <2>4. CASE x = PrintCall(args[1], prog[prog[next].args[1]].type) /\ prog[next].kind = "print"
    <3>1. x.op = "print" /\ x.shape = prog[prog[next].args[1]].type
      BY <2>4 DEF PrintCall
    <3> QED BY <2>4, <3>1 DEF ItemOK, Buffering, x
  <2>5. CASE x.op \in Buffering /\ x.buf = next
    <3>1. next \in DOMAIN prog
      BY <1>1
    <3> QED BY <2>5, <3>1 DEF ItemOK, Buffering, x
  <2> QED BY <2>1, <2>2, <2>3, <2>4, <2>5 DEF MadeFor
<1>7. CodeOK'
  <2>1. IsSeq(code)'
    BY DEF Converted, IsSeq
  <2> QED BY <1>4, <1>6, <2>1 DEF CodeOK
<1>8. EndOK'
  BY <1>1, <1>4 DEF EndOK, Produced
<1>9. WalkOK' /\ value' \in Seq(DOMAIN prog)
  <2>1. value \in Seq(DOMAIN prog) /\ Len(value) = next - 1
    BY <1>1 DEF IInv, DataOK, WalkOK
  <2>2. value' \in Seq(DOMAIN prog) /\ Len(value') = next
    BY <1>1, <2>1
  <2> HIDE DEF n
  <2>3. next' \in Nat \ {0} /\ next' <= n + 1 /\ Len(value') = next' - 1
    BY <1>1, <2>2
  <2> QED BY <1>1, <2>2, <2>3 DEF WalkOK, n
<1>10. PrintsOK'
  BY <1>1 DEF PrintsOK
<1>11. DataOK'
  <2>1. IsSeq(decls)' /\ IsInjective(decls)'
    BY DEF IsSeq, IsInjective
  <2> QED BY <1>9, <2>1 DEF DataOK, IInv
<1>12. RefusalOK'
  <2>1. MainOK /\ \A o \in 1..(next - 1) : Passed(o)
    BY <1>1 DEF IInv, RefusalOK
  <2>2. \A o \in 1..((next + 1) - 1) : o = next \/ o \in 1..(next - 1)
    BY <1>1
  <2>3. \A o \in 1..((next + 1) - 1) : Passed(o)
    BY <2>1, <2>2
  <2>4. MainOK' = MainOK /\ \A o : Passed(o)' = Passed(o)
    BY PassedStays
  <2> QED BY <1>1, <2>1, <2>3, <2>4 DEF RefusalOK, Produced
<1> QED BY <1>5, <1>7, <1>8, <1>9, <1>10, <1>11, <1>12 DEF IInv

(* The buffers of the operands of the operation being converted.           *)
LEMMA OperandValue ==
    ASSUME IInv, Converting, Len(prog[next].args) = 1
    PROVE  value[prog[next].args[1]] \in DOMAIN prog
<1>1. prog \in Programs /\ next \in DOMAIN prog /\ pc = "convert" /\ next \in Nat
  BY DEF IInv, ProgOK, Converting, WalkOK
<1>2. prog[next].args[1] \in 1..(next - 1)
  <2>1. 1 \in 1..Len(prog[next].args)
    OBVIOUS
  <2> QED BY <1>1, <2>1, ProgramFacts
<1>3. value \in Seq(DOMAIN prog) /\ Len(value) = next - 1
  BY <1>1 DEF IInv, DataOK, WalkOK
<1>4. prog[next].args[1] \in 1..Len(value)
  BY <1>2, <1>3
<1> QED BY <1>3, <1>4

(* A cast goes, and its operand's buffer takes its place.                  *)
LEMMA FoldCastInv == IInv /\ FoldCast => IInv'
<1> SUFFICES ASSUME IInv, FoldCast PROVE IInv'
  OBVIOUS
<1>1. Converting /\ FoldsAway(next) /\ prog[next].kind = "cast" /\ prog \in Programs /\ next \in DOMAIN prog
  BY DEF FoldCast, FoldsAway, IInv, ProgOK, Converting
<1>2. value[prog[next].args[1]] \in DOMAIN prog
  <2>1. Len(prog[next].args) = 1
    BY <1>1, OperandFacts
  <2> QED BY <1>1, <2>1, OperandValue
<1>3. Passed(next)
  BY <1>1 DEF Passed, Aborts, AffineAborts, Elementwise
<1>4. Converted(code', code, prog, next, << >>)
  <2> DEFINE items == << >>
  <2>1. items \in Seq({}) /\ \A x \in {} : MadeFor(x, prog, next, << >>)
    OBVIOUS
  <2>2. code' = ReplaceOp(code, next, items) /\ prog[next].kind # "return"
    BY <1>1 DEF FoldCast
  <2>3. IsSeq(code) /\ Len(code) > 0
    BY DEF IInv, CodeOK
  <2> HIDE DEF items
  <2> QED BY <2>1, <2>2, <2>3, InPlace
<1>5. decls' = decls /\ IsSeq(decls) /\ IsInjective(decls)
  BY DEF FoldCast, IInv, DataOK
<1>6. /\ UNCHANGED << prog, target, pc, mem >> /\ next' = next + 1
      /\ value' = Append(value, value[prog[next].args[1]]) /\ prog[next].kind # "print"
  BY <1>1 DEF FoldCast
<1>7. IsSeq(decls') /\ IsInjective(decls') /\ Range(decls) \subseteq Range(decls')
  BY <1>5
<1> QED BY <1>1, <1>2, <1>3, <1>4, <1>6, <1>7, AdvanceInv

(* One pattern is applied.                                                 *)
LEMMA ConvertOpInv == IInv /\ ConvertOp => IInv'
<1> SUFFICES ASSUME IInv, ConvertOp PROVE IInv'
  OBVIOUS
<1> DEFINE op == prog[next]
           args == [k \in DOMAIN op.args |-> value[op.args[k]]]
           v == IF target = "affine" /\ op.kind = "reshape" THEN value[op.args[1]] ELSE next
           name == LucidPrint(prog[op.args[1]].type)
<1>1. Converting /\ ~ Aborts(next) /\ Matches(next) /\ prog \in Programs /\ next \in DOMAIN prog /\ pc = "convert"
  BY DEF ConvertOp, IInv, ProgOK, Converting
<1>2. Passed(next)
  BY <1>1 DEF Passed
<1>3. op.kind \in Kinds \ {"arg", "cast", "generic_call"}
  <2>1. op.kind \in Kinds /\ op.kind # "arg"
    BY <1>1, ProgramFacts DEF IInv, RefusalOK, MainOK
  <2>2. op.kind \notin {"cast", "generic_call"}
    BY <1>1 DEF Matches, AffineMatches, LinalgMatches
  <2> QED BY <2>1, <2>2
<1>4. Converted(code', code, prog, next, args)
  <2>1. IsSeq(code) /\ Len(code) > 0
    BY DEF IInv, CodeOK
  <2>2. code' = IF target = "affine" THEN AffineLowered(prog, next, args, code)
                                     ELSE LinalgLowered(prog, next, args, code)
    BY DEF ConvertOp, LoweredCodeOf
  <2> HIDE DEF args
  <2>3. Converted(AffineLowered(prog, next, args, code), code, prog, next, args)
    BY <1>3, <2>1, AffineConverts
  <2>4. Converted(LinalgLowered(prog, next, args, code), code, prog, next, args)
    BY <1>3, <2>1, LinalgConverts
  <2> QED BY <2>2, <2>3, <2>4
<1>5. v \in DOMAIN prog
  <2>1. CASE op.kind = "reshape"
    <3>1. Len(op.args) = 1
      BY <1>1, <2>1, OperandFacts
    <3> QED BY <1>1, <3>1, OperandValue
  <2>2. CASE op.kind # "reshape"
    BY <1>1, <2>2
  <2> QED BY <2>1, <2>2
<1>6. decls' = IF op.kind = "print" /\ target = "linalg" THEN GetOrInsert(decls, name) ELSE decls
  BY DEF ConvertOp
<1>7. /\ IsSeq(decls') /\ IsInjective(decls') /\ Range(decls) \subseteq Range(decls')
      /\ op.kind = "print" /\ target = "linalg" => name \in Range(decls')
  <2>1. IsSeq(decls) /\ IsInjective(decls)
    BY DEF IInv, DataOK
  <2> HIDE DEF name
  <2> QED BY <1>6, <2>1, GetOrInsertFacts
<1>8. UNCHANGED << prog, target, pc, mem >> /\ next' = next + 1 /\ value' = Append(value, v)
  BY DEF ConvertOp
<1> HIDE DEF args, v
<1> QED BY <1>1, <1>2, <1>4, <1>5, <1>7, <1>8, AdvanceInv

(* The verifier behind the pass, once all operations are converted.        *)
LEMMA VerifyInv == IInv /\ Verify => IInv'
<1> SUFFICES ASSUME IInv, Verify PROVE IInv'
  OBVIOUS
<1> DEFINE n == Len(prog)
           ok == \A o \in DOMAIN prog : VerifiesAfter(o)
<1>1. /\ UNCHANGED << prog, target, code, value, decls, mem >> /\ next' = 1
      /\ pc = "convert" /\ next > n
      /\ pc' = IF ok THEN (IF target = "affine" THEN "llvm" ELSE "run") ELSE "refused"
  BY DEF Verify
<1>2. prog \in Programs /\ n \in Nat \ {0} /\ DOMAIN prog = 1..n /\ target \in {"affine", "linalg"}
  BY ProgramFacts DEF IInv, ProgOK
<1>3. next = n + 1
  <2>1. next <= n + 1 /\ next \in Nat
    BY <1>1 DEF IInv, WalkOK
  <2> HIDE DEF n
  <2> QED BY <1>1, <1>2, <2>1
<1>4. IsSeq(code) /\ Len(code) > 0 /\ Len(code) \in Nat
  BY SeqFacts DEF IInv, CodeOK
<1>5. MainOK /\ \A o \in DOMAIN prog : Passed(o)
  <2>1. MainOK /\ \A o \in 1..(next - 1) : Passed(o)
    BY <1>1 DEF IInv, RefusalOK
  <2> HIDE DEF n
  <2>2. next - 1 = n
    BY <1>2, <1>3
  <2> QED BY <1>2, <2>1, <2>2
<1>6. ok <=> CanLower
  <2>1. ok => CanLower
    BY <1>2, <1>5, LowersIfPassed
  <2>2. CanLower => ok
    BY <1>2, PassedIfLowers
  <2> QED BY <2>1, <2>2
<1> HIDE DEF ok
<1>7. ProgOK'
  BY <1>1, <1>2 DEF ProgOK, Produced
<1>8. CodeOK'
  BY <1>1, CodeStays DEF IInv
<1>9. EndOK'
  <2>1. ~ (next <= n)
    <3> HIDE DEF n
    <3> QED BY <1>2, <1>3
  <2>2. code[Len(code)] = Return
    BY <1>1, <2>1 DEF IInv, EndOK
  <2> QED BY <1>1, <2>2 DEF EndOK, Produced
<1>10. WalkOK'
  BY <1>1, <1>2, <1>4 DEF WalkOK
<1>11. PrintsOK'
  BY <1>1, <1>2 DEF PrintsOK
<1>12. DataOK'
  BY <1>1 DEF IInv, DataOK
<1>13. RefusalOK'
  <2>1. CanLower' = CanLower
    BY <1>1, PassedStays
  <2> QED BY <1>1, <1>6, <2>1 DEF RefusalOK, Produced
<1> QED BY <1>7, <1>8, <1>9, <1>10, <1>11, <1>12, <1>13 DEF IInv

(* The LLVM pass replaces a print and inserts what it calls.               *)
LEMMA LowerPrintInv == IInv /\ LowerPrint => IInv'
<1> SUFFICES ASSUME IInv, LowerPrint PROVE IInv'
  OBVIOUS
<1> DEFINE n == Len(code)
           new == Printf(code[next].buf, PrintLoops(code[next].shape))
           X == Range(code) \cup {new}
<1>1. /\ UNCHANGED << prog, target, pc, value, mem >> /\ next' = next + 1
      /\ pc = "llvm" /\ next \in DOMAIN code /\ code[next].op = "print"
      /\ code' = [code EXCEPT ![next] = new] /\ decls' = PrintfSymbols(decls)
  BY DEF LowerPrint, PrintfOpLowering
<1>2. IsSeq(code) /\ n > 0 /\ n \in Nat /\ DOMAIN code = 1..n /\ next \in 1..n
  BY <1>1, SeqFacts DEF IInv, CodeOK
<1>3. code[n] = Return /\ n # next
  <2>1. code[n] = Return
    BY <1>1 DEF IInv, EndOK, Produced
  <2> QED BY <1>1, <2>1 DEF Return
<1> HIDE DEF new
<1>4. /\ IsSeq(code') /\ Len(code') = n
      /\ \A k \in 1..n : code'[k] = IF k = next THEN new ELSE code[k]
  <2>1. code \in Seq(X) /\ new \in X
    <3> DEFINE R == Range(code)
    <3>1. code \in Seq(R)
      BY <1>2 DEF IsSeq
    <3> HIDE DEF R
    <3>2. code \in Seq(R \cup {new})
      BY <3>1, SeqMonotonic
    <3> QED BY <3>2 DEF R
  <2> HIDE DEF X
  <2>2. code' \in Seq(X) /\ Len(code') = n /\ \A k \in 1..n : code'[k] = IF k = next THEN new ELSE code[k]
    BY <1>1, <1>2, <2>1
  <2> QED BY <2>2, SeqIsSeq
<1> HIDE DEF n
<1>5. /\ IsSeq(decls') /\ IsInjective(decls') /\ Range(decls) \subseteq Range(decls')
      /\ PrintfNames \subseteq Range(decls')
  BY <1>1, PrintfSymbolsFacts DEF IInv, DataOK
<1>6. new.op = "printf"
  BY DEF new, Printf
<1>7. ProgOK'
  BY <1>1 DEF IInv, ProgOK
<1>8. CodeOK'
  <2>1. ASSUME NEW k \in 1..n PROVE ItemOK(code'[k], prog, target, decls')
    <3>1. CASE k = next
      BY <1>4, <1>5, <1>6, <3>1 DEF ItemOK, Buffering
    <3>2. CASE k # next
      <4>1. ItemOK(code[k], prog, target, decls)
        BY DEF IInv, CodeOK, n
      <4>2. code'[k] = code[k]
        BY <1>4, <3>2
      <4> QED BY <1>5, <4>1, <4>2 DEF ItemOK
    <3> QED BY <3>1, <3>2
  <2>2. IsSeq(code)'
    BY <1>4 DEF IsSeq
  <2> QED BY <1>1, <1>2, <1>4, <2>1, <2>2 DEF CodeOK
<1>9. EndOK'
  <2>1. n \in 1..n
    BY <1>2
  <2>2. code'[Len(code')] = Return
    BY <1>3, <1>4, <2>1
  <2> QED BY <1>1, <2>2 DEF EndOK
<1>10. WalkOK'
  <2>1. next' \in Nat \ {0} /\ next' <= n + 1
    BY <1>1, <1>2
  <2> QED BY <1>1, <1>4, <2>1 DEF WalkOK
<1>11. PrintsOK'
  <2>1. target = "affine" /\ \A k \in 1..(next - 1) : code[k].op # "print"
    BY <1>1 DEF IInv, PrintsOK
  <2>2. \A k \in 1..((next + 1) - 1) : k \in 1..n /\ (k = next \/ k \in 1..(next - 1))
    BY <1>2
  <2>3. \A k \in 1..((next + 1) - 1) : code'[k].op # "print"
    BY <1>4, <1>6, <2>1, <2>2
  <2> QED BY <1>1, <2>1, <2>3 DEF PrintsOK
<1>12. DataOK'
  <2>1. IsSeq(decls)' /\ IsInjective(decls)'
    BY <1>5 DEF IsSeq, IsInjective
  <2> QED BY <1>1, <2>1 DEF IInv, DataOK
<1>13. RefusalOK'
  <2>1. CanLower' = CanLower
    BY <1>1, PassedStays
  <2> QED BY <1>1, <2>1 DEF IInv, RefusalOK, Produced
<1> QED BY <1>7, <1>8, <1>9, <1>10, <1>11, <1>12, <1>13 DEF IInv

(* It leaves every other item alone.                                       *)
LEMMA KeepItemInv == IInv /\ KeepItem => IInv'
<1> SUFFICES ASSUME IInv, KeepItem PROVE IInv'
  OBVIOUS
<1>1. /\ UNCHANGED << prog, target, code, value, decls, mem >> /\ pc = "llvm" /\ target = "affine"
      /\ \/ next \in DOMAIN code /\ code[next].op # "print" /\ next' = next + 1 /\ pc' = "llvm"
         \/ next \notin DOMAIN code /\ next' = 1 /\ pc' = "run"
  BY DEF KeepItem, IInv, PrintsOK
<1>2. IsSeq(code) /\ Len(code) > 0 /\ Len(code) \in Nat /\ DOMAIN code = 1..Len(code)
  BY SeqFacts DEF IInv, CodeOK
<1>3. next \in Nat \ {0} /\ next <= Len(code) + 1 /\ \A k \in 1..(next - 1) : code[k].op # "print"
  BY <1>1 DEF IInv, WalkOK, PrintsOK
<1>4. ProgOK'
  BY <1>1 DEF IInv, ProgOK, Produced
<1>5. CodeOK'
  BY <1>1, CodeStays DEF IInv
<1>6. EndOK'
  <2>1. code[Len(code)] = Return
    BY <1>1 DEF IInv, EndOK, Produced
  <2> QED BY <1>1, <2>1 DEF EndOK
<1>7. WalkOK'
  BY <1>1, <1>2, <1>3 DEF WalkOK
<1>8. PrintsOK'
  <2>1. CASE pc' = "llvm"
    <3>1. next' = next + 1 /\ code[next].op # "print"
      BY <1>1, <2>1
    <3>2. \A k \in 1..((next + 1) - 1) : k = next \/ k \in 1..(next - 1)
      BY <1>3
    <3>3. \A k \in 1..((next + 1) - 1) : code[k].op # "print"
      BY <1>3, <3>1, <3>2
    <3> QED BY <1>1, <2>1, <3>1, <3>3 DEF PrintsOK
  <2>2. CASE pc' = "run"
    <3>1. next = Len(code) + 1
      BY <1>1, <1>2, <1>3, <2>2
    <3>2. \A k \in 1..Len(code) : k \in 1..(next - 1)
      BY <1>2, <3>1
    <3>3. \A k \in 1..Len(code) : code[k].op # "print"
      BY <1>3, <3>2
    <3> QED BY <1>1, <2>2, <3>3 DEF PrintsOK
  <2> QED BY <1>1, <2>1, <2>2
<1>9. DataOK'
  BY <1>1 DEF IInv, DataOK
<1>10. RefusalOK'
  <2>1. CanLower' = CanLower
    BY <1>1, PassedStays
  <2>2. CanLower
    BY <1>1 DEF IInv, RefusalOK, Produced
  <2> QED BY <1>1, <2>1, <2>2 DEF RefusalOK, Produced
<1> QED BY <1>4, <1>5, <1>6, <1>7, <1>8, <1>9, <1>10 DEF IInv

(* An item that runs touches the buffer it names.                          *)
LEMMA ExecBuffers ==
    ASSUME NEW m, NEW x, NEW S, DOMAIN m \subseteq S, x.op \in Buffering => x.buf \in S
    PROVE  DOMAIN Exec(m, x) \subseteq S
<1>1. \A b, t : b \in S => DOMAIN Put(m, b, t) \subseteq S
  BY DEF Put
<1>2. CASE x.op \in Buffering
  BY <1>1, <1>2 DEF Exec, Buffering
<1>3. CASE x.op \notin Buffering
  BY <1>3 DEF Exec, Buffering
<1> QED BY <1>2, <1>3

(* An item of the finished code is executed.                               *)
LEMMA RunInv == IInv /\ Run => IInv'
<1> SUFFICES ASSUME IInv, Run PROVE IInv'
  OBVIOUS
<1> DEFINE item == code[next]
           n == Len(code)
<1>1. /\ UNCHANGED << prog, target, code, value, decls >> /\ pc = "run"
      /\ \/ pc' = "fault" /\ next' = next /\ mem' = mem
         \/ /\ mem' = Exec(mem, item) /\ next' = next + 1
            /\ pc' = IF item.op = "return" THEN "done" ELSE "run"
  BY DEF Run
<1>2. IsSeq(code) /\ n > 0 /\ n \in Nat /\ code[n] = Return
  BY <1>1, SeqFacts DEF IInv, CodeOK, EndOK, Produced
<1>3. next \in 1..n
  <2>1. next \in Nat \ {0} /\ next <= n
    BY <1>1 DEF IInv, WalkOK
  <2> QED BY <1>2, <2>1
<1>4. next = n => item.op = "return"
  BY <1>2 DEF Return
<1>5. ProgOK'
  BY <1>1 DEF IInv, ProgOK, Produced
<1>6. CodeOK'
  BY <1>1, CodeStays DEF IInv
<1>7. EndOK'
  BY <1>1, <1>2 DEF EndOK
<1>8. WalkOK'
  <2> HIDE DEF n, item
  <2>1. next' \in Nat \ {0} /\ next' <= n + 1 /\ (pc' = "run" => next' <= n)
    BY <1>1, <1>2, <1>3, <1>4
  <2> QED BY <1>1, <2>1 DEF WalkOK, n
<1>9. PrintsOK'
  BY <1>1 DEF IInv, PrintsOK
<1>10. DataOK'
  <2>1. ItemOK(item, prog, target, decls) /\ DOMAIN mem \subseteq DOMAIN prog
    BY <1>3 DEF IInv, CodeOK, DataOK
  <2> HIDE DEF item
  <2>2. DOMAIN Exec(mem, item) \subseteq DOMAIN prog
    BY <2>1, ExecBuffers DEF ItemOK
  <2>3. DOMAIN mem' \subseteq DOMAIN prog
    BY <1>1, <2>1, <2>2
  <2> QED BY <1>1, <2>3 DEF IInv, DataOK
<1>11. RefusalOK'
  <2>1. CanLower' = CanLower
    BY <1>1, PassedStays
  <2>2. CanLower
    BY <1>1 DEF IInv, RefusalOK, Produced
  <2> QED BY <1>1, <2>1, <2>2 DEF RefusalOK, Produced
<1> QED BY <1>5, <1>6, <1>7, <1>8, <1>9, <1>10, <1>11 DEF IInv

(* Nothing happens.                                                        *)
LEMMA StutterInv == IInv /\ UNCHANGED vars => IInv'
<1> SUFFICES ASSUME IInv, UNCHANGED vars PROVE IInv'
  OBVIOUS
<1>1. UNCHANGED << prog, target, pc, next, code, value, decls, mem >>
  BY DEF vars
<1>2. MainOK' = MainOK /\ CanLower' = CanLower /\ \A o : Passed(o)' = Passed(o)
  BY <1>1, PassedStays
<1>3. ProgOK' /\ EndOK' /\ WalkOK' /\ PrintsOK' /\ DataOK'
  BY <1>1 DEF IInv, ProgOK, EndOK, WalkOK, PrintsOK, DataOK
<1>4. CodeOK'
  BY <1>1, CodeStays DEF IInv
<1>5. RefusalOK'
  BY <1>1, <1>2 DEF IInv, RefusalOK
<1> QED BY <1>3, <1>4, <1>5 DEF IInv

(* All of them together.                                                   *)
LEMMA NextInv == IInv /\ [Next]_vars => IInv'
  BY LowerFunctionInv, FoldCastInv, ConvertOpInv, RejectOpInv, AbortOpInv, VerifyInv,
     LowerPrintInv, KeepItemInv, RunInv, StutterInv DEF Next

(* The invariant holds, for every function and both targets.              *)
THEOREM Invariance == Spec => []IInv
  BY InitInv, NextInv, PTL DEF Spec

(* The passes stay inside the code they walk over, whatever they insert    *)
(* into it or drop from it, and execution ends with the return.            *)
THEOREM TypeCorrect == Spec => []TypeOK
<1>1. IInv => TypeOK
  <2> SUFFICES ASSUME IInv PROVE TypeOK
    OBVIOUS
  <2>1. prog \in Programs /\ Verified(prog) /\ Len(prog) \in Nat
    BY ProgramFacts DEF IInv, ProgOK
  <2>2. Len(code) \in Nat
    BY SeqFacts DEF IInv, CodeOK
  <2>3. next \in 1..(Len(IF pc \in {"llvm", "run", "done", "fault"} THEN code ELSE prog) + 1)
    <3>1. CASE pc \in Produced
      <4>1. next \in Nat \ {0} /\ next <= Len(code) + 1
        BY <2>2, <3>1 DEF IInv, WalkOK, Produced
      <4> QED BY <2>2, <3>1, <4>1 DEF Produced
    <3>2. CASE pc \notin Produced
      <4>1. next \in Nat \ {0} /\ next <= Len(prog) + 1
        BY <2>1, <3>2 DEF IInv, WalkOK, ProgOK
      <4> QED BY <2>1, <3>2, <4>1 DEF Produced
    <3> QED BY <3>1, <3>2
  <2>4. \A v \in Range(value) : v \in DOMAIN prog
    BY DEF IInv, DataOK, Range
  <2> QED BY <2>1, <2>3, <2>4 DEF TypeOK, IInv, ProgOK, DataOK, Produced
<1> QED BY <1>1, Invariance, PTL

(* When the code runs, every symbol a print uses is in the module, and no  *)
(* symbol twice, however many prints of whatever rank the function has.    *)
THEOREM SymbolsPresent == Spec => []SymbolsOnce
<1>1. IInv => SymbolsOnce
  <2> SUFFICES ASSUME IInv, pc = "run"
               PROVE  /\ IsInjective(decls)
                      /\ \A k \in DOMAIN code :
                           /\ code[k].op = "print" => LucidPrint(code[k].shape) \in Range(decls)
                           /\ code[k].op = "printf" => PrintfNames \subseteq Range(decls)
    BY DEF SymbolsOnce, PrintfNames
  <2>1. IsInjective(decls)
    BY DEF IInv, DataOK
  <2>2. ASSUME NEW k \in DOMAIN code
        PROVE  /\ code[k].op = "print" => LucidPrint(code[k].shape) \in Range(decls)
               /\ code[k].op = "printf" => PrintfNames \subseteq Range(decls)
    <3>1. k \in 1..Len(code) /\ ItemOK(code[k], prog, target, decls)
      BY SeqFacts DEF IInv, CodeOK
    <3>2. target = "affine" => code[k].op # "print"
      BY <3>1 DEF IInv, PrintsOK
    <3>3. target \in {"affine", "linalg"}
      BY DEF IInv, ProgOK
    <3> QED BY <3>1, <3>2, <3>3 DEF ItemOK
  <2> QED BY <2>1, <2>2
<1> QED BY <1>1, Invariance, PTL

(* A function is refused exactly when the target cannot express it: the    *)
(* conversion, its patterns and the verifier behind it turn none away that *)
(* could be lowered, and let none through that could not.                  *)
RefusedExactly ==
    /\ pc \in {"refused", "aborted"} => ~ CanLower
    /\ pc \in Produced => CanLower

(* ConvertOp, RejectOp, AbortOp and Verify decide by what is at hand; the  *)
(* outcome is the one CanLower tells from the function alone.              *)
THEOREM RefusesExactly == Spec => []RefusedExactly
<1>1. IInv => RefusedExactly
  BY DEF IInv, RefusalOK, RefusedExactly
<1> QED BY <1>1, Invariance, PTL
-----------------------------------------------------------------------------
(* Where the items are that ReplaceOp and InsertAllocAndDealloc leave.     *)

(* One operation replaced: what was before it stays, what was behind it    *)
(* moves.                                                                  *)
LEMMA ReplaceOpAt ==
    ASSUME NEW X, NEW c \in Seq(X), NEW o, NEW items \in Seq(X), NEW k \in 1..Len(c), c[k] = Toy(o),
           \A i \in 1..Len(c) : i # k => c[i] # Toy(o)
    PROVE  LET r == ReplaceOp(c, o, items)
               L == Len(items)
           IN  /\ r \in Seq(X) /\ Len(r) = (Len(c) - 1) + L
               /\ \A j \in 1..Len(r) :
                     r[j] = IF j < k THEN c[j] ELSE IF j < k + L THEN items[(j - k) + 1] ELSE c[(j - L) + 1]
<1> DEFINE n == Len(c)
           L == Len(items)
           ss == [i \in 1..n |-> IF c[i] = Toy(o) THEN items ELSE << c[i] >>]
           f == CHOOSE h : IsFlat(h, ss, n)
           at(j) == IF j < k THEN c[j] ELSE IF j < k + L THEN items[(j - k) + 1] ELSE c[(j - L) + 1]
           size(i) == IF i < k THEN i ELSE (i - 1) + L
           Good(s, i) == s \in Seq(X) /\ Len(s) = size(i) /\ \A j \in 1..size(i) : s[j] = at(j)
           g(i) == IF i = 0 THEN << >> ELSE f[i]
<1>1. n \in Nat /\ n > 0 /\ L \in Nat /\ DOMAIN c = 1..n /\ \A i \in 1..n : c[i] \in X
  OBVIOUS
<1>2. ReplaceOp(c, o, items) = FlattenSeq(ss)
  BY <1>1 DEF ReplaceOp
<1>3. Len(ss) = n
  BY <1>1
<1>4. \A i \in 1..n : ss[i] = IF i = k THEN items ELSE << c[i] >>
  BY <1>1
<1>5. \A i \in 1..n : ss[i] \in Seq(X)
  <2> SUFFICES ASSUME NEW i \in 1..n PROVE ss[i] \in Seq(X)
    OBVIOUS
  <2>1. c[i] \in X
    BY <1>1
  <2>2. << c[i] >> \in Seq(X)
    BY <2>1
  <2> HIDE DEF ss, n
  <2> QED BY <1>4, <2>2
<1> HIDE DEF n, ss
<1>6. FlattenSeq(ss) = f[n]
  BY <1>1, <1>3 DEF FlattenSeq, IsFlat
<1>7. IsFlat(f, ss, n)
  BY <1>1, FlatExists
<1> HIDE DEF f
<1>8. \A i \in 1..n : f[i] = IF i = 1 THEN ss[i] ELSE f[i - 1] \o ss[i]
  BY <1>7 DEF IsFlat
<1> DEFINE T == {i \in 0..n : Good(g(i), i)}
<1>9. 0 \in T
  BY <1>1
<1>10. \A i \in 1..n : i - 1 \in T => i \in T
  <2> SUFFICES ASSUME NEW i \in 1..n, Good(g(i - 1), i - 1) PROVE i \in 0..n /\ Good(g(i), i)
    OBVIOUS
  <2> DEFINE a == g(i - 1)
             b == ss[i]
  <2>1. b \in Seq(X)
    BY <1>5
  <2>2. a \in Seq(X) /\ Len(a) = size(i - 1) /\ \A j \in 1..size(i - 1) : a[j] = at(j)
    OBVIOUS
  <2>3. g(i) = a \o b
    <3>1. CASE i = 1
      <4>1. i - 1 = 0 /\ i # 0
        BY <3>1
      <4>2. a = << >>
        BY <4>1
      <4>3. g(i) = ss[i]
        BY <1>8, <3>1, <4>1
      <4> HIDE DEF a, g
      <4> QED BY <2>1, <4>2, <4>3
    <3>2. CASE i # 1
      <4>1. i \in Int /\ i - 1 # 0 /\ i # 0
        BY <1>1, <3>2
      <4> QED BY <1>8, <3>2, <4>1
    <3> QED BY <3>1, <3>2
  <2>4. b = IF i = k THEN items ELSE << c[i] >>
    BY <1>4
  <2> HIDE DEF a, b, g
  <2>5. /\ a \o b \in Seq(X) /\ Len(a \o b) = Len(a) + Len(b) /\ Len(a) \in Nat /\ Len(b) \in Nat
        /\ \A j \in 1..(Len(a) + Len(b)) : (a \o b)[j] = IF j <= Len(a) THEN a[j] ELSE b[j - Len(a)]
    <3>1. a \in Seq(X)
      BY <2>2
    <3> QED BY <2>1, <3>1, ConcatProperties, LenProperties
  <2>6. CASE i = k
    <3>1. size(i - 1) = k - 1 /\ size(i) = (k - 1) + L
      BY <1>1, <2>6
    <3>2. Len(a) = k - 1 /\ Len(b) = L /\ b = items
      BY <2>2, <2>4, <2>6, <3>1
    <3>3. ASSUME NEW j \in 1..size(i) PROVE (a \o b)[j] = at(j)
      <4>1. j \in 1..(Len(a) + Len(b))
        BY <3>1, <3>2
      <4>2. CASE j <= k - 1
        <5>1. (a \o b)[j] = a[j] /\ j \in 1..size(i - 1) /\ j < k
          BY <1>1, <2>5, <3>1, <3>2, <4>1, <4>2
        <5> QED BY <2>2, <5>1
      <4>3. CASE ~ (j <= k - 1)
        <5>1. (a \o b)[j] = b[j - (k - 1)]
          BY <2>5, <3>2, <4>1, <4>3
        <5>2. ~ (j < k) /\ j < k + L /\ j - (k - 1) = (j - k) + 1
          BY <1>1, <3>1, <4>3
        <5> QED BY <3>2, <5>1, <5>2
      <4> QED BY <4>2, <4>3
    <3>4. i \in 0..n /\ size(i) = Len(a \o b)
      BY <1>1, <2>5, <3>1, <3>2
    <3> HIDE DEF size, at
    <3>5. Good(a \o b, i)
      BY <2>5, <3>3, <3>4
    <3> QED BY <2>3, <3>4, <3>5
  <2>7. CASE i # k
    <3>1. size(i) = size(i - 1) + 1 /\ size(i - 1) \in Nat
      BY <1>1, <2>7
    <3>2. Len(b) = 1 /\ b[1] = c[i] /\ Len(a) = size(i - 1)
      BY <2>2, <2>4, <2>7
    <3>3. at(size(i)) = c[i]
      <4>1. CASE i < k
        BY <1>1, <4>1
      <4>2. CASE ~ (i < k)
        <5>1. size(i) = (i - 1) + L /\ ~ (size(i) < k) /\ ~ (size(i) < k + L) /\ (size(i) - L) + 1 = i
          BY <1>1, <2>7, <4>2
        <5> HIDE DEF size
        <5> QED BY <5>1
      <4> QED BY <4>1, <4>2
    <3> HIDE DEF size
    <3>4. ASSUME NEW j \in 1..size(i) PROVE (a \o b)[j] = at(j)
      <4>1. CASE j <= size(i - 1)
        BY <2>2, <2>5, <3>1, <3>2, <4>1
      <4>2. CASE ~ (j <= size(i - 1))
        <5>1. j = size(i) /\ j - Len(a) = 1
          BY <3>1, <3>2, <4>2
        <5> QED BY <2>5, <3>1, <3>2, <3>3, <4>2, <5>1
      <4> QED BY <4>1, <4>2
    <3> QED BY <1>1, <2>3, <2>5, <3>1, <3>2, <3>4
  <2> QED BY <2>6, <2>7
<1> HIDE DEF T
<1>11. n \in T
  <2>1. 0..n \subseteq T
    BY <1>1, <1>9, <1>10, UpTo
  <2> QED BY <1>1, <2>1
<1>12. Good(f[n], n)
  BY <1>1, <1>11 DEF T
<1>13. size(n) = (n - 1) + L
  BY <1>1 DEF n
<1> QED BY <1>2, <1>6, <1>12, <1>13 DEF n

(* A buffer put around the code.                                           *)
LEMMA InsertAround ==
    ASSUME NEW X, NEW c \in Seq(X), Len(c) > 0, NEW b, NEW s, Alloc(b, s) \in X, Dealloc(b) \in X
    PROVE  LET r == InsertAllocAndDealloc(c, b, s)
               n == Len(c)
           IN  /\ r \in Seq(X) /\ Len(r) = n + 2
               /\ r[1] = Alloc(b, s) /\ r[n + 1] = Dealloc(b) /\ r[n + 2] = c[n]
               /\ \A i \in 1..(n - 1) : r[i + 1] = c[i]
<1> DEFINE A == Alloc(b, s)
           D == Dealloc(b)
           n == Len(c)
           e == << A >> \o c
           front == SubSeq(e, 1, n)
           back == SubSeq(e, n + 1, n + 1)
           l == front \o << D >>
           r == l \o back
<1>1. A \in X /\ D \in X /\ n \in Nat /\ n > 0
  OBVIOUS
<1>2. InsertAllocAndDealloc(c, b, s) = SubSeq(e, 1, Len(e) - 1) \o << D >> \o SubSeq(e, Len(e), Len(e))
  BY DEF InsertAllocAndDealloc, InsertAt
<1> HIDE DEF A, D
<1>3. e \in Seq(X) /\ Len(e) = n + 1 /\ e[1] = A /\ \A i \in 1..n : e[i + 1] = c[i]
  BY <1>1
<1> HIDE DEF e, n
<1>4. InsertAllocAndDealloc(c, b, s) = r
  <2>1. (n + 1) - 1 = n
    BY <1>1
  <2> QED BY <1>2, <1>3, <2>1
<1>5. front \in Seq(X) /\ Len(front) = n /\ \A i \in 1..n : front[i] = e[i]
  BY <1>1, <1>3, SubSeqProperties
<1>6. back \in Seq(X) /\ Len(back) = 1 /\ back[1] = e[n + 1]
  BY <1>1, <1>3
<1> HIDE DEF front, back
<1>7. l \in Seq(X) /\ Len(l) = n + 1 /\ l[n + 1] = D /\ \A i \in 1..n : l[i] = front[i]
  BY <1>1, <1>5
<1> HIDE DEF l
<1>8. r \in Seq(X) /\ Len(r) = n + 2 /\ r[n + 2] = back[1] /\ \A i \in 1..(n + 1) : r[i] = l[i]
  <2>1. /\ r \in Seq(X) /\ Len(r) = Len(l) + Len(back)
        /\ \A i \in 1..(Len(l) + Len(back)) : r[i] = IF i <= Len(l) THEN l[i] ELSE back[i - Len(l)]
    BY <1>6, <1>7, ConcatProperties
  <2> HIDE DEF r
  <2>2. \A i \in 1..((n + 1) + 1) : r[i] = IF i <= n + 1 THEN l[i] ELSE back[i - (n + 1)]
    BY <1>6, <1>7, <2>1
  <2>3. (n + 1) + 1 = n + 2 /\ (n + 2) - (n + 1) = 1 /\ ~ (n + 2 <= n + 1) /\ n + 2 \in 1..((n + 1) + 1)
    BY <1>1
  <2> HIDE DEF A
  <2>4. \A i \in 1..(n + 1) : i \in 1..((n + 1) + 1) /\ i <= n + 1
    BY <1>1
  <2>5. r[n + 2] = back[1]
    BY <2>2, <2>3
  <2> QED BY <1>6, <1>7, <2>1, <2>2, <2>3, <2>4, <2>5
<1> HIDE DEF r
<1>9. r[1] = A /\ r[n + 1] = D /\ r[n + 2] = c[n]
  <2>1. 1 \in 1..n /\ 1 \in 1..(n + 1) /\ n \in 1..n /\ n + 1 \in 1..(n + 1)
    BY <1>1
  <2> QED BY <1>3, <1>5, <1>6, <1>7, <1>8, <2>1
<1>10. ASSUME NEW i \in 1..(n - 1) PROVE r[i + 1] = c[i]
  <2>1. i \in 1..n /\ i + 1 \in 1..n /\ i + 1 \in 1..(n + 1)
    BY <1>1
  <2>2. r[i + 1] = l[i + 1] /\ l[i + 1] = front[i + 1]
    BY <1>7, <1>8, <2>1
  <2> QED BY <1>3, <1>5, <2>1, <2>2
<1> QED BY <1>4, <1>8, <1>9, <1>10 DEF n, A, D

-----------------------------------------------------------------------------
(* Buffers, and the order of what is done to them.                         *)

(* The buffers an item needs, and the one it makes.                        *)
Needs(x) ==
    (IF x.op \in {"dealloc", "fill", "store", "nest", "print", "printf"} THEN {x.buf} ELSE {})
      \cup (IF x.op \in {"view", "nest"} THEN Range(x.args) ELSE {})
Makes(x) == IF x.op \in {"alloc", "view"} THEN {x.buf} ELSE {}

(* What the first k items have made, and freed.                            *)
Made(c, k)  == UNION {Makes(c[i]) : i \in 1..k}
Freed(c, k) == {b \in Made(c, k) : \E i \in 1..k : c[i].op = "dealloc" /\ c[i].buf = b}
Live(c, k)  == Made(c, k) \ Freed(c, k)

(* The operations not converted yet, but for the return.                   *)
Left(p, i) == IF i <= Len(p) THEN Len(p) - i ELSE 0

(* A block under conversion, operation i being next: m items that make     *)
(* buffers and work on what is made before them, the operations left, the  *)
(* deallocs, and the end.  Every value has its buffer among those made.    *)
Laid(p, tg, c, v, i, m) ==
    LET n == Len(c)
        t == Left(p, i)
        D == (m + t + 1)..(n - 1)
    IN  /\ m + t + 1 <= n
        /\ \A k \in 1..m : /\ c[k].op \notin {"toy", "dealloc", "return"}
                          /\ Needs(c[k]) \subseteq Made(c, k - 1)
        /\ \A k \in 1..t : c[m + k] = Toy(i + (k - 1))
        /\ \A k \in D : c[k].op = "dealloc" /\ c[k].buf \in Made(c, m)
        /\ \A j, k \in D : c[j].buf = c[k].buf => j = k
        /\ tg = "affine" => \A b \in Made(c, m) : \E k \in D : c[k].buf = b
        /\ Made(c, m) \subseteq 1..(i - 1)
        /\ \A o \in 1..(i - 1) : p[o].kind \notin Sinks => v[o] \in Made(c, m)

(* A block that can be run.                                                *)
Ordered(c) ==
    /\ \A k \in 1..Len(c) :
          /\ Needs(c[k]) \subseteq Live(c, k - 1)
          /\ Makes(c[k]) \cap Freed(c, k - 1) = {}
    /\ \A k \in 1..(Len(c) - 1) : c[k].op # "return"

(* While the function is converted its block is laid out that way; then it *)
(* is in order, and memory holds what is live where the run has come to.   *)
BufInv ==
    /\ pc \in {"function", "convert"} => \E m \in Nat : Laid(prog, target, code, value, next, m)
    /\ pc \in Produced =>
          /\ Ordered(code)
          /\ target = "affine" => Made(code, Len(code)) \subseteq Freed(code, Len(code))
    /\ mem = [b \in DOMAIN mem |-> mem[b]]
    /\ pc \in {"function", "convert", "llvm"} => DOMAIN mem = {}
    /\ pc = "run" => DOMAIN mem = Live(code, next - 1)
    /\ pc = "done" /\ target = "affine" => DOMAIN mem = {}
    /\ pc = "fault" => next \in 1..Len(code) /\ Needs(code[next]) \subseteq DOMAIN mem

(* What is made, item by item.                                             *)
LEMMA MadeFacts ==
    ASSUME NEW c, NEW k \in Nat
    PROVE  /\ Made(c, 0) = {}
           /\ Made(c, k + 1) = Made(c, k) \cup Makes(c[k + 1])
           /\ \A j \in 0..k : Made(c, j) \subseteq Made(c, k)
<1>1. 1..(k + 1) = 1..k \cup {k + 1} /\ 1..0 = {} /\ \A j \in 0..k : 1..j \subseteq 1..k
  OBVIOUS
<1> QED BY <1>1 DEF Made

(* Items that make the same.                                               *)
LEMMA MadeSame ==
    ASSUME NEW c, NEW d, NEW k \in Nat, \A i \in 1..k : Makes(c[i]) = Makes(d[i])
    PROVE  Made(c, k) = Made(d, k)
  BY DEF Made

(* A buffer made in front of m items.                                      *)
MadeInFront(d, c, m) == \A k \in 0..m : Made(d, k + 1) = Makes(d[1]) \cup Made(c, k)

(* Then everything made is made one item later.                          *)
LEMMA ShiftedMade ==
    ASSUME NEW c, NEW d, NEW m \in Nat, \A i \in 1..m : d[i + 1] = c[i]
    PROVE  MadeInFront(d, c, m)
<1> SUFFICES ASSUME NEW k \in 0..m PROVE Made(d, k + 1) = Makes(d[1]) \cup Made(c, k)
  BY DEF MadeInFront
<1>1. \A i \in 1..(k + 1) : i = 1 \/ (i - 1 \in 1..k /\ d[i] = c[i - 1])
  <2> SUFFICES ASSUME NEW i \in 1..(k + 1), i # 1 PROVE i - 1 \in 1..k /\ d[i] = c[i - 1]
    OBVIOUS
  <2>1. i - 1 \in 1..k /\ i - 1 \in 1..m /\ (i - 1) + 1 = i
    OBVIOUS
  <2> QED BY <2>1
<1>2. \A i \in 1..k : i + 1 \in 1..(k + 1) /\ d[i + 1] = c[i]
  OBVIOUS
<1>3. 1 \in 1..(k + 1)
  OBVIOUS
<1> QED BY <1>1, <1>2, <1>3 DEF Made

(* The next operation stands behind the m items, and nowhere else.         *)
LEMMA ToyIsNext ==
    ASSUME NEW p, Len(p) \in Nat, NEW tg, NEW c, IsSeq(c), NEW v, NEW i \in 1..(Len(p) - 1), NEW m \in Nat,
           Laid(p, tg, c, v, i, m), c[Len(c)] = Toy(Len(p))
    PROVE  /\ m + 1 \in 1..Len(c) /\ c[m + 1] = Toy(i)
           /\ \A k \in 1..Len(c) : k # m + 1 => c[k] # Toy(i)
<1> DEFINE n == Len(c)
           t == Len(p) - i
<1>1. n \in Nat /\ t \in Nat /\ t >= 1 /\ Left(p, i) = t
  BY SeqFacts DEF Left
<1>2. /\ m + t + 1 <= n /\ \A k \in 1..m : c[k].op # "toy"
      /\ \A k \in 1..t : c[m + k] = Toy(i + (k - 1))
      /\ \A k \in (m + t + 1)..(n - 1) : c[k].op = "dealloc"
  BY <1>1 DEF Laid
<1> HIDE DEF n
<1>3. m + 1 \in 1..n
  BY <1>1, <1>2
<1>4. c[m + 1] = Toy(i)
  <2>1. 1 \in 1..t /\ i + (1 - 1) = i
    BY <1>1
  <2> QED BY <1>2, <2>1
<1>5. ASSUME NEW k \in 1..n, k # m + 1 PROVE c[k] # Toy(i)
  <2>1. CASE k <= m
    BY <1>2, <2>1 DEF Toy
  <2>2. CASE k \in (m + 2)..(m + t)
    <3>1. k - m \in 1..t /\ m + (k - m) = k /\ i + ((k - m) - 1) # i
      BY <1>1, <2>2
    <3>2. c[k] = Toy(i + ((k - m) - 1))
      BY <1>2, <3>1
    <3> QED BY <3>1, <3>2 DEF Toy
  <2>3. CASE k \in (m + t + 1)..(n - 1)
    BY <1>2, <2>3 DEF Toy
  <2>4. CASE k = n
    <3>1. c[k] = Toy(Len(p)) /\ Len(p) # i
      BY <2>4 DEF n
    <3> QED BY <3>1 DEF Toy
  <2> HIDE DEF t
  <2> QED BY <1>1, <1>5, <2>1, <2>2, <2>3, <2>4
<1> QED BY <1>3, <1>4, <1>5 DEF n

(* Items put in the place of one operation: what is before it stays, what  *)
(* is behind it moves.                                                     *)
Replaced(r, c, m, items) ==
    /\ Len(r) = (Len(c) - 1) + Len(items)
    /\ \A k \in 1..m : r[k] = c[k]
    /\ \A j \in 1..Len(items) : r[m + j] = items[j]
    /\ \A k \in (m + 2)..Len(c) : r[(k - 1) + Len(items)] = c[k]

(* The rewriter replaces the next operation that way.                    *)
LEMMA ReplacedNext ==
    ASSUME NEW c, IsSeq(c), NEW o, NEW m \in Nat, m + 1 \in 1..Len(c), c[m + 1] = Toy(o),
           \A k \in 1..Len(c) : k # m + 1 => c[k] # Toy(o), NEW S, NEW items \in Seq(S)
    PROVE  Replaced(ReplaceOp(c, o, items), c, m, items)
<1> DEFINE n == Len(c)
           L == Len(items)
           r == ReplaceOp(c, o, items)
           X == Range(c) \cup S
           k == m + 1
<1>1. n \in Nat /\ L \in Nat /\ m + 1 <= n
  BY SeqFacts
<1>2. c \in Seq(X) /\ items \in Seq(X)
  <2>1. c \in Seq(Range(c))
    BY DEF IsSeq
  <2> QED BY <2>1
<1>3. k \in 1..Len(c) /\ c[k] = Toy(o) /\ \A q \in 1..Len(c) : q # k => c[q] # Toy(o)
  OBVIOUS
<1> HIDE DEF n, L, r, X, k
<1>4. /\ Len(r) = (n - 1) + L
      /\ \A j \in 1..Len(r) :
            r[j] = IF j < k THEN c[j] ELSE IF j < k + L THEN items[(j - k) + 1] ELSE c[(j - L) + 1]
  BY <1>2, <1>3, ReplaceOpAt DEF r, n, L
<1>5. ASSUME NEW q \in 1..m PROVE r[q] = c[q]
  <2>1. q \in 1..((n - 1) + L) /\ q < k
    BY <1>1 DEF k
  <2> QED BY <1>4, <2>1
<1>6. ASSUME NEW j \in 1..L PROVE r[m + j] = items[j]
  <2>1. m + j \in 1..((n - 1) + L) /\ ~ (m + j < k) /\ m + j < k + L /\ ((m + j) - k) + 1 = j
    BY <1>1 DEF k
  <2> QED BY <1>4, <2>1
<1>7. ASSUME NEW q \in (m + 2)..n PROVE r[(q - 1) + L] = c[q]
  <2>1. /\ (q - 1) + L \in 1..((n - 1) + L) /\ ~ ((q - 1) + L < k)
        /\ ~ ((q - 1) + L < k + L) /\ (((q - 1) + L) - L) + 1 = q
    BY <1>1 DEF k
  <2> QED BY <1>4, <2>1
<1> QED BY <1>4, <1>5, <1>6, <1>7 DEF Replaced, n, L, r

(* What is made then: before the items, and with them.                     *)
LEMMA ReplacedBefore ==
    ASSUME NEW r, NEW c, NEW m \in Nat, NEW items, Replaced(r, c, m, items), NEW k \in 0..m
    PROVE  Made(r, k) = Made(c, k)
<1>1. k \in Nat /\ \A q \in 1..k : Makes(r[q]) = Makes(c[q])
  BY DEF Replaced
<1> QED BY <1>1, MadeSame

MadeWith(r, c, m, items) ==
    \A l \in 0..Len(items) : Made(r, m + l) = Made(c, m) \cup Made(items, l)

(* Behind the first m items, the new ones add what they make.            *)
LEMMA ReplacedMade ==
    ASSUME NEW r, NEW c, NEW m \in Nat, NEW items, Replaced(r, c, m, items)
    PROVE  MadeWith(r, c, m, items)
<1> SUFFICES ASSUME NEW l \in 0..Len(items)
             PROVE  Made(r, m + l) = Made(c, m) \cup Made(items, l)
  BY DEF MadeWith
<1> DEFINE n == m + l
<1>1. /\ \A k \in 1..m : r[k] = c[k]
      /\ \A j \in 1..l : r[m + j] = items[j]
  BY DEF Replaced
<1>2. \A i \in 1..n : i \in 1..m \/ (i - m \in 1..l /\ r[i] = items[i - m])
  <2> SUFFICES ASSUME NEW i \in 1..n, i \notin 1..m PROVE i - m \in 1..l /\ r[i] = items[i - m]
    OBVIOUS
  <2>1. i - m \in 1..l /\ m + (i - m) = i
    OBVIOUS
  <2> QED BY <1>1, <2>1
<1>3. \A i \in 1..m : i \in 1..n
  OBVIOUS
<1>4. \A j \in 1..l : m + j \in 1..n
  OBVIOUS
<1> QED BY <1>1, <1>2, <1>3, <1>4 DEF Made

(* Items that need what the block has made before, or they make.           *)
Fits(items, c, m, made) ==
    /\ \A j \in 1..Len(items) : /\ items[j].op \notin {"toy", "dealloc", "return"}
                                /\ Needs(items[j]) \subseteq Made(c, m) \cup Made(items, j - 1)
    /\ Made(items, Len(items)) \subseteq made

(* An operation replaced by such items: the block stays in order.          *)
LEMMA LaidReplaced ==
    ASSUME NEW p, Len(p) \in Nat, NEW tg, NEW c, IsSeq(c), NEW v, NEW i \in 1..(Len(p) - 1), NEW m \in Nat,
           Laid(p, tg, c, v, i, m), NEW V, v \in Seq(V), Len(v) = i - 1, NEW w \in V,
           NEW items, Len(items) \in Nat, NEW r, Replaced(r, c, m, items),
           Fits(items, c, m, IF tg = "affine" THEN {} ELSE {i}),
           p[i].kind \notin Sinks => w \in Made(c, m) \cup Made(items, Len(items))
    PROVE  Laid(p, tg, r, Append(v, w), i + 1, m + Len(items))
<1> DEFINE n == Len(c)
           t == Len(p) - i
           L == Len(items)
           N == Len(r)
           D == (m + t + 1)..(n - 1)
           E == ((m + L) + (t - 1) + 1)..(N - 1)
<1>1. n \in Nat /\ t \in Nat /\ t >= 1 /\ L \in Nat /\ Left(p, i) = t /\ Left(p, i + 1) = t - 1
  BY SeqFacts DEF Left
<1>2. /\ m + t + 1 <= n
      /\ \A k \in 1..m : /\ c[k].op \notin {"toy", "dealloc", "return"}
                         /\ Needs(c[k]) \subseteq Made(c, k - 1)
      /\ \A k \in 1..t : c[m + k] = Toy(i + (k - 1))
      /\ \A k \in D : c[k].op = "dealloc" /\ c[k].buf \in Made(c, m)
      /\ \A j, k \in D : c[j].buf = c[k].buf => j = k
      /\ tg = "affine" => \A b \in Made(c, m) : \E k \in D : c[k].buf = b
      /\ Made(c, m) \subseteq 1..(i - 1)
      /\ \A o \in 1..(i - 1) : p[o].kind \notin Sinks => v[o] \in Made(c, m)
  BY <1>1 DEF Laid
<1>3. N = (n - 1) + L
  BY DEF Replaced
<1>4. \A k \in 1..m : r[k] = c[k]
  BY DEF Replaced
<1>5. \A j \in 1..L : r[m + j] = items[j]
  BY DEF Replaced
<1>6. \A k \in (m + 2)..n : r[(k - 1) + L] = c[k]
  BY DEF Replaced
<1>7. \A l \in 0..L : Made(r, m + l) = Made(c, m) \cup Made(items, l)
  <2>1. MadeWith(r, c, m, items)
    BY ReplacedMade
  <2> QED BY <2>1 DEF MadeWith
<1>8. Made(r, m + L) = Made(c, m) \cup Made(items, L)
  BY <1>1, <1>7
<1> DEFINE made == IF tg = "affine" THEN {} ELSE {i}
<1>9. /\ \A j \in 1..L : /\ items[j].op \notin {"toy", "dealloc", "return"}
                         /\ Needs(items[j]) \subseteq Made(c, m) \cup Made(items, j - 1)
      /\ Made(items, L) \subseteq made
  BY DEF Fits
<1> HIDE DEF n, t, L, N, D, E
<1>10. (m + L) + (t - 1) + 1 <= (n - 1) + L
  BY <1>1, <1>2
<1>11. ASSUME NEW k \in 1..(m + L)
       PROVE  /\ r[k].op \notin {"toy", "dealloc", "return"}
              /\ Needs(r[k]) \subseteq Made(r, k - 1)
  <2>1. CASE k <= m
    <3>1. k \in 1..m /\ k - 1 \in 0..m
      BY <1>1, <2>1
    <3>2. Made(r, k - 1) = Made(c, k - 1)
      BY <3>1, ReplacedBefore
    <3> QED BY <1>2, <1>4, <3>1, <3>2
  <2>2. CASE ~ (k <= m)
    <3>1. k - m \in 1..L /\ m + (k - m) = k /\ (k - m) - 1 \in 0..L /\ m + ((k - m) - 1) = k - 1
      BY <1>1, <2>2
    <3>2. r[k] = items[k - m]
      BY <1>5, <3>1
    <3>3. Made(r, k - 1) = Made(c, m) \cup Made(items, (k - m) - 1)
      BY <1>7, <3>1
    <3> QED BY <1>9, <3>1, <3>2, <3>3
  <2> QED BY <2>1, <2>2
<1>12. ASSUME NEW k \in 1..(t - 1) PROVE r[(m + L) + k] = Toy((i + 1) + (k - 1))
  <2>1. /\ (m + k) + 1 \in (m + 2)..n /\ (((m + k) + 1) - 1) + L = (m + L) + k
        /\ k + 1 \in 1..t /\ m + (k + 1) = (m + k) + 1 /\ i + ((k + 1) - 1) = (i + 1) + (k - 1)
    BY <1>1, <1>2
  <2>2. r[(m + L) + k] = c[(m + k) + 1]
    BY <1>6, <2>1
  <2>3. c[m + (k + 1)] = Toy(i + ((k + 1) - 1))
    BY <1>2, <2>1
  <2> QED BY <2>1, <2>2, <2>3
<1>13. m + t + 1 <= n
  BY <1>2
<1>14. ASSUME NEW k \in E PROVE (k - L) + 1 \in D /\ r[k] = c[(k - L) + 1]
  <2>1. (k - L) + 1 \in D /\ (k - L) + 1 \in (m + 2)..n /\ (((k - L) + 1) - 1) + L = k
    BY <1>1, <1>3, <1>13 DEF D, E
  <2> QED BY <1>6, <2>1
<1>15. ASSUME NEW k \in D PROVE (k - 1) + L \in E /\ r[(k - 1) + L] = c[k]
  <2>1. (k - 1) + L \in E /\ k \in (m + 2)..n
    BY <1>1, <1>3, <1>13 DEF D, E
  <2> QED BY <1>6, <2>1
<1>16. \A k \in E : r[k].op = "dealloc" /\ r[k].buf \in Made(r, m + L)
  BY <1>2, <1>8, <1>14
<1>17. ASSUME NEW j \in E, NEW k \in E, r[j].buf = r[k].buf PROVE j = k
  <2>1. (j - L) + 1 = (k - L) + 1
    BY <1>2, <1>14, <1>17
  <2> QED BY <1>1, <2>1 DEF E
<1>18. ASSUME tg = "affine", NEW b \in Made(r, m + L) PROVE \E k \in E : r[k].buf = b
  <2>1. b \in Made(c, m)
    BY <1>9, <1>8, <1>18
  <2>2. PICK k \in D : c[k].buf = b
    BY <1>2, <1>18, <2>1
  <2>3. (k - 1) + L \in E /\ r[(k - 1) + L] = c[k]
    BY <1>15
  <2> QED BY <2>2, <2>3
<1>19. Made(r, m + L) \subseteq 1..((i + 1) - 1)
  <2>1. Made(items, L) \subseteq {i}
    BY <1>9
  <2> HIDE DEF made
  <2> QED BY <1>2, <1>8, <2>1
<1>20. ASSUME NEW o \in 1..((i + 1) - 1), p[o].kind \notin Sinks PROVE Append(v, w)[o] \in Made(r, m + L)
  <2>1. CASE o = i
    <3>1. Append(v, w)[o] = w
      BY <2>1
    <3> QED BY <1>8, <1>20, <2>1, <3>1 DEF L
  <2>2. CASE o # i
    <3>1. o \in 1..(i - 1) /\ Append(v, w)[o] = v[o]
      BY <2>2
    <3> QED BY <1>2, <1>8, <1>20, <3>1
  <2> QED BY <2>1, <2>2
<1>21. (m + L) + (t - 1) + 1 <= N
  BY <1>3, <1>10
<1> QED BY <1>1, <1>11, <1>12, <1>16, <1>17, <1>18, <1>19, <1>20, <1>21 DEF Laid, L, N, E

(* A buffer put around the code.                                           *)
Surrounded(d, r, b, s) ==
    LET n == Len(r)
    IN  /\ Len(d) = n + 2
        /\ d[1] = Alloc(b, s) /\ d[n + 1] = Dealloc(b) /\ d[n + 2] = r[n]
        /\ \A k \in 1..(n - 1) : d[k + 1] = r[k]

(* An operation replaced by one item, with its buffer around the code: on  *)
(* the affine path the block stays in order.                               *)
LEMMA LaidAround ==
    ASSUME NEW p, Len(p) \in Nat, NEW tg, NEW c, IsSeq(c), NEW v, NEW i \in 1..(Len(p) - 1), NEW m \in Nat,
           Laid(p, tg, c, v, i, m), NEW V, v \in Seq(V), Len(v) = i - 1, i \in V,
           NEW x, x.op \notin {"toy", "dealloc", "return"}, Needs(x) \subseteq Made(c, m) \cup {i}, Makes(x) = {},
           NEW r, Replaced(r, c, m, << x >>), NEW d, NEW s, Surrounded(d, r, i, s)
    PROVE  Laid(p, tg, d, Append(v, i), i + 1, m + 2)
<1> DEFINE n == Len(c)
           t == Len(p) - i
           N == Len(d)
           D == (m + t + 1)..(n - 1)
           E == ((m + 2) + (t - 1) + 1)..(N - 1)
<1>1. n \in Nat /\ t \in Nat /\ t >= 1 /\ Left(p, i) = t /\ Left(p, i + 1) = t - 1
  BY SeqFacts DEF Left
<1>2. /\ m + t + 1 <= n
      /\ \A k \in 1..m : /\ c[k].op \notin {"toy", "dealloc", "return"}
                         /\ Needs(c[k]) \subseteq Made(c, k - 1)
      /\ \A k \in 1..t : c[m + k] = Toy(i + (k - 1))
      /\ \A k \in D : c[k].op = "dealloc" /\ c[k].buf \in Made(c, m)
      /\ \A j, k \in D : c[j].buf = c[k].buf => j = k
      /\ tg = "affine" => \A b \in Made(c, m) : \E k \in D : c[k].buf = b
      /\ Made(c, m) \subseteq 1..(i - 1)
      /\ \A o \in 1..(i - 1) : p[o].kind \notin Sinks => v[o] \in Made(c, m)
  BY <1>1 DEF Laid
<1>3. m + t + 1 <= n
  BY <1>2
<1>4. /\ Len(r) = n /\ r[m + 1] = x
      /\ \A k \in 1..m : r[k] = c[k]
      /\ \A k \in (m + 2)..n : r[k] = c[k]
  <2>1. /\ Len(r) = (n - 1) + 1
        /\ \A k \in 1..m : r[k] = c[k]
        /\ \A j \in 1..1 : r[m + j] = << x >>[j]
        /\ \A k \in (m + 2)..n : r[(k - 1) + 1] = c[k]
    BY DEF Replaced
  <2>2. r[m + 1] = x
    <3>1. 1 \in 1..1 /\ << x >>[1] = x
      OBVIOUS
    <3> QED BY <2>1, <3>1
  <2>3. ASSUME NEW k \in (m + 2)..n PROVE r[k] = c[k]
    <3>1. (k - 1) + 1 = k
      OBVIOUS
    <3> QED BY <2>1, <3>1
  <2> QED BY <1>1, <2>1, <2>2, <2>3
<1>5. /\ N = n + 2 /\ d[1] = Alloc(i, s) /\ d[n + 1] = Dealloc(i)
      /\ \A k \in 1..(n - 1) : d[k + 1] = r[k]
  BY <1>4 DEF Surrounded
<1> HIDE DEF n, t, N, D, E
<1>6. \A k \in 1..m : d[k + 1] = c[k]
  <2>1. \A k \in 1..m : k \in 1..(n - 1)
    BY <1>1, <1>3
  <2> QED BY <1>4, <1>5, <2>1
<1>7. d[m + 2] = x
  <2>1. m + 1 \in 1..(n - 1) /\ (m + 1) + 1 = m + 2
    BY <1>1, <1>3
  <2> QED BY <1>4, <1>5, <2>1
<1>8. \A k \in (m + 2)..(n - 1) : d[k + 1] = c[k]
  <2>1. \A k \in (m + 2)..(n - 1) : k \in 1..(n - 1) /\ k \in (m + 2)..n
    BY <1>1
  <2> QED BY <1>4, <1>5, <2>1
<1>9. \A k \in 0..m : Made(d, k + 1) = {i} \cup Made(c, k)
  <2>1. MadeInFront(d, c, m)
    BY <1>6, ShiftedMade
  <2>2. Makes(d[1]) = {i}
    BY <1>5 DEF Makes, Alloc
  <2> QED BY <2>1, <2>2 DEF MadeInFront
<1>10. Made(d, m + 2) = {i} \cup Made(c, m)
  <2> DEFINE q == m + 1
  <2>1. q \in Nat /\ q + 1 = m + 2 /\ m \in 0..m
    OBVIOUS
  <2>2. Made(d, q) = {i} \cup Made(c, m)
    BY <1>9, <2>1
  <2> HIDE DEF q
  <2>3. Made(d, q + 1) = Made(d, q) \cup Makes(d[q + 1])
    BY <2>1, MadeFacts
  <2>4. Made(d, q + 1) = ({i} \cup Made(c, m)) \cup Makes(x)
    BY <1>7, <2>1, <2>2, <2>3
  <2> QED BY <2>1, <2>4
<1>11. (m + 2) + (t - 1) + 1 <= N
  <2>1. N = n + 2
    BY <1>5
  <2> QED BY <1>1, <1>3, <2>1
<1>12. ASSUME NEW k \in 1..(m + 2)
       PROVE  /\ d[k].op \notin {"toy", "dealloc", "return"}
              /\ Needs(d[k]) \subseteq Made(d, k - 1)
  <2>1. CASE k = 1
    BY <1>5, <2>1 DEF Needs, Alloc
  <2>2. CASE k \in 2..(m + 1)
    <3>1. k - 1 \in 1..m /\ (k - 1) + 1 = k /\ (k - 1) - 1 \in 0..m /\ ((k - 1) - 1) + 1 = k - 1
      BY <2>2
    <3>2. d[k] = c[k - 1]
      BY <1>6, <3>1
    <3>3. Made(d, k - 1) = {i} \cup Made(c, (k - 1) - 1)
      BY <1>9, <3>1
    <3> QED BY <1>2, <3>1, <3>2, <3>3
  <2>3. CASE k = m + 2
    <3>1. k - 1 = m + 1 /\ m \in 0..m
      BY <2>3
    <3>2. Made(d, k - 1) = {i} \cup Made(c, m)
      BY <1>9, <3>1
    <3> QED BY <1>7, <2>3, <3>2
  <2> QED BY <2>1, <2>2, <2>3
<1>13. ASSUME NEW k \in 1..(t - 1) PROVE d[(m + 2) + k] = Toy((i + 1) + (k - 1))
  <2>1. /\ (m + k) + 1 \in (m + 2)..(n - 1) /\ ((m + k) + 1) + 1 = (m + 2) + k
        /\ k + 1 \in 1..t /\ m + (k + 1) = (m + k) + 1 /\ i + ((k + 1) - 1) = (i + 1) + (k - 1)
    BY <1>1, <1>3
  <2>2. d[(m + 2) + k] = c[(m + k) + 1]
    BY <1>8, <2>1
  <2>3. c[m + (k + 1)] = Toy(i + ((k + 1) - 1))
    BY <1>2, <2>1
  <2> QED BY <2>1, <2>2, <2>3
<1>14. ASSUME NEW k \in E PROVE \/ k = n + 1 /\ d[k] = Dealloc(i)
                                \/ k # n + 1 /\ k - 1 \in D /\ d[k] = c[k - 1]
  <2>1. CASE k = n + 1
    BY <1>5, <2>1
  <2>2. CASE k # n + 1
    <3>1. k - 1 \in D /\ k - 1 \in (m + 2)..(n - 1) /\ (k - 1) + 1 = k
      BY <1>1, <1>3, <1>5, <2>2 DEF D, E
    <3> QED BY <1>8, <2>2, <3>1
  <2> QED BY <2>1, <2>2
<1>15. n + 1 \in E /\ \A k \in D : k + 1 \in E /\ d[k + 1] = c[k]
  <2>1. n + 1 \in E
    BY <1>1, <1>3, <1>5 DEF E
  <2>2. ASSUME NEW k \in D PROVE k + 1 \in E /\ k \in (m + 2)..(n - 1)
    BY <1>1, <1>3, <1>5 DEF D, E
  <2> QED BY <1>8, <2>1, <2>2
<1>16. i \notin Made(c, m)
  BY <1>2
<1>17. \A k \in E : d[k].op = "dealloc" /\ d[k].buf \in Made(d, m + 2)
  BY <1>2, <1>10, <1>14 DEF Dealloc
<1>18. ASSUME NEW j \in E, NEW k \in E, d[j].buf = d[k].buf PROVE j = k
  <2>1. CASE j = n + 1 /\ k = n + 1
    BY <2>1
  <2>2. CASE j = n + 1 /\ k # n + 1
    BY <1>2, <1>14, <1>16, <1>18, <2>2 DEF Dealloc
  <2>3. CASE j # n + 1 /\ k = n + 1
    BY <1>2, <1>14, <1>16, <1>18, <2>3 DEF Dealloc
  <2>4. CASE j # n + 1 /\ k # n + 1
    <3>1. j - 1 \in D /\ k - 1 \in D /\ c[j - 1].buf = c[k - 1].buf
      BY <1>14, <1>18, <2>4
    <3>2. j - 1 = k - 1
      BY <1>2, <3>1
    <3> QED BY <1>1, <3>2 DEF E
  <2> QED BY <2>1, <2>2, <2>3, <2>4
<1>19. ASSUME tg = "affine", NEW b \in Made(d, m + 2) PROVE \E k \in E : d[k].buf = b
  <2>1. CASE b = i
    BY <1>5, <1>15, <2>1 DEF Dealloc
  <2>2. CASE b \in Made(c, m)
    <3>1. PICK k \in D : c[k].buf = b
      BY <1>2, <1>19, <2>2
    <3> QED BY <1>15, <3>1
  <2> QED BY <1>10, <2>1, <2>2
<1>20. Made(d, m + 2) \subseteq 1..((i + 1) - 1)
  BY <1>2, <1>10
<1>21. ASSUME NEW o \in 1..((i + 1) - 1), p[o].kind \notin Sinks PROVE Append(v, i)[o] \in Made(d, m + 2)
  <2>1. CASE o = i
    <3>1. Append(v, i)[o] = i
      BY <2>1
    <3> QED BY <1>10, <3>1
  <2>2. CASE o # i
    <3>1. o \in 1..(i - 1) /\ Append(v, i)[o] = v[o]
      BY <2>2
    <3> QED BY <1>2, <1>10, <1>21, <3>1
  <2> QED BY <2>1, <2>2
<1> QED BY <1>1, <1>11, <1>12, <1>13, <1>17, <1>18, <1>19, <1>20, <1>21 DEF Laid, N, E

(* The return is the last to be converted.                                 *)
LEMMA LaidReturn ==
    ASSUME NEW p, Len(p) \in Nat \ {0}, p[Len(p)].kind = "return", NEW tg, NEW c, IsSeq(c), NEW v, NEW m \in Nat,
           Laid(p, tg, c, v, Len(p), m), c[Len(c)] = Toy(Len(p)),
           NEW V, v \in Seq(V), Len(v) = Len(p) - 1, NEW w \in V
    PROVE  Laid(p, tg, ReplaceOp(c, Len(p), << Return >>), Append(v, w), Len(p) + 1, m)
<1> DEFINE i == Len(p)
           n == Len(c)
           q == n - 1
           r == ReplaceOp(c, i, << Return >>)
           N == Len(r)
<1>1. n \in Nat /\ Left(p, i) = 0 /\ Left(p, i + 1) = 0 /\ i \in Nat
  BY SeqFacts DEF Left
<1>2. /\ m + 0 + 1 <= n
      /\ \A k \in 1..m : /\ c[k].op \notin {"toy", "dealloc", "return"}
                         /\ Needs(c[k]) \subseteq Made(c, k - 1)
      /\ \A k \in (m + 0 + 1)..(n - 1) : c[k].op = "dealloc" /\ c[k].buf \in Made(c, m)
      /\ \A j, k \in (m + 0 + 1)..(n - 1) : c[j].buf = c[k].buf => j = k
      /\ tg = "affine" => \A b \in Made(c, m) : \E k \in (m + 0 + 1)..(n - 1) : c[k].buf = b
      /\ Made(c, m) \subseteq 1..(i - 1)
      /\ \A o \in 1..(i - 1) : p[o].kind \notin Sinks => v[o] \in Made(c, m)
  BY <1>1 DEF Laid
<1>3. q \in Nat /\ q + 1 = n /\ q + 1 \in 1..n /\ m <= q
  BY <1>1, <1>2
<1> HIDE DEF n, i, q
<1>4. \A k \in 1..n : k # q + 1 => c[k] # Toy(i)
  <2> SUFFICES ASSUME NEW k \in 1..n, k # q + 1 PROVE c[k].op # "toy"
    BY DEF Toy
  <2>1. k \in 1..m \/ k \in (m + 0 + 1)..(n - 1)
    BY <1>1, <1>3
  <2> QED BY <1>2, <2>1
<1>5. Replaced(r, c, q, << Return >>)
  <2>1. c[q + 1] = Toy(i)
    BY <1>3 DEF n, i
  <2> DEFINE items == << Return >>
  <2>2. items \in Seq({Return})
    OBVIOUS
  <2> HIDE DEF items
  <2>3. Replaced(ReplaceOp(c, i, items), c, q, items)
    BY <1>3, <1>4, <2>1, <2>2, ReplacedNext DEF n
  <2> QED BY <2>3 DEF items
<1>6. N = n /\ \A k \in 1..q : r[k] = c[k]
  <2>1. N = (n - 1) + 1 /\ \A k \in 1..q : r[k] = c[k]
    BY <1>5 DEF Replaced, n
  <2> QED BY <1>1, <2>1
<1> HIDE DEF r, N
<1>7. \A k \in 0..m : Made(r, k) = Made(c, k)
  <2>1. ASSUME NEW k \in 0..m PROVE Made(r, k) = Made(c, k)
    <3>1. k \in 0..q
      BY <1>3
    <3> QED BY <1>3, <1>5, <3>1, ReplacedBefore
  <2> QED BY <2>1
<1>8. m \in 0..m /\ \A k \in (m + 0 + 1)..(n - 1) : k \in 1..q
  BY <1>1, <1>3
<1>9. ASSUME NEW k \in 1..m
      PROVE  r[k].op \notin {"toy", "dealloc", "return"} /\ Needs(r[k]) \subseteq Made(r, k - 1)
  <2>1. k \in 1..q /\ k - 1 \in 0..m
    BY <1>3
  <2> QED BY <1>2, <1>6, <1>7, <2>1
<1>10. Made(r, m) \subseteq 1..((i + 1) - 1)
  BY <1>1, <1>2, <1>7, <1>8
<1>11. ASSUME NEW o \in 1..((i + 1) - 1), p[o].kind \notin Sinks PROVE Append(v, w)[o] \in Made(r, m)
  <2>1. o # i
    BY <1>11 DEF Sinks, i
  <2>2. o \in 1..(i - 1) /\ Len(v) = i - 1
    BY <1>1, <2>1 DEF i
  <2>3. Append(v, w)[o] = v[o]
    BY <2>2
  <2> QED BY <1>2, <1>7, <1>8, <1>11, <2>2, <2>3
<1>12. /\ \A k \in (m + 0 + 1)..(n - 1) : r[k].op = "dealloc" /\ r[k].buf \in Made(r, m)
       /\ \A j, k \in (m + 0 + 1)..(n - 1) : r[j].buf = r[k].buf => j = k
       /\ tg = "affine" => \A b \in Made(r, m) : \E k \in (m + 0 + 1)..(n - 1) : r[k].buf = b
  <2> DEFINE D == (m + 0 + 1)..(n - 1)
  <2>1. Made(r, m) = Made(c, m)
    BY <1>7, <1>8
  <2>2. \A k \in D : r[k] = c[k]
    BY <1>6, <1>8
  <2>3. /\ \A k \in D : c[k].op = "dealloc" /\ c[k].buf \in Made(c, m)
        /\ \A j, k \in D : c[j].buf = c[k].buf => j = k
        /\ tg = "affine" => \A b \in Made(c, m) : \E k \in D : c[k].buf = b
    BY <1>2
  <2> HIDE DEF D
  <2>4. /\ \A k \in D : r[k].op = "dealloc" /\ r[k].buf \in Made(r, m)
        /\ \A j, k \in D : r[j].buf = r[k].buf => j = k
        /\ tg = "affine" => \A b \in Made(r, m) : \E k \in D : r[k].buf = b
    BY <2>1, <2>2, <2>3
  <2> QED BY <2>4 DEF D
<1>13. Laid(p, tg, r, Append(v, w), i + 1, m)
  <2> DEFINE j == i + 1
             u == Append(v, w)
  <2>1. Len(r) = n
    BY <1>6 DEF N
  <2>2. /\ Left(p, j) = 0
        /\ Made(r, m) \subseteq 1..(j - 1)
        /\ \A o \in 1..(j - 1) : p[o].kind \notin Sinks => u[o] \in Made(r, m)
    BY <1>1, <1>10, <1>11
  <2>3. m + 0 + 1 <= n
    BY <1>2
  <2> HIDE DEF j, u
  <2>4. \A k \in 1..0 : r[m + k] = Toy(j + (k - 1))
    OBVIOUS
  <2>5. Laid(p, tg, r, u, j, m)
    BY <1>9, <1>12, <2>1, <2>2, <2>3, <2>4 DEF Laid
  <2> QED BY <2>5 DEF j, u
<1> QED BY <1>13 DEF r, i

(* A block with nothing left to convert can be run, and frees on the       *)
(* affine path what it makes.                                              *)
LEMMA LaidIsOrdered ==
    ASSUME NEW p, NEW tg, NEW c, IsSeq(c), NEW v, NEW i, NEW m \in Nat,
           Laid(p, tg, c, v, i, m), Left(p, i) = 0, c[Len(c)] = Return
    PROVE  Ordered(c) /\ (tg = "affine" => Made(c, Len(c)) \subseteq Freed(c, Len(c)))
<1> DEFINE n == Len(c)
           D == (m + 0 + 1)..(n - 1)
<1>1. n \in Nat
  BY SeqFacts
<1>2. /\ m + 0 + 1 <= n
      /\ \A k \in 1..m : /\ c[k].op \notin {"toy", "dealloc", "return"}
                         /\ Needs(c[k]) \subseteq Made(c, k - 1)
      /\ \A k \in D : c[k].op = "dealloc" /\ c[k].buf \in Made(c, m)
      /\ \A j, k \in D : c[j].buf = c[k].buf => j = k
      /\ tg = "affine" => \A b \in Made(c, m) : \E k \in D : c[k].buf = b
  BY DEF Laid
<1>3. \A k \in 1..n : k \in 1..m \/ k \in D \/ k = n
  BY <1>1, <1>2
<1>4. m < n
  BY <1>1, <1>2
<1> HIDE DEF n
<1>5. c[n] = Return
  BY DEF n
<1>6. ASSUME NEW k \in 1..m PROVE Freed(c, k - 1) = {}
  BY <1>2 DEF Freed
<1>7. ASSUME NEW k \in 1..n
      PROVE  /\ Needs(c[k]) \subseteq Live(c, k - 1)
             /\ Makes(c[k]) \cap Freed(c, k - 1) = {}
  <2>1. CASE k \in 1..m
    BY <1>2, <1>6, <2>1 DEF Live
  <2>2. CASE k \in D
    <3>1. c[k].op = "dealloc" /\ Needs(c[k]) = {c[k].buf} /\ Makes(c[k]) = {}
      BY <1>2, <2>2 DEF Needs, Makes
    <3>2. c[k].buf \in Made(c, k - 1)
      <4>1. k - 1 \in Nat /\ m \in 0..(k - 1)
        BY <1>1, <2>2
      <4>2. Made(c, m) \subseteq Made(c, k - 1)
        BY <4>1, MadeFacts
      <4> QED BY <1>2, <2>2, <4>2
    <3>3. c[k].buf \notin Freed(c, k - 1)
      <4> SUFFICES ASSUME NEW j \in 1..(k - 1), c[j].op = "dealloc", c[j].buf = c[k].buf PROVE FALSE
        BY DEF Freed
      <4>1. j \notin 1..m
        BY <1>2
      <4>2. j \in D
        BY <1>1, <2>2, <4>1
      <4>3. j = k
        BY <1>2, <2>2, <4>2
      <4> QED BY <1>1, <4>3
    <3> QED BY <3>1, <3>2, <3>3 DEF Live
  <2>3. CASE k = n
    BY <1>5, <2>3 DEF Needs, Makes, Return
  <2> QED BY <1>3, <2>1, <2>2, <2>3
<1>8. ASSUME NEW k \in 1..(n - 1) PROVE c[k].op # "return"
  <2>1. k \in 1..m \/ k \in D
    BY <1>1
  <2> QED BY <1>2, <2>1
<1>9. ASSUME tg = "affine", NEW b \in Made(c, n) PROVE b \in Freed(c, n)
  <2>1. PICK q \in 1..n : b \in Makes(c[q])
    BY DEF Made
  <2>2. c[q].op \in {"alloc", "view"}
    BY <2>1 DEF Makes
  <2>3. q \in 1..m
    BY <1>2, <1>3, <1>5, <2>2 DEF Return
  <2>4. b \in Made(c, m)
    BY <2>1, <2>3 DEF Made
  <2>5. PICK k \in D : c[k].buf = b
    BY <1>2, <1>9, <2>4
  <2>6. k \in 1..n /\ c[k].op = "dealloc"
    BY <1>1, <1>2
  <2> QED BY <1>9, <2>5, <2>6 DEF Freed
<1> QED BY <1>7, <1>8, <1>9 DEF Ordered, n

(* Items that need, make and free the same.                                *)
LEMMA OrderStays ==
    ASSUME NEW c, NEW d, Len(d) = Len(c), Len(c) \in Nat,
           \A k \in 1..Len(c) : /\ Needs(d[k]) = Needs(c[k]) /\ Makes(d[k]) = Makes(c[k])
                                /\ d[k].op = "dealloc" <=> c[k].op = "dealloc"
                                /\ c[k].op = "dealloc" => d[k].buf = c[k].buf
                                /\ d[k].op = "return" <=> c[k].op = "return"
    PROVE  /\ Ordered(c) => Ordered(d)
           /\ Made(c, Len(c)) \subseteq Freed(c, Len(c)) => Made(d, Len(d)) \subseteq Freed(d, Len(d))
<1> DEFINE n == Len(c)
<1> HIDE DEF n
<1>1. n \in Nat /\ Len(d) = n
  BY DEF n
<1>2. \A k \in 1..n : /\ Needs(d[k]) = Needs(c[k]) /\ Makes(d[k]) = Makes(c[k])
                      /\ d[k].op = "dealloc" <=> c[k].op = "dealloc"
                      /\ c[k].op = "dealloc" => d[k].buf = c[k].buf
                      /\ d[k].op = "return" <=> c[k].op = "return"
  BY DEF n
<1>3. ASSUME NEW k \in 0..n PROVE Made(d, k) = Made(c, k) /\ Freed(d, k) = Freed(c, k)
  <2>1. k \in Nat /\ \A q \in 1..k : q \in 1..n
    BY <1>1
  <2>2. \A q \in 1..k : Makes(d[q]) = Makes(c[q])
    BY <1>2, <2>1
  <2>3. Made(d, k) = Made(c, k)
    BY <2>1, <2>2, MadeSame
  <2> QED BY <1>2, <2>1, <2>3 DEF Freed
<1>4. n \in 0..n /\ (\A k \in 1..n : k - 1 \in 0..n) /\ (\A k \in 1..(n - 1) : k \in 1..n)
  BY <1>1
<1>5. Ordered(c) => Ordered(d)
  <2> SUFFICES ASSUME Ordered(c) PROVE Ordered(d)
    OBVIOUS
  <2>1. /\ \A k \in 1..n : /\ Needs(c[k]) \subseteq Live(c, k - 1)
                           /\ Makes(c[k]) \cap Freed(c, k - 1) = {}
        /\ \A k \in 1..(n - 1) : c[k].op # "return"
    BY DEF Ordered, n
  <2>2. ASSUME NEW k \in 1..n
        PROVE  Needs(d[k]) \subseteq Live(d, k - 1) /\ Makes(d[k]) \cap Freed(d, k - 1) = {}
    BY <1>2, <1>3, <1>4, <2>1 DEF Live
  <2>3. \A k \in 1..(n - 1) : d[k].op # "return"
    BY <1>2, <1>4, <2>1
  <2> QED BY <1>1, <2>2, <2>3 DEF Ordered
<1> QED BY <1>1, <1>3, <1>4, <1>5 DEF n

-----------------------------------------------------------------------------
(* The patterns.                                                           *)

(* Operation i of p, not the return, is about to be converted.             *)
AtOperation(p, tg, c, v, i, m) ==
    /\ p \in Programs /\ i \in 1..(Len(p) - 1) /\ m \in Nat
    /\ IsSeq(c) /\ Len(c) > 0 /\ c[Len(c)] = Toy(Len(p))
    /\ v \in Seq(DOMAIN p) /\ Len(v) = i - 1
    /\ Laid(p, tg, c, v, i, m)

(* It has been, into code r, and buffer w stands for it.                   *)
PastOperation(p, tg, r, v, w, i) == \E m \in Nat : Laid(p, tg, r, Append(v, w), i + 1, m)

(* The buffers of the operands have been made.                             *)
LEMMA OperandsAreMade ==
    ASSUME NEW p, NEW tg, NEW c, NEW v, NEW i, NEW m, AtOperation(p, tg, c, v, i, m)
    PROVE  /\ Len(p[i].args) \in Nat /\ DOMAIN p[i].args = 1..Len(p[i].args)
           /\ \A k \in 1..Len(p[i].args) : v[p[i].args[k]] \in Made(c, m)
<1>1. p \in Programs /\ i \in 1..(Len(p) - 1) /\ Laid(p, tg, c, v, i, m)
  BY DEF AtOperation
<1>2. Len(p) \in Nat /\ DOMAIN p = 1..Len(p) /\ i \in DOMAIN p
  <2>1. Len(p) \in Nat /\ DOMAIN p = 1..Len(p)
    BY <1>1, ProgramFacts
  <2> QED BY <1>1, <2>1
<1>3. /\ p[i].args \in Seq(DOMAIN p)
      /\ \A k \in 1..Len(p[i].args) : p[i].args[k] \in 1..(i - 1) /\ p[p[i].args[k]].kind \notin Sinks
  BY <1>1, <1>2, ProgramFacts
<1>4. \A o \in 1..(i - 1) : p[o].kind \notin Sinks => v[o] \in Made(c, m)
  BY <1>1 DEF Laid
<1>5. Len(p[i].args) \in Nat /\ DOMAIN p[i].args = 1..Len(p[i].args)
  BY <1>3
<1> QED BY <1>3, <1>4, <1>5

(* A pattern that puts items in the place of the operation.                *)
LEMMA InPlaceLaid ==
    ASSUME NEW p, NEW tg, NEW c, NEW v, NEW i, NEW m, AtOperation(p, tg, c, v, i, m),
           NEW w \in DOMAIN p, NEW S, NEW items \in Seq(S),
           Fits(items, c, m, IF tg = "affine" THEN {} ELSE {i}),
           p[i].kind \notin Sinks => w \in Made(c, m) \cup Made(items, Len(items))
    PROVE  PastOperation(p, tg, ReplaceOp(c, i, items), v, w, i)
<1> DEFINE r == ReplaceOp(c, i, items)
           V == DOMAIN p
           L == Len(items)
           q == m + L
<1>1. /\ p \in Programs /\ i \in 1..(Len(p) - 1) /\ m \in Nat
      /\ IsSeq(c) /\ c[Len(c)] = Toy(Len(p))
      /\ v \in Seq(V) /\ Len(v) = i - 1 /\ Laid(p, tg, c, v, i, m)
  BY DEF AtOperation
<1>2. Len(p) \in Nat /\ L \in Nat
  BY <1>1, ProgramFacts
<1> HIDE DEF V
<1>3. m + 1 \in 1..Len(c) /\ c[m + 1] = Toy(i) /\ \A k \in 1..Len(c) : k # m + 1 => c[k] # Toy(i)
  BY <1>1, <1>2, ToyIsNext, SMTT(30)
<1>4. Replaced(r, c, m, items)
  <2>1. IsSeq(c) /\ m \in Nat
    BY <1>1
  <2> QED BY <1>3, <2>1, ReplacedNext
<1>5. w \in V
  BY DEF V
<1> HIDE DEF r
<1>6. Laid(p, tg, r, Append(v, w), i + 1, m + L)
  <2> HIDE DEF L
  <2>1. Len(items) \in Nat
    BY <1>2 DEF L
  <2>2. Laid(p, tg, r, Append(v, w), i + 1, m + Len(items))
    BY <1>1, <1>2, <1>4, <1>5, <2>1, LaidReplaced
  <2> QED BY <2>2 DEF L
<1>7. q \in Nat
  BY <1>1, <1>2
<1>8. Laid(p, tg, r, Append(v, w), i + 1, q)
  BY <1>6
<1> HIDE DEF q
<1> QED BY <1>7, <1>8 DEF PastOperation, r

(* A pattern that makes one item, between the alloc and the dealloc of the *)
(* result.                                                                 *)
LEMMA IntoBufferLaid ==
    ASSUME NEW p, NEW tg, NEW c, NEW v, NEW i, NEW m, AtOperation(p, tg, c, v, i, m),
           NEW x, x.op \notin {"toy", "dealloc", "return"}, Needs(x) \subseteq Made(c, m) \cup {i}, Makes(x) = {}
    PROVE  PastOperation(p, tg, IntoBuffer(p, i, c, x), v, i, i)
<1> DEFINE items == << x >>
           r == ReplaceOp(c, i, items)
           s == p[i].type
           d == InsertAllocAndDealloc(r, i, s)
           V == DOMAIN p
           X == Range(r) \cup {Alloc(i, s), Dealloc(i)}
           q == m + 2
<1>1. /\ p \in Programs /\ i \in 1..(Len(p) - 1) /\ m \in Nat
      /\ IsSeq(c) /\ Len(c) > 0 /\ c[Len(c)] = Toy(Len(p))
      /\ v \in Seq(V) /\ Len(v) = i - 1 /\ Laid(p, tg, c, v, i, m)
  BY DEF AtOperation
<1>2. Len(p) \in Nat /\ i \in V
  <2>1. Len(p) \in Nat /\ DOMAIN p = 1..Len(p)
    BY <1>1, ProgramFacts
  <2> QED BY <1>1, <2>1
<1> HIDE DEF V
<1>3. m + 1 \in 1..Len(c) /\ c[m + 1] = Toy(i) /\ \A k \in 1..Len(c) : k # m + 1 => c[k] # Toy(i)
  BY <1>1, <1>2, ToyIsNext, SMTT(30)
<1>4. items \in Seq({x}) /\ Len(items) = 1
  OBVIOUS
<1> HIDE DEF items
<1>5. Replaced(r, c, m, items)
  BY <1>1, <1>3, <1>4, ReplacedNext
<1>6. IsSeq(r) /\ Len(r) > 0
  <2>1. IsSeq(r)
    <3> DEFINE R == Range(c)
               Y == R \cup {x}
    <3>1. c \in Seq(R)
      BY <1>1 DEF IsSeq
    <3> HIDE DEF R
    <3>2. c \in Seq(Y) /\ items \in Seq(Y)
      BY <1>4, <3>1, SeqMonotonic
    <3> HIDE DEF Y
    <3>3. r \in Seq(Y)
      BY <1>1, <3>2, ReplaceOpIn
    <3> HIDE DEF r
    <3> QED BY <3>3, SeqIsSeq
  <2>2. Len(r) = (Len(c) - 1) + 1 /\ Len(c) \in Nat
    BY <1>1, <1>4, <1>5, SeqFacts DEF Replaced
  <2> HIDE DEF r
  <2> QED BY <1>1, <2>1, <2>2
<1>7. Surrounded(d, r, i, s)
  <2>1. r \in Seq(X) /\ Alloc(i, s) \in X /\ Dealloc(i) \in X
    <3> DEFINE R == Range(r)
    <3>1. r \in Seq(R)
      BY <1>6 DEF IsSeq
    <3> HIDE DEF R
    <3>2. r \in Seq(R \cup {Alloc(i, s), Dealloc(i)})
      BY <3>1, SeqMonotonic
    <3> QED BY <3>2 DEF R
  <2> HIDE DEF X, r
  <2> QED BY <1>6, <2>1, InsertAround DEF Surrounded
<1> HIDE DEF r, s, d
<1>8. Laid(p, tg, d, Append(v, i), i + 1, m + 2)
  <2>1. Replaced(r, c, m, << x >>)
    BY <1>5 DEF items
  <2> QED BY <1>1, <1>2, <1>7, <2>1, LaidAround
<1>9. q \in Nat
  BY <1>1
<1>10. IntoBuffer(p, i, c, x) = d
  BY DEF IntoBuffer, d, r, s, items
<1>11. Laid(p, tg, d, Append(v, i), i + 1, q)
  BY <1>8
<1> HIDE DEF q
<1> QED BY <1>9, <1>10, <1>11 DEF PastOperation

(* A pattern that makes the result and items that fill it.                 *)
LEMMA IntoEmptyLaid ==
    ASSUME NEW p, NEW c, NEW v, NEW i, NEW m, AtOperation(p, "linalg", c, v, i, m),
           NEW S, NEW items \in Seq(S),
           \A x \in S : /\ x.op \notin {"toy", "dealloc", "return"} /\ Makes(x) = {}
                        /\ Needs(x) \subseteq Made(c, m) \cup {i}
    PROVE  PastOperation(p, "linalg", IntoEmpty(p, i, c, items), v, i, i)
<1> DEFINE A == Alloc(i, p[i].type)
           L == Len(items)
           all == << A >> \o items
           X == {A} \cup S
<1>1. L \in Nat /\ \A j \in 1..L : items[j] \in S
  OBVIOUS
<1>2. all \in Seq(X) /\ Len(all) = L + 1 /\ all[1] = A /\ \A j \in 2..(L + 1) : all[j] \in S
  <2> HIDE DEF A
  <2>1. << A >> \in Seq(X) /\ items \in Seq(X) /\ Len(<< A >>) = 1 /\ << A >>[1] = A
    OBVIOUS
  <2> DEFINE a == << A >>
  <2> HIDE DEF a, X
  <2>2. /\ a \o items \in Seq(X) /\ Len(a \o items) = 1 + L
        /\ \A j \in 1..(1 + L) : (a \o items)[j] = IF j <= 1 THEN a[j] ELSE items[j - 1]
    BY <2>1, ConcatProperties DEF a
  <2>3. 1 \in 1..(1 + L) /\ 1 + L = L + 1
    BY <1>1
  <2>4. \A j \in 2..(L + 1) : j \in 1..(1 + L) /\ ~ (j <= 1) /\ j - 1 \in 1..L
    BY <1>1
  <2> QED BY <1>1, <2>1, <2>2, <2>3, <2>4 DEF a
<1>3. Makes(A) = {i} /\ Needs(A) = {} /\ A.op = "alloc"
  BY DEF Makes, Needs, Alloc
<1> HIDE DEF A, all, L
<1>4. \A k \in 1..(L + 1) : Makes(all[k]) = IF k = 1 THEN {i} ELSE {}
  <2> SUFFICES ASSUME NEW k \in 1..(L + 1) PROVE Makes(all[k]) = IF k = 1 THEN {i} ELSE {}
    OBVIOUS
  <2>1. k = 1 \/ k \in 2..(L + 1)
    BY <1>1
  <2> QED BY <1>2, <1>3, <2>1
<1>5. \A k \in 1..(L + 1) : Made(all, k) = {i}
  <2> SUFFICES ASSUME NEW k \in 1..(L + 1) PROVE Made(all, k) = {i}
    OBVIOUS
  <2>1. 1 \in 1..k /\ \A j \in 1..k : j \in 1..(L + 1)
    BY <1>1
  <2> QED BY <1>4, <2>1 DEF Made
<1>6. Fits(all, c, m, {i})
  <2>1. ASSUME NEW j \in 1..(L + 1)
        PROVE  /\ all[j].op \notin {"toy", "dealloc", "return"}
               /\ Needs(all[j]) \subseteq Made(c, m) \cup Made(all, j - 1)
    <3>1. CASE j = 1
      BY <1>2, <1>3, <3>1
    <3>2. CASE j # 1
      <4>1. j \in 2..(L + 1) /\ j - 1 \in 1..(L + 1)
        BY <1>1, <3>2
      <4> QED BY <1>2, <1>5, <4>1
    <3> QED BY <3>1, <3>2
  <2>2. L + 1 \in 1..(L + 1)
    BY <1>1
  <2> QED BY <1>2, <1>5, <2>1, <2>2 DEF Fits
<1>7. i \in DOMAIN p /\ i \in Made(c, m) \cup Made(all, Len(all))
  <2>1. p \in Programs /\ i \in 1..(Len(p) - 1)
    BY DEF AtOperation
  <2>2. Len(p) \in Nat /\ DOMAIN p = 1..Len(p)
    BY <2>1, ProgramFacts
  <2>3. L + 1 \in 1..(L + 1)
    BY <1>1
  <2> QED BY <1>2, <1>5, <2>1, <2>2, <2>3
<1>8. Fits(all, c, m, IF "linalg" = "affine" THEN {} ELSE {i})
  BY <1>6
<1>9. PastOperation(p, "linalg", ReplaceOp(c, i, all), v, i, i)
  <2> DEFINE tg == "linalg"
  <2>1. /\ AtOperation(p, tg, c, v, i, m)
        /\ Fits(all, c, m, IF tg = "affine" THEN {} ELSE {i})
    BY <1>8
  <2> HIDE DEF tg, X
  <2>2. PastOperation(p, tg, ReplaceOp(c, i, all), v, i, i)
    BY <1>2, <1>7, <2>1, InPlaceLaid
  <2> QED BY <2>2 DEF tg
<1> QED BY <1>9 DEF IntoEmpty, all, A

(* The buffers a pattern finds its operands in.                            *)
Operands(p, v, i) == [k \in DOMAIN p[i].args |-> v[p[i].args[k]]]

(* They have been made by then.                                          *)
LEMMA OperandsAreThere ==
    ASSUME NEW p, NEW tg, NEW c, NEW v, NEW i, NEW m, AtOperation(p, tg, c, v, i, m)
    PROVE  /\ Range(Operands(p, v, i)) \subseteq Made(c, m)
           /\ p[i].kind \in {"print", "reshape", "cast"} => Operands(p, v, i)[1] = v[p[i].args[1]]
                                                    /\ v[p[i].args[1]] \in Made(c, m)
<1>1. /\ Len(p[i].args) \in Nat /\ DOMAIN p[i].args = 1..Len(p[i].args)
      /\ \A k \in 1..Len(p[i].args) : v[p[i].args[k]] \in Made(c, m)
  BY OperandsAreMade
<1>2. Range(Operands(p, v, i)) \subseteq Made(c, m)
  BY <1>1 DEF Range, Operands
<1>3. ASSUME p[i].kind \in {"print", "reshape", "cast"} PROVE 1 \in DOMAIN p[i].args
  <2>1. p \in Programs /\ i \in 1..(Len(p) - 1)
    BY DEF AtOperation
  <2>2. i \in DOMAIN p
    <3>1. Len(p) \in Nat /\ DOMAIN p = 1..Len(p)
      BY <2>1, ProgramFacts
    <3> QED BY <2>1, <3>1
  <2>3. Len(p[i].args) = 1
    BY <1>3, <2>1, <2>2, OperandFacts
  <2> QED BY <1>1, <2>3
<1> QED BY <1>1, <1>2, <1>3 DEF Operands

(* What an item needs and makes, kind by kind.                             *)
LEMMA NestNeeds ==
    ASSUME NEW b, NEW s, NEW k, NEW args, NEW a, NEW d, NEW z
    PROVE  LET x == Nest(b, s, k, args, a, d, z)
           IN  Needs(x) = {b} \cup Range(args) /\ Makes(x) = {} /\ x.op = "nest"
  BY DEF Needs, Makes, Nest

(* The stores of a literal.                                              *)
LEMMA StoreNeeds ==
    ASSUME NEW b, NEW ixs, NEW terms
    PROVE  LET x == Store(b, ixs, terms) IN Needs(x) = {b} /\ Makes(x) = {} /\ x.op = "store"
  BY DEF Needs, Makes, Store

(* A fill.                                                               *)
LEMMA FillNeeds ==
    ASSUME NEW b
    PROVE  Needs(Fill(b)) = {b} /\ Makes(Fill(b)) = {} /\ Fill(b).op = "fill"
  BY DEF Needs, Makes, Fill

(* A print.                                                              *)
LEMMA PrintNeeds ==
    ASSUME NEW b, NEW s
    PROVE  LET x == PrintCall(b, s) IN Needs(x) = {b} /\ Makes(x) = {} /\ x.op = "print"
  BY DEF Needs, Makes, PrintCall

(* A view, which makes its buffer of another one.                        *)
LEMMA ViewNeeds ==
    ASSUME NEW b, NEW s, NEW a
    PROVE  LET x == View(b, s, a) IN Needs(x) = {a} /\ Makes(x) = {b} /\ x.op = "view"
<1>1. Range(<< a >>) = {a}
  <2>1. DOMAIN << a >> = {1} /\ << a >>[1] = a
    OBVIOUS
  <2> QED BY <2>1 DEF Range
<1> QED BY <1>1 DEF Needs, Makes, View

(* One item in place that makes nothing.                                   *)
LEMMA OneItemLaid ==
    ASSUME NEW p, NEW tg, NEW c, NEW v, NEW i, NEW m, AtOperation(p, tg, c, v, i, m),
           p[i].kind \in Sinks, NEW x, x.op \notin {"toy", "dealloc", "return"}, Makes(x) = {},
           Needs(x) \subseteq Made(c, m)
    PROVE  PastOperation(p, tg, ReplaceOp(c, i, << x >>), v, i, i)
<1> DEFINE items == << x >>
<1>1. items \in Seq({x}) /\ Len(items) = 1 /\ items[1] = x
  OBVIOUS
<1> HIDE DEF items
<1>2. Made(items, 1) = {}
  <2>1. \A k \in 1..1 : k = 1
    OBVIOUS
  <2> QED BY <1>1, <2>1 DEF Made
<1>3. ASSUME NEW S PROVE Fits(items, c, m, S)
  <2>1. \A k \in 1..1 : k = 1
    OBVIOUS
  <2> QED BY <1>1, <1>2, <2>1 DEF Fits
<1>4. i \in DOMAIN p
  <2>1. p \in Programs /\ i \in 1..(Len(p) - 1)
    BY DEF AtOperation
  <2>2. Len(p) \in Nat /\ DOMAIN p = 1..Len(p)
    BY <2>1, ProgramFacts
  <2> QED BY <2>1, <2>2
<1> HIDE DEF items
<1>5. PastOperation(p, tg, ReplaceOp(c, i, items), v, i, i)
  BY <1>1, <1>3, <1>4, InPlaceLaid
<1> QED BY <1>5 DEF items

(* The operation leaves nothing behind; the buffer of its operand stands   *)
(* for its result.                                                         *)
LEMMA NoItemLaid ==
    ASSUME NEW p, NEW tg, NEW c, NEW v, NEW i, NEW m, AtOperation(p, tg, c, v, i, m),
           NEW w \in DOMAIN p, w \in Made(c, m)
    PROVE  PastOperation(p, tg, ReplaceOp(c, i, << >>), v, w, i)
<1> DEFINE items == << >>
<1>1. items \in Seq({}) /\ Len(items) = 0 /\ 1..0 = {}
  OBVIOUS
<1> HIDE DEF items
<1>2. \A S : Fits(items, c, m, S)
  BY <1>1 DEF Fits, Made
<1>3. PastOperation(p, tg, ReplaceOp(c, i, items), v, w, i)
  BY <1>1, <1>2, InPlaceLaid
<1> QED BY <1>3 DEF items

(* The affine patterns.                                                    *)
LEMMA AffineLaid ==
    ASSUME NEW p, NEW c, NEW v, NEW i, NEW m, AtOperation(p, "affine", c, v, i, m),
           p[i].kind \in Kinds \ {"arg", "cast", "generic_call", "return"}
    PROVE  PastOperation(p, "affine", AffineLowered(p, i, Operands(p, v, i), c),
                         v, IF p[i].kind = "reshape" THEN v[p[i].args[1]] ELSE i, i)
<1> DEFINE kind == p[i].kind
           args == Operands(p, v, i)
           r == AffineLowered(p, i, args, c)
<1>1. /\ Range(args) \subseteq Made(c, m)
      /\ kind \in {"print", "reshape"} => args[1] = v[p[i].args[1]] /\ args[1] \in Made(c, m)
  BY OperandsAreThere
<1> HIDE DEF args
<1>2. ASSUME NEW x, x.op \notin {"toy", "dealloc", "return"}, Needs(x) \subseteq Made(c, m) \cup {i}, Makes(x) = {},
             r = IntoBuffer(p, i, c, x)
      PROVE  PastOperation(p, "affine", r, v, i, i)
  <2> HIDE DEF r
  <2> QED BY <1>2, IntoBufferLaid
<1>3. CASE kind \in Elementwise
  <2>1. r = IntoBuffer(p, i, c, Nest(i, p[i].type, kind, args, << "same", "same" >>, 1, FALSE))
    BY <1>3 DEF AffineLowered, AffineBinaryOpLowering, Elementwise
  <2>2. kind # "reshape"
    BY <1>3 DEF Elementwise
  <2> HIDE DEF r
  <2>3. PastOperation(p, "affine", r, v, i, i)
    BY <1>1, <1>2, <2>1, NestNeeds
  <2> QED BY <2>2, <2>3 DEF r, args
<1>4. CASE kind = "transpose"
  <2>1. r = IntoBuffer(p, i, c, Nest(i, p[i].type, "transpose", args, << "swapped" >>, 1, FALSE))
    BY <1>4 DEF AffineLowered, AffineTransposeOpLowering, Elementwise
  <2> HIDE DEF r
  <2>2. PastOperation(p, "affine", r, v, i, i)
    BY <1>1, <1>2, <2>1, NestNeeds
  <2> QED BY <1>4, <2>2 DEF r, args
<1>5. CASE kind = "matrix_mul"
  <2>1. r = IntoBuffer(p, i, c,
              Nest(i, p[i].type, "matrix_mul", args, << "lhs", "rhs" >>, Last(p[p[i].args[1]].type), TRUE))
    BY <1>5 DEF AffineLowered, AffineMatrixMulOpLowering, Elementwise
  <2> HIDE DEF r
  <2>2. PastOperation(p, "affine", r, v, i, i)
    BY <1>1, <1>2, <2>1, NestNeeds
  <2> QED BY <1>5, <2>2 DEF r, args
<1>6. CASE kind = "constant"
  <2> DEFINE ixs == LoopOrder(p[i].type)
             terms == [k \in DOMAIN ixs |-> << "lit", p[i].data, k >>]
  <2>1. r = IntoBuffer(p, i, c, Store(i, ixs, terms))
    BY <1>6 DEF AffineLowered, AffineConstantOpLowering, Elementwise
  <2> HIDE DEF r, ixs, terms
  <2>2. PastOperation(p, "affine", r, v, i, i)
    BY <1>2, <2>1, StoreNeeds
  <2> QED BY <1>6, <2>2 DEF r, args
<1>7. CASE kind = "print"
  <2> DEFINE x == PrintCall(args[1], p[p[i].args[1]].type)
  <2>1. r = ReplaceOp(c, i, << x >>)
    BY <1>7 DEF AffineLowered, AffinePrintOpLowering, Elementwise
  <2>2. Needs(x) \subseteq Made(c, m) /\ Makes(x) = {} /\ x.op = "print"
    BY <1>1, <1>7, PrintNeeds
  <2>3. kind \in Sinks
    BY <1>7 DEF Sinks
  <2> HIDE DEF r, x
  <2>4. PastOperation(p, "affine", r, v, i, i)
    BY <2>1, <2>2, <2>3, OneItemLaid
  <2> QED BY <1>7, <2>4 DEF r, args
<1>8. CASE kind = "reshape"
  <2>1. r = ReplaceOp(c, i, << >>)
    BY <1>8 DEF AffineLowered, AffineReshapeOpLowering, Elementwise
  <2>2. v[p[i].args[1]] \in Made(c, m)
    BY <1>1, <1>8
  <2>3. Made(c, m) \subseteq DOMAIN p
    <3>1. p \in Programs /\ i \in 1..(Len(p) - 1) /\ Laid(p, "affine", c, v, i, m)
      BY DEF AtOperation
    <3>2. Len(p) \in Nat /\ DOMAIN p = 1..Len(p)
      BY <3>1, ProgramFacts
    <3>3. Made(c, m) \subseteq 1..(i - 1)
      BY <3>1 DEF Laid
    <3> QED BY <3>1, <3>2, <3>3
  <2> HIDE DEF r
  <2>4. PastOperation(p, "affine", r, v, v[p[i].args[1]], i)
    BY <2>1, <2>2, <2>3, NoItemLaid
  <2> QED BY <1>8, <2>4 DEF r, args
<1> QED BY <1>3, <1>4, <1>5, <1>6, <1>7, <1>8 DEF Kinds, Sinks

(* The linalg patterns.                                                    *)
LEMMA LinalgLaid ==
    ASSUME NEW p, NEW c, NEW v, NEW i, NEW m, AtOperation(p, "linalg", c, v, i, m),
           p[i].kind \in Kinds \ {"arg", "cast", "generic_call", "return"}
    PROVE  PastOperation(p, "linalg", LinalgLowered(p, i, Operands(p, v, i), c), v, i, i)
<1> DEFINE kind == p[i].kind
           args == Operands(p, v, i)
           r == LinalgLowered(p, i, args, c)
<1>1. /\ Range(args) \subseteq Made(c, m)
      /\ kind \in {"print", "reshape"} => args[1] = v[p[i].args[1]] /\ args[1] \in Made(c, m)
  BY OperandsAreThere
<1> HIDE DEF args
<1> SUFFICES PastOperation(p, "linalg", r, v, i, i)
  BY DEF args
<1>2. ASSUME NEW x, x.op \notin {"toy", "dealloc", "return"}, Needs(x) \subseteq Made(c, m) \cup {i}, Makes(x) = {},
             r = IntoEmpty(p, i, c, << x >>)
      PROVE  PastOperation(p, "linalg", r, v, i, i)
  <2> DEFINE items == << x >>
  <2>1. items \in Seq({x})
    OBVIOUS
  <2> HIDE DEF r, items
  <2>2. PastOperation(p, "linalg", IntoEmpty(p, i, c, items), v, i, i)
    BY <1>2, <2>1, IntoEmptyLaid
  <2> QED BY <1>2, <2>2 DEF items
<1>3. CASE kind \in Elementwise
  <2>1. r = IntoEmpty(p, i, c, << Nest(i, p[i].type, kind, args, << "same", "same" >>, 1, FALSE) >>)
    BY <1>3 DEF LinalgLowered, LowerElementwiseToLinalg, Elementwise
  <2> HIDE DEF r
  <2> QED BY <1>1, <1>2, <2>1, NestNeeds
<1>4. CASE kind = "transpose"
  <2> DEFINE access == IF Len(p[i].type) > 1 THEN "swapped" ELSE "same"
  <2>1. r = IntoEmpty(p, i, c, << Nest(i, p[i].type, "transpose", args, << access >>, 1, FALSE) >>)
    BY <1>4 DEF LinalgLowered, LinalgTransposeOpLowering, Elementwise
  <2> HIDE DEF r, access
  <2> QED BY <1>1, <1>2, <2>1, NestNeeds
<1>5. CASE kind = "matrix_mul"
  <2> DEFINE F == Fill(i)
             N == Nest(i, p[i].type, "matrix_mul", args, << "lhs", "rhs" >>, Last(p[p[i].args[1]].type), FALSE)
             items == << F, N >>
  <2>1. r = IntoEmpty(p, i, c, items)
    BY <1>5 DEF LinalgLowered, LinalgMatrixMulOpLowering, Elementwise
  <2>2. \A x \in {F, N} : /\ x.op \notin {"toy", "dealloc", "return"} /\ Makes(x) = {}
                          /\ Needs(x) \subseteq Made(c, m) \cup {i}
    <3>1. Needs(F) = {i} /\ Makes(F) = {} /\ F.op = "fill"
      BY FillNeeds
    <3>2. Needs(N) = {i} \cup Range(args) /\ Makes(N) = {} /\ N.op = "nest"
      BY DEF Needs, Makes, Nest
    <3> HIDE DEF F, N
    <3> QED BY <1>1, <3>1, <3>2
  <2> HIDE DEF r, F, N
  <2>3. items \in Seq({F, N})
    OBVIOUS
  <2> HIDE DEF items
  <2> QED BY <2>1, <2>2, <2>3, IntoEmptyLaid
<1>6. CASE kind = "constant"
  <2> DEFINE ixs == LoopOrder(p[i].type)
             terms == [k \in 1..NumElements(p[i].type) |-> << "lit", p[i].data, k >>]
  <2>1. r = IntoEmpty(p, i, c, << Store(i, ixs, terms) >>)
    BY <1>6 DEF LinalgLowered, LinalgConstantOpLowering, Elementwise
  <2> HIDE DEF r, ixs, terms
  <2> QED BY <1>2, <2>1, StoreNeeds
<1>7. CASE kind = "print"
  <2> DEFINE x == PrintCall(args[1], p[p[i].args[1]].type)
  <2>1. r = ReplaceOp(c, i, << x >>)
    BY <1>7 DEF LinalgLowered, LinalgPrintOpLowering, Elementwise
  <2>2. Needs(x) \subseteq Made(c, m) /\ Makes(x) = {} /\ x.op = "print"
    BY <1>1, <1>7, PrintNeeds
  <2>3. kind \in Sinks
    BY <1>7 DEF Sinks
  <2> HIDE DEF r, x
  <2> QED BY <2>1, <2>2, <2>3, OneItemLaid
<1>8. CASE kind = "reshape"
  <2> DEFINE x == View(i, p[i].type, args[1])
             items == << x >>
  <2>1. r = ReplaceOp(c, i, items)
    BY <1>8 DEF LinalgLowered, LinalgReshapeOpLowering, Elementwise
  <2>2. Needs(x) \subseteq Made(c, m) /\ Makes(x) = {i} /\ x.op = "view"
    BY <1>1, <1>8, ViewNeeds
  <2> HIDE DEF r, x
  <2>3. items \in Seq({x}) /\ Len(items) = 1 /\ items[1] = x
    OBVIOUS
  <2> HIDE DEF items
  <2>4. Made(items, 1) = {i}
    <3>1. \A k \in 1..1 : k = 1
      OBVIOUS
    <3> QED BY <2>2, <2>3, <3>1 DEF Made
  <2>5. Fits(items, c, m, {i})
    <3>1. \A k \in 1..1 : k = 1
      OBVIOUS
    <3> QED BY <2>2, <2>3, <2>4, <3>1 DEF Fits
  <2>6. i \in DOMAIN p
    <3>1. p \in Programs /\ i \in 1..(Len(p) - 1)
      BY DEF AtOperation
    <3>2. Len(p) \in Nat /\ DOMAIN p = 1..Len(p)
      BY <3>1, ProgramFacts
    <3> QED BY <3>1, <3>2
  <2> DEFINE tg == "linalg"
  <2>7. AtOperation(p, tg, c, v, i, m) /\ Fits(items, c, m, IF tg = "affine" THEN {} ELSE {i})
    BY <2>5
  <2> HIDE DEF tg
  <2>8. PastOperation(p, tg, ReplaceOp(c, i, items), v, i, i)
    BY <2>3, <2>4, <2>6, <2>7, InPlaceLaid
  <2> QED BY <2>1, <2>8 DEF tg
<1> QED BY <1>3, <1>4, <1>5, <1>6, <1>7, <1>8 DEF Kinds, Sinks

-----------------------------------------------------------------------------
(* The steps.                                                              *)

(* Nothing is made yet.                                                    *)
LEMMA NothingLive ==
    ASSUME NEW c
    PROVE  Live(c, 0) = {} /\ Made(c, 0) = {}
<1>1. 1..0 = {}
  OBVIOUS
<1> QED BY <1>1 DEF Live, Made

(* At first there are operations only.                                   *)
LEMMA InitBuf == Init => BufInv
<1> SUFFICES ASSUME Init PROVE BufInv
  OBVIOUS
<1> DEFINE n == Len(prog)
<1>1. n \in Nat \ {0} /\ DOMAIN prog = 1..n
  BY ProgramFacts DEF Init
<1>2. pc = "function" /\ next = 1 /\ value = << >> /\ mem = << >>
  BY DEF Init
<1>3. code = [o \in 1..n |-> Toy(o)]
  BY <1>1 DEF Init
<1> HIDE DEF n
<1>4. Len(code) = n /\ \A k \in 1..n : code[k] = Toy(k)
  BY <1>1, <1>3
<1>5. Left(prog, 1) = n - 1
  BY <1>1 DEF Left, n
<1>6. \A k \in 1..(n - 1) : code[0 + k] = Toy(1 + (k - 1))
  <2> SUFFICES ASSUME NEW k \in 1..(n - 1) PROVE code[0 + k] = Toy(1 + (k - 1))
    OBVIOUS
  <2>1. 0 + k = k /\ 1 + (k - 1) = k /\ k \in 1..n
    BY <1>1
  <2> QED BY <1>4, <2>1
<1>7. 0 + (n - 1) + 1 <= n /\ (0 + (n - 1) + 1)..(n - 1) = {} /\ 1..0 = {} /\ 1..(1 - 1) = {} /\ 0 \in Nat
  BY <1>1
<1>8. Laid(prog, target, code, value, 1, 0)
  BY <1>4, <1>5, <1>6, <1>7, NothingLive DEF Laid
<1>9. mem = [b \in DOMAIN mem |-> mem[b]] /\ DOMAIN mem = {}
  BY <1>2
<1> QED BY <1>2, <1>7, <1>8, <1>9 DEF BufInv, Produced

(* Steps that leave code and memory alone.                                 *)
LEMMA QuietBuf ==
    ASSUME BufInv, UNCHANGED << prog, target, next, code, value, mem >>,
           \/ pc' = pc
           \/ pc = "function" /\ pc' = "convert"
           \/ pc' \in {"refused", "aborted"}
    PROVE  BufInv'
<1>1. mem' = [b \in DOMAIN mem' |-> mem'[b]]
  BY DEF BufInv
<1>2. CASE pc' = pc
  BY <1>2 DEF BufInv
<1>3. CASE pc = "function" /\ pc' = "convert"
  BY <1>1, <1>3 DEF BufInv, Produced
<1>4. CASE pc' \in {"refused", "aborted"}
  BY <1>1, <1>4 DEF BufInv, Produced
<1> QED BY <1>2, <1>3, <1>4

(* An operation is converted.                                              *)
LEMMA IsAtOperation ==
    ASSUME IInv, Converting, prog[next].kind # "return", NEW m \in Nat,
           Laid(prog, target, code, value, next, m)
    PROVE  AtOperation(prog, target, code, value, next, m)
<1>1. prog \in Programs /\ next \in DOMAIN prog /\ pc = "convert" /\ next \in Nat
  BY DEF IInv, ProgOK, Converting, WalkOK
<1>2. DOMAIN prog = 1..Len(prog) /\ Len(prog) \in Nat /\ next # Len(prog)
  BY <1>1, ProgramFacts
<1>3. next \in 1..(Len(prog) - 1)
  BY <1>1, <1>2
<1>4. IsSeq(code) /\ Len(code) > 0 /\ value \in Seq(DOMAIN prog) /\ Len(value) = next - 1
  BY <1>1 DEF IInv, CodeOK, DataOK, WalkOK
<1>5. code[Len(code)] = Toy(Len(prog))
  <2>1. next <= Len(prog)
    BY <1>1, <1>2
  <2> QED BY <1>1, <2>1 DEF IInv, EndOK
<1> QED BY <1>1, <1>3, <1>4, <1>5 DEF AtOperation

(* Behind it the block is laid out for the next one.                     *)
LEMMA AdvanceBuf ==
    ASSUME BufInv, UNCHANGED << prog, target, pc, mem >>, pc = "convert", next' = next + 1,
           NEW w, value' = Append(value, w), PastOperation(prog, target, code', value, w, next)
    PROVE  BufInv'
<1>1. \E m \in Nat : Laid(prog, target, code', value', next', m)
  BY DEF PastOperation
<1>2. (mem = [b \in DOMAIN mem |-> mem[b]])' /\ DOMAIN mem = {}
  BY DEF BufInv
<1> QED BY <1>1, <1>2 DEF BufInv, Produced

(* A cast is dropped, its operand stands for it.                         *)
LEMMA FoldCastBuf == IInv /\ BufInv /\ FoldCast => BufInv'
<1> SUFFICES ASSUME IInv, BufInv, FoldCast PROVE BufInv'
  OBVIOUS
<1> DEFINE w == value[prog[next].args[1]]
<1>1. Converting /\ pc = "convert" /\ prog[next].kind = "cast" /\ prog \in Programs /\ next \in DOMAIN prog
  BY DEF FoldCast, FoldsAway, IInv, ProgOK, Converting
<1>2. PICK m \in Nat : Laid(prog, target, code, value, next, m)
  BY <1>1 DEF BufInv
<1>3. AtOperation(prog, target, code, value, next, m)
  BY <1>1, <1>2, IsAtOperation
<1>4. w \in DOMAIN prog
  <2>1. Len(prog[next].args) = 1
    BY <1>1, OperandFacts
  <2> QED BY <1>1, <2>1, OperandValue
<1>5. w \in Made(code, m)
  BY <1>1, <1>3, OperandsAreThere
<1> HIDE DEF w
<1>6. PastOperation(prog, target, ReplaceOp(code, next, << >>), value, w, next)
  BY <1>3, <1>4, <1>5, NoItemLaid
<1>7. /\ UNCHANGED << prog, target, pc, mem >> /\ next' = next + 1
      /\ value' = Append(value, w) /\ code' = ReplaceOp(code, next, << >>)
  BY DEF FoldCast, w
<1> QED BY <1>1, <1>6, <1>7, AdvanceBuf

(* One pattern, or the return.                                           *)
LEMMA ConvertOpBuf == IInv /\ BufInv /\ ConvertOp => BufInv'
<1> SUFFICES ASSUME IInv, BufInv, ConvertOp PROVE BufInv'
  OBVIOUS
<1> DEFINE op == prog[next]
           w == IF target = "affine" /\ op.kind = "reshape" THEN value[op.args[1]] ELSE next
           args == Operands(prog, value, next)
<1>1. /\ Converting /\ pc = "convert" /\ Matches(next) /\ prog \in Programs /\ next \in DOMAIN prog
      /\ target \in {"affine", "linalg"}
  BY DEF ConvertOp, IInv, ProgOK, Converting
<1>2. PICK m \in Nat : Laid(prog, target, code, value, next, m)
  BY <1>1 DEF BufInv
<1>3. op.kind \in Kinds \ {"arg", "cast", "generic_call"}
  <2>1. op.kind \in Kinds /\ op.kind # "arg"
    BY <1>1, ProgramFacts DEF IInv, RefusalOK, MainOK
  <2>2. op.kind \notin {"cast", "generic_call"}
    BY <1>1 DEF Matches, AffineMatches, LinalgMatches
  <2> QED BY <2>1, <2>2
<1>4. /\ UNCHANGED << prog, target, pc, mem >> /\ next' = next + 1 /\ value' = Append(value, w)
      /\ code' = IF target = "affine" THEN AffineLowered(prog, next, args, code)
                                      ELSE LinalgLowered(prog, next, args, code)
  BY DEF ConvertOp, LoweredCodeOf, Operands
<1> HIDE DEF args, w
<1>5. CASE op.kind = "return"
  <2> DEFINE n == Len(prog)
             V == DOMAIN prog
  <2>1. next = n /\ n \in Nat \ {0} /\ prog[n].kind = "return"
    BY <1>1, <1>5, ProgramFacts
  <2>2. code' = ReplaceOp(code, next, << Return >>) /\ w = next
    BY <1>4, <1>5 DEF AffineLowered, LinalgLowered, AffineReturnOpLowering, LinalgReturnOpLowering, Elementwise, w
  <2>3. IsSeq(code) /\ value \in Seq(V) /\ Len(value) = next - 1
    BY <1>1 DEF IInv, CodeOK, DataOK, WalkOK
  <2>4. code[Len(code)] = Toy(n)
    <3>1. next <= n
      BY <2>1
    <3> QED BY <1>1, <3>1 DEF IInv, EndOK
  <2>5. next \in V
    BY <1>1
  <2> HIDE DEF n, V
  <2>6. Laid(prog, target, ReplaceOp(code, Len(prog), << Return >>), Append(value, next), Len(prog) + 1, m)
    BY <1>2, <2>1, <2>3, <2>4, <2>5, LaidReturn DEF n
  <2>7. PastOperation(prog, target, code', value, w, next)
    BY <2>1, <2>2, <2>6 DEF PastOperation, n
  <2> QED BY <1>1, <1>4, <2>7, AdvanceBuf
<1>6. CASE op.kind # "return"
  <2>1. AtOperation(prog, target, code, value, next, m)
    BY <1>1, <1>2, <1>6, IsAtOperation
  <2>2. PastOperation(prog, target, code', value, w, next)
    <3>1. CASE target = "affine"
      <4>1. code' = AffineLowered(prog, next, args, code)
        BY <1>4, <3>1
      <4>2. w = IF op.kind = "reshape" THEN value[op.args[1]] ELSE next
        BY <3>1 DEF w
      <4>3. AtOperation(prog, "affine", code, value, next, m)
        BY <2>1, <3>1
      <4>4. PastOperation(prog, "affine", AffineLowered(prog, next, Operands(prog, value, next), code),
                          value, IF op.kind = "reshape" THEN value[op.args[1]] ELSE next, next)
        BY <1>3, <1>6, <4>3, AffineLaid
      <4> QED BY <3>1, <4>1, <4>2, <4>4 DEF args
    <3>2. CASE target = "linalg"
      <4>1. code' = LinalgLowered(prog, next, args, code)
        BY <1>4, <3>2
      <4>2. w = next
        BY <3>2 DEF w
      <4>3. AtOperation(prog, "linalg", code, value, next, m)
        BY <2>1, <3>2
      <4>4. PastOperation(prog, "linalg", LinalgLowered(prog, next, Operands(prog, value, next), code),
                          value, next, next)
        BY <1>3, <1>6, <4>3, LinalgLaid
      <4> QED BY <3>2, <4>1, <4>2, <4>4 DEF args
    <3> QED BY <1>1, <3>1, <3>2
  <2> QED BY <1>1, <1>4, <2>2, AdvanceBuf
<1> QED BY <1>5, <1>6

(* The code is complete.                                                   *)
LEMMA VerifyBuf == IInv /\ BufInv /\ Verify => BufInv'
<1> SUFFICES ASSUME IInv, BufInv, Verify PROVE BufInv'
  OBVIOUS
<1> DEFINE n == Len(prog)
<1>1. /\ UNCHANGED << prog, target, code, value, mem >> /\ next' = 1 /\ pc = "convert" /\ next > n
      /\ pc' \in {"llvm", "run", "refused"}
  BY DEF Verify
<1>2. n \in Nat \ {0} /\ next \in Nat
  BY ProgramFacts DEF IInv, ProgOK, WalkOK
<1>3. ~ (next <= n)
  <2> HIDE DEF n
  <2> QED BY <1>1, <1>2
<1>4. Left(prog, next) = 0 /\ code[Len(code)] = Return /\ IsSeq(code)
  BY <1>1, <1>3 DEF Left, IInv, EndOK, CodeOK
<1>5. PICK m \in Nat : Laid(prog, target, code, value, next, m)
  BY <1>1 DEF BufInv
<1>6. Ordered(code) /\ (target = "affine" => Made(code, Len(code)) \subseteq Freed(code, Len(code)))
  BY <1>4, <1>5, LaidIsOrdered
<1>7. (mem = [b \in DOMAIN mem |-> mem[b]])' /\ DOMAIN mem' = {}
  BY <1>1 DEF BufInv
<1>8. Live(code, 1 - 1) = {}
  BY NothingLive
<1> QED BY <1>1, <1>6, <1>7, <1>8 DEF BufInv

(* A print and the printf in its place use the same buffer.                *)
LEMMA LowerPrintBuf == IInv /\ BufInv /\ LowerPrint => BufInv'
<1> SUFFICES ASSUME IInv, BufInv, LowerPrint PROVE BufInv'
  OBVIOUS
<1> DEFINE n == Len(code)
           new == Printf(code[next].buf, PrintLoops(code[next].shape))
<1>1. /\ UNCHANGED << prog, target, pc, value, mem >> /\ next' = next + 1
      /\ pc = "llvm" /\ next \in DOMAIN code /\ code[next].op = "print"
      /\ code' = [code EXCEPT ![next] = new]
  BY DEF LowerPrint, PrintfOpLowering
<1>2. n \in Nat /\ DOMAIN code = 1..n
  BY SeqFacts DEF IInv, CodeOK
<1>3. Needs(new) = Needs(code[next]) /\ Makes(new) = Makes(code[next]) /\ new.op = "printf"
  BY <1>1 DEF Needs, Makes, Printf
<1> HIDE DEF new, n
<1>4. Len(code') = n /\ \A k \in 1..n : code'[k] = IF k = next THEN new ELSE code[k]
  <2>1. DOMAIN code' = 1..n /\ \A k \in 1..n : code'[k] = IF k = next THEN new ELSE code[k]
    BY <1>1, <1>2
  <2>2. IsSeq(code)'
    BY LowerPrintInv DEF IInv, CodeOK
  <2>3. IsSeq(code')
    BY <2>2 DEF IsSeq
  <2>4. DOMAIN code' = 1..Len(code') /\ Len(code') \in Nat
    BY <2>3, SeqFacts
  <2> DEFINE N == Len(code')
  <2> HIDE DEF N
  <2>5. N = n
    BY <1>2, <2>1, <2>4 DEF N
  <2> QED BY <2>1, <2>5 DEF N
<1>5. \A k \in 1..Len(code) : /\ Needs(code'[k]) = Needs(code[k]) /\ Makes(code'[k]) = Makes(code[k])
                              /\ code'[k].op = "dealloc" <=> code[k].op = "dealloc"
                              /\ code[k].op = "dealloc" => code'[k].buf = code[k].buf
                              /\ code'[k].op = "return" <=> code[k].op = "return"
  BY <1>1, <1>3, <1>4 DEF n
<1>6. Len(code') = Len(code) /\ Len(code) \in Nat
  BY <1>2, <1>4 DEF n
<1>7. /\ Ordered(code) => Ordered(code')
      /\ Made(code, Len(code)) \subseteq Freed(code, Len(code)) =>
             Made(code', Len(code')) \subseteq Freed(code', Len(code'))
  BY <1>5, <1>6, OrderStays
<1>8. Ordered(code) /\ (target = "affine" => Made(code, Len(code)) \subseteq Freed(code, Len(code)))
  BY <1>1 DEF BufInv, Produced
<1>9. (mem = [b \in DOMAIN mem |-> mem[b]])' /\ DOMAIN mem' = {}
  BY <1>1 DEF BufInv
<1> QED BY <1>1, <1>7, <1>8, <1>9 DEF BufInv

(* The LLVM pass leaves the other items alone; then the code runs.       *)
LEMMA KeepItemBuf == IInv /\ BufInv /\ KeepItem => BufInv'
<1> SUFFICES ASSUME IInv, BufInv, KeepItem PROVE BufInv'
  OBVIOUS
<1>1. /\ UNCHANGED << prog, target, code, value, mem >> /\ pc = "llvm"
      /\ \/ pc' = "llvm"
         \/ next' = 1 /\ pc' = "run"
  BY DEF KeepItem
<1>2. /\ Ordered(code) /\ (target = "affine" => Made(code, Len(code)) \subseteq Freed(code, Len(code)))
      /\ DOMAIN mem = {} /\ (mem = [b \in DOMAIN mem |-> mem[b]])'
  BY <1>1 DEF BufInv, Produced
<1>3. Live(code, 1 - 1) = {}
  BY NothingLive
<1> QED BY <1>1, <1>2, <1>3 DEF BufInv

(* One item more: what is live behind it.                                  *)
LEMMA LiveStep ==
    ASSUME NEW c, Len(c) \in Nat, Ordered(c), NEW k \in 1..Len(c)
    PROVE  Live(c, k) = (Live(c, k - 1) \cup Makes(c[k])) \ (IF c[k].op = "dealloc" THEN {c[k].buf} ELSE {})
<1> DEFINE j == k - 1
<1>1. j \in Nat /\ j + 1 = k /\ k \in 1..k
  OBVIOUS
<1>2. \A q \in 1..Len(c) : /\ Needs(c[q]) \subseteq Live(c, q - 1)
                           /\ Makes(c[q]) \cap Freed(c, q - 1) = {}
  BY DEF Ordered
<1>3. Made(c, k) = Made(c, j) \cup Makes(c[k])
  <2> HIDE DEF j
  <2>1. Made(c, j + 1) = Made(c, j) \cup Makes(c[j + 1])
    BY <1>1, MadeFacts
  <2> QED BY <1>1, <2>1
<1>4. ASSUME NEW q \in 1..k, c[q].op = "dealloc" PROVE c[q].buf \in Made(c, j)
  <2>1. c[q].buf \in Made(c, q - 1)
    <3>1. Needs(c[q]) \subseteq Live(c, q - 1) /\ c[q].buf \in Needs(c[q])
      BY <1>2, <1>4 DEF Needs
    <3> QED BY <3>1 DEF Live
  <2>2. q - 1 \in 0..j
    OBVIOUS
  <2>3. Made(c, q - 1) \subseteq Made(c, j)
    <3> HIDE DEF j
    <3> QED BY <1>1, <2>2, MadeFacts
  <2> QED BY <2>1, <2>3
<1>5. 1..k = 1..j \cup {k} /\ k \notin 1..j
  OBVIOUS
<1> HIDE DEF j
<1>6. \A b : b \in Freed(c, k) <=> \E q \in 1..k : c[q].op = "dealloc" /\ c[q].buf = b
  BY <1>3, <1>4 DEF Freed
<1>7. \A b : b \in Freed(c, j) <=> \E q \in 1..j : c[q].op = "dealloc" /\ c[q].buf = b
  BY <1>4, <1>5 DEF Freed
<1>8. Freed(c, k) = Freed(c, j) \cup (IF c[k].op = "dealloc" THEN {c[k].buf} ELSE {})
  BY <1>5, <1>6, <1>7
<1>9. Makes(c[k]) \cap Freed(c, j) = {}
  BY <1>2 DEF j
<1>10. Live(c, k - 1) = Made(c, j) \ Freed(c, j)
  BY DEF Live, j
<1> QED BY <1>3, <1>8, <1>9, <1>10 DEF Live

(* Executing an item has that effect on memory.                            *)
LEMMA ExecLive ==
    ASSUME NEW mm, mm = [b \in DOMAIN mm |-> mm[b]], NEW x, Needs(x) \subseteq DOMAIN mm
    PROVE  /\ DOMAIN Exec(mm, x) = (DOMAIN mm \cup Makes(x)) \ (IF x.op = "dealloc" THEN {x.buf} ELSE {})
           /\ Exec(mm, x) = [b \in DOMAIN Exec(mm, x) |-> Exec(mm, x)[b]]
<1> DEFINE e == Exec(mm, x)
           IsFcn(f) == f = [b \in DOMAIN f |-> f[b]]
<1>1. \A b, t : IsFcn(Put(mm, b, t)) /\ DOMAIN Put(mm, b, t) = DOMAIN mm \cup {b}
  BY DEF Put
<1>2. CASE x.op \in {"alloc", "view"}
  <2>1. \E t : e = Put(mm, x.buf, t)
    BY <1>2 DEF Exec
  <2>2. Makes(x) = {x.buf} /\ x.op # "dealloc"
    BY <1>2 DEF Makes
  <2> HIDE DEF e
  <2>3. PICK t : e = Put(mm, x.buf, t)
    BY <2>1
  <2>4. IsFcn(Put(mm, x.buf, t)) /\ DOMAIN Put(mm, x.buf, t) = DOMAIN mm \cup {x.buf}
    BY <1>1
  <2>5. IsFcn(e) /\ DOMAIN e = (DOMAIN mm \cup Makes(x)) \ (IF x.op = "dealloc" THEN {x.buf} ELSE {})
    BY <2>2, <2>3, <2>4
  <2> QED BY <2>5 DEF e
<1>3. CASE x.op \in {"fill", "store", "nest"}
  <2>1. \E t : e = Put(mm, x.buf, t)
    BY <1>3 DEF Exec
  <2>2. Makes(x) = {} /\ x.op # "dealloc" /\ x.buf \in DOMAIN mm
    BY <1>3 DEF Makes, Needs
  <2> HIDE DEF e
  <2>3. PICK t : e = Put(mm, x.buf, t)
    BY <2>1
  <2>4. IsFcn(Put(mm, x.buf, t)) /\ DOMAIN Put(mm, x.buf, t) = DOMAIN mm \cup {x.buf}
    BY <1>1
  <2>5. IsFcn(e) /\ DOMAIN e = (DOMAIN mm \cup Makes(x)) \ (IF x.op = "dealloc" THEN {x.buf} ELSE {})
    BY <2>2, <2>3, <2>4
  <2> QED BY <2>5 DEF e
<1>4. CASE x.op = "dealloc"
  <2>1. e = [b \in DOMAIN mm \ {x.buf} |-> mm[b]]
    BY <1>4 DEF Exec
  <2>2. Makes(x) = {}
    BY <1>4 DEF Makes
  <2> HIDE DEF e
  <2>3. IsFcn(e) /\ DOMAIN e = (DOMAIN mm \cup Makes(x)) \ (IF x.op = "dealloc" THEN {x.buf} ELSE {})
    BY <1>4, <2>1, <2>2
  <2> QED BY <2>3 DEF e
<1>5. CASE x.op \notin {"alloc", "view", "fill", "store", "nest", "dealloc"}
  <2>1. e = mm
    BY <1>5 DEF Exec
  <2>2. Makes(x) = {}
    BY <1>5 DEF Makes
  <2> HIDE DEF e
  <2>3. IsFcn(e) /\ DOMAIN e = (DOMAIN mm \cup Makes(x)) \ (IF x.op = "dealloc" THEN {x.buf} ELSE {})
    BY <1>5, <2>1, <2>2
  <2> QED BY <2>3 DEF e
<1> QED BY <1>2, <1>3, <1>4, <1>5

(* An item finds what it needs, or it would not be in order.             *)
LEMMA RunBuf == IInv /\ BufInv /\ Run => BufInv'
<1> SUFFICES ASSUME IInv, BufInv, Run PROVE BufInv'
  OBVIOUS
<1> DEFINE n == Len(code)
           x == code[next]
<1>1. /\ UNCHANGED << prog, target, code, value, decls >> /\ pc = "run"
      /\ \/ pc' = "fault" /\ next' = next /\ mem' = mem
         \/ /\ mem' = Exec(mem, x) /\ next' = next + 1
            /\ pc' = IF x.op = "return" THEN "done" ELSE "run"
  BY DEF Run
<1>2. n \in Nat /\ next \in 1..n
  <2>1. n \in Nat
    BY SeqFacts DEF IInv, CodeOK
  <2>2. next \in Nat \ {0} /\ next <= n
    BY <1>1 DEF IInv, WalkOK
  <2> QED BY <2>1, <2>2
<1>3. /\ Ordered(code) /\ (target = "affine" => Made(code, n) \subseteq Freed(code, n))
      /\ DOMAIN mem = Live(code, next - 1) /\ mem = [b \in DOMAIN mem |-> mem[b]]
  BY <1>1 DEF BufInv, Produced
<1>4. Needs(x) \subseteq DOMAIN mem /\ (x.op = "return" => next = n)
  <2>1. /\ Needs(x) \subseteq Live(code, next - 1)
        /\ \A k \in 1..(n - 1) : code[k].op # "return"
    BY <1>2, <1>3 DEF Ordered
  <2> HIDE DEF n
  <2>2. next # n => next \in 1..(n - 1)
    BY <1>2
  <2> QED BY <1>3, <2>1, <2>2
<1> HIDE DEF x
<1>5. DOMAIN Exec(mem, x) = Live(code, next) /\ Exec(mem, x) = [b \in DOMAIN Exec(mem, x) |-> Exec(mem, x)[b]]
  <2>1. Live(code, next) = (Live(code, next - 1) \cup Makes(x)) \ (IF x.op = "dealloc" THEN {x.buf} ELSE {})
    BY <1>2, <1>3, LiveStep DEF x
  <2>2. /\ DOMAIN Exec(mem, x) = (DOMAIN mem \cup Makes(x)) \ (IF x.op = "dealloc" THEN {x.buf} ELSE {})
        /\ Exec(mem, x) = [b \in DOMAIN Exec(mem, x) |-> Exec(mem, x)[b]]
    BY <1>3, <1>4, ExecLive
  <2> QED BY <1>3, <2>1, <2>2
<1>6. CASE pc' = "fault" /\ next' = next /\ mem' = mem
  BY <1>1, <1>2, <1>3, <1>4, <1>6 DEF BufInv, Produced, x
<1>7. CASE mem' = Exec(mem, x) /\ next' = next + 1 /\ pc' = IF x.op = "return" THEN "done" ELSE "run"
  <2>1. DOMAIN mem' = Live(code, next) /\ mem' = [b \in DOMAIN mem' |-> mem'[b]]
    BY <1>5, <1>7
  <2>2. next' - 1 = next
    BY <1>2, <1>7
  <2>3. pc' = "done" /\ target = "affine" => DOMAIN mem' = {}
    BY <1>3, <1>4, <1>7, <2>1 DEF Live
  <2> QED BY <1>1, <1>3, <1>7, <2>1, <2>2, <2>3 DEF BufInv, Produced
<1> QED BY <1>1, <1>6, <1>7

(* All steps.                                                              *)
LEMMA NextBuf == IInv /\ BufInv /\ [Next]_vars => BufInv'
<1> SUFFICES ASSUME IInv, BufInv, [Next]_vars PROVE BufInv'
  OBVIOUS
<1>1. CASE LowerFunction
  BY <1>1, QuietBuf DEF LowerFunction
<1>2. CASE RejectOp \/ AbortOp
  BY <1>2, QuietBuf DEF RejectOp, AbortOp
<1>3. CASE UNCHANGED vars
  BY <1>3, QuietBuf DEF vars
<1> QED BY <1>1, <1>2, <1>3, FoldCastBuf, ConvertOpBuf, VerifyBuf, LowerPrintBuf, KeepItemBuf, RunBuf DEF Next

(* The buffers the next item works on are live when it runs; a fault is    *)
(* never a use after free or before the alloc; and what the affine path    *)
(* allocates has been freed, once, by the return.                          *)
BuffersAreLive ==
    /\ pc \in {"run", "fault"} => next \in 1..Len(code) /\ Needs(code[next]) \subseteq DOMAIN mem
    /\ pc = "done" /\ target = "affine" => mem = << >>

(* insertAllocAndDealloc puts a pair around a block in which patterns      *)
(* replace, drop and add items; the order of allocs, uses and deallocs     *)
(* survives all of it, for functions of any length.                        *)
THEOREM BuffersLive == Spec => []BuffersAreLive
<1>1. Init => BufInv
  BY InitBuf
<1>2. IInv /\ BufInv /\ [Next]_vars => BufInv'
  BY NextBuf
<1>3. IInv /\ BufInv => BuffersAreLive
  <2> SUFFICES ASSUME IInv, BufInv PROVE BuffersAreLive
    OBVIOUS
  <2>1. ASSUME pc = "run" PROVE next \in 1..Len(code) /\ Needs(code[next]) \subseteq DOMAIN mem
    <3>1. Len(code) \in Nat /\ next \in Nat \ {0} /\ next <= Len(code)
      BY <2>1, SeqFacts DEF IInv, CodeOK, WalkOK
    <3>2. next \in 1..Len(code)
      BY <3>1
    <3>3. Ordered(code) /\ DOMAIN mem = Live(code, next - 1)
      BY <2>1 DEF BufInv, Produced
    <3> QED BY <3>2, <3>3 DEF Ordered
  <2>2. ASSUME pc = "done", target = "affine" PROVE mem = << >>
    <3>1. DOMAIN mem = {} /\ mem = [b \in DOMAIN mem |-> mem[b]]
      BY <2>2 DEF BufInv
    <3> QED BY <3>1
  <2> QED BY <2>1, <2>2 DEF BuffersAreLive, BufInv
<1> QED BY <1>1, <1>2, <1>3, Invariance, PTL DEF Spec

-----------------------------------------------------------------------------
(* Strides and indices.                                                    *)

(* The elements behind one position of dimension d are as many as those of *)
(* the dimensions behind it; in front of all dimensions that is the count. *)
LEMMA Strides ==
    ASSUME NEW s \in Seq(Nat)
    PROVE  /\ Stride(s, 0) = NumElements(s) /\ Stride(s, Len(s)) = 1
           /\ \A d \in 0..Len(s) : Stride(s, d) \in Nat
           /\ \A d \in 1..Len(s) : s[d] \in Nat /\ Stride(s, d - 1) = s[d] * Stride(s, d)
<1>1. Stride(s, 0) = NumElements(s)
  <2>1. SubSeq(s, 0 + 1, Len(s)) = s
    OBVIOUS
  <2> QED BY <2>1 DEF Stride
<1>2. Stride(s, Len(s)) = 1
  BY NumElementsBehind DEF Stride
<1>3. ASSUME NEW d \in 0..Len(s) PROVE Stride(s, d) \in Nat
  <2>1. SubSeq(s, d + 1, Len(s)) \in Seq(Nat)
    OBVIOUS
  <2> QED BY <2>1, NumElementsType DEF Stride
<1>4. ASSUME NEW d \in 1..Len(s) PROVE s[d] \in Nat /\ Stride(s, d - 1) = s[d] * Stride(s, d)
  <2>1. (d - 1) + 1 = d /\ s[d] \in Nat
    OBVIOUS
  <2>2. NumElements(SubSeq(s, d, Len(s))) = s[d] * NumElements(SubSeq(s, d + 1, Len(s)))
    BY NumElementsSuffix
  <2> QED BY <2>1, <2>2 DEF Stride
<1> QED BY <1>1, <1>2, <1>3, <1>4

(* A factor of a number that is not 0 is not 0.                            *)
LEMMA FactorsOfPositive ==
    ASSUME NEW a \in Nat, NEW b \in Nat, a * b # 0
    PROVE  a # 0 /\ b # 0
  OBVIOUS

(* A shape with an element has no extent 0 and no stride 0.                *)
LEMMA PositiveStrides ==
    ASSUME NEW s \in Seq(Nat), NumElements(s) # 0
    PROVE  /\ \A d \in 0..Len(s) : Stride(s, d) \in Nat \ {0}
           /\ \A d \in 1..Len(s) : s[d] \in Nat \ {0}
<1> DEFINE n == Len(s)
           T == {d \in 0..n : Stride(s, d) # 0}
<1>1. /\ n \in Nat /\ Stride(s, 0) # 0
      /\ \A d \in 0..n : Stride(s, d) \in Nat
      /\ \A d \in 1..n : s[d] \in Nat /\ Stride(s, d - 1) = s[d] * Stride(s, d)
  BY Strides
<1> HIDE DEF n
<1>2. ASSUME NEW d \in 1..n, Stride(s, d - 1) # 0 PROVE s[d] # 0 /\ Stride(s, d) # 0
  <2>1. d \in 0..n
    BY <1>1
  <2>2. s[d] \in Nat /\ Stride(s, d) \in Nat /\ s[d] * Stride(s, d) # 0
    BY <1>1, <1>2, <2>1
  <2> QED BY <2>2, FactorsOfPositive
<1>3. 0 \in T
  BY <1>1
<1>4. \A d \in 1..n : d - 1 \in T => d \in T
  BY <1>1, <1>2
<1> HIDE DEF T
<1>5. 0..n \subseteq T
  BY <1>1, <1>3, <1>4, UpTo
<1>6. \A d \in 0..n : Stride(s, d) # 0
  BY <1>5 DEF T
<1>7. \A d \in 1..n : d - 1 \in 0..n
  BY <1>1
<1> QED BY <1>1, <1>2, <1>6, <1>7 DEF n

(* The index of an element is inside the shape.                            *)
LEMMA IndexIsInBounds ==
    ASSUME NEW s \in Seq(Nat), NEW k \in 1..NumElements(s)
    PROVE  InBounds(s, IndexAt(s, k)) /\ IndexAt(s, k) \in Seq(Nat) /\ Len(IndexAt(s, k)) = Len(s)
<1> DEFINE n == Len(s)
           ix == IndexAt(s, k)
<1>1. n \in Nat /\ DOMAIN s = 1..n /\ NumElements(s) \in Nat
  BY NumElementsType
<1>2. /\ \A d \in 0..n : Stride(s, d) \in Nat \ {0}
      /\ \A d \in 1..n : s[d] \in Nat \ {0}
  <2>1. NumElements(s) # 0
    BY <1>1
  <2> QED BY <2>1, PositiveStrides
<1> HIDE DEF n
<1>3. ix = [d \in 1..n |-> ((k - 1) \div Stride(s, d)) % s[d]]
  BY <1>1 DEF IndexAt
<1>4. ASSUME NEW d \in 1..n PROVE ix[d] \in 0..(s[d] - 1)
  <2>1. d \in 0..n /\ k - 1 \in Nat
    BY <1>1
  <2>2. Stride(s, d) \in Nat \ {0} /\ s[d] \in Nat \ {0}
    BY <1>2, <2>1
  <2>3. (k - 1) \div Stride(s, d) \in Int
    BY <2>1, <2>2
  <2> DEFINE q == (k - 1) \div Stride(s, d)
  <2> HIDE DEF q
  <2>4. q % s[d] \in 0..(s[d] - 1)
    BY <2>2, <2>3 DEF q
  <2> HIDE DEF ix
  <2> QED BY <1>3, <2>4 DEF q
<1> HIDE DEF ix
<1>5. DOMAIN ix = 1..n
  BY <1>3
<1>6. InBounds(s, ix)
  BY <1>1, <1>4, <1>5 DEF InBounds
<1>7. \A d \in 1..n : ix[d] \in Nat
  BY <1>2, <1>4
<1>8. ix = [d \in 1..n |-> ix[d]]
  BY <1>3
<1>9. ix \in Seq(Nat) /\ Len(ix) = n
  <2>1. [d \in 1..n |-> ix[d]] \in Seq(Nat)
    BY <1>1, <1>7, IsASeq
  <2>2. ix \in Seq(Nat)
    BY <1>8, <2>1
  <2> QED BY <1>1, <1>5, <2>2
<1> QED BY <1>6, <1>9 DEF n, ix

(* Quotient and rest.                                                      *)
LEMMA QuotientFacts ==
    ASSUME NEW a \in Nat, NEW b \in Nat \ {0}
    PROVE  a \div b \in Nat /\ a % b \in 0..(b - 1) /\ a = b * (a \div b) + (a % b)
<1> DEFINE p == a \div b
<1>1. p \in Int /\ a % b \in 0..(b - 1)
  OBVIOUS
<1>2. a = b * p + (a % b)
  OBVIOUS
<1> HIDE DEF p
<1>3. ASSUME p < 0 PROVE FALSE
  <2>1. b * p <= b * (-1)
    BY <1>1, <1>3
  <2>2. b * (-1) = -b /\ b * p \in Int
    BY <1>1
  <2> QED BY <1>1, <1>2, <2>1, <2>2
<1> QED BY <1>1, <1>2, <1>3 DEF p

(* A quotient is the number it is between the multiples of.                *)
LEMMA QuotientIs ==
    ASSUME NEW a \in Nat, NEW b \in Nat \ {0}, NEW q \in Nat, NEW r \in 0..(b - 1), a = b * q + r
    PROVE  a \div b = q /\ a % b = r
<1> DEFINE p == a \div b
<1>1. p \in Nat /\ a % b \in 0..(b - 1) /\ a = b * p + (a % b)
  BY QuotientFacts
<1> HIDE DEF p
<1>2. ASSUME NEW x \in Nat, NEW y \in Nat, x < y, NEW u \in 0..(b - 1), NEW v \in 0..(b - 1), b * x + u = b * y + v
      PROVE  FALSE
  <2>1. x + 1 <= y /\ u < b
    BY <1>2
  <2>2. b * (x + 1) <= b * y
    BY <2>1
  <2>3. b * (x + 1) = b * x + b
    OBVIOUS
  <2>4. b * x \in Nat /\ b * y \in Nat
    OBVIOUS
  <2> QED BY <1>2, <2>1, <2>2, <2>3, <2>4
<1> DEFINE u == a % b
<1> HIDE DEF u
<1>3. /\ b * p + u = b * q + r /\ u \in 0..(b - 1)
      /\ p \in Nat /\ q \in Nat /\ r \in 0..(b - 1)
  BY <1>1 DEF u
<1>4. ~ (p < q) /\ ~ (q < p)
  BY ONLY <1>2, <1>3
<1>5. p = q
  BY <1>1, <1>4
<1>6. a % b = r
  <2>1. b * q \in Nat
    OBVIOUS
  <2> QED BY <1>3, <1>5, <2>1 DEF u
<1> QED BY <1>5, <1>6 DEF p

(* Numbers that a and b are scaled by, and what is left over.              *)
LEMMA QuotientScales ==
    ASSUME NEW a \in Nat, NEW b \in Nat \ {0}, NEW e \in Nat \ {0}, NEW r \in 0..(e - 1)
    PROVE  (a * e + r) \div (b * e) = a \div b
<1> DEFINE q == a \div b
           u == a % b
<1>1. q \in Nat /\ u \in 0..(b - 1) /\ a = b * q + u
  BY QuotientFacts
<1> HIDE DEF q, u
<1>2. a * e + r = (b * e) * q + (u * e + r)
  <2>1. a * e = (b * q + u) * e
    BY <1>1
  <2>2. (b * q + u) * e = (b * q) * e + u * e
    BY <1>1
  <2>3. (b * q) * e = (b * e) * q
    BY <1>1
  <2>4. (b * e) * q \in Nat /\ u * e \in Nat
    BY <1>1
  <2> QED BY <2>1, <2>2, <2>3, <2>4
<1>3. b * e \in Nat \ {0} /\ a * e + r \in Nat
  OBVIOUS
<1>4. u * e + r \in 0..(b * e - 1)
  <2>1. u * e <= (b - 1) * e
    BY <1>1
  <2>2. (b - 1) * e = b * e - e
    OBVIOUS
  <2>3. u * e \in Nat
    BY <1>1
  <2> QED BY <1>3, <2>1, <2>2, <2>3
<1> DEFINE A == a * e + r
           B == b * e
           R == u * e + r
<1> HIDE DEF A, B, R
<1>5. A \in Nat /\ B \in Nat \ {0} /\ R \in 0..(B - 1) /\ A = B * q + R
  BY <1>2, <1>3, <1>4 DEF A, B, R
<1>6. A \div B = q
  BY <1>1, <1>5, QuotientIs
<1> QED BY <1>6 DEF A, B, q

(* One dimension more: the elements below element k are those from         *)
(* (k - 1) * e + 1 on, and their indices begin with its index.             *)
LEMMA IndexAppend ==
    ASSUME NEW s \in Seq(Nat), NEW e \in Nat \ {0}, NumElements(s) # 0,
           NEW k \in 1..NumElements(s), NEW i \in 1..e
    PROVE  /\ IndexAt(Append(s, e), (k - 1) * e + i) = Append(IndexAt(s, k), i - 1)
           /\ (k - 1) * e + i \in 1..NumElements(Append(s, e))
<1> DEFINE n == Len(s)
           t == Append(s, e)
           j == (k - 1) * e + i
           ix == IndexAt(s, k)
           jx == IndexAt(t, j)
<1>1. /\ n \in Nat /\ DOMAIN s = 1..n /\ DOMAIN t = 1..(n + 1) /\ t \in Seq(Nat) /\ Len(t) = n + 1
      /\ \A d \in 1..n : t[d] = s[d] /\ s[d] \in Nat
      /\ t[n + 1] = e
  OBVIOUS
<1>2. NumElements(t) = NumElements(s) * e /\ NumElements(s) \in Nat
  BY NumElementsAppend, NumElementsType
<1>3. j \in 1..NumElements(t)
  <2> DEFINE N == NumElements(s)
  <2>1. N \in Nat /\ k \in 1..N /\ NumElements(t) = N * e
    BY <1>2
  <2> HIDE DEF N
  <2>2. (k - 1) * e <= (N - 1) * e /\ (k - 1) * e \in Nat
    BY <2>1
  <2>3. (N - 1) * e = N * e - e /\ N * e \in Nat
    BY <2>1
  <2> QED BY <2>1, <2>2, <2>3
<1>4. \A d \in 0..n : Stride(s, d) \in Nat \ {0}
  BY PositiveStrides
<1>5. ASSUME NEW d \in 0..n PROVE Stride(t, d) = Stride(s, d) * e
  <2> DEFINE x == SubSeq(s, d + 1, n)
             y == SubSeq(t, d + 1, n + 1)
             l == n - d
  <2>1. l \in Nat /\ l + 1 \in Nat /\ d + (l + 1) = n + 1 /\ l + 1 \in 1..(l + 1)
    BY <1>1
  <2>2. x \in Seq(Nat) /\ Len(x) = l /\ \A g \in 1..l : x[g] = s[d + g]
    OBVIOUS
  <2>3. y \in Seq(Nat) /\ Len(y) = l + 1 /\ \A g \in 1..(l + 1) : y[g] = t[d + g]
    <3> HIDE DEF n, t
    <3>1. d + 1 \in 1..(n + 2) /\ n + 1 \in 0..Len(t)
      BY <1>1
    <3>2. \A g \in (d + 1)..(n + 1) : t[g] \in Nat
      BY <1>1
    <3> QED BY <1>1, <2>1, <3>1, <3>2, SubSeqProperties
  <2> HIDE DEF l
  <2>4. \A g \in 1..l : y[g] = x[g]
    <3> SUFFICES ASSUME NEW g \in 1..l PROVE y[g] = x[g]
      OBVIOUS
    <3>1. d + g \in 1..n /\ g \in 1..(l + 1)
      BY <1>1 DEF l
    <3> HIDE DEF x, y, n, t
    <3> QED BY <1>1, <2>2, <2>3, <3>1
  <2>5. y[l + 1] = e
    <3> HIDE DEF y, t
    <3> QED BY <1>1, <2>1, <2>3
  <2>6. y = Append(x, e)
    <3> DEFINE z == Append(x, e)
    <3> HIDE DEF x, y, l
    <3>1. /\ z \in Seq(Nat) /\ Len(z) = l + 1
          /\ \A g \in 1..l : z[g] = x[g]
          /\ z[l + 1] = e
      <4>1. e \in Nat /\ x \in Seq(Nat) /\ Len(x) = l
        BY <2>2
      <4> QED BY ONLY <4>1, AppendProperties
    <3> HIDE DEF z
    <3>2. \A g \in 1..(l + 1) : g \in 1..l \/ g = l + 1
      BY <2>1
    <3>3. \A g \in 1..Len(y) : y[g] = z[g]
      BY <2>3, <2>4, <2>5, <3>1, <3>2
    <3>4. y = z
      BY <2>3, <3>1, <3>3, SeqEqual
    <3> QED BY <3>4 DEF z
  <2>7. Stride(t, d) = NumElements(y)
    <3> HIDE DEF n, t
    <3> QED BY <1>1 DEF Stride
  <2>8. Stride(s, d) = NumElements(x)
    BY DEF Stride
  <2> HIDE DEF x, y
  <2> QED BY <2>2, <2>6, <2>7, <2>8, NumElementsAppend
<1>6. Stride(t, n + 1) = 1
  BY <1>1, Strides
<1> HIDE DEF n, t
<1>7. /\ DOMAIN jx = 1..(n + 1) /\ DOMAIN ix = 1..n
      /\ \A d \in 1..(n + 1) : jx[d] = ((j - 1) \div Stride(t, d)) % t[d]
      /\ \A d \in 1..n : ix[d] = ((k - 1) \div Stride(s, d)) % s[d]
  BY <1>1 DEF IndexAt
<1>8. ix \in Seq(Nat) /\ Len(ix) = n
  BY IndexIsInBounds DEF n
<1>9. jx \in Seq(Nat) /\ Len(jx) = n + 1
  BY <1>1, <1>3, IndexIsInBounds
<1> HIDE DEF ix, jx
<1>10. j - 1 = (k - 1) * e + (i - 1) /\ i - 1 \in 0..(e - 1) /\ k - 1 \in Nat
  <2>1. (k - 1) * e \in Nat
    OBVIOUS
  <2> QED BY <2>1
<1>11. ASSUME NEW d \in 1..n PROVE jx[d] = ix[d]
  <2>1. d \in 0..n /\ d \in 1..(n + 1)
    BY <1>1
  <2>2. Stride(t, d) = Stride(s, d) * e /\ Stride(s, d) \in Nat \ {0}
    BY <1>4, <1>5, <2>1
  <2> DEFINE b == Stride(s, d)
             a == k - 1
             r == i - 1
  <2> HIDE DEF a, b, r
  <2>3. (a * e + r) \div (b * e) = a \div b
    BY <1>10, <2>2, QuotientScales DEF a, b, r
  <2>4. (j - 1) \div Stride(t, d) = (k - 1) \div Stride(s, d)
    BY <1>10, <2>2, <2>3 DEF a, b, r
  <2> QED BY <1>1, <1>7, <2>1, <2>4
<1>12. jx[n + 1] = i - 1
  <2>1. n + 1 \in 1..(n + 1)
    BY <1>1
  <2>2. jx[n + 1] = ((j - 1) \div 1) % e
    BY <1>1, <1>6, <1>7, <2>1
  <2> DEFINE a == j - 1
             q == k - 1
             r == i - 1
  <2> HIDE DEF a, q, r, j
  <2>3. q \in Nat /\ r \in 0..(e - 1) /\ a = q * e + r
    BY <1>10 DEF a, q, r
  <2>4. a \in Nat /\ a = e * q + r
    BY <2>3
  <2>5. a % e = r
    BY <2>3, <2>4, QuotientIs
  <2>6. a \div 1 = a
    BY <2>4
  <2> QED BY <2>2, <2>5, <2>6 DEF a, r
<1> HIDE DEF j
<1>13. jx = Append(ix, i - 1)
  <2> DEFINE y == Append(ix, i - 1)
  <2>1. i - 1 \in Nat
    OBVIOUS
  <2>2. y \in Seq(Nat) /\ Len(y) = n + 1 /\ y[n + 1] = i - 1 /\ \A d \in 1..n : y[d] = ix[d]
    BY <1>1, <1>8, <2>1
  <2> HIDE DEF y
  <2>3. \A d \in 1..(n + 1) : jx[d] = y[d]
    <3> SUFFICES ASSUME NEW d \in 1..(n + 1) PROVE jx[d] = y[d]
      OBVIOUS
    <3>1. d \in 1..n \/ d = n + 1
      BY <1>1
    <3> QED BY <1>11, <1>12, <2>2, <3>1
  <2>4. jx = y
    BY <1>1, <1>9, <2>2, <2>3
  <2> QED BY <2>4 DEF y
<1> QED BY <1>3, <1>13 DEF t, j, ix, jx

(* One step of the two folds the code makes: towards the position of an    *)
(* index, and along the inner loop of a product.                           *)
Step(w, acc, x) ==
    IF w[1] = "position" THEN acc + w[3][x] * Stride(w[2], x)
    ELSE LET y == Loads(w[2], w[3], w[4], x - 1) IN PlusProduct(acc, y[1], y[2])

(* g folds the steps w, from base on, over every set of positions of s up  *)
(* to m.                                                                   *)
IsFolding(w, g, base, s, m) ==
    g = [T \in SUBSET (1..m) |->
           IF T = {} THEN base ELSE Step(w, g[T \ {Max(T)}], s[Max(T)])]

(* Such folds exist.                                                       *)
LEMMA FoldingExists ==
    ASSUME NEW w, NEW base, NEW s, NEW n \in Nat
    PROVE  \E g : IsFolding(w, g, base, s, n)
<1> DEFINE Folds == {m \in 0..n : \E g : IsFolding(w, g, base, s, m)}
<1>1. 0 \in Folds
  <2> DEFINE g == [T \in SUBSET (1..0) |-> base]
  <2>1. \A T \in SUBSET (1..0) : T = {}
    OBVIOUS
  <2>2. g = [T \in SUBSET (1..0) |-> IF T = {} THEN base ELSE Step(w, g[T \ {Max(T)}], s[Max(T)])]
    BY <2>1
  <2> HIDE DEF g
  <2>3. IsFolding(w, g, base, s, 0)
    BY <2>2 DEF IsFolding
  <2> QED BY <2>3
<1>2. ASSUME NEW m \in 1..n, m - 1 \in Folds PROVE m \in Folds
  <2>1. PICK h : IsFolding(w, h, base, s, m - 1)
    BY <1>2
  <2> DEFINE g == [T \in SUBSET (1..m) |->
                     IF m \in T THEN Step(w, h[T \ {m}], s[m]) ELSE h[T]]
  <2>2. ASSUME NEW T \in SUBSET (1..m)
        PROVE  g[T] = IF T = {} THEN base ELSE Step(w, g[T \ {Max(T)}], s[Max(T)])
    <3>1. CASE m \in T
      <4>1. Max(T) = m
        <5>1. m \in Nat
          OBVIOUS
        <5> QED BY <3>1, <5>1, MaxIsBound
      <4>2. T \ {m} \in SUBSET (1..m) /\ m \notin T \ {m}
        OBVIOUS
      <4>3. g[T] = Step(w, h[T \ {m}], s[m]) /\ g[T \ {m}] = h[T \ {m}]
        BY <3>1, <4>2
      <4> HIDE DEF g
      <4> QED BY <3>1, <4>1, <4>3
    <3>2. CASE m \notin T /\ T # {}
      <4>1. T \in SUBSET (1..(m - 1))
        BY <1>2, <3>2
      <4>2. T \ {Max(T)} \in SUBSET (1..m) /\ m \notin T \ {Max(T)}
        BY <3>2
      <4>3. g[T] = h[T] /\ g[T \ {Max(T)}] = h[T \ {Max(T)}]
        BY <3>2, <4>2
      <4>4. h[T] = Step(w, h[T \ {Max(T)}], s[Max(T)])
        BY <2>1, <3>2, <4>1 DEF IsFolding
      <4> HIDE DEF g
      <4> QED BY <3>2, <4>3, <4>4
    <3>3. CASE T = {}
      <4>1. T \in SUBSET (1..(m - 1)) /\ m \notin T
        BY <3>3
      <4>2. h[T] = base
        BY <2>1, <3>3, <4>1 DEF IsFolding
      <4>3. g[T] = h[T]
        BY <4>1
      <4> HIDE DEF g
      <4> QED BY <3>3, <4>2, <4>3
    <3> QED BY <3>1, <3>2, <3>3
  <2>3. g = [T \in SUBSET (1..m) |-> g[T]]
    OBVIOUS
  <2> HIDE DEF g
  <2>4. g = [T \in SUBSET (1..m) |-> IF T = {} THEN base ELSE Step(w, g[T \ {Max(T)}], s[Max(T)])]
    BY <2>2, <2>3
  <2>5. IsFolding(w, g, base, s, m)
    BY <2>4 DEF IsFolding
  <2> QED BY <2>5
<1> HIDE DEF Folds
<1>3. 0..n \subseteq Folds
  BY <1>1, <1>2, UpTo
<1>4. n \in Folds
  BY <1>3
<1> QED BY <1>4 DEF Folds

(* The chosen fold goes through the positions one by one.                  *)
Folded(w, base, s, n) == (CHOOSE g : IsFolding(w, g, base, s, n))[1..n]

IsRun(q, w, base, s, n) ==
    /\ q[0] = base
    /\ \A k \in 1..n : q[k] = Step(w, q[k - 1], s[k])

(* So it can be read off a run of single steps.                            *)
LEMMA FoldedRuns ==
    ASSUME NEW w, NEW base, NEW s, NEW n \in Nat
    PROVE  \E q : IsRun(q, w, base, s, n) /\ Folded(w, base, s, n) = q[n]
<1> DEFINE g == CHOOSE h : IsFolding(w, h, base, s, n)
           q == [k \in 0..n |-> g[1..k]]
<1>1. IsFolding(w, g, base, s, n)
  <2>1. \E h : IsFolding(w, h, base, s, n)
    BY FoldingExists
  <2> QED BY <2>1
<1>2. Folded(w, base, s, n) = g[1..n]
  BY DEF Folded
<1> HIDE DEF g
<1>3. q[0] = base
  <2>1. 1..0 = {} /\ 1..0 \in SUBSET (1..n)
    OBVIOUS
  <2>2. g[1..0] = base
    BY <1>1, <2>1 DEF IsFolding
  <2> QED BY <2>2
<1>4. ASSUME NEW k \in 1..n PROVE q[k] = Step(w, q[k - 1], s[k])
  <2>1. k \in Nat /\ k \in 1..k /\ k \in 0..n /\ k - 1 \in 0..n
    OBVIOUS
  <2>2. 1..k \in SUBSET (1..n) /\ 1..k # {}
    <3>1. \A p \in 1..k : p \in 1..n
      BY <2>1
    <3> QED BY <2>1, <3>1
  <2>3. (1..k) \ {k} = 1..(k - 1)
    BY <2>1
  <2>4. Max(1..k) = k
    BY <2>1, MaxIsBound
  <2>5. g[1..k] = Step(w, g[1..(k - 1)], s[k])
    BY <1>1, <2>2, <2>3, <2>4 DEF IsFolding
  <2> QED BY <2>1, <2>5
<1>5. q[n] = g[1..n]
  OBVIOUS
<1> HIDE DEF q
<1>6. IsRun(q, w, base, s, n)
  BY <1>3, <1>4 DEF IsRun
<1> QED BY <1>2, <1>5, <1>6

(* The position of an index inside the shape is that of an element.        *)
LEMMA PositionOfIndex ==
    ASSUME NEW s \in Seq(Nat), NEW ix, InBounds(s, ix)
    PROVE  Position(s, ix) \in 1..NumElements(s)
<1> DEFINE n == Len(s)
           id == [d \in 1..n |-> d]
           w == << "position", s, ix >>
<1>1. /\ n \in Nat /\ DOMAIN s = 1..n
      /\ Stride(s, 0) = NumElements(s) /\ Stride(s, n) = 1
      /\ \A d \in 0..n : Stride(s, d) \in Nat
      /\ \A d \in 1..n : s[d] \in Nat /\ Stride(s, d - 1) = s[d] * Stride(s, d)
  BY Strides
<1>2. \A d \in 1..n : ix[d] \in 0..(s[d] - 1)
  BY <1>1 DEF InBounds
<1> HIDE DEF n
<1>3. Position(s, ix) = 1 + Folded(w, 0, id, n)
  BY <1>1 DEF Position, FoldLeft, MapThenFoldSet, Folded, IsFolding, Step
<1>4. PICK q : IsRun(q, w, 0, id, n) /\ Folded(w, 0, id, n) = q[n]
  BY <1>1, FoldedRuns
<1>5. q[0] = 0 /\ \A k \in 1..n : q[k] = q[k - 1] + ix[k] * Stride(s, k)
  BY <1>4 DEF IsRun, Step
<1> HIDE DEF w, id
<1> DEFINE T == {k \in 0..n : q[k] \in Nat /\ q[k] + Stride(s, k) <= Stride(s, 0)}
<1>6. 0 \in T
  <2>1. Stride(s, 0) \in Nat /\ 0 \in 0..n
    BY <1>1
  <2> QED BY <1>5, <2>1
<1>7. \A k \in 1..n : k - 1 \in T => k \in T
  <2> SUFFICES ASSUME NEW k \in 1..n, q[k - 1] \in Nat, q[k - 1] + Stride(s, k - 1) <= Stride(s, 0)
               PROVE  k \in 0..n /\ q[k] \in Nat /\ q[k] + Stride(s, k) <= Stride(s, 0)
    OBVIOUS
  <2>1. k \in 0..n /\ k - 1 \in 0..n
    BY <1>1
  <2> DEFINE a == ix[k]
             t == Stride(s, k)
             e == s[k]
             b == q[k - 1]
             N == Stride(s, 0)
  <2>2. /\ t \in Nat /\ N \in Nat /\ e \in Nat /\ Stride(s, k - 1) = e * t
        /\ a \in 0..(e - 1) /\ b \in Nat /\ b + e * t <= N
    BY <1>1, <1>2, <2>1
  <2>3. q[k] = b + a * t
    BY <1>5
  <2> HIDE DEF a, t, e, b, N
  <2>4. a * t <= (e - 1) * t /\ a * t \in Nat
    BY <2>2
  <2>5. (e - 1) * t = e * t - t /\ e * t \in Nat
    BY <2>2
  <2>6. b + a * t \in Nat /\ (b + a * t) + t <= N
    BY <2>2, <2>4, <2>5
  <2> QED BY <2>1, <2>3, <2>6 DEF t, N
<1> HIDE DEF T
<1>8. 0..n \subseteq T
  BY <1>1, <1>6, <1>7, UpTo
<1>9. n \in T
  BY <1>1, <1>8
<1>10. q[n] \in Nat /\ q[n] + 1 <= NumElements(s) /\ NumElements(s) \in Nat
  BY <1>1, <1>9, NumElementsType DEF T
<1> QED BY <1>3, <1>4, <1>10

(* An element at an index inside the shape is one of the elements.         *)
LEMMA ElementIsThere ==
    ASSUME NEW mm, NEW b, NEW s \in Seq(Nat), b \in DOMAIN mm,
           NEW e, mm[b] = [shape |-> s, elems |-> e], DOMAIN e = 1..NumElements(s),
           \A k \in DOMAIN e : e[k] # Undef, NEW ix, InBounds(s, ix)
    PROVE  Load(mm, b, ix) # Undef /\ At(mm[b], ix) # Undef
<1>1. mm[b].shape = s /\ mm[b].elems = e
  OBVIOUS
<1>2. Position(s, ix) \in DOMAIN e
  BY PositionOfIndex
<1> QED BY <1>1, <1>2 DEF Load, At

(* What an inner loop has added up is a sum of products.                   *)
LEMMA SumIsDefined ==
    ASSUME NEW mm, NEW x, NEW ix, x.kind = "matrix_mul", x.depth \in Nat,
           ~ x.zero => Load(mm, x.buf, ix) # Undef
    PROVE  Computed(mm, x, ix) # Undef
<1> DEFINE n == x.depth
           id == [k \in 1..n |-> k]
           w == << "product", mm, x, ix >>
           base == IF x.zero THEN Zero ELSE Load(mm, x.buf, ix)
<1>1. base # Undef
  BY DEF Zero, Undef
<1>2. Computed(mm, x, ix) = Folded(w, base, id, n)
  <2>1. DOMAIN id = 1..n /\ w[1] # "position" /\ w[2] = mm /\ w[3] = x /\ w[4] = ix
    OBVIOUS
  <2>2. x.kind \notin Elementwise /\ x.kind # "transpose"
    BY DEF Elementwise
  <2>3. Computed(mm, x, ix) =
           FoldLeft(LAMBDA acc, k : LET y == Loads(mm, x, ix, k - 1) IN PlusProduct(acc, y[1], y[2]), base, id)
    BY <2>2 DEF Computed
  <2> DEFINE Plus(acc, k) == LET y == Loads(mm, x, ix, k - 1) IN PlusProduct(acc, y[1], y[2])
             P(g) == IsFolding(w, g, base, id, n)
             Q(g) == g = [T \in SUBSET DOMAIN id |->
                            IF T = {} THEN base ELSE Plus(g[T \ {Max(T)}], id[Max(T)])]
  <2>4. FoldLeft(LAMBDA acc, k : Plus(acc, k), base, id) = (CHOOSE g : Q(g))[DOMAIN id]
    <3> HIDE DEF base, id
    <3> QED BY DEF FoldLeft, MapThenFoldSet
  <2>5. \A acc, k : Step(w, acc, k) = Plus(acc, k)
    <3> HIDE DEF w
    <3> QED BY <2>1 DEF Step
  <2>6. Folded(w, base, id, n) = (CHOOSE g : P(g))[DOMAIN id]
    BY <2>1 DEF Folded
  <2> HIDE DEF base, n, id, w, Plus
  <2>7. \A g : P(g) <=> Q(g)
    <3> SUFFICES ASSUME NEW g PROVE P(g) <=> Q(g)
      OBVIOUS
    <3> DEFINE X == [T \in SUBSET (1..n) |-> IF T = {} THEN base ELSE Step(w, g[T \ {Max(T)}], id[Max(T)])]
               Y == [T \in SUBSET DOMAIN id |-> IF T = {} THEN base ELSE Plus(g[T \ {Max(T)}], id[Max(T)])]
    <3>1. \A T : (IF T = {} THEN base ELSE Step(w, g[T \ {Max(T)}], id[Max(T)]))
                    = (IF T = {} THEN base ELSE Plus(g[T \ {Max(T)}], id[Max(T)]))
      BY <2>5
    <3>2. X = Y
      BY <2>1, <3>1
    <3>3. (P(g) <=> g = X) /\ (Q(g) <=> g = Y)
      BY DEF IsFolding
    <3> HIDE DEF X, Y, P, Q
    <3> QED BY <3>2, <3>3
  <2> HIDE DEF P, Q
  <2>8. (CHOOSE g : P(g)) = (CHOOSE g : Q(g))
    BY <2>7
  <2>9. Computed(mm, x, ix) = FoldLeft(LAMBDA acc, k : Plus(acc, k), base, id)
    BY <2>3 DEF Plus
  <2> QED BY <2>4, <2>6, <2>8, <2>9
<1> HIDE DEF base
<1>3. PICK q : IsRun(q, w, base, id, n) /\ Folded(w, base, id, n) = q[n]
  <2>1. n \in Nat
    OBVIOUS
  <2> HIDE DEF n, id, w
  <2> QED BY <2>1, FoldedRuns
<1>4. CASE n = 0
  BY <1>1, <1>2, <1>3, <1>4 DEF IsRun
<1>5. CASE n # 0
  <2>1. n \in 1..n
    BY <1>5
  <2>2. q[n] = Step(w, q[n - 1], id[n])
    BY <1>3, <2>1 DEF IsRun
  <2>3. \A acc, k : Step(w, acc, k) # Undef
    BY DEF Step, PlusProduct, Undef
  <2> HIDE DEF n, id, w
  <2> QED BY <1>2, <1>3, <2>2, <2>3
<1> QED BY <1>4, <1>5

(* Parts of one length put together: element j of part i.                  *)
LEMMA FlattenedEvenly ==
    ASSUME NEW S, NEW ss \in Seq(Seq(S)), NEW w \in Nat, \A i \in 1..Len(ss) : Len(ss[i]) = w
    PROVE  LET flat == FlattenSeq(ss)
           IN  /\ flat \in Seq(S) /\ Len(flat) = Len(ss) * w
               /\ \A i \in 1..Len(ss), j \in 1..w : flat[(i - 1) * w + j] = ss[i][j]
<1> DEFINE n == Len(ss)
           f == CHOOSE h : IsFlat(h, ss, n)
           Good(t, i) == /\ t \in Seq(S) /\ Len(t) = i * w
                         /\ \A q \in 1..i, j \in 1..w : t[(q - 1) * w + j] = ss[q][j]
<1>1. n \in Nat /\ \A i \in 1..n : ss[i] \in Seq(S) /\ Len(ss[i]) = w
  OBVIOUS
<1>2. CASE n = 0
  <2>1. FlattenSeq(ss) = ss /\ ss = << >>
    BY <1>2 DEF FlattenSeq
  <2>2. Good(<< >>, 0)
    OBVIOUS
  <2> QED BY <1>2, <2>1, <2>2
<1>3. CASE n # 0
  <2>1. FlattenSeq(ss) = f[n]
    BY <1>1, <1>3 DEF FlattenSeq, IsFlat
  <2> HIDE DEF n
  <2>2. IsFlat(f, ss, n)
    BY <1>1, FlatExists
  <2> HIDE DEF f
  <2>3. \A i \in 1..n : f[i] = IF i = 1 THEN ss[i] ELSE f[i - 1] \o ss[i]
    BY <2>2 DEF IsFlat
  <2> DEFINE T == {i \in 0..n : i # 0 => Good(f[i], i)}
  <2>4. 0 \in T
    BY <1>1
  <2>5. \A i \in 1..n : i - 1 \in T => i \in T
    <3> SUFFICES ASSUME NEW i \in 1..n, i - 1 # 0 => Good(f[i - 1], i - 1)
                 PROVE  i \in 0..n /\ Good(f[i], i)
      OBVIOUS
    <3>1. i \in 0..n /\ i # 0
      BY <1>1
    <3>2. ss[i] \in Seq(S) /\ Len(ss[i]) = w
      BY <1>1
    <3>3. CASE i = 1
      <4>1. f[i] = ss[i]
        BY <2>3, <3>3
      <4>2. \A q \in 1..i, j \in 1..w : (q - 1) * w + j = j /\ q = i
        BY <3>3
      <4> QED BY <3>1, <3>2, <3>3, <4>1, <4>2
    <3>4. CASE i # 1
      <4>1. i - 1 # 0 /\ f[i] = f[i - 1] \o ss[i]
        <5>1. i \in Int /\ i - 1 # 0
          BY <3>1, <3>4
        <5>2. f[i] = IF i = 1 THEN ss[i] ELSE f[i - 1] \o ss[i]
          BY <2>3
        <5> QED BY ONLY <3>4, <5>1, <5>2
      <4> DEFINE a == f[i - 1]
                 b == ss[i]
                 g == i - 1
      <4>2. /\ a \in Seq(S) /\ b \in Seq(S) /\ Len(a) = g * w /\ Len(b) = w
            /\ \A q \in 1..g, j \in 1..w : a[(q - 1) * w + j] = ss[q][j]
        BY <3>2, <4>1
      <4>3. g \in Nat /\ i = g + 1
        OBVIOUS
      <4> HIDE DEF a, b, g
      <4>4. /\ a \o b \in Seq(S) /\ Len(a \o b) = g * w + w
            /\ \A k \in 1..(g * w + w) : (a \o b)[k] = IF k <= g * w THEN a[k] ELSE b[k - g * w]
        <5> DEFINE gw == g * w
        <5>1. a \in Seq(S) /\ b \in Seq(S) /\ Len(a) = gw /\ Len(b) = w
          BY <4>2
        <5> HIDE DEF gw
        <5>2. /\ a \o b \in Seq(S) /\ Len(a \o b) = Len(a) + Len(b)
              /\ \A k \in 1..(Len(a) + Len(b)) : (a \o b)[k] = IF k <= Len(a) THEN a[k] ELSE b[k - Len(a)]
          BY ONLY <5>1, ConcatProperties
        <5>3. /\ a \o b \in Seq(S) /\ Len(a \o b) = gw + w
              /\ \A k \in 1..(gw + w) : (a \o b)[k] = IF k <= gw THEN a[k] ELSE b[k - gw]
          BY ONLY <5>1, <5>2
        <5> QED BY <5>3 DEF gw
      <4>5. g * w + w = i * w /\ g * w \in Nat
        BY <4>3
      <4>6. ASSUME NEW q \in 1..i, NEW j \in 1..w PROVE (a \o b)[(q - 1) * w + j] = ss[q][j]
        <5> DEFINE k == (q - 1) * w + j
        <5>1. CASE q = i
          <6>1. k = g * w + j
            BY <4>3, <5>1
          <6>2. k \in 1..(g * w + w) /\ ~ (k <= g * w) /\ k - g * w = j
            BY <4>5, <6>1
          <6> HIDE DEF k
          <6>3. (a \o b)[k] = b[j]
            BY <4>4, <6>2
          <6> QED BY <5>1, <6>3 DEF k, b
        <5>2. CASE q # i
          <6>1. q \in 1..g /\ q - 1 \in Nat
            BY <4>3, <5>2
          <6>2. (q - 1) * w <= (g - 1) * w /\ (q - 1) * w \in Nat
            BY <4>3, <6>1
          <6>3. (g - 1) * w = g * w - w
            BY <4>3
          <6>4. k \in 1..(g * w + w) /\ k <= g * w
            <7> DEFINE u == (q - 1) * w
                       v == g * w
                       x == (g - 1) * w
            <7>1. u <= x /\ u \in Nat /\ x = v - w /\ v \in Nat
              BY <4>5, <6>2, <6>3
            <7> HIDE DEF u, v, x
            <7>2. w \in Nat /\ j \in 1..w
              OBVIOUS
            <7>3. u + j \in 1..(v + w) /\ u + j <= v
              BY ONLY <7>1, <7>2
            <7> QED BY <7>3 DEF u, v
          <6>5. a[k] = ss[q][j]
            BY <4>2, <6>1
          <6> HIDE DEF k
          <6>6. (a \o b)[k] = ss[q][j]
            BY <4>4, <6>4, <6>5
          <6> QED BY <6>6 DEF k
        <5> QED BY <5>1, <5>2
      <4>7. f[i] = a \o b
        BY <4>1 DEF a, b
      <4>8. Good(a \o b, i)
        BY <4>4, <4>5, <4>6
      <4> HIDE DEF Good
      <4> QED BY <3>1, <4>7, <4>8
    <3> QED BY <3>3, <3>4
  <2> HIDE DEF T
  <2>6. 0..n \subseteq T
    BY <1>1, <2>4, <2>5, UpTo
  <2>7. n \in T
    BY <1>1, <2>6
  <2> HIDE DEF Good
  <2>8. Good(f[n], n)
    BY <1>3, <2>7 DEF T
  <2> QED BY <2>1, <2>8 DEF Good, n
<1> QED BY <1>2, <1>3

-----------------------------------------------------------------------------
(* The order in which loops visit the indices.                             *)

(* What a loop nest does at the beginning ix of an index.                  *)
VisitFrom(f, s, ix) ==
    IF Len(ix) = Len(s) THEN << ix >>
    ELSE FlattenSeq([i \in 1..s[Len(ix) + 1] |-> f[Append(ix, i - 1)]])

(* f does that at every beginning that has at least n - h of its n         *)
(* positions.                                                              *)
Nearly(s, h) == {ix \in IndexPrefixes(s) : Len(ix) >= Len(s) - h}
IsOrder(f, s, h) == f = [ix \in Nearly(s, h) |-> VisitFrom(f, s, ix)]

(* A beginning is that of an element of the shape cut off behind it.       *)
LEMMA PrefixFacts ==
    ASSUME NEW s \in Seq(Nat)
    PROVE  /\ << >> \in IndexPrefixes(s) /\ << >> = IndexAt(SubSeq(s, 1, 0), 1)
           /\ \A ix \in IndexPrefixes(s) : \E n \in 0..Len(s) : \E k \in 1..NumElements(SubSeq(s, 1, n)) :
                ix = IndexAt(SubSeq(s, 1, n), k)
           /\ \A n \in 0..Len(s) : \A k \in 1..NumElements(SubSeq(s, 1, n)) :
                /\ IndexAt(SubSeq(s, 1, n), k) \in IndexPrefixes(s)
                /\ IndexAt(SubSeq(s, 1, n), k) \in Seq(Nat) /\ Len(IndexAt(SubSeq(s, 1, n), k)) = n
<1>1. \A ix \in IndexPrefixes(s) : \E n \in 0..Len(s) : \E k \in 1..NumElements(SubSeq(s, 1, n)) :
                ix = IndexAt(SubSeq(s, 1, n), k)
  BY DEF IndexPrefixes
<1>2. \A n \in 0..Len(s) : \A k \in 1..NumElements(SubSeq(s, 1, n)) :
                IndexAt(SubSeq(s, 1, n), k) \in IndexPrefixes(s)
  BY DEF IndexPrefixes
<1>3. ASSUME NEW n \in 0..Len(s), NEW k \in 1..NumElements(SubSeq(s, 1, n))
      PROVE  IndexAt(SubSeq(s, 1, n), k) \in Seq(Nat) /\ Len(IndexAt(SubSeq(s, 1, n), k)) = n
  <2> DEFINE t == SubSeq(s, 1, n)
  <2>1. t \in Seq(Nat) /\ Len(t) = n
    OBVIOUS
  <2> HIDE DEF t
  <2>2. k \in 1..NumElements(t)
    BY DEF t
  <2>3. IndexAt(t, k) \in Seq(Nat) /\ Len(IndexAt(t, k)) = n
    BY <2>1, <2>2, IndexIsInBounds
  <2> QED BY <2>3 DEF t
<1>4. << >> \in IndexPrefixes(s) /\ << >> = IndexAt(SubSeq(s, 1, 0), 1)
  <2>1. SubSeq(s, 1, 0) = << >>
    OBVIOUS
  <2>2. 0 \in 0..Len(s) /\ 1 \in 1..NumElements(SubSeq(s, 1, 0))
    <3>1. Len(s) \in Nat
      OBVIOUS
    <3>2. NumElements(SubSeq(s, 1, 0)) = 1
      BY ONLY <2>1, NumElementsEmpty
    <3> QED BY ONLY <3>1, <3>2
  <2>3. IndexAt(SubSeq(s, 1, 0), 1) \in Seq(Nat) /\ Len(IndexAt(SubSeq(s, 1, 0), 1)) = 0
    BY <1>3, <2>2
  <2> DEFINE e == IndexAt(SubSeq(s, 1, 0), 1)
  <2> HIDE DEF e
  <2>4. e = << >>
    <3>1. e \in Seq(Nat) /\ Len(e) = 0
      BY <2>3 DEF e
    <3> QED BY <3>1
  <2>5. e \in IndexPrefixes(s)
    BY <1>2, <2>2 DEF e
  <2> QED BY <2>4, <2>5 DEF e
<1> QED BY <1>1, <1>2, <1>3, <1>4

(* One position more.                                                      *)
LEMMA PrefixAppend ==
    ASSUME NEW s \in Seq(Nat), NEW n \in 0..(Len(s) - 1), NEW k \in 1..NumElements(SubSeq(s, 1, n)),
           NEW i \in 1..s[n + 1]
    PROVE  LET j == (k - 1) * s[n + 1] + i
           IN  /\ j \in 1..NumElements(SubSeq(s, 1, n + 1))
               /\ Append(IndexAt(SubSeq(s, 1, n), k), i - 1) = IndexAt(SubSeq(s, 1, n + 1), j)
<1> DEFINE t == SubSeq(s, 1, n)
           e == s[n + 1]
<1>1. t \in Seq(Nat) /\ e \in Nat
  OBVIOUS
<1>2. SubSeq(s, 1, n + 1) = Append(t, e)
  OBVIOUS
<1> HIDE DEF t, e
<1>3. e \in Nat \ {0} /\ i \in 1..e
  BY <1>1 DEF e
<1>4. k \in 1..NumElements(t) /\ NumElements(t) \in Nat
  BY <1>1, NumElementsType DEF t
<1>5. NumElements(t) # 0
  BY <1>4
<1>6. /\ IndexAt(Append(t, e), (k - 1) * e + i) = Append(IndexAt(t, k), i - 1)
      /\ (k - 1) * e + i \in 1..NumElements(Append(t, e))
  BY <1>1, <1>3, <1>4, <1>5, IndexAppend
<1> QED BY <1>2, <1>6 DEF t, e

(* The beginning of an index is no longer than the shape.                  *)
LEMMA PrefixLength ==
    ASSUME NEW s \in Seq(Nat), NEW ix \in IndexPrefixes(s)
    PROVE  Len(ix) \in 0..Len(s)
<1>1. PICK n \in 0..Len(s) : \E k \in 1..NumElements(SubSeq(s, 1, n)) : ix = IndexAt(SubSeq(s, 1, n), k)
  BY PrefixFacts
<1>2. Len(ix) = n
  BY <1>1, PrefixFacts
<1> QED BY <1>2

(* An index one longer is further down.                                    *)
LEMMA NextPrefix ==
    ASSUME NEW s \in Seq(Nat), NEW h \in 1..Len(s), NEW ix \in Nearly(s, h), Len(ix) # Len(s),
           NEW i \in 1..s[Len(ix) + 1]
    PROVE  Append(ix, i - 1) \in Nearly(s, h - 1)
<1> DEFINE m == Len(s)
<1>1. m \in Nat /\ h \in 1..m
  OBVIOUS
<1>2. PICK n \in 0..m : \E k \in 1..NumElements(SubSeq(s, 1, n)) : ix = IndexAt(SubSeq(s, 1, n), k)
  BY PrefixFacts DEF Nearly
<1>3. PICK k \in 1..NumElements(SubSeq(s, 1, n)) : ix = IndexAt(SubSeq(s, 1, n), k)
  BY <1>2
<1>4. Len(ix) = n /\ n >= m - h /\ ix \in Seq(Nat)
  BY <1>3, PrefixFacts DEF Nearly
<1>5. n \in 0..(m - 1) /\ i \in 1..s[n + 1]
  BY <1>4
<1> DEFINE jx == Append(ix, i - 1)
           j == (k - 1) * s[n + 1] + i
<1>6. j \in 1..NumElements(SubSeq(s, 1, n + 1)) /\ jx = IndexAt(SubSeq(s, 1, n + 1), j)
  BY <1>3, <1>5, PrefixAppend
<1> HIDE DEF jx, j
<1>7. n + 1 \in 0..m
  BY <1>5
<1>8. jx \in IndexPrefixes(s) /\ Len(jx) = n + 1
  BY <1>6, <1>7, PrefixFacts
<1> HIDE DEF m
<1>9. Len(jx) >= m - (h - 1)
  BY <1>1, <1>4, <1>8
<1> QED BY <1>8, <1>9 DEF Nearly, jx, m

(* The loops can be walked through.                                        *)
LEMMA OrderExists ==
    ASSUME NEW s \in Seq(Nat)
    PROVE  \E f : IsOrder(f, s, Len(s))
<1> DEFINE m == Len(s)
           T == {h \in 0..m : \E f : IsOrder(f, s, h)}
<1>1. m \in Nat
  OBVIOUS
<1>2. 0 \in T
  <2> DEFINE f == [ix \in Nearly(s, 0) |-> << ix >>]
  <2>1. \A ix \in Nearly(s, 0) : Len(ix) = m
    <3> SUFFICES ASSUME NEW ix \in Nearly(s, 0) PROVE Len(ix) = m
      OBVIOUS
    <3>1. ix \in IndexPrefixes(s) /\ Len(ix) >= m - 0
      BY DEF Nearly
    <3>2. Len(ix) \in 0..m
      BY <3>1, PrefixLength
    <3> HIDE DEF m
    <3> QED BY <1>1, <3>1, <3>2
  <2>2. f = [ix \in Nearly(s, 0) |-> VisitFrom(f, s, ix)]
    BY <2>1 DEF VisitFrom
  <2>3. IsOrder(f, s, 0)
    BY <2>2 DEF IsOrder
  <2> QED BY <1>1, <2>3
<1>3. ASSUME NEW h \in 1..m, h - 1 \in T PROVE h \in T
  <2>1. PICK f : IsOrder(f, s, h - 1)
    BY <1>3
  <2> DEFINE g == [ix \in Nearly(s, h) |-> VisitFrom(f, s, ix)]
  <2>2. ASSUME NEW ix \in Nearly(s, h) PROVE VisitFrom(f, s, ix) = VisitFrom(g, s, ix)
    <3>1. CASE Len(ix) = Len(s)
      BY <3>1 DEF VisitFrom
    <3>2. CASE Len(ix) # Len(s)
      <4>1. ASSUME NEW i \in 1..s[Len(ix) + 1] PROVE f[Append(ix, i - 1)] = g[Append(ix, i - 1)]
        <5> DEFINE jx == Append(ix, i - 1)
        <5>1. jx \in Nearly(s, h - 1)
          BY <3>2, NextPrefix
        <5>2. jx \in Nearly(s, h)
          <6>1. jx \in IndexPrefixes(s) /\ Len(jx) >= m - (h - 1)
            BY <5>1 DEF Nearly
          <6>2. Len(jx) \in 0..m
            BY <6>1, PrefixLength
          <6> HIDE DEF jx, m
          <6>3. Len(jx) >= m - h
            BY <1>1, <6>1, <6>2
          <6> QED BY <6>1, <6>3 DEF Nearly, m
        <5> HIDE DEF jx
        <5>3. f[jx] = VisitFrom(f, s, jx) /\ g[jx] = VisitFrom(f, s, jx)
          BY <2>1, <5>1, <5>2 DEF IsOrder
        <5> QED BY <5>3 DEF jx
      <4> HIDE DEF g
      <4>2. [i \in 1..s[Len(ix) + 1] |-> f[Append(ix, i - 1)]] = [i \in 1..s[Len(ix) + 1] |-> g[Append(ix, i - 1)]]
        BY ONLY <4>1
      <4> QED BY ONLY <4>2 DEF VisitFrom
    <3> QED BY <3>1, <3>2
  <2>3. g = [ix \in Nearly(s, h) |-> VisitFrom(g, s, ix)]
    BY <2>2
  <2> HIDE DEF g
  <2>4. IsOrder(g, s, h)
    BY <2>3 DEF IsOrder
  <2> QED BY <1>1, <1>3, <2>4
<1> HIDE DEF T
<1>4. 0..m \subseteq T
  BY <1>1, <1>2, <1>3, UpTo
<1>5. m \in T
  BY <1>1, <1>4
<1> QED BY <1>5 DEF T

(* The part of the order that begins with k-th beginning of n positions.   *)
Block(s, n, k) == [j \in 1..Stride(s, n) |-> IndexAt(s, (k - 1) * Stride(s, n) + j)]

(* The block of a beginning is the blocks of the beginnings one longer.    *)
LEMMA BlocksOfBlock ==
    ASSUME NEW s \in Seq(Nat), NEW n \in 0..(Len(s) - 1), NEW k \in 1..NumElements(SubSeq(s, 1, n))
    PROVE  FlattenSeq([i \in 1..s[n + 1] |-> Block(s, n + 1, (k - 1) * s[n + 1] + i)]) = Block(s, n, k)
<1> DEFINE e == s[n + 1]
           w == Stride(s, n + 1)
           z == Stride(s, n)
           ss == [i \in 1..e |-> Block(s, n + 1, (k - 1) * e + i)]
           flat == FlattenSeq(ss)
<1>1. n + 1 \in 1..Len(s) /\ (n + 1) - 1 = n
  OBVIOUS
<1>2. e \in Nat /\ w \in Nat /\ z = e * w /\ z \in Nat
  <2>1. n \in 0..Len(s) /\ n + 1 \in 0..Len(s)
    BY <1>1
  <2>2. w \in Nat /\ z \in Nat
    BY <2>1, Strides
  <2>3. e \in Nat
    BY <1>1
  <2>4. \A d \in 1..Len(s) : Stride(s, d - 1) = s[d] * Stride(s, d)
    BY Strides
  <2>5. Stride(s, (n + 1) - 1) = e * w
    BY <1>1, <2>4
  <2> QED BY <1>1, <2>2, <2>3, <2>5
<1>3. k - 1 \in Nat
  <2>1. SubSeq(s, 1, n) \in Seq(Nat)
    OBVIOUS
  <2>2. NumElements(SubSeq(s, 1, n)) \in Nat
    BY <2>1, NumElementsType
  <2> QED BY <2>2
<1> DEFINE X == {IndexAt(s, q) : q \in Int}
           K == k - 1
<1>4. Block(s, n, k) = [q \in 1..z |-> IndexAt(s, K * z + q)]
  BY DEF Block
<1>5. \A i \in 1..e : ss[i] = [j \in 1..w |-> IndexAt(s, ((K * e + i) - 1) * w + j)]
  BY DEF Block
<1>6. ss \in Seq(Seq(X)) /\ Len(ss) = e
  <2>1. \A i \in 1..e : ss[i] \in Seq(X)
    <3> SUFFICES ASSUME NEW i \in 1..e PROVE ss[i] \in Seq(X)
      OBVIOUS
    <3> DEFINE y == (K * e + i) - 1
    <3>1. y \in Int
      BY <1>2, <1>3
    <3> HIDE DEF y, ss, w
    <3> DEFINE u == y * w
    <3>2. \A j \in 1..w : IndexAt(s, y * w + j) \in X
      <4>1. u \in Int
        BY <1>2, <3>1
      <4> HIDE DEF u
      <4>2. \A j \in 1..w : u + j \in Int
        BY <4>1
      <4>3. \A j \in 1..w : IndexAt(s, u + j) \in X
        BY ONLY <4>2
      <4> QED BY <4>3 DEF u
    <3>3. [j \in 1..w |-> IndexAt(s, y * w + j)] \in Seq(X)
      <4>1. w \in Nat
        BY <1>2
      <4>2. \A j \in 1..w : IndexAt(s, u + j) \in X
        BY <3>2
      <4> HIDE DEF u, X
      <4>3. [j \in 1..w |-> IndexAt(s, u + j)] \in Seq(X)
        BY ONLY <4>1, <4>2
      <4> QED BY <4>3 DEF u
    <3> QED BY <1>5, <3>3 DEF y
  <2>2. e \in Nat /\ DOMAIN ss = 1..e /\ ss = [i \in 1..e |-> ss[i]]
    BY <1>2
  <2> DEFINE Y == Seq(X)
  <2> HIDE DEF ss, X
  <2>3. ss \in Seq(Seq(X))
    <3>1. \A i \in 1..e : ss[i] \in Y
      BY <2>1
    <3> HIDE DEF Y, e
    <3>2. e \in Nat
      BY <2>2
    <3>3. [i \in 1..e |-> ss[i]] \in Seq(Y)
      BY ONLY <3>1, <3>2
    <3>4. ss = [i \in 1..e |-> ss[i]]
      BY <2>2
    <3>5. ss \in Seq(Y)
      BY ONLY <3>3, <3>4
    <3> QED BY <3>5 DEF Y
  <2> QED BY ONLY <2>2, <2>3
<1> HIDE DEF ss, X
<1>7. \A i \in 1..Len(ss) : Len(ss[i]) = w
  <2> SUFFICES ASSUME NEW i \in 1..e PROVE Len(ss[i]) = w
    BY <1>6
  <2> DEFINE u == ((K * e + i) - 1) * w
  <2>1. ss[i] = [j \in 1..w |-> IndexAt(s, u + j)]
    BY <1>5
  <2>2. w \in Nat
    BY <1>2
  <2> HIDE DEF u, w
  <2> QED BY ONLY <2>1, <2>2
<1>8. /\ flat \in Seq(X) /\ Len(flat) = e * w
      /\ \A i \in 1..e, j \in 1..w : flat[(i - 1) * w + j] = ss[i][j]
  <2>1. /\ flat \in Seq(X) /\ Len(flat) = Len(ss) * w
        /\ \A i \in 1..Len(ss), j \in 1..w : flat[(i - 1) * w + j] = ss[i][j]
    <3> HIDE DEF e, w, flat
    <3>1. w \in Nat
      BY <1>2
    <3> QED BY <3>1, <1>6, <1>7, FlattenedEvenly DEF flat
  <2> QED BY <1>6, <2>1
<1> HIDE DEF flat, e, w, z, K
<1>9. ASSUME NEW q \in 1..z PROVE flat[q] = IndexAt(s, K * z + q)
  <2>1. w # 0 /\ e # 0
    <3>1. z # 0
      BY <1>2
    <3> QED BY <1>2, <3>1, FactorsOfPositive
  <2> DEFINE a == (q - 1) \div w
             b == (q - 1) % w
  <2>2. a \in Nat /\ b \in 0..(w - 1) /\ q - 1 = w * a + b
    <3>1. q - 1 \in Nat /\ w \in Nat \ {0}
      BY <1>2, <2>1
    <3> QED BY <3>1, QuotientFacts
  <2> HIDE DEF a, b
  <2>3. a < e
    <3>1. SUFFICES ASSUME a >= e PROVE FALSE
      BY <1>2, <2>2
    <3>2. w * a >= w * e
      BY <1>2, <2>2, <3>1
    <3>3. w * e = z /\ q - 1 < z
      BY <1>2
    <3> DEFINE wa == w * a
    <3>4. wa \in Nat /\ wa >= z /\ q - 1 = wa + b
      BY <1>2, <2>2, <3>2, <3>3
    <3> HIDE DEF wa
    <3> QED BY <1>2, <2>2, <3>3, <3>4
  <2> DEFINE i == a + 1
             j == b + 1
  <2>4. i \in 1..e /\ j \in 1..w /\ i - 1 = a
    BY <1>2, <2>2, <2>3
  <2>5. q = (i - 1) * w + j
    <3>1. (i - 1) * w = w * a
      BY <1>2, <2>2, <2>4
    <3> DEFINE wa == w * a
    <3>2. wa \in Nat
      BY <1>2, <2>2
    <3> HIDE DEF wa
    <3>3. q = wa + (b + 1)
      <4>1. q - 1 = wa + b
        BY <2>2 DEF wa
      <4>2. q \in Int /\ b \in Int
        BY <2>2
      <4> QED BY ONLY <3>2, <4>1, <4>2
    <3> QED BY <3>1, <3>3 DEF wa
  <2>6. flat[q] = ss[i][j]
    BY <1>8, <2>4, <2>5
  <2>7. ss[i][j] = IndexAt(s, ((K * e + i) - 1) * w + j)
    BY <1>5, <2>4
  <2>8. ((K * e + i) - 1) * w + j = K * z + q
    <3> DEFINE Ke == K * e
    <3>1. Ke \in Nat /\ (K * e + i) - 1 = Ke + a /\ K \in Nat
      BY <1>2, <1>3, <2>4 DEF K
    <3>2. (Ke + a) * w = Ke * w + a * w
      BY <1>2, <2>2, <3>1
    <3>3. Ke * w = K * z
      BY <1>2, <3>1
    <3>4. q = a * w + j
      BY <2>4, <2>5
    <3> DEFINE kz == K * z
               aw == a * w
    <3>5. kz \in Nat /\ aw \in Nat
      BY <1>2, <2>2, <3>1
    <3>6. ((K * e + i) - 1) * w = kz + aw
      BY <3>1, <3>2, <3>3
    <3>7. q = aw + j
      BY <3>4
    <3> HIDE DEF kz, aw
    <3>8. (kz + aw) + j = kz + q
      BY <2>4, <3>5, <3>7
    <3> QED BY <3>6, <3>8 DEF kz
  <2> QED BY <2>6, <2>7, <2>8
<1>10. flat = [q \in 1..z |-> IndexAt(s, K * z + q)]
  <2>1. DOMAIN flat = 1..z
    BY <1>2, <1>8
  <2>2. flat = [q \in DOMAIN flat |-> flat[q]]
    BY <1>8
  <2> QED BY <1>9, <2>1, <2>2
<1> QED BY <1>4, <1>10 DEF flat, ss, e

(* Nested loops visit the indices of a shape in row-major order.           *)
LEMMA LoopOrderIsRowMajor ==
    ASSUME NEW s \in Seq(Nat)
    PROVE  LoopOrder(s) = [k \in 1..NumElements(s) |-> IndexAt(s, k)]
<1> DEFINE m == Len(s)
           f == CHOOSE g : g = [ix \in IndexPrefixes(s) |-> VisitFrom(g, s, ix)]
           Done(n) == \A k \in 1..NumElements(SubSeq(s, 1, n)) :
                         f[IndexAt(SubSeq(s, 1, n), k)] = Block(s, n, k)
           T == {h \in 0..m : Done(m - h)}
<1>1. m \in Nat
  OBVIOUS
<1>2. LoopOrder(s) = f[<< >>]
  BY DEF LoopOrder, VisitFrom
<1>3. f = [ix \in IndexPrefixes(s) |-> VisitFrom(f, s, ix)]
  <2>1. Nearly(s, m) = IndexPrefixes(s)
    <3>1. \A ix \in IndexPrefixes(s) : Len(ix) \in 0..m
      BY PrefixLength
    <3>2. \A ix \in IndexPrefixes(s) : Len(ix) >= m - m
      BY <1>1, <3>1
    <3> QED BY <3>2 DEF Nearly
  <2>2. \E g : g = [ix \in IndexPrefixes(s) |-> VisitFrom(g, s, ix)]
    BY <2>1, OrderExists DEF IsOrder
  <2> QED BY <2>2
<1> HIDE DEF f
<1>4. 0 \in T
  <2>1. SubSeq(s, 1, m) = s /\ m - 0 = m /\ m \in 0..m
    BY <1>1
  <2>2. ASSUME NEW k \in 1..NumElements(s) PROVE f[IndexAt(s, k)] = Block(s, m, k)
    <3> DEFINE ix == IndexAt(s, k)
    <3>1. ix \in IndexPrefixes(s) /\ Len(ix) = m
      <4> HIDE DEF m
      <4>1. k \in 1..NumElements(SubSeq(s, 1, m)) /\ m \in 0..Len(s)
        BY <2>1 DEF m
      <4>2. IndexAt(SubSeq(s, 1, m), k) \in IndexPrefixes(s) /\ Len(IndexAt(SubSeq(s, 1, m), k)) = m
        BY <4>1, PrefixFacts
      <4> QED BY <2>1, <4>2
    <3> HIDE DEF ix
    <3>2. f[ix] = << ix >>
      BY <1>3, <3>1 DEF VisitFrom
    <3>3. Stride(s, m) = 1
      BY Strides
    <3>4. k \in Int
      BY NumElementsType
    <3>5. Block(s, m, k) = << ix >>
      <4>1. \A j \in 1..1 : IndexAt(s, (k - 1) * 1 + j) = ix
        <5>1. \A j \in 1..1 : (k - 1) * 1 + j = k
          BY <3>4
        <5> QED BY <5>1 DEF ix
      <4>2. Block(s, m, k) = [j \in 1..1 |-> IndexAt(s, (k - 1) * 1 + j)]
        BY <3>3 DEF Block
      <4>3. Block(s, m, k) = [j \in 1..1 |-> ix]
        BY ONLY <4>1, <4>2
      <4>4. [j \in 1..1 |-> ix] = << ix >>
        OBVIOUS
      <4> QED BY <4>3, <4>4
    <3> QED BY <3>2, <3>5 DEF ix
  <2>3. Done(m)
    BY <2>1, <2>2
  <2>4. Done(m - 0)
    BY <2>1, <2>3
  <2> QED BY <1>1, <2>4
<1>5. ASSUME NEW h \in 1..m, h - 1 \in T PROVE h \in T
  <2> DEFINE n == m - h
  <2>1. n \in 0..(m - 1) /\ m - (h - 1) = n + 1 /\ n \in 0..m
    BY <1>1
  <2>2. Done(n + 1)
    BY <1>5, <2>1
  <2> HIDE DEF Done, T
  <2>3. ASSUME NEW k \in 1..NumElements(SubSeq(s, 1, n)) PROVE f[IndexAt(SubSeq(s, 1, n), k)] = Block(s, n, k)
    <3> DEFINE ix == IndexAt(SubSeq(s, 1, n), k)
               e == s[n + 1]
    <3>1. ix \in IndexPrefixes(s) /\ Len(ix) = n
      BY <2>1, PrefixFacts
    <3>2. n # m
      BY <1>1, <2>1
    <3>3. f[ix] = FlattenSeq([i \in 1..e |-> f[Append(ix, i - 1)]])
      <4> HIDE DEF ix, n
      <4>1. f[ix] = VisitFrom(f, s, ix)
        BY <1>3, <3>1
      <4> QED BY <3>1, <3>2, <4>1 DEF VisitFrom
    <3>4. ASSUME NEW i \in 1..e PROVE f[Append(ix, i - 1)] = Block(s, n + 1, (k - 1) * e + i)
      <4> DEFINE j == (k - 1) * e + i
      <4> HIDE DEF n
      <4>1. j \in 1..NumElements(SubSeq(s, 1, n + 1)) /\ Append(ix, i - 1) = IndexAt(SubSeq(s, 1, n + 1), j)
        BY <2>1, PrefixAppend
      <4> HIDE DEF ix, j
      <4>2. f[IndexAt(SubSeq(s, 1, n + 1), j)] = Block(s, n + 1, j)
        BY <2>2, <4>1 DEF Done
      <4> QED BY <4>1, <4>2 DEF j
    <3> HIDE DEF ix
    <3>5. f[ix] = FlattenSeq([i \in 1..e |-> Block(s, n + 1, (k - 1) * e + i)])
      <4> HIDE DEF e, n
      <4>1. [i \in 1..e |-> f[Append(ix, i - 1)]] = [i \in 1..e |-> Block(s, n + 1, (k - 1) * e + i)]
        BY ONLY <3>4
      <4> QED BY ONLY <3>3, <4>1
    <3>6. f[ix] = Block(s, n, k)
      <4> HIDE DEF n
      <4> QED BY <2>1, <3>5, BlocksOfBlock
    <3> QED BY <3>6 DEF ix
  <2>4. Done(n)
    BY <2>3 DEF Done
  <2> QED BY <1>1, <2>4 DEF T
<1> HIDE DEF T
<1>6. 0..m \subseteq T
  BY <1>1, <1>4, <1>5, UpTo
<1>7. Done(0)
  <2>1. m \in T /\ m - m = 0
    BY <1>1, <1>6
  <2> QED BY <2>1 DEF T
<1>8. f[<< >>] = Block(s, 0, 1)
  <2>1. SubSeq(s, 1, 0) = << >>
    OBVIOUS
  <2>2. NumElements(SubSeq(s, 1, 0)) = 1
    BY ONLY <2>1, NumElementsEmpty
  <2>3. << >> = IndexAt(SubSeq(s, 1, 0), 1)
    BY PrefixFacts
  <2> DEFINE z == SubSeq(s, 1, 0)
  <2> HIDE DEF z
  <2>4. 1 \in 1..NumElements(z)
    BY <2>2 DEF z
  <2>5. f[IndexAt(z, 1)] = Block(s, 0, 1)
    BY <1>7, <2>4 DEF z
  <2> QED BY <2>3, <2>5 DEF z
<1>9. Block(s, 0, 1) = [k \in 1..NumElements(s) |-> IndexAt(s, k)]
  <2>1. Stride(s, 0) = NumElements(s) /\ NumElements(s) \in Nat
    BY Strides, NumElementsType
  <2> DEFINE z == NumElements(s)
  <2>2. \A j \in 1..z : (1 - 1) * z + j = j
    BY <2>1
  <2>3. Block(s, 0, 1) = [j \in 1..z |-> IndexAt(s, (1 - 1) * z + j)]
    BY <2>1 DEF Block
  <2> QED BY <2>2, <2>3
<1> QED BY <1>2, <1>8, <1>9

-----------------------------------------------------------------------------
(* What is stored before it is read.                                       *)

(* The buffer an item stores every element of, and those it reads.         *)
Fills(x) == IF x.op \in {"fill", "store", "nest", "view"} THEN {x.buf} ELSE {}
Accumulates(x) == x.op = "nest" /\ x.kind = "matrix_mul" /\ ~ x.zero
Reads(x) == (IF x.op \in {"print", "printf"} \/ Accumulates(x) THEN {x.buf} ELSE {})
              \cup (IF x.op \in {"view", "nest"} THEN Range(x.args) ELSE {})

(* What the first k items have filled.                                     *)
Full(c, k) == UNION {Fills(c[i]) : i \in 1..k}

(* The stores of a literal reach every element.                            *)
StoresAll(x, s) ==
    /\ DOMAIN x.ixs = 1..Len(x.ixs) /\ Len(x.ixs) \in Nat
    /\ \A n \in 1..NumElements(s) : \E k \in DOMAIN x.ixs : x.ixs[k] = IndexAt(s, n)
    /\ \A k \in DOMAIN x.ixs : x.terms[k] # Undef

(* The loads of a nest stay inside what they load from.                    *)
LoadsFit(x, p) ==
    /\ x.kind \in Elementwise \cup {"transpose", "matrix_mul"}
    /\ x.depth \in Nat /\ (x.kind # "matrix_mul" => x.depth = 1)
    /\ DOMAIN x.args = 1..(IF x.kind = "transpose" THEN 1 ELSE 2)
    /\ \A n \in 1..NumElements(x.shape), k \in 0..(x.depth - 1) : \A a \in DOMAIN x.args :
          InBounds(p[x.args[a]].type, LoadIndex(x.access[a], IndexAt(x.shape, n), k))

(* An item agrees with the types of the values its buffers are made for.   *)
ItemFits(x, p) ==
    /\ x.op \in {"alloc", "view", "nest"} => x.shape = p[x.buf].type /\ x.shape \in Seq(Nat)
    /\ x.op = "view" => 1 \in DOMAIN x.args /\ NumElements(p[x.args[1]].type) = NumElements(x.shape)
    /\ x.op = "store" => StoresAll(x, p[x.buf].type)
    /\ x.op = "nest" => LoadsFit(x, p)

(* It reads only what is full, and makes no buffer anew that is.           *)
Flows(x, full, p) ==
    /\ Reads(x) \subseteq full
    /\ x.op = "alloc" => x.buf \notin full
    /\ ItemFits(x, p)

Flow(c, p) == \A k \in 1..Len(c) : Flows(c[k], Full(c, k - 1), p)

(* The buffers that stand for the values there are by then are full.       *)
Standing(p, c, v, i) == \A o \in 1..(i - 1) : p[o].kind \notin Sinks =>
    v[o] \in Full(c, Len(c)) /\ p[v[o]].type = p[o].type

(* An item with no part in it.                                             *)
Inert(x) == Reads(x) = {} /\ Fills(x) = {} /\ x.op \notin {"alloc", "view", "store", "nest"}

(* It goes anywhere.                                                       *)
LEMMA InertFlows ==
    ASSUME NEW x, Inert(x), NEW S, NEW p
    PROVE  Flows(x, S, p)
  BY DEF Inert, Flows, ItemFits

(* The items with no part in it.                                           *)
LEMMA InertItems ==
    ASSUME NEW x, x.op \in {"toy", "dealloc", "return"}
    PROVE  Inert(x)
  BY DEF Inert, Reads, Fills, Accumulates

(* What is filled is needed or made.                                       *)
LEMMA FullIsMade ==
    ASSUME NEW c, NEW m \in Nat, \A k \in 1..m : Needs(c[k]) \subseteq Made(c, k - 1)
    PROVE  Full(c, m) \subseteq Made(c, m)
<1> SUFFICES ASSUME NEW k \in 1..m, NEW b \in Fills(c[k]) PROVE b \in Made(c, m)
  BY DEF Full
<1>1. b \in Needs(c[k]) \cup Makes(c[k])
  BY DEF Fills, Needs, Makes
<1>2. k - 1 \in 0..m
  OBVIOUS
<1>3. Made(c, k - 1) \subseteq Made(c, m)
  BY <1>2, MadeFacts
<1> QED BY <1>1, <1>3 DEF Made

(* What is filled, item by item.                                           *)
LEMMA FullFacts ==
    ASSUME NEW c, NEW n \in Nat
    PROVE  /\ Full(c, 0) = {}
           /\ \A k \in 1..n : Full(c, k) = Full(c, k - 1) \cup Fills(c[k])
           /\ \A m \in 0..n : (\A k \in (m + 1)..n : Fills(c[k]) = {}) => Full(c, n) = Full(c, m)
<1>1. Full(c, 0) = {}
  <2>1. 1..0 = {}
    OBVIOUS
  <2> QED BY <2>1 DEF Full
<1>2. ASSUME NEW k \in 1..n PROVE Full(c, k) = Full(c, k - 1) \cup Fills(c[k])
  <2>1. 1..k = 1..(k - 1) \cup {k}
    OBVIOUS
  <2> QED BY <2>1 DEF Full
<1>3. ASSUME NEW m \in 0..n, \A k \in (m + 1)..n : Fills(c[k]) = {} PROVE Full(c, n) = Full(c, m)
  <2>1. \A k \in 1..n : k \in 1..m \/ k \in (m + 1)..n
    OBVIOUS
  <2>2. \A k \in 1..m : k \in 1..n
    OBVIOUS
  <2> QED BY <1>3, <2>1, <2>2 DEF Full
<1> QED BY <1>1, <1>2, <1>3

(* Items that fill the same.                                               *)
LEMMA FullSame ==
    ASSUME NEW c, NEW d, NEW k \in Nat, \A i \in 1..k : Fills(c[i]) = Fills(d[i])
    PROVE  Full(c, k) = Full(d, k)
  BY DEF Full

(* Items in the place of an operation behind which nothing has a part.     *)
FullWith(r, c, m, items) == \A l \in 0..Len(items) : Full(r, m + l) = Full(c, m) \cup Full(items, l)

(* What is full up to each of the new items.                               *)
LEMMA FullReplaced ==
    ASSUME NEW r, NEW c, NEW m \in Nat, NEW items, Replaced(r, c, m, items)
    PROVE  FullWith(r, c, m, items)
<1> SUFFICES ASSUME NEW l \in 0..Len(items) PROVE Full(r, m + l) = Full(c, m) \cup Full(items, l)
  BY DEF FullWith
<1> DEFINE n == m + l
<1>1. /\ \A k \in 1..m : r[k] = c[k]
      /\ \A j \in 1..l : r[m + j] = items[j]
  BY DEF Replaced
<1>2. \A i \in 1..n : i \in 1..m \/ (i - m \in 1..l /\ r[i] = items[i - m])
  <2> SUFFICES ASSUME NEW i \in 1..n, i \notin 1..m PROVE i - m \in 1..l /\ r[i] = items[i - m]
    OBVIOUS
  <2>1. i - m \in 1..l /\ m + (i - m) = i
    OBVIOUS
  <2> QED BY <1>1, <2>1
<1>3. \A i \in 1..m : i \in 1..n
  OBVIOUS
<1>4. \A j \in 1..l : m + j \in 1..n
  OBVIOUS
<1> QED BY <1>1, <1>2, <1>3, <1>4 DEF Full

(* They flow if they do behind what is in front of them.                   *)
FlowIn(items, full, p) ==
    \A j \in 1..Len(items) : Flows(items[j], full \cup Full(items, j - 1), p)

(* Nothing behind the first m items has a part in it.                      *)
InertFrom(c, m) == m \in 0..(Len(c) - 1) /\ \A k \in (m + 1)..Len(c) : Inert(c[k])

(* Then the code flows with them in it.                                    *)
LEMMA FlowReplaced ==
    ASSUME NEW p, NEW r, NEW c, Len(c) \in Nat, NEW m, InertFrom(c, m), NEW items, Len(items) \in Nat,
           Replaced(r, c, m, items), Flow(c, p), FlowIn(items, Full(c, m), p)
    PROVE  /\ Flow(r, p) /\ Full(c, Len(c)) = Full(c, m)
           /\ Full(r, Len(r)) = Full(c, m) \cup Full(items, Len(items))
<1> DEFINE n == Len(c)
           L == Len(items)
           N == Len(r)
<1>1. n \in Nat /\ L \in Nat /\ m \in Nat /\ m < n
  BY DEF InertFrom
<1>2. /\ N = (n - 1) + L
      /\ \A k \in 1..m : r[k] = c[k]
      /\ \A j \in 1..L : r[m + j] = items[j]
      /\ \A k \in (m + 2)..n : r[(k - 1) + L] = c[k]
  BY DEF Replaced
<1>3. \A l \in 0..L : Full(r, m + l) = Full(c, m) \cup Full(items, l)
  <2>1. m \in Nat
    BY <1>1
  <2> HIDE DEF n, N
  <2>2. FullWith(r, c, m, items)
    BY <2>1, FullReplaced
  <2> QED BY <2>2 DEF FullWith
<1>4. \A k \in 1..n : Flows(c[k], Full(c, k - 1), p)
  BY DEF Flow
<1>5. \A k \in (m + 1)..n : Inert(c[k])
  BY DEF InertFrom
<1>6. \A j \in 1..L : Flows(items[j], Full(c, m) \cup Full(items, j - 1), p)
  BY DEF FlowIn
<1> HIDE DEF n, L, N
<1>7. ASSUME NEW k \in (m + L + 1)..N PROVE Inert(r[k])
  <2>1. (k - L) + 1 \in (m + 2)..n /\ (((k - L) + 1) - 1) + L = k /\ (k - L) + 1 \in (m + 1)..n
    BY <1>1, <1>2
  <2> QED BY <1>2, <1>5, <2>1
<1>8. ASSUME NEW k \in 1..N PROVE Flows(r[k], Full(r, k - 1), p)
  <2>1. CASE k \in 1..m
    <3>1. k - 1 \in Nat /\ \A q \in 1..(k - 1) : r[q] = c[q]
      BY <1>1, <1>2, <2>1
    <3>2. Full(r, k - 1) = Full(c, k - 1)
      BY <3>1, FullSame
    <3>3. k \in 1..n
      BY <1>1, <2>1
    <3> QED BY <1>2, <1>4, <2>1, <3>2, <3>3
  <2>2. CASE k \in (m + 1)..(m + L)
    <3>1. k - m \in 1..L /\ m + (k - m) = k /\ (k - m) - 1 \in 0..L /\ m + ((k - m) - 1) = k - 1
      BY <1>1, <2>2
    <3>2. r[k] = items[k - m]
      BY <1>2, <3>1
    <3>3. Full(r, k - 1) = Full(c, m) \cup Full(items, (k - m) - 1)
      BY <1>3, <3>1
    <3> QED BY <1>6, <3>1, <3>2, <3>3
  <2>3. CASE k \in (m + L + 1)..N
    BY <1>7, <2>3, InertFlows
  <2> QED BY <1>1, <1>2, <2>1, <2>2, <2>3
<1>9. Full(c, n) = Full(c, m)
  <2>1. m \in 0..n /\ \A k \in (m + 1)..n : Fills(c[k]) = {}
    <3>1. m \in 0..n
      BY <1>1
    <3>2. \A k \in (m + 1)..n : Fills(c[k]) = {}
      BY <1>5 DEF Inert
    <3> QED BY <3>1, <3>2
  <2> QED BY <1>1, <2>1, FullFacts
<1>10. Full(r, N) = Full(c, m) \cup Full(items, L)
  <2>0. m + L \in 0..N /\ N \in Nat
    BY <1>1, <1>2
  <2>1. m + L \in 0..N /\ N \in Nat /\ \A k \in ((m + L) + 1)..N : Fills(r[k]) = {}
    BY <1>7, <2>0 DEF Inert
  <2>2. Full(r, N) = Full(r, m + L)
    BY <2>1, FullFacts
  <2>3. L \in 0..L
    BY <1>1
  <2> QED BY <1>3, <2>2, <2>3
<1> QED BY <1>8, <1>9, <1>10 DEF Flow, n, L, N

(* A buffer put around the code.                                           *)
LEMMA FlowSurrounded ==
    ASSUME NEW p, NEW d, NEW r, Len(r) \in Nat, Len(r) > 0, NEW b, NEW s, Surrounded(d, r, b, s),
           s = p[b].type, s \in Seq(Nat), Flow(r, p)
    PROVE  Flow(d, p) /\ Full(d, Len(d)) = Full(r, Len(r))
<1> DEFINE n == Len(r)
           N == Len(d)
<1>1. n \in Nat /\ n > 0
  OBVIOUS
<1>2. /\ N = n + 2 /\ d[1] = Alloc(b, s) /\ d[n + 1] = Dealloc(b) /\ d[n + 2] = r[n]
      /\ \A k \in 1..(n - 1) : d[k + 1] = r[k]
  BY DEF Surrounded
<1>3. \A k \in 1..n : Flows(r[k], Full(r, k - 1), p)
  BY DEF Flow
<1> HIDE DEF n, N
<1>4. Fills(d[1]) = {} /\ Fills(d[n + 1]) = {} /\ Fills(d[n + 2]) = Fills(r[n])
  BY <1>2 DEF Fills, Alloc, Dealloc
<1>5. ASSUME NEW k \in 0..(n - 1) PROVE Full(d, k + 1) = Full(r, k)
  <2>1. \A i \in 1..(k + 1) : i = 1 \/ (i - 1 \in 1..k /\ d[i] = r[i - 1])
    <3> SUFFICES ASSUME NEW i \in 1..(k + 1), i # 1 PROVE i - 1 \in 1..k /\ d[i] = r[i - 1]
      OBVIOUS
    <3>1. i - 1 \in 1..k /\ i - 1 \in 1..(n - 1) /\ (i - 1) + 1 = i
      BY <1>1
    <3> QED BY <1>2, <3>1
  <2>2. \A i \in 1..k : i + 1 \in 1..(k + 1) /\ d[i + 1] = r[i]
    BY <1>1, <1>2
  <2>3. 1 \in 1..(k + 1)
    OBVIOUS
  <2>4. Full(d, k + 1) = Fills(d[1]) \cup Full(r, k)
    BY <2>1, <2>2, <2>3 DEF Full
  <2> QED BY <1>4, <2>4
<1>6. Full(d, n + 1) = Full(r, n - 1) /\ Full(d, n + 2) = Full(r, n) /\ Full(d, 0) = {}
  <2>1. n - 1 \in 0..(n - 1) /\ (n - 1) + 1 = n /\ n + 1 \in 1..(n + 2) /\ n + 2 \in 1..(n + 2) /\ n + 2 \in Nat
        /\ (n + 1) - 1 = n /\ (n + 2) - 1 = n + 1 /\ n \in 1..n
    BY <1>1
  <2>2. Full(d, n) = Full(r, n - 1)
    BY <1>5, <2>1
  <2>3. Full(d, n + 1) = Full(d, n) \cup Fills(d[n + 1])
    BY <2>1, FullFacts, SMTT(30)
  <2>4. Full(d, n + 2) = Full(d, n + 1) \cup Fills(d[n + 2])
    BY <2>1, FullFacts, SMTT(30)
  <2>5. Full(r, n) = Full(r, n - 1) \cup Fills(r[n])
    BY <1>1, <2>1, FullFacts
  <2>6. Full(d, 0) = {}
    BY <2>1, FullFacts
  <2> QED BY <1>4, <2>2, <2>3, <2>4, <2>5, <2>6
<1>7. ASSUME NEW k \in 1..N PROVE Flows(d[k], Full(d, k - 1), p)
  <2>1. CASE k = 1
    <3>1. Flows(Alloc(b, s), {}, p)
      BY DEF Flows, Alloc, ItemFits, Reads, Accumulates
    <3>2. d[k] = Alloc(b, s) /\ Full(d, k - 1) = {}
      <4>1. k - 1 = 0
        BY <2>1
      <4> QED BY <1>2, <1>6, <2>1, <4>1
    <3> QED BY <3>1, <3>2
  <2>2. CASE k \in 2..n
    <3>1. k - 1 \in 1..n /\ k - 1 \in 1..(n - 1) /\ (k - 1) + 1 = k
          /\ (k - 1) - 1 \in 0..(n - 1) /\ ((k - 1) - 1) + 1 = k - 1
      BY <1>1, <2>2
    <3>2. d[k] = r[k - 1]
      BY <1>2, <3>1
    <3>3. Full(d, k - 1) = Full(r, (k - 1) - 1)
      BY <1>5, <3>1
    <3> QED BY <1>3, <3>1, <3>2, <3>3
  <2>3. CASE k = n + 1
    <3>1. Inert(d[k])
      BY <1>2, <2>3, InertItems DEF Dealloc
    <3> QED BY <3>1, InertFlows
  <2>4. CASE k = n + 2
    <3>1. d[k] = r[n] /\ Full(d, k - 1) = Full(r, n - 1) /\ n \in 1..n
      <4>1. (n + 2) - 1 = n + 1 /\ n \in 1..n
        BY <1>1
      <4> QED BY <1>2, <1>6, <2>4, <4>1
    <3> QED BY <1>3, <3>1
  <2> QED BY <1>1, <1>2, <2>1, <2>2, <2>3, <2>4
<1> QED BY <1>2, <1>6, <1>7 DEF Flow, n, N

(* Items with the same part in it.                                         *)
LEMMA FlowStays ==
    ASSUME NEW p, NEW c, NEW d, Len(d) = Len(c), Len(c) \in Nat,
           \A k \in 1..Len(c) : Fills(d[k]) = Fills(c[k]),
           \A k \in 1..Len(c) : \A S : Flows(c[k], S, p) => Flows(d[k], S, p), Flow(c, p)
    PROVE  Flow(d, p)
<1> DEFINE n == Len(c)
<1>1. n \in Nat /\ \A k \in 1..n : Fills(d[k]) = Fills(c[k])
  OBVIOUS
<1>2. /\ \A k \in 1..n : \A S : Flows(c[k], S, p) => Flows(d[k], S, p)
      /\ \A k \in 1..n : Flows(c[k], Full(c, k - 1), p)
  BY DEF Flow
<1>3. Len(d) = n
  OBVIOUS
<1> HIDE DEF n
<1>4. ASSUME NEW k \in 1..n PROVE Flows(d[k], Full(d, k - 1), p)
  <2>1. k - 1 \in Nat /\ \A q \in 1..(k - 1) : q \in 1..n
    BY <1>1
  <2>2. Full(d, k - 1) = Full(c, k - 1)
    BY <1>1, <2>1, FullSame
  <2> QED BY <1>2, <2>2
<1> QED BY <1>3, <1>4 DEF Flow

-----------------------------------------------------------------------------
(* Loads inside their buffers.                                             *)

(* An index into a transposed shape, with its last two positions swapped,  *)
(* is one into the shape.                                                  *)
LEMMA SwappedInBounds ==
    ASSUME NEW t \in Seq(Nat), Len(t) >= 2, NEW ix \in Seq(Nat), Len(ix) = Len(t),
           InBounds(TransposeShape(t), ix)
    PROVE  InBounds(t, LoadIndex("swapped", ix, 0))
<1> DEFINE n == Len(t)
           s == TransposeShape(t)
           jx == TransposeShape(ix)
<1>1. n \in Nat /\ n >= 2 /\ DOMAIN t = 1..n /\ DOMAIN ix = 1..n /\ Len(ix) = n
  OBVIOUS
<1>2. s = [t EXCEPT ![n] = t[n - 1], ![n - 1] = t[n]]
  BY <1>1 DEF TransposeShape
<1>3. jx = [ix EXCEPT ![n] = ix[n - 1], ![n - 1] = ix[n]]
  BY <1>1 DEF TransposeShape
<1>4. \A d \in DOMAIN s : ix[d] \in 0..(s[d] - 1)
  BY DEF InBounds
<1> HIDE DEF n, s, jx
<1>5. DOMAIN s = 1..n /\ s[n] = t[n - 1] /\ s[n - 1] = t[n] /\ \A d \in 1..n : d # n /\ d # n - 1 => s[d] = t[d]
  BY <1>1, <1>2
<1>6. DOMAIN jx = 1..n /\ jx[n] = ix[n - 1] /\ jx[n - 1] = ix[n] /\ \A d \in 1..n : d # n /\ d # n - 1 => jx[d] = ix[d]
  BY <1>1, <1>3
<1>7. ASSUME NEW d \in 1..n PROVE jx[d] \in 0..(t[d] - 1)
  <2>1. n \in 1..n /\ n - 1 \in 1..n
    BY <1>1
  <2>2. CASE d = n
    <3>1. ix[n - 1] \in 0..(s[n - 1] - 1)
      BY <1>4, <1>5, <2>1
    <3> QED BY <1>5, <1>6, <2>2, <3>1
  <2>3. CASE d = n - 1
    <3>1. ix[n] \in 0..(s[n] - 1)
      BY <1>4, <1>5, <2>1
    <3> QED BY <1>5, <1>6, <2>3, <3>1
  <2>4. CASE d # n /\ d # n - 1
    BY <1>4, <1>5, <1>6, <2>4
  <2> QED BY <2>2, <2>3, <2>4
<1>8. InBounds(t, jx)
  BY <1>1, <1>6, <1>7 DEF InBounds
<1>9. LoadIndex("swapped", ix, 0) = jx
  BY DEF LoadIndex, SwapLast, jx
<1> QED BY <1>8, <1>9

(* The left operand of a product.                                          *)
LEMMA LhsInBounds ==
    ASSUME NEW l \in Seq(Nat), Len(l) >= 1, NEW ix \in Seq(Nat), Len(ix) = Len(l),
           \A d \in 1..(Len(l) - 1) : ix[d] \in 0..(l[d] - 1), NEW k \in 0..(l[Len(l)] - 1)
    PROVE  InBounds(l, LoadIndex("lhs", ix, k))
<1> DEFINE n == Len(l)
           a == SubSeq(ix, 1, n - 1)
           b == << k >>
           jx == a \o b
<1>1. n \in Nat /\ n >= 1 /\ DOMAIN l = 1..n /\ Len(ix) = n
  OBVIOUS
<1>2. k \in Nat
  <2>1. l[n] \in Nat
    BY <1>1
  <2> QED BY <2>1
<1>3. \A d \in 1..(n - 1) : ix[d] \in 0..(l[d] - 1)
  OBVIOUS
<1>4. k \in 0..(l[n] - 1) /\ ix \in Seq(Nat)
  OBVIOUS
<1>5. LoadIndex("lhs", ix, k) = jx
  BY <1>1 DEF LoadIndex
<1> HIDE DEF n
<1>6. a \in Seq(Nat) /\ Len(a) = n - 1 /\ \A d \in 1..(n - 1) : a[d] = ix[d]
  BY <1>1, <1>4
<1>7. b \in Seq(Nat) /\ Len(b) = 1 /\ b[1] = k
  BY <1>2
<1> HIDE DEF a, b
<1>8. /\ jx \in Seq(Nat) /\ Len(jx) = Len(a) + Len(b)
      /\ \A d \in 1..(Len(a) + Len(b)) : jx[d] = IF d <= Len(a) THEN a[d] ELSE b[d - Len(a)]
  BY ONLY <1>6, <1>7, ConcatProperties
<1>9. DOMAIN jx = 1..n
  BY <1>1, <1>6, <1>7, <1>8
<1>10. ASSUME NEW d \in 1..n PROVE jx[d] \in 0..(l[d] - 1)
  <2> HIDE DEF jx
  <2>1. jx[d] = IF d <= n - 1 THEN a[d] ELSE b[d - (n - 1)]
    BY <1>1, <1>6, <1>7, <1>8
  <2>2. CASE d <= n - 1
    <3>1. d \in 1..(n - 1)
      BY <1>1, <2>2
    <3> QED BY <1>3, <1>6, <2>1, <2>2, <3>1
  <2>3. CASE ~ (d <= n - 1)
    <3>1. d = n /\ d - (n - 1) = 1
      BY <1>1, <2>3
    <3>2. jx[d] = k
      BY <1>7, <2>1, <2>3, <3>1
    <3> QED BY <1>4, <3>1, <3>2
  <2> QED BY <2>2, <2>3
<1>11. InBounds(l, jx)
  BY <1>1, <1>9, <1>10 DEF InBounds
<1> QED BY <1>5, <1>11

(* The right operand.                                                      *)
LEMMA RhsInBounds ==
    ASSUME NEW r \in Seq(Nat), Len(r) >= 2, NEW ix \in Seq(Nat), Len(ix) = Len(r),
           \A d \in 1..(Len(r) - 2) : ix[d] \in 0..(r[d] - 1), ix[Len(r)] \in 0..(r[Len(r)] - 1),
           NEW k \in 0..(r[Len(r) - 1] - 1)
    PROVE  InBounds(r, LoadIndex("rhs", ix, k))
<1> DEFINE n == Len(r)
           a == SubSeq(ix, 1, n - 2)
           z == ix[n]
           b == << k, z >>
           jx == a \o b
<1>1. n \in Nat /\ n >= 2 /\ DOMAIN r = 1..n /\ Len(ix) = n
  OBVIOUS
<1>2. k \in Nat /\ z \in Nat
  <2>1. r[n - 1] \in Nat /\ ix[n] \in Nat
    BY <1>1
  <2> QED BY <2>1
<1>3. \A d \in 1..(n - 2) : ix[d] \in 0..(r[d] - 1)
  OBVIOUS
<1>4. k \in 0..(r[n - 1] - 1) /\ z \in 0..(r[n] - 1) /\ ix \in Seq(Nat)
  OBVIOUS
<1>5. LoadIndex("rhs", ix, k) = jx
  BY <1>1 DEF LoadIndex
<1> HIDE DEF n, z
<1>6. a \in Seq(Nat) /\ Len(a) = n - 2 /\ \A d \in 1..(n - 2) : a[d] = ix[d]
  BY <1>1, <1>4
<1>7. b \in Seq(Nat) /\ Len(b) = 2 /\ b[1] = k /\ b[2] = z
  BY <1>2
<1> HIDE DEF a, b
<1>8. /\ jx \in Seq(Nat) /\ Len(jx) = Len(a) + Len(b)
      /\ \A d \in 1..(Len(a) + Len(b)) : jx[d] = IF d <= Len(a) THEN a[d] ELSE b[d - Len(a)]
  BY ONLY <1>6, <1>7, ConcatProperties
<1>9. DOMAIN jx = 1..n
  BY <1>1, <1>6, <1>7, <1>8
<1>10. ASSUME NEW d \in 1..n PROVE jx[d] \in 0..(r[d] - 1)
  <2> HIDE DEF jx
  <2>1. jx[d] = IF d <= n - 2 THEN a[d] ELSE b[d - (n - 2)]
    <3>1. Len(a) + Len(b) = n /\ Len(a) = n - 2
      BY <1>1, <1>6, <1>7
    <3>2. d \in 1..(Len(a) + Len(b))
      BY <3>1
    <3>3. jx[d] = IF d <= Len(a) THEN a[d] ELSE b[d - Len(a)]
      BY <1>8, <3>2
    <3> QED BY <3>1, <3>3
  <2>2. CASE d <= n - 2
    <3>1. d \in 1..(n - 2)
      BY <1>1, <2>2
    <3> QED BY <1>3, <1>6, <2>1, <2>2, <3>1
  <2>3. CASE d = n - 1
    <3>1. ~ (d <= n - 2) /\ d - (n - 2) = 1
      BY <1>1, <2>3
    <3>2. jx[d] = k
      BY <1>7, <2>1, <3>1
    <3> QED BY <1>4, <2>3, <3>2
  <2>4. CASE d = n
    <3>1. ~ (d <= n - 2) /\ d - (n - 2) = 2
      BY <1>1, <2>4
    <3>2. jx[d] = z
      BY <1>7, <2>1, <3>1
    <3> QED BY <1>4, <2>4, <3>2
  <2> QED BY <1>1, <2>2, <2>3, <2>4
<1>11. InBounds(r, jx)
  BY <1>1, <1>9, <1>10 DEF InBounds
<1> QED BY <1>5, <1>11

(* The shape of a product of operands of one rank, extent by extent.       *)
LEMMA ProductShape ==
    ASSUME NEW l \in Seq(Nat), NEW r \in Seq(Nat), MatmulCompatible(l, r), Len(l) = Len(r)
    PROVE  LET n == Len(l)
               s == MatmulShape(l, r)
           IN  /\ n >= 2 /\ s \in Seq(Nat) /\ Len(s) = n
               /\ \A d \in 1..(n - 1) : s[d] = l[d]
               /\ s[n] = r[n] /\ r[n - 1] = l[n]
               /\ \A d \in 1..(n - 2) : r[d] = l[d]
<1> DEFINE n == Len(l)
           b == SubSeq(l, 1, n - 2)
           x == << l[n - 1] >>
           y == << r[n] >>
           s == MatmulShape(l, r)
<1>1. n \in Nat /\ n >= 2 /\ Len(r) = n
  BY DEF MatmulCompatible, MatmulRanks
<1>2. Batch(l, r) = b
  BY <1>1 DEF Batch
<1>3. s = (b \o x) \o y
  <2>1. Len(l) >= Len(r) /\ Len(l) <= Len(r)
    BY <1>1
  <2>2. (IF Len(l) >= Len(r) THEN x ELSE << >>) = x /\ (IF Len(l) <= Len(r) THEN y ELSE << >>) = y
    BY <2>1
  <2>3. MatmulShape(l, r) = Batch(l, r) \o (IF Len(l) >= Len(r) THEN x ELSE << >>)
                                        \o (IF Len(l) <= Len(r) THEN y ELSE << >>)
    BY <1>1 DEF MatmulShape
  <2> HIDE DEF b, x, y
  <2> QED BY <1>2, <2>2, <2>3
<1>4. /\ l[n] = r[n - 1]
      /\ \A d \in 1..Len(b) : l[d] = r[d]
  BY <1>1, <1>2 DEF MatmulCompatible, Contracted
<1>5. x \in Seq(Nat) /\ Len(x) = 1 /\ x[1] = l[n - 1] /\ y \in Seq(Nat) /\ Len(y) = 1 /\ y[1] = r[n]
  <2>1. l[n - 1] \in Nat /\ r[n] \in Nat
    BY <1>1
  <2> QED BY <2>1
<1> HIDE DEF s
<1>6. l \in Seq(Nat) /\ Len(l) = n
  OBVIOUS
<1> HIDE DEF n, x, y
<1>7. b \in Seq(Nat) /\ Len(b) = n - 2 /\ \A d \in 1..(n - 2) : b[d] = l[d]
  BY <1>1, <1>6
<1> HIDE DEF b
<1> DEFINE u == b \o x
<1>8. /\ u \in Seq(Nat) /\ Len(u) = Len(b) + Len(x)
      /\ \A d \in 1..(Len(b) + Len(x)) : u[d] = IF d <= Len(b) THEN b[d] ELSE x[d - Len(b)]
  BY ONLY <1>5, <1>7, ConcatProperties
<1> HIDE DEF u
<1>9. u \in Seq(Nat) /\ Len(u) = n - 1 /\ \A d \in 1..(n - 1) : u[d] = l[d]
  <2>1. Len(u) = n - 1
    BY <1>1, <1>5, <1>7, <1>8
  <2>2. ASSUME NEW d \in 1..(n - 1) PROVE u[d] = l[d]
    <3>1. u[d] = IF d <= n - 2 THEN b[d] ELSE x[d - (n - 2)]
      BY <1>1, <1>5, <1>7, <1>8
    <3>2. CASE d <= n - 2
      <4>1. d \in 1..(n - 2)
        BY <1>1, <3>2
      <4> QED BY <1>7, <3>1, <3>2, <4>1
    <3>3. CASE ~ (d <= n - 2)
      <4>1. d = n - 1 /\ d - (n - 2) = 1
        BY <1>1, <3>3
      <4> QED BY <1>5, <3>1, <3>3, <4>1
    <3> QED BY <3>2, <3>3
  <2> QED BY <1>8, <2>1, <2>2
<1> DEFINE w == u \o y
<1>10. /\ w \in Seq(Nat) /\ Len(w) = Len(u) + Len(y)
       /\ \A d \in 1..(Len(u) + Len(y)) : w[d] = IF d <= Len(u) THEN u[d] ELSE y[d - Len(u)]
  BY ONLY <1>5, <1>9, ConcatProperties
<1>11. s = w
  BY <1>3 DEF u
<1> HIDE DEF w
<1>12. Len(w) = n /\ (\A d \in 1..(n - 1) : w[d] = l[d]) /\ w[n] = r[n]
  <2>1. Len(w) = n
    BY <1>1, <1>5, <1>9, <1>10
  <2>2. ASSUME NEW d \in 1..(n - 1) PROVE w[d] = l[d]
    <3>1. w[d] = IF d <= n - 1 THEN u[d] ELSE y[d - (n - 1)]
      BY <1>1, <1>5, <1>9, <1>10
    <3>2. d <= n - 1
      BY <1>1
    <3> QED BY <1>9, <3>1, <3>2
  <2>3. w[n] = r[n]
    <3>1. w[n] = IF n <= n - 1 THEN u[n] ELSE y[n - (n - 1)]
      BY <1>1, <1>5, <1>9, <1>10
    <3>2. ~ (n <= n - 1) /\ n - (n - 1) = 1
      BY <1>1
    <3> QED BY <1>5, <3>1, <3>2
  <2> QED BY <2>1, <2>2, <2>3
<1>13. \A d \in 1..(n - 2) : r[d] = l[d]
  BY <1>4, <1>7
<1> QED BY <1>1, <1>4, <1>10, <1>11, <1>12, <1>13 DEF n, s

(* What the target can express, of one operation.                          *)
Lowers(p, tg) == IF tg = "affine" THEN AffineLowers(p) ELSE LinalgLowers(p)

OperandType(p, i, k) == p[p[i].args[k]].type

(* The types of the operands of an operation the target can express.       *)
LEMMA LoweredTypes ==
    ASSUME NEW p \in Programs, NEW tg, Lowers(p, tg), NEW i \in DOMAIN p
    PROVE  /\ p[i].kind \notin Sinks => p[i].type \in Seq(Nat)
           /\ \A k \in 1..Len(p[i].args) : OperandType(p, i, k) \in Seq(Nat)
           /\ p[i].kind \in Elementwise =>
                  OperandType(p, i, 1) = p[i].type /\ OperandType(p, i, 2) = p[i].type
           /\ p[i].kind = "transpose" =>
                  p[i].type = TransposeShape(OperandType(p, i, 1)) /\ (tg = "affine" => Len(p[i].type) >= 2)
           /\ p[i].kind = "matrix_mul" =>
                  /\ MatmulCompatible(OperandType(p, i, 1), OperandType(p, i, 2))
                  /\ p[i].type = MatmulShape(OperandType(p, i, 1), OperandType(p, i, 2))
                  /\ Len(OperandType(p, i, 1)) = Len(OperandType(p, i, 2))
           /\ p[i].kind = "cast" => OperandType(p, i, 1) = p[i].type
           /\ p[i].kind = "reshape" =>
                  /\ NumElements(OperandType(p, i, 1)) = NumElements(p[i].type)
                  /\ tg = "affine" => OperandType(p, i, 1) = p[i].type
<1> DEFINE n == Len(p[i].args)
           t == p[i].type
           a == OperandType(p, i, 1)
           b == OperandType(p, i, 2)
           in == InTypes(p, i)
<1>1. Closed(p) /\ CastsAreTrivial(p)
  BY DEF Lowers, AffineLowers, LinalgLowers
<1>2. \A o \in DOMAIN p : p[o].kind \notin Sinks => p[o].type \in Seq(Nat)
  <2> SUFFICES ASSUME NEW o \in DOMAIN p, p[o].kind \notin Sinks PROVE p[o].type \in Seq(Nat)
    OBVIOUS
  <2>1. p[o].type \in Type /\ IsRanked(p[o].type)
    BY <1>1, ProgramFacts DEF Closed
  <2> QED BY <2>1 DEF Type, Shape, IsRanked
<1>3. /\ n \in Nat /\ \A k \in 1..n : in[k] = OperandType(p, i, k)
      /\ p[i].kind \in {"transpose", "cast", "reshape", "print"} => n = 1
      /\ p[i].kind \in Elementwise \cup {"matrix_mul"} => n = 2
  BY OperandFacts DEF OperandType
<1>4. ASSUME NEW k \in 1..n PROVE OperandType(p, i, k) \in Seq(Nat)
  <2>1. p[i].args[k] \in 1..(i - 1) /\ p[p[i].args[k]].kind \notin Sinks
    BY ProgramFacts
  <2>2. i \in 1..Len(p) /\ DOMAIN p = 1..Len(p) /\ Len(p) \in Nat
    BY ProgramFacts
  <2>3. p[i].args[k] \in DOMAIN p
    BY <2>1, <2>2
  <2> QED BY <1>2, <2>1, <2>3 DEF OperandType
<1>5. Verifies(p[i].kind, in, t)
  BY ProgramFacts
<1>6. DOMAIN in = 1..n
  <2>1. p[i].args \in Seq(DOMAIN p)
    BY ProgramFacts
  <2> QED BY <2>1 DEF InTypes, OperandTypes
<1>7. \A x \in Seq(Nat) : x # Unranked
  BY UnrankedAssumption
<1> HIDE DEF in, n, a, b, t
<1>8. CASE p[i].kind \in Elementwise
  <2>1. n = 2 /\ 1 \in 1..n /\ 2 \in 1..n /\ p[i].kind \notin Sinks
    BY <1>3, <1>8 DEF Elementwise, Sinks
  <2>2. a \in Seq(Nat) /\ b \in Seq(Nat) /\ t \in Seq(Nat) /\ in[1] = a /\ in[2] = b
    BY <1>2, <1>3, <1>4, <2>1 DEF a, b, t
  <2>3. CompatibleTypes(in[1], t) /\ CompatibleTypes(in[2], t)
    BY <1>5, <1>6, <1>8, <2>1 DEF Verifies
  <2>4. a = t /\ b = t
    BY <1>7, <2>2, <2>3 DEF CompatibleTypes
  <2> QED BY <1>2, <1>4, <1>8, <2>4 DEF Elementwise, a, b, t, n
<1>9. CASE p[i].kind = "transpose"
  <2>1. n = 1 /\ 1 \in 1..n /\ p[i].kind \notin Sinks
    BY <1>3, <1>9 DEF Sinks
  <2>2. a \in Seq(Nat) /\ t \in Seq(Nat) /\ in[1] = a
    BY <1>2, <1>3, <1>4, <2>1 DEF a, t
  <2>3. t = TransposeShape(a) /\ (tg = "affine" => Len(t) >= 2)
    <3>1. CASE tg = "affine"
      <4>1. Len(t) >= 2
        BY <1>9, <3>1 DEF Lowers, AffineLowers, t
      <4>2. Verified(p)
        BY ProgramFacts
      <4>3. IsRanked(t) /\ Len(t) # 1 => t = TransposeShape(in[1])
        BY <1>9, <4>2 DEF Verified, InTypes, in, t
      <4>4. Len(t) # 1
        <5> DEFINE L == Len(t)
        <5>1. L \in Nat /\ L >= 2
          BY <2>2, <4>1
        <5> HIDE DEF L
        <5>2. L # 1
          BY <5>1
        <5> QED BY <5>2 DEF L
      <4> QED BY <1>7, <2>2, <4>1, <4>3, <4>4 DEF IsRanked
    <3>2. CASE tg # "affine"
      <4>1. t = TransposeShape(InTypes(p, i)[1])
        BY <1>9, <3>2 DEF Lowers, LinalgLowers, t
      <4> QED BY <2>2, <3>2, <4>1 DEF in
    <3> QED BY <3>1, <3>2
  <2> QED BY <1>2, <1>4, <1>9, <2>3 DEF Elementwise, a, t, n
<1>10. CASE p[i].kind = "matrix_mul"
  <2>1. n = 2 /\ 1 \in 1..n /\ 2 \in 1..n /\ p[i].kind \notin Sinks
    BY <1>3, <1>10 DEF Elementwise, Sinks
  <2>2. a \in Seq(Nat) /\ b \in Seq(Nat) /\ t \in Seq(Nat) /\ in[1] = a /\ in[2] = b
    BY <1>2, <1>3, <1>4, <2>1 DEF a, b, t
  <2>3. MatmulCompatible(a, b) /\ t = MatmulShape(a, b)
    BY <1>5, <1>7, <1>10, <2>2 DEF Verifies, IsRanked
  <2>4. Len(a) = Len(b)
    <3>1. CASE tg = "affine"
      <4>1. Len(InTypes(p, i)[1]) = Len(InTypes(p, i)[2])
        BY <1>10, <3>1 DEF Lowers, AffineLowers
      <4> QED BY <2>2, <4>1 DEF in
    <3>2. CASE tg # "affine"
      <4>1. Len(InTypes(p, i)[1]) = 2 /\ Len(InTypes(p, i)[2]) = 2
        BY <1>10, <3>2 DEF Lowers, LinalgLowers
      <4> QED BY <2>2, <4>1 DEF in
    <3> QED BY <3>1, <3>2
  <2> QED BY <1>2, <1>4, <1>10, <2>3, <2>4 DEF Elementwise, a, b, t, n
<1>11. CASE p[i].kind = "cast"
  <2>1. n = 1 /\ 1 \in 1..n
    BY <1>3, <1>11
  <2>2. a = t
    <3>1. InTypes(p, i)[1] = t
      BY <1>1, <1>11 DEF CastsAreTrivial, t
    <3> QED BY <1>3, <2>1, <3>1 DEF in, a
  <2> QED BY <1>2, <1>4, <1>11, <2>2 DEF Elementwise, a, t, n
<1>12. CASE p[i].kind = "reshape"
  <2>1. n = 1 /\ 1 \in 1..n
    BY <1>3, <1>12
  <2>2. NumElements(a) = NumElements(t) /\ (tg = "affine" => a = t)
    <3>1. InTypes(p, i)[1] = a
      BY <1>3, <2>1 DEF in, a
    <3>2. CASE tg = "affine"
      <4>1. InTypes(p, i)[1] = t
        BY <1>12, <3>2 DEF Lowers, AffineLowers, t
      <4> QED BY <3>1, <4>1
    <3>3. CASE tg # "affine"
      <4>1. NumElements(InTypes(p, i)[1]) = NumElements(t)
        BY <1>12, <3>3 DEF Lowers, LinalgLowers, t
      <4> QED BY <3>1, <3>3, <4>1
    <3> QED BY <3>2, <3>3
  <2> QED BY <1>2, <1>4, <1>12, <2>2 DEF Elementwise, a, t, n
<1>13. CASE p[i].kind \notin Elementwise \cup {"transpose", "matrix_mul", "cast", "reshape"}
  BY <1>2, <1>4, <1>13 DEF n, t
<1> QED BY <1>8, <1>9, <1>10, <1>11, <1>12, <1>13

(* The buffers of the operands have the types of the operands.             *)
Fitting(p, i, args) ==
    /\ DOMAIN args = 1..Len(p[i].args)
    /\ \A k \in 1..Len(p[i].args) : p[args[k]].type = OperandType(p, i, k)

(* Loads at the index of the element that is stored.                       *)
LEMMA SameFits ==
    ASSUME NEW p \in Programs, NEW tg, Lowers(p, tg), NEW i \in DOMAIN p, NEW args, Fitting(p, i, args),
           NEW access,
           \/ p[i].kind \in Elementwise /\ access = << "same", "same" >>
           \/ p[i].kind = "transpose" /\ access = << "same" >> /\ Len(p[i].type) <= 1,
           NEW zero
    PROVE  LoadsFit(Nest(i, p[i].type, p[i].kind, args, access, 1, zero), p)
<1> DEFINE t == p[i].type
           x == Nest(i, t, p[i].kind, args, access, 1, zero)
           N == IF p[i].kind = "transpose" THEN 1 ELSE 2
<1>1. x.kind = p[i].kind /\ x.depth = 1 /\ x.args = args /\ x.shape = t /\ x.access = access
  BY DEF Nest
<1>2. Len(p[i].args) = N /\ p[i].kind \notin Sinks
  <2>1. /\ p[i].kind \in {"transpose", "cast", "reshape", "print"} => Len(p[i].args) = 1
        /\ p[i].kind \in Elementwise \cup {"matrix_mul"} => Len(p[i].args) = 2
    BY OperandFacts
  <2> QED BY <2>1 DEF Elementwise, Sinks
<1>3. t \in Seq(Nat)
  BY <1>2, LoweredTypes
<1>4. \A a \in 1..N : access[a] = "same"
  BY DEF Elementwise
<1>5. \A a \in 1..N : p[args[a]].type = t
  <2>1. \A a \in 1..N : p[args[a]].type = OperandType(p, i, a)
    BY <1>2 DEF Fitting
  <2>2. CASE p[i].kind \in Elementwise
    <3>1. OperandType(p, i, 1) = t /\ OperandType(p, i, 2) = t
      BY <2>2, LoweredTypes
    <3>2. \A a \in 1..N : a = 1 \/ a = 2
      OBVIOUS
    <3> QED BY <2>1, <3>1, <3>2
  <2>3. CASE p[i].kind = "transpose" /\ Len(t) <= 1
    <3> DEFINE q == OperandType(p, i, 1)
    <3>1. t = TransposeShape(q)
      BY <2>3, LoweredTypes
    <3>2. q \in Seq(Nat)
      <4>1. 1 \in 1..Len(p[i].args)
        BY <1>2, <2>3
      <4> QED BY <4>1, LoweredTypes
    <3> HIDE DEF q, t
    <3>3. Len(TransposeShape(q)) = Len(q)
      BY <3>2 DEF TransposeShape
    <3>4. q = t
      <4>1. Len(q) <= 1
        BY <2>3, <3>1, <3>3
      <4>2. Len(q) \in Nat
        BY <3>2
      <4>3. ~ (Len(q) > 1)
        BY <4>1, <4>2
      <4> QED BY <3>1, <4>3 DEF TransposeShape
    <3>5. \A a \in 1..N : a = 1
      BY <2>3
    <3> QED BY <2>1, <3>4, <3>5 DEF q
  <2>4. p[i].kind \in Elementwise \/ (p[i].kind = "transpose" /\ Len(t) <= 1)
    OBVIOUS
  <2> QED BY <2>2, <2>3, <2>4
<1>6. DOMAIN args = 1..N
  BY <1>2 DEF Fitting
<1>7. p[i].kind \in Elementwise \cup {"transpose"} /\ p[i].kind # "matrix_mul"
  BY DEF Elementwise
<1> HIDE DEF t, x, N
<1>8. ASSUME NEW n \in 1..NumElements(t), NEW k \in 0..(1 - 1), NEW a \in 1..N
      PROVE  InBounds(p[args[a]].type, LoadIndex(access[a], IndexAt(t, n), k))
  <2>1. InBounds(t, IndexAt(t, n))
    BY <1>3, IndexIsInBounds
  <2>2. LoadIndex(access[a], IndexAt(t, n), k) = IndexAt(t, n)
    BY <1>4 DEF LoadIndex
  <2> QED BY <1>5, <2>1, <2>2
<1>9. LoadsFit(x, p)
  <2>1. DOMAIN x.args = 1..(IF x.kind = "transpose" THEN 1 ELSE 2)
    BY <1>1, <1>6 DEF N
  <2>2. x.depth \in Nat /\ (x.kind # "matrix_mul" => x.depth = 1)
        /\ x.kind \in Elementwise \cup {"transpose", "matrix_mul"}
    BY <1>1, <1>7
  <2>3. \A n \in 1..NumElements(x.shape), k \in 0..(x.depth - 1) : \A a \in DOMAIN x.args :
          InBounds(p[x.args[a]].type, LoadIndex(x.access[a], IndexAt(x.shape, n), k))
    BY <1>1, <1>6, <1>8
  <2> QED BY <2>1, <2>2, <2>3 DEF LoadsFit
<1> QED BY <1>9 DEF x, t

(* Loads at its index with the last two positions swapped.                 *)
LEMMA SwappedFits ==
    ASSUME NEW p \in Programs, NEW tg, Lowers(p, tg), NEW i \in DOMAIN p, NEW args, Fitting(p, i, args),
           p[i].kind = "transpose", Len(p[i].type) >= 2, NEW zero
    PROVE  LoadsFit(Nest(i, p[i].type, "transpose", args, << "swapped" >>, 1, zero), p)
<1> DEFINE s == p[i].type
           t == OperandType(p, i, 1)
           access == << "swapped" >>
           x == Nest(i, s, "transpose", args, access, 1, zero)
<1>1. x.kind = "transpose" /\ x.depth = 1 /\ x.args = args /\ x.shape = s /\ x.access = access
  BY DEF Nest
<1>2. Len(p[i].args) = 1 /\ 1 \in 1..Len(p[i].args)
  BY OperandFacts
<1>3. t \in Seq(Nat) /\ s = TransposeShape(t) /\ s \in Seq(Nat)
  <2>1. p[i].kind \notin Sinks
    BY DEF Sinks
  <2> QED BY <1>2, <2>1, LoweredTypes
<1>4. DOMAIN args = 1..1 /\ p[args[1]].type = t /\ access[1] = "swapped"
  BY <1>2 DEF Fitting
<1>5. Len(s) >= 2
  OBVIOUS
<1> HIDE DEF s, t, x, access
<1>6. Len(s) = Len(t)
  BY <1>3 DEF TransposeShape
<1>7. ASSUME NEW n \in 1..NumElements(s), NEW k \in 0..(1 - 1), NEW a \in 1..1
      PROVE  InBounds(p[args[a]].type, LoadIndex(access[a], IndexAt(s, n), k))
  <2> DEFINE ix == IndexAt(s, n)
  <2>1. InBounds(s, ix) /\ ix \in Seq(Nat) /\ Len(ix) = Len(s)
    BY <1>3, IndexIsInBounds
  <2> HIDE DEF ix
  <2>2. InBounds(TransposeShape(t), ix) /\ Len(ix) = Len(t) /\ Len(t) >= 2
    BY <1>3, <1>5, <1>6, <2>1
  <2>3. InBounds(t, LoadIndex("swapped", ix, 0))
    BY <1>3, <2>1, <2>2, SwappedInBounds
  <2>4. k = 0 /\ a = 1
    OBVIOUS
  <2> QED BY <1>4, <2>3, <2>4 DEF ix
<1>8. LoadsFit(x, p)
  <2>1. \A n \in 1..NumElements(x.shape), k \in 0..(x.depth - 1) : \A a \in DOMAIN x.args :
          InBounds(p[x.args[a]].type, LoadIndex(x.access[a], IndexAt(x.shape, n), k))
    BY <1>1, <1>4, <1>7
  <2> QED BY <1>1, <1>4, <2>1 DEF LoadsFit
<1> QED BY <1>8 DEF x, s, access

(* Loads of rows and columns.                                              *)
LEMMA ProductFits ==
    ASSUME NEW p \in Programs, NEW tg, Lowers(p, tg), NEW i \in DOMAIN p, NEW args, Fitting(p, i, args),
           p[i].kind = "matrix_mul", NEW zero
    PROVE  LoadsFit(Nest(i, p[i].type, "matrix_mul", args, << "lhs", "rhs" >>, Last(OperandType(p, i, 1)), zero), p)
<1> DEFINE s == p[i].type
           l == OperandType(p, i, 1)
           r == OperandType(p, i, 2)
           access == << "lhs", "rhs" >>
           x == Nest(i, s, "matrix_mul", args, access, Last(l), zero)
           m == Len(l)
<1>1. x.kind = "matrix_mul" /\ x.depth = Last(l) /\ x.args = args /\ x.shape = s /\ x.access = access
  BY DEF Nest
<1>2. Len(p[i].args) = 2 /\ 1 \in 1..Len(p[i].args) /\ 2 \in 1..Len(p[i].args)
  <2>1. Len(p[i].args) = 2
    BY OperandFacts
  <2> QED BY <2>1
<1>3. l \in Seq(Nat) /\ r \in Seq(Nat) /\ s = MatmulShape(l, r) /\ MatmulCompatible(l, r) /\ Len(l) = Len(r)
  BY <1>2, LoweredTypes
<1>4. DOMAIN args = 1..2 /\ p[args[1]].type = l /\ p[args[2]].type = r /\ access[1] = "lhs" /\ access[2] = "rhs"
  BY <1>2 DEF Fitting
<1> HIDE DEF s, l, r, x, access
<1>5. /\ m >= 2 /\ s \in Seq(Nat) /\ Len(s) = m
      /\ \A d \in 1..(m - 1) : s[d] = l[d]
      /\ s[m] = r[m] /\ r[m - 1] = l[m]
      /\ \A d \in 1..(m - 2) : r[d] = l[d]
  BY <1>3, ProductShape
<1>6. Last(l) = l[m]
  BY DEF Last
<1>7. m \in Nat /\ l[m] \in Nat
  <2>1. m \in Nat
    BY <1>3
  <2>2. m \in 1..Len(l)
    BY <1>5, <2>1
  <2> QED BY <1>3, <2>1, <2>2
<1>8. ASSUME NEW n \in 1..NumElements(s), NEW k \in 0..(Last(l) - 1), NEW a \in 1..2
      PROVE  InBounds(p[args[a]].type, LoadIndex(access[a], IndexAt(s, n), k))
  <2> DEFINE ix == IndexAt(s, n)
  <2>1. InBounds(s, ix) /\ ix \in Seq(Nat) /\ Len(ix) = m
    BY <1>3, <1>5, IndexIsInBounds
  <2> HIDE DEF ix
  <2>2. \A d \in 1..m : ix[d] \in 0..(s[d] - 1)
    <3>1. DOMAIN s = 1..m
      BY <1>5
    <3> QED BY <2>1, <3>1 DEF InBounds
  <2>3. CASE a = 1
    <3>1. \A d \in 1..(m - 1) : ix[d] \in 0..(l[d] - 1)
      <4>1. \A d \in 1..(m - 1) : d \in 1..m
        BY <1>7
      <4> QED BY <1>5, <2>2, <4>1
    <3>2. k \in 0..(l[m] - 1)
      BY <1>6
    <3>3. m >= 1
      BY <1>5, <1>7
    <3> DEFINE lx == LoadIndex("lhs", ix, k)
    <3>4. InBounds(l, lx)
      BY <1>3, <2>1, <3>1, <3>2, <3>3, LhsInBounds
    <3> QED BY <1>4, <2>3, <3>4 DEF ix
  <2>4. CASE a = 2
    <3>1. \A d \in 1..(m - 2) : ix[d] \in 0..(r[d] - 1)
      <4>1. \A d \in 1..(m - 2) : d \in 1..m /\ d \in 1..(m - 1)
        BY <1>7
      <4> QED BY <1>5, <2>2, <4>1
    <3>2. k \in 0..(r[m - 1] - 1)
      BY <1>5, <1>6
    <3>3. ix[m] \in 0..(r[m] - 1)
      <4>1. m \in 1..m
        BY <1>5, <1>7
      <4> QED BY <1>5, <2>2, <4>1
    <3> DEFINE rx == LoadIndex("rhs", ix, k)
    <3>4. InBounds(r, rx)
      <4>1. Len(r) = m /\ Len(ix) = Len(r) /\ m >= 2
        BY <1>3, <1>5, <2>1
      <4> HIDE DEF m
      <4> QED BY <1>3, <2>1, <3>1, <3>2, <3>3, <4>1, RhsInBounds
    <3> QED BY <1>4, <2>4, <3>4 DEF ix
  <2> QED BY <2>3, <2>4
<1>9. LoadsFit(x, p)
  <2>1. \A n \in 1..NumElements(x.shape), k \in 0..(x.depth - 1) : \A a \in DOMAIN x.args :
          InBounds(p[x.args[a]].type, LoadIndex(x.access[a], IndexAt(x.shape, n), k))
    BY <1>1, <1>4, <1>8
  <2>2. x.depth \in Nat
    BY <1>1, <1>6, <1>7
  <2> HIDE DEF m
  <2> QED BY <1>1, <1>4, <2>1, <2>2 DEF LoadsFit
<1> QED BY <1>9 DEF x, s, access, l

-----------------------------------------------------------------------------
(* The patterns keep it so.                                                *)

(* Operation i is about to be converted, and what is there so far flows.   *)
FlowsSoFar(p, tg, c, v, i, m) ==
    AtOperation(p, tg, c, v, i, m) /\ Flow(c, p) /\ Standing(p, c, v, i)

FlowsOn(p, r, v, w, i) == Flow(r, p) /\ Standing(p, r, Append(v, w), i + 1)

(* Behind the m items nothing has a part in it.                            *)
LEMMA InertBehind ==
    ASSUME NEW p, NEW tg, NEW c, NEW v, NEW i, NEW m, AtOperation(p, tg, c, v, i, m)
    PROVE  /\ Len(c) \in Nat /\ m \in 0..(Len(c) - 1)
           /\ InertFrom(c, m)
           /\ Full(c, Len(c)) = Full(c, m) /\ i \notin Full(c, m)
<1> DEFINE n == Len(c)
           t == Len(p) - i
<1>1. /\ p \in Programs /\ i \in 1..(Len(p) - 1) /\ m \in Nat /\ IsSeq(c) /\ c[n] = Toy(Len(p))
      /\ Laid(p, tg, c, v, i, m)
  BY DEF AtOperation
<1>2. Len(p) \in Nat /\ n \in Nat
  BY <1>1, ProgramFacts, SeqFacts
<1>3. Left(p, i) = t /\ t \in Nat /\ t >= 1
  BY <1>1, <1>2 DEF Left
<1>4. /\ m + t + 1 <= n
      /\ \A k \in 1..m : Needs(c[k]) \subseteq Made(c, k - 1)
      /\ \A k \in 1..t : c[m + k] = Toy(i + (k - 1))
      /\ \A k \in (m + t + 1)..(n - 1) : c[k].op = "dealloc"
      /\ Made(c, m) \subseteq 1..(i - 1)
  BY <1>1, <1>3 DEF Laid
<1> HIDE DEF n, t
<1>5. ASSUME NEW k \in (m + 1)..n PROVE Inert(c[k])
  <2>1. CASE k \in (m + 1)..(m + t)
    <3>1. k - m \in 1..t /\ m + (k - m) = k
      BY <1>1, <1>3, <2>1
    <3>2. c[k] = Toy(i + ((k - m) - 1))
      BY <1>4, <3>1
    <3> QED BY <3>2, InertItems DEF Toy
  <2>2. CASE k \in (m + t + 1)..(n - 1)
    BY <1>4, <2>2, InertItems
  <2>3. CASE k = n
    BY <1>1, <2>3, InertItems DEF Toy
  <2> QED BY <1>1, <1>2, <1>3, <1>4, <2>1, <2>2, <2>3
<1>6. m \in 0..(n - 1) /\ m \in 0..n
  BY <1>1, <1>2, <1>3, <1>4
<1>7. Full(c, n) = Full(c, m)
  <2>1. \A k \in (m + 1)..n : Fills(c[k]) = {}
    BY <1>5 DEF Inert
  <2> QED BY <1>2, <1>6, <2>1, FullFacts
<1>8. i \notin Full(c, m)
  <2>1. Full(c, m) \subseteq Made(c, m)
    BY <1>1, <1>4, FullIsMade
  <2>2. i \notin 1..(i - 1)
    BY <1>1, <1>2
  <2> QED BY <1>4, <2>1, <2>2
<1> QED BY <1>2, <1>5, <1>6, <1>7, <1>8 DEF n, InertFrom

(* One value more stands.                                                  *)
LEMMA StandingOn ==
    ASSUME NEW p, NEW c, NEW v, NEW i \in Nat \ {0}, NEW V, v \in Seq(V), Len(v) = i - 1, NEW w,
           Standing(p, c, v, i), NEW r, Full(c, Len(c)) \subseteq Full(r, Len(r)),
           p[i].kind \notin Sinks => w \in Full(r, Len(r)) /\ p[w].type = p[i].type
    PROVE  Standing(p, r, Append(v, w), i + 1)
<1> DEFINE u == Append(v, w)
<1>1. u[i] = w /\ \A o \in 1..(i - 1) : u[o] = v[o]
  OBVIOUS
<1> HIDE DEF u
<1>2. \A o \in 1..((i + 1) - 1) : o = i \/ o \in 1..(i - 1)
  OBVIOUS
<1>3. Standing(p, r, u, i + 1)
  BY <1>1, <1>2 DEF Standing
<1> QED BY <1>3 DEF u

(* Items in the place of the operation.                                    *)
LEMMA InPlaceFlows ==
    ASSUME NEW p, NEW tg, NEW c, NEW v, NEW i, NEW m, FlowsSoFar(p, tg, c, v, i, m),
           NEW w, NEW S, NEW items \in Seq(S), FlowIn(items, Full(c, m), p),
           p[i].kind \notin Sinks => w \in Full(c, m) \cup Full(items, Len(items)) /\ p[w].type = p[i].type
    PROVE  FlowsOn(p, ReplaceOp(c, i, items), v, w, i)
<1> DEFINE r == ReplaceOp(c, i, items)
           V == DOMAIN p
<1>1. /\ p \in Programs /\ i \in 1..(Len(p) - 1) /\ m \in Nat
      /\ IsSeq(c) /\ c[Len(c)] = Toy(Len(p))
      /\ v \in Seq(V) /\ Len(v) = i - 1 /\ Laid(p, tg, c, v, i, m)
      /\ AtOperation(p, tg, c, v, i, m) /\ Flow(c, p) /\ Standing(p, c, v, i)
  BY DEF FlowsSoFar, AtOperation
<1>2. Len(p) \in Nat /\ Len(items) \in Nat
  BY <1>1, ProgramFacts
<1> HIDE DEF V
<1>3. m + 1 \in 1..Len(c) /\ c[m + 1] = Toy(i) /\ \A k \in 1..Len(c) : k # m + 1 => c[k] # Toy(i)
  BY <1>1, <1>2, ToyIsNext, SMTT(30)
<1>4. Replaced(r, c, m, items)
  <2>1. IsSeq(c) /\ m \in Nat
    BY <1>1
  <2> QED BY <1>3, <2>1, ReplacedNext
<1>5. Len(c) \in Nat /\ InertFrom(c, m)
  BY <1>1, InertBehind
<1> HIDE DEF r
<1>6. /\ Flow(r, p) /\ Full(c, Len(c)) = Full(c, m)
      /\ Full(r, Len(r)) = Full(c, m) \cup Full(items, Len(items))
  BY ONLY <1>1, <1>2, <1>4, <1>5, FlowIn(items, Full(c, m), p), FlowReplaced
<1>7. Standing(p, r, Append(v, w), i + 1)
  <2>1. i \in Nat \ {0}
    BY <1>1, <1>2
  <2>2. Full(c, Len(c)) \subseteq Full(r, Len(r))
    BY <1>6
  <2>3. p[i].kind \notin Sinks => w \in Full(r, Len(r)) /\ p[w].type = p[i].type
    BY <1>6
  <2> QED BY <1>1, <2>1, <2>2, <2>3, StandingOn
<1> QED BY <1>6, <1>7 DEF FlowsOn, r

(* One item is a sequence of items.                                        *)
LEMMA OneFlows ==
    ASSUME NEW x, NEW full, NEW p, Flows(x, full, p)
    PROVE  /\ << x >> \in Seq({x}) /\ FlowIn(<< x >>, full, p)
           /\ Full(<< x >>, Len(<< x >>)) = Fills(x)
<1> DEFINE items == << x >>
<1>1. items \in Seq({x}) /\ Len(items) = 1 /\ items[1] = x
  OBVIOUS
<1> HIDE DEF items
<1>2. Full(items, 0) = {} /\ Full(items, 1) = Fills(x)
  <2>1. 1..0 = {} /\ 1..1 = {1}
    OBVIOUS
  <2> QED BY <1>1, <2>1 DEF Full
<1>3. FlowIn(items, full, p)
  <2>1. \A j \in 1..1 : j = 1 /\ j - 1 = 0
    OBVIOUS
  <2> QED BY <1>1, <1>2, <2>1 DEF FlowIn
<1> QED BY <1>1, <1>2, <1>3 DEF items

(* One item between the alloc and the dealloc of the result.               *)
LEMMA IntoBufferFlows ==
    ASSUME NEW p, NEW tg, NEW c, NEW v, NEW i, NEW m, FlowsSoFar(p, tg, c, v, i, m),
           NEW x, Flows(x, Full(c, m), p), Fills(x) = {i}, p[i].type \in Seq(Nat)
    PROVE  FlowsOn(p, IntoBuffer(p, i, c, x), v, i, i)
<1> DEFINE items == << x >>
           r == ReplaceOp(c, i, items)
           s == p[i].type
           d == InsertAllocAndDealloc(r, i, s)
           X == Range(r) \cup {Alloc(i, s), Dealloc(i)}
<1>1. /\ items \in Seq({x}) /\ FlowIn(items, Full(c, m), p) /\ Full(items, Len(items)) = {i}
      /\ Len(items) = 1
  BY OneFlows
<1>2. /\ IsSeq(c) /\ Len(c) > 0 /\ i \in Nat \ {0} /\ v \in Seq(DOMAIN p) /\ Len(v) = i - 1
      /\ AtOperation(p, tg, c, v, i, m) /\ Standing(p, c, v, i)
  <2>1. /\ p \in Programs /\ i \in 1..(Len(p) - 1)
        /\ IsSeq(c) /\ Len(c) > 0 /\ v \in Seq(DOMAIN p) /\ Len(v) = i - 1
        /\ AtOperation(p, tg, c, v, i, m) /\ Standing(p, c, v, i)
    BY DEF FlowsSoFar, AtOperation
  <2>2. Len(p) \in Nat
    BY <2>1, ProgramFacts
  <2>3. i \in Nat \ {0}
    BY <2>1, <2>2
  <2> QED BY <2>1, <2>3
<1>3. /\ Flow(c, p) /\ Len(c) \in Nat /\ InertFrom(c, m)
  BY <1>2, InertBehind DEF FlowsSoFar
<1> HIDE DEF items
<1>4. Replaced(r, c, m, items)
  <2>1. /\ p \in Programs /\ i \in 1..(Len(p) - 1) /\ m \in Nat
        /\ c[Len(c)] = Toy(Len(p)) /\ Laid(p, tg, c, v, i, m)
    BY <1>2 DEF AtOperation
  <2>2. Len(p) \in Nat
    BY <2>1, ProgramFacts
  <2>3. m + 1 \in 1..Len(c) /\ c[m + 1] = Toy(i) /\ \A k \in 1..Len(c) : k # m + 1 => c[k] # Toy(i)
    BY <1>2, <2>1, <2>2, ToyIsNext, SMTT(30)
  <2> QED BY <1>1, <1>2, <2>1, <2>3, ReplacedNext
<1>5. IsSeq(r) /\ Len(r) \in Nat /\ Len(r) > 0
  <2>1. IsSeq(r)
    <3> DEFINE R == Range(c)
               Y == R \cup {x}
    <3>1. c \in Seq(R)
      BY <1>2 DEF IsSeq
    <3> HIDE DEF R
    <3>2. c \in Seq(Y) /\ items \in Seq(Y)
      BY <1>1, <3>1, SeqMonotonic
    <3> HIDE DEF Y
    <3>3. r \in Seq(Y)
      BY <1>2, <3>2, ReplaceOpIn
    <3> HIDE DEF r
    <3> QED BY <3>3, SeqIsSeq
  <2>2. Len(r) = (Len(c) - 1) + 1
    BY <1>1, <1>4 DEF Replaced
  <2> HIDE DEF r
  <2> QED BY <1>2, <1>3, <2>1, <2>2
<1>6. Surrounded(d, r, i, s)
  <2>1. r \in Seq(X) /\ Alloc(i, s) \in X /\ Dealloc(i) \in X
    <3> DEFINE R == Range(r)
    <3>1. r \in Seq(R)
      BY <1>5 DEF IsSeq
    <3> HIDE DEF R
    <3>2. r \in Seq(R \cup {Alloc(i, s), Dealloc(i)})
      BY <3>1, SeqMonotonic
    <3> QED BY <3>2 DEF R
  <2> HIDE DEF X, r
  <2> QED BY <1>5, <2>1, InsertAround DEF Surrounded
<1>7. IntoBuffer(p, i, c, x) = d
  BY DEF IntoBuffer, items
<1> HIDE DEF r, d
<1>8. /\ Flow(r, p) /\ Full(c, Len(c)) = Full(c, m) /\ Full(r, Len(r)) = Full(c, m) \cup {i}
  <2>1. Len(items) \in Nat
    BY <1>1
  <2>2. FlowIn(items, Full(c, m), p)
    BY <1>1
  <2>3. Full(r, Len(r)) = Full(c, m) \cup Full(items, Len(items)) /\ Flow(r, p) /\ Full(c, Len(c)) = Full(c, m)
    BY ONLY <1>3, <1>4, <2>1, <2>2, FlowReplaced
  <2> QED BY <1>1, <2>3
<1>9. Flow(d, p) /\ Full(d, Len(d)) = Full(r, Len(r))
  BY <1>5, <1>6, <1>8, FlowSurrounded, ZenonT(60)
<1>10. Standing(p, d, Append(v, i), i + 1)
  <2>1. Full(c, Len(c)) \subseteq Full(d, Len(d)) /\ i \in Full(d, Len(d))
    BY <1>8, <1>9
  <2> QED BY <1>2, <2>1, StandingOn
<1> QED BY <1>7, <1>9, <1>10 DEF FlowsOn

(* The result made, and items that fill it.                                *)
LEMMA IntoEmptyFlows ==
    ASSUME NEW p, NEW tg, NEW c, NEW v, NEW i, NEW m, FlowsSoFar(p, tg, c, v, i, m),
           NEW S, NEW items \in Seq(S), FlowIn(items, Full(c, m), p), i \in Full(items, Len(items)),
           p[i].type \in Seq(Nat)
    PROVE  FlowsOn(p, IntoEmpty(p, i, c, items), v, i, i)
<1> DEFINE A == Alloc(i, p[i].type)
           a == << A >>
           all == a \o items
           X == S \cup {A}
           L == Len(items)
           full == Full(c, m)
<1>1. L \in Nat /\ items \in Seq(X) /\ a \in Seq(X) /\ Len(a) = 1 /\ a[1] = A
  OBVIOUS
<1>2. FlowIn(items, full, p) /\ i \in Full(items, L)
  OBVIOUS
<1>3. i \notin full
  BY InertBehind DEF FlowsSoFar
<1>4. Flows(A, full, p) /\ Fills(A) = {}
  BY <1>3 DEF Flows, Alloc, ItemFits, Reads, Accumulates, Fills
<1>5. IntoEmpty(p, i, c, items) = ReplaceOp(c, i, all)
  BY DEF IntoEmpty
<1> HIDE DEF A, a, X, L, full
<1>6. /\ all \in Seq(X) /\ Len(all) = Len(a) + Len(items)
      /\ \A j \in 1..(Len(a) + Len(items)) : all[j] = IF j <= Len(a) THEN a[j] ELSE items[j - Len(a)]
  BY ONLY <1>1, ConcatProperties
<1> HIDE DEF all
<1>7. Len(all) = L + 1 /\ all[1] = A /\ \A j \in 1..L : all[j + 1] = items[j]
  <2>1. Len(all) = 1 + L /\ \A j \in 1..(1 + L) : all[j] = IF j <= 1 THEN a[j] ELSE items[j - 1]
    BY <1>1, <1>6 DEF L
  <2>2. 1 \in 1..(1 + L) /\ 1 + L = L + 1 /\ \A j \in 1..L : j + 1 \in 1..(1 + L) /\ ~ (j + 1 <= 1) /\ (j + 1) - 1 = j
    BY <1>1
  <2> QED BY <1>1, <2>1, <2>2
<1>8. ASSUME NEW k \in 0..L PROVE Full(all, k + 1) = Full(items, k)
  <2>1. \A q \in 1..(k + 1) : q = 1 \/ (q - 1 \in 1..k /\ all[q] = items[q - 1])
    <3> SUFFICES ASSUME NEW q \in 1..(k + 1), q # 1 PROVE q - 1 \in 1..k /\ all[q] = items[q - 1]
      OBVIOUS
    <3>1. q - 1 \in 1..k /\ q - 1 \in 1..L /\ (q - 1) + 1 = q
      BY <1>1
    <3> QED BY <1>7, <3>1
  <2>2. \A q \in 1..k : q + 1 \in 1..(k + 1) /\ all[q + 1] = items[q]
    BY <1>1, <1>7
  <2>3. 1 \in 1..(k + 1)
    OBVIOUS
  <2>4. Full(all, k + 1) = Fills(all[1]) \cup Full(items, k)
    BY <2>1, <2>2, <2>3 DEF Full
  <2> QED BY <1>4, <1>7, <2>4
<1>9. Full(all, 0) = {}
  <2>1. 1..0 = {}
    OBVIOUS
  <2> QED BY <2>1 DEF Full
<1>10. FlowIn(all, full, p)
  <2> SUFFICES ASSUME NEW j \in 1..(L + 1) PROVE Flows(all[j], full \cup Full(all, j - 1), p)
    BY <1>7 DEF FlowIn
  <2>1. CASE j = 1
    <3>1. j - 1 = 0
      BY <2>1
    <3>2. full \cup Full(all, j - 1) = full
      BY <1>9, <3>1
    <3> QED BY <1>4, <1>7, <2>1, <3>2
  <2>2. CASE j # 1
    <3>1. j - 1 \in 1..L /\ (j - 1) - 1 \in 0..L /\ ((j - 1) - 1) + 1 = j - 1 /\ (j - 1) + 1 = j
      BY <1>1, <2>2
    <3>2. all[j] = items[j - 1]
      BY <1>7, <3>1
    <3>3. Full(all, j - 1) = Full(items, (j - 1) - 1)
      BY <1>8, <3>1
    <3>4. \A q \in 1..L : Flows(items[q], full \cup Full(items, q - 1), p)
      BY <1>2 DEF FlowIn, L
    <3> QED BY <3>1, <3>2, <3>3, <3>4
  <2> QED BY <2>1, <2>2
<1>11. i \in Full(c, m) \cup Full(all, Len(all))
  <2>1. L \in 0..L
    BY <1>1
  <2>2. Full(all, L + 1) = Full(items, L)
    BY <1>8, <2>1
  <2> QED BY <1>2, <1>7, <2>2
<1>12. FlowsOn(p, ReplaceOp(c, i, all), v, i, i)
  <2>1. FlowIn(all, Full(c, m), p)
    BY <1>10 DEF full
  <2> QED BY <1>6, <1>11, <2>1, InPlaceFlows
<1> QED BY <1>5, <1>12

-----------------------------------------------------------------------------
(* What each pattern leaves.                                               *)

(* A pattern finds its operands full, under the types it reads off them.   *)
LEMMA OperandsStand ==
    ASSUME NEW p, NEW tg, NEW c, NEW v, NEW i, NEW m, FlowsSoFar(p, tg, c, v, i, m)
    PROVE  /\ p \in Programs /\ i \in DOMAIN p
           /\ Fitting(p, i, Operands(p, v, i)) /\ Range(Operands(p, v, i)) \subseteq Full(c, m)
           /\ p[i].kind \in {"print", "reshape", "cast"} =>
                  /\ Operands(p, v, i)[1] = v[p[i].args[1]] /\ v[p[i].args[1]] \in Full(c, m)
                  /\ p[v[p[i].args[1]]].type = OperandType(p, i, 1) /\ 1 \in 1..Len(p[i].args)
<1> DEFINE args == Operands(p, v, i)
           n == Len(p[i].args)
<1>1. p \in Programs /\ i \in 1..(Len(p) - 1) /\ AtOperation(p, tg, c, v, i, m) /\ Standing(p, c, v, i)
  BY DEF FlowsSoFar, AtOperation
<1>2. i \in DOMAIN p
  <2>1. Len(p) \in Nat /\ DOMAIN p = 1..Len(p)
    BY <1>1, ProgramFacts
  <2> QED BY <1>1, <2>1
<1>3. /\ n \in Nat /\ DOMAIN p[i].args = 1..n
  BY <1>1, OperandsAreMade
<1>4. \A k \in 1..n : p[i].args[k] \in 1..(i - 1) /\ p[p[i].args[k]].kind \notin Sinks
  BY <1>1, <1>2, ProgramFacts
<1>5. Full(c, Len(c)) = Full(c, m)
  BY <1>1, InertBehind
<1>6. \A k \in 1..n : v[p[i].args[k]] \in Full(c, m) /\ p[v[p[i].args[k]]].type = OperandType(p, i, k)
  BY <1>1, <1>4, <1>5 DEF Standing, OperandType
<1>7. DOMAIN args = 1..n /\ \A k \in 1..n : args[k] = v[p[i].args[k]]
  BY <1>3 DEF Operands
<1>8. ASSUME p[i].kind \in {"print", "reshape", "cast"} PROVE 1 \in 1..n
  <2>1. n = 1
    BY <1>1, <1>2, <1>8, OperandFacts
  <2> QED BY <2>1
<1> HIDE DEF args, n
<1>9. Fitting(p, i, args) /\ Range(args) \subseteq Full(c, m)
  BY <1>6, <1>7 DEF Fitting, Range, n
<1> QED BY <1>1, <1>2, <1>6, <1>7, <1>8, <1>9 DEF args, n

(* A nest may follow when what it loads from is full.                      *)
LEMMA NestFlows ==
    ASSUME NEW x, x.op = "nest", NEW p, p[x.buf].type \in Seq(Nat), x.shape = p[x.buf].type, LoadsFit(x, p),
           NEW full, Range(x.args) \subseteq full, x.kind # "matrix_mul" \/ x.zero \/ x.buf \in full
    PROVE  Flows(x, full, p) /\ Fills(x) = {x.buf}
  BY DEF Flows, Fills, Reads, Accumulates, ItemFits

(* So may the stores of a literal, which visit every index.                *)
Numbers(data, n) == [k \in 1..n |-> << "lit", data, k >>]

(* They store every element, and each of them something.                   *)
LEMMA StoreFlows ==
    ASSUME NEW x, x.op = "store", NEW p, NEW s \in Seq(Nat), p[x.buf].type = s, NEW full, NEW data,
           x.ixs = LoopOrder(s), x.terms = Numbers(data, NumElements(s))
    PROVE  Flows(x, full, p) /\ Fills(x) = {x.buf}
<1> DEFINE ixs == x.ixs
           terms == x.terms
           N == NumElements(s)
<1>1. ixs = [k \in 1..N |-> IndexAt(s, k)]
  BY LoopOrderIsRowMajor
<1>2. N \in Nat
  BY NumElementsType
<1>3. terms = [k \in 1..N |-> << "lit", data, k >>]
  BY DEF Numbers
<1> HIDE DEF ixs, terms, N
<1>4. ASSUME NEW k \in 1..N PROVE terms[k] # Undef
  <2>1. terms[k] = << "lit", data, k >>
    BY <1>3
  <2> QED BY <2>1 DEF Undef
<1>5. DOMAIN ixs = 1..N /\ Len(ixs) = N /\ \A k \in 1..N : ixs[k] = IndexAt(s, k)
  BY <1>1, <1>2
<1>6. StoresAll(x, s)
  BY <1>2, <1>4, <1>5 DEF StoresAll, N, ixs, terms
<1> QED BY <1>6 DEF Flows, Fills, Reads, Accumulates, ItemFits

(* A print may follow what fills its buffer.                               *)
LEMMA PrintFlows ==
    ASSUME NEW b, NEW s, NEW full, b \in full, NEW p
    PROVE  LET x == PrintCall(b, s) IN Flows(x, full, p) /\ Fills(x) = {}
  BY DEF Flows, Fills, Reads, Accumulates, ItemFits, PrintCall

(* A view may follow what fills the buffer it views.                       *)
LEMMA ViewFlows ==
    ASSUME NEW i, NEW s \in Seq(Nat), NEW a, NEW p, p[i].type = s, NumElements(p[a].type) = NumElements(s),
           NEW full, a \in full
    PROVE  LET x == View(i, s, a) IN Flows(x, full, p) /\ Fills(x) = {i}
<1> DEFINE x == View(i, s, a)
           args == << a >>
<1>1. x.op = "view" /\ x.buf = i /\ x.shape = s /\ x.args = args
  BY DEF View
<1>2. DOMAIN args = {1} /\ args[1] = a
  OBVIOUS
<1> HIDE DEF args, x
<1>3. Flows(x, full, p) /\ Fills(x) = {i}
  BY <1>1, <1>2 DEF Flows, Fills, Reads, Accumulates, ItemFits, Range
<1> QED BY <1>3 DEF x

(* The affine patterns.                                                    *)
LEMMA AffineFlows ==
    ASSUME NEW p, NEW c, NEW v, NEW i, NEW m, FlowsSoFar(p, "affine", c, v, i, m), Lowers(p, "affine"),
           p[i].kind \in Kinds \ {"arg", "cast", "generic_call", "return"}
    PROVE  FlowsOn(p, AffineLowered(p, i, Operands(p, v, i), c),
                   v, IF p[i].kind = "reshape" THEN v[p[i].args[1]] ELSE i, i)
<1> DEFINE kind == p[i].kind
           args == Operands(p, v, i)
           r == AffineLowered(p, i, args, c)
           full == Full(c, m)
           s == p[i].type
           tg == "affine"
<1>1. /\ p \in Programs /\ i \in DOMAIN p /\ Fitting(p, i, args) /\ Range(args) \subseteq full
      /\ kind \in {"print", "reshape"} => args[1] = v[p[i].args[1]] /\ args[1] \in full
                                          /\ p[args[1]].type = OperandType(p, i, 1)
  BY OperandsStand
<1> HIDE DEF args
<1>2. /\ kind \notin Sinks => s \in Seq(Nat)
      /\ kind = "transpose" => Len(s) >= 2
      /\ kind = "reshape" => OperandType(p, i, 1) = s
  <2>1. Lowers(p, tg) /\ tg = "affine"
    OBVIOUS
  <2> HIDE DEF tg
  <2> QED BY <1>1, <2>1, LoweredTypes
<1>3. FlowsSoFar(p, tg, c, v, i, m) /\ Lowers(p, tg)
  OBVIOUS
<1> HIDE DEF tg
<1>4. ASSUME NEW x, Flows(x, full, p), Fills(x) = {i}, kind \notin Sinks, r = IntoBuffer(p, i, c, x)
      PROVE  FlowsOn(p, r, v, i, i)
  <2> HIDE DEF r
  <2> QED BY <1>2, <1>3, <1>4, IntoBufferFlows
<1>5. CASE kind \in Elementwise
  <2> DEFINE x == Nest(i, s, kind, args, << "same", "same" >>, 1, FALSE)
  <2>1. r = IntoBuffer(p, i, c, x)
    BY <1>5 DEF AffineLowered, AffineBinaryOpLowering, Elementwise
  <2>2. kind # "reshape" /\ kind # "matrix_mul" /\ kind \notin Sinks
    BY <1>5 DEF Elementwise, Sinks
  <2>3. LoadsFit(x, p)
    BY <1>1, <1>3, <1>5, SameFits
  <2>0. /\ x.op = "nest" /\ x.buf = i /\ x.shape = s /\ x.args = args /\ x.kind = kind /\ x.zero = FALSE
    BY DEF Nest
  <2> HIDE DEF x
  <2>4. Flows(x, full, p) /\ Fills(x) = {i}
    BY <1>1, <1>2, <2>2, <2>3, <2>0, NestFlows
  <2> HIDE DEF r, x
  <2>5. FlowsOn(p, r, v, i, i)
    BY <1>4, <2>1, <2>2, <2>4
  <2> QED BY <2>2, <2>5 DEF r, args
<1>6. CASE kind = "transpose"
  <2> DEFINE x == Nest(i, s, "transpose", args, << "swapped" >>, 1, FALSE)
  <2>1. r = IntoBuffer(p, i, c, x)
    BY <1>6 DEF AffineLowered, AffineTransposeOpLowering, Elementwise
  <2>2. kind \notin Sinks
    BY <1>6 DEF Sinks
  <2>3. LoadsFit(x, p)
    BY <1>1, <1>2, <1>3, <1>6, SwappedFits
  <2>0. /\ x.op = "nest" /\ x.buf = i /\ x.shape = s /\ x.args = args /\ x.kind = "transpose" /\ x.zero = FALSE
    BY DEF Nest
  <2> HIDE DEF x
  <2>4. Flows(x, full, p) /\ Fills(x) = {i}
    BY <1>1, <1>2, <2>2, <2>3, <2>0, NestFlows
  <2> HIDE DEF r, x
  <2>5. FlowsOn(p, r, v, i, i)
    BY <1>4, <2>1, <2>2, <2>4
  <2> QED BY <1>6, <2>5 DEF r, args
<1>7. CASE kind = "matrix_mul"
  <2> DEFINE depth == Last(OperandType(p, i, 1))
             x == Nest(i, s, "matrix_mul", args, << "lhs", "rhs" >>, depth, TRUE)
  <2>1. r = IntoBuffer(p, i, c, x)
    BY <1>7 DEF AffineLowered, AffineMatrixMulOpLowering, Elementwise, OperandType
  <2>2. kind \notin Sinks
    BY <1>7 DEF Sinks
  <2>3. LoadsFit(x, p)
    BY <1>1, <1>3, <1>7, ProductFits
  <2> HIDE DEF depth
  <2>0. /\ x.op = "nest" /\ x.buf = i /\ x.shape = s /\ x.args = args /\ x.kind = "matrix_mul" /\ x.zero = TRUE
    BY DEF Nest
  <2> HIDE DEF x
  <2>4. Flows(x, full, p) /\ Fills(x) = {i}
    BY <1>1, <1>2, <2>2, <2>3, <2>0, NestFlows
  <2> HIDE DEF r, x
  <2>5. FlowsOn(p, r, v, i, i)
    BY <1>4, <2>1, <2>2, <2>4
  <2> QED BY <1>7, <2>5 DEF r, args
<1>8. CASE kind = "constant"
  <2> DEFINE ixs == LoopOrder(s)
             terms == [k \in DOMAIN ixs |-> << "lit", p[i].data, k >>]
             x == Store(i, ixs, terms)
  <2>1. r = IntoBuffer(p, i, c, x)
    BY <1>8 DEF AffineLowered, AffineConstantOpLowering, Elementwise
  <2>2. kind \notin Sinks
    BY <1>8 DEF Sinks
  <2>3. terms = [k \in 1..NumElements(s) |-> << "lit", p[i].data, k >>]
    <3>1. DOMAIN ixs = 1..NumElements(s)
      BY <1>2, <2>2, LoopOrderIsRowMajor
    <3> HIDE DEF ixs
    <3> QED BY <3>1
  <2> HIDE DEF terms, r
  <2>0. x.op = "store" /\ x.buf = i /\ x.ixs = LoopOrder(s) /\ x.terms = terms
    BY DEF Store
  <2> HIDE DEF x
  <2>4. Flows(x, full, p) /\ Fills(x) = {i}
    <3> DEFINE data == p[i].data
    <3>1. x.terms = Numbers(data, NumElements(s)) /\ x.ixs = LoopOrder(s)
      BY <2>0, <2>3 DEF Numbers
    <3>2. s \in Seq(Nat) /\ p[x.buf].type = s
      BY <1>2, <2>0, <2>2
    <3> HIDE DEF data, s
    <3>3. Flows(x, full, p) /\ Fills(x) = {x.buf}
      BY ONLY <2>0, <3>1, <3>2, StoreFlows
    <3> QED BY <2>0, <3>3
  <2> HIDE DEF x
  <2>5. FlowsOn(p, r, v, i, i)
    BY <1>4, <2>1, <2>2, <2>4
  <2> QED BY <1>8, <2>5 DEF r, args
<1>9. CASE kind = "print"
  <2> DEFINE x == PrintCall(args[1], p[p[i].args[1]].type)
             items == << x >>
  <2>1. r = ReplaceOp(c, i, items)
    BY <1>9 DEF AffineLowered, AffinePrintOpLowering, Elementwise
  <2>2. Flows(x, full, p) /\ kind \in Sinks
    BY <1>1, <1>9, PrintFlows DEF Sinks
  <2> HIDE DEF r, x
  <2>3. items \in Seq({x}) /\ FlowIn(items, Full(c, m), p)
    BY <2>2, OneFlows
  <2> HIDE DEF items
  <2>4. FlowsOn(p, r, v, i, i)
    BY <1>3, <2>1, <2>2, <2>3, InPlaceFlows
  <2> QED BY <1>9, <2>4 DEF r, args
<1>10. CASE kind = "reshape"
  <2> DEFINE items == << >>
             w == v[p[i].args[1]]
  <2>1. r = ReplaceOp(c, i, items)
    BY <1>10 DEF AffineLowered, AffineReshapeOpLowering, Elementwise
  <2>2. w \in full /\ p[w].type = s
    BY <1>1, <1>2, <1>10
  <2>3. items \in Seq({}) /\ FlowIn(items, Full(c, m), p)
    BY DEF FlowIn
  <2> HIDE DEF r, items, w
  <2>4. FlowsOn(p, r, v, w, i)
    BY <1>3, <2>1, <2>2, <2>3, InPlaceFlows
  <2> QED BY <1>10, <2>4 DEF r, args, w
<1> QED BY <1>5, <1>6, <1>7, <1>8, <1>9, <1>10 DEF Kinds, Sinks

(* The linalg patterns.                                                    *)
LEMMA LinalgFlows ==
    ASSUME NEW p, NEW c, NEW v, NEW i, NEW m, FlowsSoFar(p, "linalg", c, v, i, m), Lowers(p, "linalg"),
           p[i].kind \in Kinds \ {"arg", "cast", "generic_call", "return"}
    PROVE  FlowsOn(p, LinalgLowered(p, i, Operands(p, v, i), c), v, i, i)
<1> DEFINE kind == p[i].kind
           args == Operands(p, v, i)
           r == LinalgLowered(p, i, args, c)
           full == Full(c, m)
           s == p[i].type
           tg == "linalg"
<1>1. /\ p \in Programs /\ i \in DOMAIN p /\ Fitting(p, i, args) /\ Range(args) \subseteq full
      /\ kind \in {"print", "reshape"} => args[1] = v[p[i].args[1]] /\ args[1] \in full
                                          /\ p[args[1]].type = OperandType(p, i, 1)
  BY OperandsStand
<1> HIDE DEF args
<1> SUFFICES FlowsOn(p, r, v, i, i)
  BY DEF args
<1>2. FlowsSoFar(p, tg, c, v, i, m) /\ Lowers(p, tg)
  OBVIOUS
<1> HIDE DEF tg
<1>3. /\ kind \notin Sinks => s \in Seq(Nat)
      /\ kind = "reshape" => NumElements(OperandType(p, i, 1)) = NumElements(s)
  BY <1>1, <1>2, LoweredTypes
<1>4. ASSUME NEW x, Flows(x, full, p), Fills(x) = {i}, kind \notin Sinks, r = IntoEmpty(p, i, c, << x >>)
      PROVE  FlowsOn(p, r, v, i, i)
  <2> DEFINE items == << x >>
  <2>1. /\ items \in Seq({x}) /\ FlowIn(items, Full(c, m), p)
        /\ i \in Full(items, Len(items))
    BY <1>4, OneFlows
  <2>2. r = IntoEmpty(p, i, c, items) /\ s \in Seq(Nat)
    BY <1>3, <1>4
  <2> HIDE DEF r, items
  <2> QED BY <1>2, <2>1, <2>2, IntoEmptyFlows
<1>5. CASE kind \in Elementwise
  <2> DEFINE x == Nest(i, s, kind, args, << "same", "same" >>, 1, FALSE)
  <2>1. r = IntoEmpty(p, i, c, << x >>)
    BY <1>5 DEF LinalgLowered, LowerElementwiseToLinalg, Elementwise
  <2>2. kind # "matrix_mul" /\ kind \notin Sinks
    BY <1>5 DEF Elementwise, Sinks
  <2>3. LoadsFit(x, p)
    BY <1>1, <1>2, <1>5, SameFits
  <2>0. /\ x.op = "nest" /\ x.buf = i /\ x.shape = s /\ x.args = args /\ x.kind = kind /\ x.zero = FALSE
    BY DEF Nest
  <2> HIDE DEF x
  <2>4. Flows(x, full, p) /\ Fills(x) = {i}
    BY <1>1, <1>3, <2>2, <2>3, <2>0, NestFlows
  <2> HIDE DEF r, x
  <2> QED BY <1>4, <2>1, <2>2, <2>4
<1>6. CASE kind = "transpose"
  <2> DEFINE access == IF Len(s) > 1 THEN "swapped" ELSE "same"
             x == Nest(i, s, "transpose", args, << access >>, 1, FALSE)
  <2>1. r = IntoEmpty(p, i, c, << x >>)
    BY <1>6 DEF LinalgLowered, LinalgTransposeOpLowering, Elementwise
  <2>2. kind \notin Sinks
    BY <1>6 DEF Sinks
  <2>3. LoadsFit(x, p)
    <3>1. Len(s) \in Nat
      BY <1>3, <2>2
    <3>2. CASE Len(s) > 1
      <4>1. Len(s) >= 2 /\ access = "swapped"
        BY <3>1, <3>2
      <4>2. LoadsFit(Nest(i, p[i].type, "transpose", args, << "swapped" >>, 1, FALSE), p)
        BY <1>1, <1>2, <1>6, <4>1, SwappedFits
      <4> QED BY <4>1, <4>2
    <3>3. CASE ~ (Len(s) > 1)
      <4>1. Len(s) <= 1 /\ access = "same"
        BY <3>1, <3>3
      <4>2. LoadsFit(Nest(i, p[i].type, p[i].kind, args, << "same" >>, 1, FALSE), p)
        BY <1>1, <1>2, <1>6, <4>1, SameFits
      <4> QED BY <1>6, <4>1, <4>2
    <3> QED BY <3>2, <3>3
  <2> HIDE DEF access
  <2>0. /\ x.op = "nest" /\ x.buf = i /\ x.shape = s /\ x.args = args /\ x.kind = "transpose" /\ x.zero = FALSE
    BY DEF Nest
  <2> HIDE DEF x
  <2>4. Flows(x, full, p) /\ Fills(x) = {i}
    BY <1>1, <1>3, <2>2, <2>3, <2>0, NestFlows
  <2> HIDE DEF r, x
  <2> QED BY <1>4, <2>1, <2>2, <2>4
<1>7. CASE kind = "matrix_mul"
  <2> DEFINE depth == Last(OperandType(p, i, 1))
             F == Fill(i)
             N == Nest(i, s, "matrix_mul", args, << "lhs", "rhs" >>, depth, FALSE)
             items == << F, N >>
  <2>1. r = IntoEmpty(p, i, c, items)
    BY <1>7 DEF LinalgLowered, LinalgMatrixMulOpLowering, Elementwise, OperandType
  <2>2. s \in Seq(Nat)
    BY <1>3, <1>7 DEF Sinks
  <2>3. LoadsFit(N, p)
    BY <1>1, <1>2, <1>7, ProductFits
  <2>4. Flows(F, full, p) /\ Fills(F) = {i}
    BY DEF Flows, Fills, Reads, Accumulates, ItemFits, Fill
  <2> HIDE DEF depth
  <2>0. /\ N.op = "nest" /\ N.buf = i /\ N.shape = s /\ N.args = args /\ N.kind = "matrix_mul" /\ N.zero = FALSE
    BY DEF Nest
  <2> HIDE DEF N
  <2>5. Flows(N, full \cup {i}, p) /\ Fills(N) = {i}
    <3> DEFINE both == full \cup {i}
    <3>1. Range(N.args) \subseteq both /\ N.buf \in both /\ p[N.buf].type \in Seq(Nat) /\ N.shape = p[N.buf].type
      BY <1>1, <2>0, <2>2
    <3> HIDE DEF both
    <3>2. Flows(N, both, p) /\ Fills(N) = {N.buf}
      BY ONLY <2>0, <2>3, <3>1, NestFlows
    <3> QED BY <2>0, <3>2 DEF both
  <2> HIDE DEF r, F, N
  <2>6. items \in Seq({F, N}) /\ Len(items) = 2 /\ items[1] = F /\ items[2] = N
    OBVIOUS
  <2> HIDE DEF items
  <2>7. Full(items, 0) = {} /\ Full(items, 1) = {i} /\ Full(items, 2) = {i}
    <3>1. 1..0 = {} /\ 1..1 = {1} /\ 1..2 = {1, 2}
      OBVIOUS
    <3> QED BY <2>4, <2>5, <2>6, <3>1 DEF Full
  <2>8. FlowIn(items, Full(c, m), p)
    <3>1. \A j \in 1..2 : (j = 1 /\ j - 1 = 0) \/ (j = 2 /\ j - 1 = 1)
      OBVIOUS
    <3> QED BY <2>4, <2>5, <2>6, <2>7, <3>1 DEF FlowIn
  <2>9. i \in Full(items, Len(items))
    BY <2>6, <2>7
  <2> QED BY <1>2, <2>1, <2>2, <2>6, <2>8, <2>9, IntoEmptyFlows
<1>8. CASE kind = "constant"
  <2> DEFINE ixs == LoopOrder(s)
             terms == [k \in 1..NumElements(s) |-> << "lit", p[i].data, k >>]
             x == Store(i, ixs, terms)
  <2>1. r = IntoEmpty(p, i, c, << x >>)
    BY <1>8 DEF LinalgLowered, LinalgConstantOpLowering, Elementwise
  <2>2. kind \notin Sinks
    BY <1>8 DEF Sinks
  <2>3. terms = [k \in 1..NumElements(s) |-> << "lit", p[i].data, k >>]
    OBVIOUS
  <2> HIDE DEF terms, r
  <2>0. x.op = "store" /\ x.buf = i /\ x.ixs = LoopOrder(s) /\ x.terms = terms
    BY DEF Store
  <2> HIDE DEF x
  <2>4. Flows(x, full, p) /\ Fills(x) = {i}
    <3> DEFINE data == p[i].data
    <3>1. x.terms = Numbers(data, NumElements(s)) /\ x.ixs = LoopOrder(s)
      BY <2>0, <2>3 DEF Numbers
    <3>2. s \in Seq(Nat) /\ p[x.buf].type = s
      BY <1>3, <2>0, <2>2
    <3> HIDE DEF data, s
    <3>3. Flows(x, full, p) /\ Fills(x) = {x.buf}
      BY ONLY <2>0, <3>1, <3>2, StoreFlows
    <3> QED BY <2>0, <3>3
  <2> HIDE DEF x
  <2> QED BY <1>4, <2>1, <2>2, <2>4
<1>9. CASE kind = "print"
  <2> DEFINE x == PrintCall(args[1], p[p[i].args[1]].type)
             items == << x >>
  <2>1. r = ReplaceOp(c, i, items)
    BY <1>9 DEF LinalgLowered, LinalgPrintOpLowering, Elementwise
  <2>2. Flows(x, full, p) /\ kind \in Sinks
    BY <1>1, <1>9, PrintFlows DEF Sinks
  <2> HIDE DEF r, x
  <2>3. items \in Seq({x}) /\ FlowIn(items, Full(c, m), p)
    BY <2>2, OneFlows
  <2> HIDE DEF items
  <2> QED BY <1>2, <2>1, <2>2, <2>3, InPlaceFlows
<1>10. CASE kind = "reshape"
  <2> DEFINE x == View(i, s, args[1])
             items == << x >>
  <2>1. r = ReplaceOp(c, i, items)
    BY <1>10 DEF LinalgLowered, LinalgReshapeOpLowering, Elementwise
  <2>2. Flows(x, full, p) /\ Fills(x) = {i}
    <3>1. s \in Seq(Nat)
      BY <1>3, <1>10 DEF Sinks
    <3> QED BY <1>1, <1>3, <1>10, <3>1, ViewFlows
  <2> HIDE DEF r, x
  <2>3. /\ items \in Seq({x}) /\ FlowIn(items, Full(c, m), p)
        /\ i \in Full(c, m) \cup Full(items, Len(items)) /\ p[i].type = p[i].type
    BY <2>2, OneFlows
  <2> HIDE DEF items
  <2> QED BY <1>2, <2>1, <2>3, InPlaceFlows
<1> QED BY <1>5, <1>6, <1>7, <1>8, <1>9, <1>10 DEF Kinds, Sinks

-----------------------------------------------------------------------------
(* Running the items.                                                      *)

(* A tensor of shape s; if it is full, every element has been stored.      *)
Holds(t, s, full) ==
    /\ s \in Seq(Nat) /\ t = [shape |-> s, elems |-> t.elems] /\ DOMAIN t.elems = 1..NumElements(s)
    /\ full => \A k \in DOMAIN t.elems : t.elems[k] # Undef

(* Memory holds tensors of the types of their values.                      *)
MemFits(mm, full, p) == \A b \in DOMAIN mm : Holds(mm[b], p[b].type, b \in full)

(* A load inside the shape of a full buffer finds something.               *)
LEMMA LoadIsThere ==
    ASSUME NEW mm, NEW full, NEW p, MemFits(mm, full, p), NEW b \in DOMAIN mm, b \in full,
           NEW ix, InBounds(p[b].type, ix)
    PROVE  Load(mm, b, ix) # Undef
<1> DEFINE s == p[b].type
           e == mm[b].elems
<1>1. s \in Seq(Nat) /\ mm[b] = [shape |-> s, elems |-> e] /\ DOMAIN e = 1..NumElements(s)
      /\ \A k \in DOMAIN e : e[k] # Undef
  BY DEF MemFits, Holds
<1>2. InBounds(s, ix)
  OBVIOUS
<1> HIDE DEF s, e
<1> QED BY <1>1, <1>2, ElementIsThere

(* All the loads of a nest do.                                             *)
LEMMA LoadsAreThere ==
    ASSUME NEW mm, NEW full, NEW p, MemFits(mm, full, p), NEW x, x.op = "nest", Flows(x, full, p),
           Needs(x) \subseteq DOMAIN mm, NEW n \in 1..NumElements(x.shape), NEW k \in 0..(x.depth - 1)
    PROVE  LET y == Loads(mm, x, IndexAt(x.shape, n), k)
           IN  DOMAIN y = DOMAIN x.args /\ \A a \in DOMAIN x.args : y[a] # Undef
<1> DEFINE ix == IndexAt(x.shape, n)
           y == Loads(mm, x, ix, k)
<1>1. \A a \in DOMAIN x.args : InBounds(p[x.args[a]].type, LoadIndex(x.access[a], ix, k))
  BY DEF Flows, ItemFits, LoadsFit
<1>2. \A a \in DOMAIN x.args : x.args[a] \in DOMAIN mm /\ x.args[a] \in full
  BY DEF Flows, Reads, Needs, Range
<1> HIDE DEF ix
<1>3. ASSUME NEW a \in DOMAIN x.args PROVE y[a] # Undef
  <2> DEFINE lx == LoadIndex(x.access[a], ix, k)
             b == x.args[a]
  <2>1. b \in DOMAIN mm /\ b \in full /\ InBounds(p[b].type, lx)
    BY <1>1, <1>2
  <2>2. y[a] = Load(mm, b, lx)
    BY DEF Loads
  <2> HIDE DEF lx, b, y
  <2> QED BY <2>1, <2>2, LoadIsThere
<1>4. DOMAIN y = DOMAIN x.args
  BY DEF Loads
<1> QED BY <1>3, <1>4 DEF ix

(* So does the load of what a product accumulates into.                    *)
LEMMA AccumulatorIsThere ==
    ASSUME NEW mm, NEW full, NEW p, MemFits(mm, full, p), NEW x, x.op = "nest", Flows(x, full, p),
           Needs(x) \subseteq DOMAIN mm, NEW n \in 1..NumElements(x.shape), x.kind = "matrix_mul", ~ x.zero
    PROVE  Load(mm, x.buf, IndexAt(x.shape, n)) # Undef
<1> DEFINE s == x.shape
           ix == IndexAt(s, n)
<1>1. s = p[x.buf].type /\ s \in Seq(Nat) /\ x.buf \in full /\ x.buf \in DOMAIN mm
  BY DEF Flows, ItemFits, Reads, Accumulates, Needs
<1>2. n \in 1..NumElements(s)
  OBVIOUS
<1> HIDE DEF s
<1>3. InBounds(p[x.buf].type, ix)
  BY <1>1, <1>2, IndexIsInBounds
<1> HIDE DEF ix
<1>4. Load(mm, x.buf, ix) # Undef
  BY <1>1, <1>3, LoadIsThere
<1> QED BY <1>4 DEF ix, s

(* No item faults.                                                         *)
LEMMA NoFault ==
    ASSUME NEW mm, NEW full, NEW p, MemFits(mm, full, p), NEW x, Flows(x, full, p), Needs(x) \subseteq DOMAIN mm
    PROVE  ~ Faults(mm, x)
<1>1. x.op \in {"dealloc", "fill", "store", "nest", "print", "printf"} => x.buf \in DOMAIN mm
  BY DEF Needs
<1>2. ASSUME x.op = "view" PROVE x.args[1] \in DOMAIN mm
  BY <1>2 DEF Needs, Flows, ItemFits, Range
<1>3. ASSUME x.op \in {"print", "printf"} PROVE \A k \in DOMAIN mm[x.buf].elems : mm[x.buf].elems[k] # Undef
  <2>1. x.buf \in full
    BY <1>3 DEF Flows, Reads
  <2> QED BY <1>1, <1>3, <2>1 DEF MemFits, Holds
<1>4. ASSUME x.op = "nest", NEW n \in 1..NumElements(x.shape), NEW k \in 0..(x.depth - 1)
      PROVE  /\ Undef \notin Range(Loads(mm, x, IndexAt(x.shape, n), k))
             /\ ~ (x.kind = "matrix_mul" /\ ~ x.zero /\ Load(mm, x.buf, IndexAt(x.shape, n)) = Undef)
  <2> DEFINE ix == IndexAt(x.shape, n)
             y == Loads(mm, x, ix, k)
  <2>1. DOMAIN y = DOMAIN x.args /\ \A a \in DOMAIN x.args : y[a] # Undef
    BY <1>4, LoadsAreThere
  <2>2. x.kind = "matrix_mul" /\ ~ x.zero => Load(mm, x.buf, ix) # Undef
    BY <1>4, AccumulatorIsThere
  <2> HIDE DEF y, ix
  <2>3. Undef \notin Range(y)
    BY <2>1 DEF Range
  <2> QED BY <2>2, <2>3 DEF ix, y
<1> QED BY <1>1, <1>2, <1>3, <1>4 DEF Faults

(* What a nest computes for an element is there.                           *)
LEMMA ComputedIsThere ==
    ASSUME NEW mm, NEW full, NEW p, MemFits(mm, full, p), NEW x, x.op = "nest", Flows(x, full, p),
           Needs(x) \subseteq DOMAIN mm, NEW n \in 1..NumElements(x.shape)
    PROVE  Computed(mm, x, IndexAt(x.shape, n)) # Undef
<1> DEFINE ix == IndexAt(x.shape, n)
           y == Loads(mm, x, ix, 0)
<1>1. /\ x.kind \in Elementwise \cup {"transpose", "matrix_mul"}
      /\ x.depth \in Nat /\ (x.kind # "matrix_mul" => x.depth = 1)
      /\ DOMAIN x.args = 1..(IF x.kind = "transpose" THEN 1 ELSE 2)
  BY DEF Flows, ItemFits, LoadsFit
<1>2. ASSUME x.kind # "matrix_mul" PROVE DOMAIN y = DOMAIN x.args /\ \A a \in DOMAIN x.args : y[a] # Undef
  <2>1. 0 \in 0..(x.depth - 1)
    BY <1>1, <1>2
  <2> QED BY <2>1, LoadsAreThere
<1>3. x.kind = "matrix_mul" /\ ~ x.zero => Load(mm, x.buf, ix) # Undef
  BY AccumulatorIsThere
<1>4. y = [a \in DOMAIN x.args |-> y[a]]
  BY DEF Loads
<1>5. Computed(mm, x, ix) = CASE x.kind = "transpose" -> y[1]
                              [] x.kind \in Elementwise -> << x.kind >> \o y
                              [] x.kind = "matrix_mul" -> Computed(mm, x, ix)
  BY <1>1 DEF Computed, Elementwise
<1> HIDE DEF y, ix
<1>6. CASE x.kind = "transpose"
  BY <1>1, <1>2, <1>5, <1>6 DEF Elementwise, ix
<1>7. CASE x.kind \in Elementwise
  <2> DEFINE S == {y[1], y[2], x.kind}
             k == << x.kind >>
             z == k \o y
  <2>1. x.kind # "transpose" /\ x.kind # "matrix_mul"
    BY <1>7 DEF Elementwise
  <2>2. DOMAIN x.args = 1..2
    BY <1>1, <2>1
  <2>3. y \in Seq(S) /\ Len(y) = 2
    <3>1. \A a \in 1..2 : a = 1 \/ a = 2
      OBVIOUS
    <3>2. [a \in 1..2 |-> y[a]] \in Seq(S)
      BY <3>1
    <3>3. y = [a \in 1..2 |-> y[a]]
      BY <1>4, <2>2
    <3>4. DOMAIN y = 1..2
      BY <3>3
    <3> QED BY <3>2, <3>3, <3>4
  <2>4. k \in Seq(S) /\ Len(k) = 1
    OBVIOUS
  <2>5. Computed(mm, x, ix) = z
    BY <1>5, <1>7, <2>1
  <2> HIDE DEF S, k, y
  <2>6. Len(z) = 1 + 2
    <3>1. Len(k \o y) = Len(k) + Len(y)
      BY ONLY <2>3, <2>4, ConcatProperties
    <3> QED BY <2>3, <2>4, <3>1
  <2>7. Len(Undef) = 0
    BY DEF Undef
  <2> HIDE DEF z
  <2> QED BY <2>5, <2>6, <2>7 DEF ix
<1>8. CASE x.kind = "matrix_mul"
  <2>1. Computed(mm, x, ix) # Undef
    BY <1>1, <1>3, <1>8, SumIsDefined
  <2> QED BY <2>1 DEF ix
<1> QED BY <1>1, <1>6, <1>7, <1>8

(* A buffer is stored into.                                                *)
LEMMA PutFits ==
    ASSUME NEW mm, NEW full, NEW p, MemFits(mm, full, p), NEW b, NEW t, NEW more, more \subseteq {b},
           Holds(t, p[b].type, b \in full \cup more)
    PROVE  MemFits(Put(mm, b, t), full \cup more, p)
<1> DEFINE m == Put(mm, b, t)
<1>1. DOMAIN m = DOMAIN mm \cup {b} /\ \A c \in DOMAIN mm \cup {b} : m[c] = IF c = b THEN t ELSE mm[c]
  BY DEF Put
<1> HIDE DEF m
<1>2. ASSUME NEW c \in DOMAIN m PROVE Holds(m[c], p[c].type, c \in full \cup more)
  <2>1. CASE c = b
    BY <1>1, <2>1
  <2>2. CASE c # b
    <3>1. c \in DOMAIN mm /\ m[c] = mm[c] /\ (c \in full \cup more => c \in full)
      BY <1>1, <2>2
    <3>2. Holds(mm[c], p[c].type, c \in full)
      BY <3>1 DEF MemFits
    <3> QED BY <3>1, <3>2 DEF Holds
  <2> QED BY <2>1, <2>2
<1> QED BY <1>2 DEF MemFits, m

(* A tensor made of elements that are there is full.                       *)
LEMMA TensorHolds ==
    ASSUME NEW s \in Seq(Nat), NEW e, DOMAIN e = 1..NumElements(s), NEW full,
           full => \A k \in 1..NumElements(s) : e[k] # Undef
    PROVE  Holds([shape |-> s, elems |-> e], s, full)
  BY DEF Holds

(* What an item leaves in memory.                                          *)
LEMMA ExecFits ==
    ASSUME NEW mm, NEW full, NEW p, MemFits(mm, full, p), NEW x, Flows(x, full, p), Needs(x) \subseteq DOMAIN mm
    PROVE  MemFits(Exec(mm, x), full \cup Fills(x), p)
<1> DEFINE b == x.buf
           s == p[b].type
           N == NumElements(s)
           m == Exec(mm, x)
           more == Fills(x)
<1> SUFFICES MemFits(m, full \cup more, p)
  OBVIOUS
<1>1. ASSUME NEW e, DOMAIN e = 1..N, s \in Seq(Nat), more \subseteq {b},
             b \in full \cup more => \A k \in 1..N : e[k] # Undef,
             m = Put(mm, b, [shape |-> s, elems |-> e])
      PROVE  MemFits(m, full \cup more, p)
  <2> DEFINE t == [shape |-> s, elems |-> e]
  <2> HIDE DEF m, s, more
  <2>1. Holds(t, s, b \in full \cup more)
    BY <1>1, TensorHolds DEF N
  <2> HIDE DEF t
  <2>2. MemFits(Put(mm, b, t), full \cup more, p)
    BY <1>1, <2>1, PutFits DEF s
  <2> QED BY <1>1, <2>2 DEF t
<1>2. more \subseteq {b}
  BY DEF Fills
<1>3. x.op \in {"alloc", "view", "nest"} => x.shape = s /\ s \in Seq(Nat)
  BY DEF Flows, ItemFits
<1>4. ASSUME x.op \in {"fill", "store"} PROVE b \in DOMAIN mm /\ mm[b].shape = s /\ s \in Seq(Nat)
  <2>1. b \in DOMAIN mm
    BY <1>4 DEF Needs
  <2> QED BY <2>1 DEF MemFits, Holds
<1>5. CASE x.op = "alloc"
  <2> DEFINE e == [k \in 1..N |-> Undef]
  <2>1. m = Put(mm, b, [shape |-> s, elems |-> e])
    BY <1>3, <1>5 DEF Exec, Tensor
  <2>2. b \notin full \cup more
    BY <1>5 DEF Flows, Fills
  <2>3. DOMAIN e = 1..N
    OBVIOUS
  <2> HIDE DEF m, more, e, N
  <2> QED BY <1>1, <1>2, <1>3, <1>5, <2>1, <2>2, <2>3
<1>6. CASE x.op = "fill"
  <2> DEFINE e == [k \in 1..N |-> Zero]
  <2>1. m = Put(mm, b, [shape |-> s, elems |-> e])
    BY <1>4, <1>6 DEF Exec, Tensor
  <2>2. DOMAIN e = 1..N /\ \A k \in 1..N : e[k] # Undef
    BY DEF Zero, Undef
  <2> HIDE DEF m, more, e, N
  <2> QED BY <1>1, <1>2, <1>4, <1>6, <2>1, <2>2
<1>7. CASE x.op = "view"
  <2> DEFINE a == x.args[1]
             e == mm[a].elems
  <2>1. 1 \in DOMAIN x.args /\ NumElements(p[a].type) = N
    BY <1>3, <1>7 DEF Flows, ItemFits
  <2>2. a \in full /\ a \in DOMAIN mm
    BY <1>7, <2>1 DEF Flows, Reads, Needs, Range
  <2>3. /\ mm[a] = [shape |-> p[a].type, elems |-> e] /\ DOMAIN e = 1..N
        /\ \A k \in 1..N : e[k] # Undef
    BY <2>1, <2>2 DEF MemFits, Holds
  <2>4. m = Put(mm, b, [mm[a] EXCEPT !.shape = x.shape])
    BY <1>7 DEF Exec
  <2> HIDE DEF a, e, m, more, N
  <2>5. [mm[a] EXCEPT !.shape = x.shape] = [shape |-> s, elems |-> e]
    BY <1>3, <1>7, <2>3
  <2>6. m = Put(mm, b, [shape |-> s, elems |-> e])
    BY <2>4, <2>5
  <2> QED BY <1>1, <1>2, <1>3, <1>7, <2>3, <2>6
<1>8. CASE x.op = "store"
  <2> DEFINE Stores(k) == {j \in DOMAIN x.ixs : x.ixs[j] = IndexAt(s, k)}
             e == [k \in 1..N |-> IF Stores(k) = {} THEN At(mm[b], IndexAt(s, k)) ELSE x.terms[Max(Stores(k))]]
  <2>1. m = Put(mm, b, [shape |-> s, elems |-> e])
    BY <1>4, <1>8 DEF Exec, Tensor
  <2>2. StoresAll(x, s)
    BY <1>8 DEF Flows, ItemFits
  <2>3. ASSUME NEW k \in 1..N PROVE e[k] # Undef
    <3> DEFINE T == Stores(k)
    <3>1. T # {} /\ T \in SUBSET (1..Len(x.ixs)) /\ Len(x.ixs) \in Nat
      BY <2>2 DEF StoresAll
    <3>2. e[k] = x.terms[Max(T)] /\ T \subseteq DOMAIN x.ixs
      BY <3>1
    <3> HIDE DEF T, e
    <3>3. Max(T) \in DOMAIN x.ixs
      BY <3>1, <3>2, MaxOfNumbers
    <3> QED BY <2>2, <3>2, <3>3 DEF StoresAll
  <2>4. DOMAIN e = 1..N
    OBVIOUS
  <2> HIDE DEF m, more, e, N
  <2> QED BY <1>1, <1>2, <1>4, <1>8, <2>1, <2>3, <2>4
<1>9. CASE x.op = "nest"
  <2> DEFINE e == [k \in 1..N |-> Computed(mm, x, IndexAt(s, k))]
  <2>1. m = Put(mm, b, [shape |-> s, elems |-> e])
    BY <1>3, <1>9 DEF Exec, Tensor
  <2>2. ASSUME NEW k \in 1..N PROVE e[k] # Undef
    <3>1. Computed(mm, x, IndexAt(x.shape, k)) # Undef
      BY <1>3, <1>9, ComputedIsThere
    <3> QED BY <1>3, <1>9, <3>1
  <2>3. DOMAIN e = 1..N
    OBVIOUS
  <2> HIDE DEF m, more, e, N
  <2> QED BY <1>1, <1>2, <1>3, <1>9, <2>1, <2>2, <2>3
<1>10. CASE x.op = "dealloc"
  <2>1. m = [c \in DOMAIN mm \ {b} |-> mm[c]] /\ more = {}
    BY <1>10 DEF Exec, Fills
  <2> HIDE DEF m, more
  <2> QED BY <2>1 DEF MemFits
<1>11. CASE x.op \notin {"alloc", "fill", "view", "store", "nest", "dealloc"}
  <2>1. m = mm /\ more = {}
    BY <1>11 DEF Exec, Fills
  <2> HIDE DEF m, more
  <2> QED BY <2>1
<1> QED BY <1>5, <1>6, <1>7, <1>8, <1>9, <1>10, <1>11

-----------------------------------------------------------------------------
(* The steps.                                                              *)

(* The code of a function that can be lowered flows, first as far as it is *)
(* converted, and while it runs memory holds what its items have filled.   *)
FlowInv ==
    /\ pc \in {"function", "convert"} /\ Lowers(prog, target) =>
          Flow(code, prog) /\ Standing(prog, code, value, next)
    /\ pc \in Produced => Flow(code, prog)
    /\ pc = "run" => MemFits(mem, Full(code, next - 1), prog)
    /\ pc # "fault"

(* At first there are operations only.                                     *)
LEMMA InitFlow == Init => FlowInv
<1> SUFFICES ASSUME Init PROVE FlowInv
  OBVIOUS
<1> DEFINE n == Len(prog)
<1>1. n \in Nat \ {0} /\ DOMAIN prog = 1..n
  BY ProgramFacts DEF Init
<1>2. pc = "function" /\ next = 1
  BY DEF Init
<1>3. code = [o \in 1..n |-> Toy(o)]
  BY <1>1 DEF Init
<1> HIDE DEF n
<1>4. Len(code) = n /\ \A k \in 1..n : code[k] = Toy(k)
  BY <1>1, <1>3
<1>5. Flow(code, prog)
  <2> SUFFICES ASSUME NEW k \in 1..n PROVE Flows(code[k], Full(code, k - 1), prog)
    BY <1>4 DEF Flow
  <2>1. Inert(code[k])
    BY <1>4, InertItems DEF Toy
  <2> QED BY <2>1, InertFlows
<1>6. Standing(prog, code, value, 1)
  <2>1. 1..(1 - 1) = {}
    OBVIOUS
  <2> QED BY <2>1 DEF Standing
<1> QED BY <1>2, <1>5, <1>6 DEF FlowInv, Produced

(* Steps that leave the code alone, and do not run it.                     *)
LEMMA QuietFlow ==
    ASSUME FlowInv, UNCHANGED << prog, target, next, code, value, mem >>,
           \/ pc' = pc
           \/ pc = "function" /\ pc' = "convert"
           \/ pc' \in {"refused", "aborted"}
    PROVE  FlowInv'
<1>1. CASE pc' = pc
  BY <1>1 DEF FlowInv
<1>2. CASE pc = "function" /\ pc' = "convert"
  BY <1>2 DEF FlowInv, Produced
<1>3. CASE pc' \in {"refused", "aborted"}
  BY <1>3 DEF FlowInv, Produced
<1> QED BY <1>1, <1>2, <1>3

(* An operation has been converted.                                        *)
LEMMA AdvanceFlow ==
    ASSUME UNCHANGED << prog, target, pc >>, pc = "convert", next' = next + 1,
           NEW w, value' = Append(value, w), Lowers(prog, target) => FlowsOn(prog, code', value, w, next)
    PROVE  FlowInv'
<1>1. (pc \in {"function", "convert"} /\ Lowers(prog, target) =>
          Flow(code, prog) /\ Standing(prog, code, value, next))'
  BY DEF FlowsOn
<1> QED BY <1>1 DEF FlowInv, Produced

(* A cast is dropped, its operand stands for it.                           *)
LEMMA FoldCastFlow == IInv /\ BufInv /\ FlowInv /\ FoldCast => FlowInv'
<1> SUFFICES ASSUME IInv, BufInv, FlowInv, FoldCast PROVE FlowInv'
  OBVIOUS
<1> DEFINE w == value[prog[next].args[1]]
           items == << >>
<1>1. Converting /\ pc = "convert" /\ prog[next].kind = "cast" /\ prog \in Programs /\ next \in DOMAIN prog
  BY DEF FoldCast, FoldsAway, IInv, ProgOK, Converting
<1>2. PICK m \in Nat : Laid(prog, target, code, value, next, m)
  BY <1>1 DEF BufInv
<1>3. AtOperation(prog, target, code, value, next, m)
  BY <1>1, <1>2, IsAtOperation
<1>4. /\ UNCHANGED << prog, target, pc >> /\ next' = next + 1
      /\ value' = Append(value, w) /\ code' = ReplaceOp(code, next, items)
  BY DEF FoldCast
<1> HIDE DEF w
<1>5. ASSUME Lowers(prog, target) PROVE FlowsOn(prog, code', value, w, next)
  <2>1. FlowsSoFar(prog, target, code, value, next, m)
    BY <1>1, <1>3, <1>5 DEF FlowInv, FlowsSoFar
  <2>2. w \in Full(code, m) /\ prog[w].type = OperandType(prog, next, 1)
    BY <1>1, <2>1, OperandsStand DEF w
  <2>3. OperandType(prog, next, 1) = prog[next].type
    BY <1>1, <1>5, LoweredTypes
  <2>4. items \in Seq({}) /\ FlowIn(items, Full(code, m), prog)
    BY DEF FlowIn
  <2> HIDE DEF items
  <2>5. FlowsOn(prog, ReplaceOp(code, next, items), value, w, next)
    BY <2>1, <2>2, <2>3, <2>4, InPlaceFlows
  <2> QED BY <1>4, <2>5
<1> HIDE DEF items
<1> QED BY <1>1, <1>4, <1>5, AdvanceFlow

(* The return is converted last.                                           *)
LEMMA ReturnFlows ==
    ASSUME NEW p, Len(p) \in Nat \ {0}, p[Len(p)].kind = "return", NEW tg, NEW c, IsSeq(c), NEW v, NEW m \in Nat,
           Laid(p, tg, c, v, Len(p), m), c[Len(c)] = Toy(Len(p)), Flow(c, p), Standing(p, c, v, Len(p)),
           NEW V, v \in Seq(V), Len(v) = Len(p) - 1, NEW w
    PROVE  FlowsOn(p, ReplaceOp(c, Len(p), << Return >>), v, w, Len(p))
<1> DEFINE i == Len(p)
           n == Len(c)
           q == n - 1
           items == << Return >>
           r == ReplaceOp(c, i, items)
<1>1. n \in Nat /\ Left(p, i) = 0 /\ i \in Nat /\ i # 0
  BY SeqFacts DEF Left
<1>2. /\ m + 0 + 1 <= n
      /\ \A k \in 1..m : c[k].op \notin {"toy", "dealloc", "return"}
      /\ \A k \in (m + 0 + 1)..(n - 1) : c[k].op = "dealloc"
  BY <1>1 DEF Laid
<1>3. q \in Nat /\ q + 1 = n /\ q + 1 \in 1..n /\ m <= q /\ q \in 0..(n - 1)
  BY <1>1, <1>2
<1> HIDE DEF n, i, q
<1>4. \A k \in 1..n : k # q + 1 => c[k] # Toy(i)
  <2> SUFFICES ASSUME NEW k \in 1..n, k # q + 1 PROVE c[k].op # "toy"
    BY DEF Toy
  <2>1. k \in 1..m \/ k \in (m + 0 + 1)..(n - 1)
    BY <1>1, <1>3
  <2> QED BY <1>2, <2>1
<1>5. c[n] = Toy(i) /\ IsSeq(c) /\ Flow(c, p)
  BY DEF n, i
<1>6. /\ items \in Seq({Return}) /\ Len(items) \in Nat /\ FlowIn(items, Full(c, q), p)
      /\ Full(items, Len(items)) = {}
  <2>1. Inert(Return)
    BY InertItems DEF Return
  <2>2. Flows(Return, Full(c, q), p) /\ Fills(Return) = {}
    BY <2>1, InertFlows DEF Inert
  <2> QED BY <2>2, OneFlows
<1> HIDE DEF items
<1>7. Replaced(r, c, q, items)
  <2>1. c[q + 1] = Toy(i)
    BY <1>3, <1>5
  <2> QED BY <1>3, <1>4, <1>5, <1>6, <2>1, ReplacedNext DEF n
<1>8. InertFrom(c, q)
  <2>1. \A k \in (q + 1)..n : k = n
    BY <1>1, <1>3
  <2>2. Inert(c[n])
    BY <1>5, InertItems DEF Toy
  <2> QED BY <1>3, <2>1, <2>2 DEF InertFrom, n
<1> HIDE DEF r
<1>9. Flow(r, p) /\ Full(c, Len(c)) = Full(c, q) /\ Full(r, Len(r)) = Full(c, q) \cup Full(items, Len(items))
  <2>1. Len(c) \in Nat
    BY <1>1 DEF n
  <2> QED BY ONLY <1>5, <1>6, <1>7, <1>8, <2>1, FlowReplaced
<1>10. Standing(p, r, Append(v, w), i + 1)
  <2>1. /\ i \in Nat \ {0} /\ v \in Seq(V) /\ Len(v) = i - 1 /\ Standing(p, c, v, i)
        /\ p[i].kind \in Sinks
    BY <1>1 DEF i, Sinks
  <2>2. Full(c, Len(c)) \subseteq Full(r, Len(r))
    BY <1>9
  <2> QED BY <2>1, <2>2, StandingOn
<1> QED BY <1>9, <1>10 DEF FlowsOn, r, items, i

(* One pattern, or the return.                                             *)
LEMMA ConvertOpFlow == IInv /\ BufInv /\ FlowInv /\ ConvertOp => FlowInv'
<1> SUFFICES ASSUME IInv, BufInv, FlowInv, ConvertOp PROVE FlowInv'
  OBVIOUS
<1> DEFINE op == prog[next]
           w == IF target = "affine" /\ op.kind = "reshape" THEN value[op.args[1]] ELSE next
           args == Operands(prog, value, next)
<1>1. /\ Converting /\ pc = "convert" /\ Matches(next) /\ prog \in Programs /\ next \in DOMAIN prog
      /\ target \in {"affine", "linalg"}
  BY DEF ConvertOp, IInv, ProgOK, Converting
<1>2. PICK m \in Nat : Laid(prog, target, code, value, next, m)
  BY <1>1 DEF BufInv
<1>3. op.kind \in Kinds \ {"arg", "cast", "generic_call"}
  <2>1. op.kind \in Kinds /\ op.kind # "arg"
    BY <1>1, ProgramFacts DEF IInv, RefusalOK, MainOK
  <2>2. op.kind \notin {"cast", "generic_call"}
    BY <1>1 DEF Matches, AffineMatches, LinalgMatches
  <2> QED BY <2>1, <2>2
<1>4. /\ UNCHANGED << prog, target, pc >> /\ next' = next + 1 /\ value' = Append(value, w)
      /\ code' = IF target = "affine" THEN AffineLowered(prog, next, args, code)
                                      ELSE LinalgLowered(prog, next, args, code)
  BY DEF ConvertOp, LoweredCodeOf, Operands
<1> HIDE DEF args, w
<1> SUFFICES ASSUME Lowers(prog, target) PROVE FlowsOn(prog, code', value, w, next)
  BY <1>1, <1>4, AdvanceFlow
<1>5. Flow(code, prog) /\ Standing(prog, code, value, next)
  BY <1>1 DEF FlowInv
<1>6. CASE op.kind = "return"
  <2> DEFINE n == Len(prog)
             V == DOMAIN prog
  <2>1. next = n /\ n \in Nat \ {0} /\ prog[n].kind = "return"
    BY <1>1, <1>6, ProgramFacts
  <2>2. code' = ReplaceOp(code, next, << Return >>)
    BY <1>4, <1>6 DEF AffineLowered, LinalgLowered, AffineReturnOpLowering, LinalgReturnOpLowering, Elementwise
  <2>3. IsSeq(code) /\ value \in Seq(V) /\ Len(value) = next - 1
    BY <1>1 DEF IInv, CodeOK, DataOK, WalkOK
  <2>4. code[Len(code)] = Toy(n)
    <3>1. next <= n
      BY <2>1
    <3> QED BY <1>1, <3>1 DEF IInv, EndOK
  <2> HIDE DEF V
  <2>5. FlowsOn(prog, ReplaceOp(code, Len(prog), << Return >>), value, w, Len(prog))
    BY <1>2, <1>5, <2>1, <2>3, <2>4, ReturnFlows
  <2> QED BY <2>1, <2>2, <2>5
<1>7. CASE op.kind # "return"
  <2>1. FlowsSoFar(prog, target, code, value, next, m)
    BY <1>1, <1>2, <1>5, <1>7, IsAtOperation DEF FlowsSoFar
  <2>2. CASE target = "affine"
    <3>1. code' = AffineLowered(prog, next, args, code)
      BY <1>4, <2>2
    <3>2. w = IF op.kind = "reshape" THEN value[op.args[1]] ELSE next
      BY <2>2 DEF w
    <3>3. FlowsSoFar(prog, "affine", code, value, next, m) /\ Lowers(prog, "affine")
      BY <2>1, <2>2
    <3>4. FlowsOn(prog, AffineLowered(prog, next, Operands(prog, value, next), code),
                  value, IF op.kind = "reshape" THEN value[op.args[1]] ELSE next, next)
      BY <1>3, <1>7, <3>3, AffineFlows
    <3> QED BY <3>1, <3>2, <3>4 DEF args
  <2>3. CASE target = "linalg"
    <3>1. code' = LinalgLowered(prog, next, args, code)
      BY <1>4, <2>3
    <3>2. w = next
      BY <2>3 DEF w
    <3>3. FlowsSoFar(prog, "linalg", code, value, next, m) /\ Lowers(prog, "linalg")
      BY <2>1, <2>3
    <3>4. FlowsOn(prog, LinalgLowered(prog, next, Operands(prog, value, next), code), value, next, next)
      BY <1>3, <1>7, <3>3, LinalgFlows
    <3> QED BY <3>1, <3>2, <3>4 DEF args
  <2> QED BY <1>1, <2>2, <2>3
<1> QED BY <1>6, <1>7

(* The code is complete; what the verifier lets through can be lowered.    *)
LEMMA VerifyFlow == IInv /\ BufInv /\ FlowInv /\ Verify => FlowInv'
<1> SUFFICES ASSUME IInv, BufInv, FlowInv, Verify PROVE FlowInv'
  OBVIOUS
<1>1. /\ UNCHANGED << prog, target, code, value, mem >> /\ next' = 1 /\ pc = "convert"
      /\ pc' \in {"llvm", "run", "refused"}
  BY DEF Verify
<1>2. CASE pc' = "refused"
  BY <1>2 DEF FlowInv, Produced
<1>3. CASE pc' \in {"llvm", "run"}
  <2>1. Lowers(prog, target)
    <3>1. RefusalOK'
      BY VerifyInv DEF IInv
    <3>2. CanLower'
      BY <1>3, <3>1 DEF RefusalOK, Produced
    <3>3. CanLower' = CanLower
      BY <1>1, PassedStays
    <3> QED BY <3>2, <3>3 DEF CanLower, Lowers
  <2>2. Flow(code, prog)
    BY <1>1, <2>1 DEF FlowInv
  <2>3. MemFits(mem', Full(code', next' - 1), prog')
    <3>1. DOMAIN mem' = {}
      BY <1>1 DEF BufInv
    <3> QED BY <3>1 DEF MemFits
  <2> QED BY <1>1, <1>3, <2>2, <2>3 DEF FlowInv
<1> QED BY <1>1, <1>2, <1>3

(* A printf reads what the print read.                                     *)
LEMMA LowerPrintFlow == IInv /\ BufInv /\ FlowInv /\ LowerPrint => FlowInv'
<1> SUFFICES ASSUME IInv, BufInv, FlowInv, LowerPrint PROVE FlowInv'
  OBVIOUS
<1> DEFINE n == Len(code)
           new == Printf(code[next].buf, PrintLoops(code[next].shape))
<1>1. /\ UNCHANGED << prog, target, pc, value, mem >> /\ next' = next + 1
      /\ pc = "llvm" /\ next \in DOMAIN code /\ code[next].op = "print"
      /\ code' = [code EXCEPT ![next] = new]
  BY DEF LowerPrint, PrintfOpLowering
<1>2. n \in Nat /\ DOMAIN code = 1..n
  BY SeqFacts DEF IInv, CodeOK
<1>3. new.op = "printf" /\ new.buf = code[next].buf
  BY DEF Printf
<1> HIDE DEF new
<1>4. Fills(new) = Fills(code[next]) /\ \A S : Flows(code[next], S, prog) => Flows(new, S, prog)
  BY <1>1, <1>3 DEF Fills, Flows, Reads, Accumulates, ItemFits
<1> HIDE DEF n
<1>5. DOMAIN code' = 1..n /\ \A k \in 1..n : code'[k] = IF k = next THEN new ELSE code[k]
  BY <1>1, <1>2
<1>6. Len(code') = Len(code)
  <2>1. IsSeq(code)'
    BY LowerPrintInv DEF IInv, CodeOK
  <2>2. IsSeq(code')
    BY <2>1 DEF IsSeq
  <2>3. DOMAIN code' = 1..Len(code') /\ Len(code') \in Nat
    BY <2>2, SeqFacts
  <2> DEFINE N == Len(code')
  <2> HIDE DEF N
  <2>4. N = n
    BY <1>2, <1>5, <2>3 DEF N
  <2> QED BY <2>4 DEF N, n
<1>7. /\ \A k \in 1..Len(code) : Fills(code'[k]) = Fills(code[k])
      /\ \A k \in 1..Len(code) : \A S : Flows(code[k], S, prog) => Flows(code'[k], S, prog)
  BY <1>4, <1>5 DEF n
<1>8. Flow(code, prog) /\ Len(code) \in Nat
  BY <1>1, <1>2 DEF FlowInv, Produced, n
<1>9. Flow(code', prog)
  BY <1>6, <1>7, <1>8, FlowStays
<1> QED BY <1>1, <1>9 DEF FlowInv

(* The LLVM pass leaves the other items alone; then the code runs, from    *)
(* empty memory.                                                           *)
LEMMA KeepItemFlow == IInv /\ BufInv /\ FlowInv /\ KeepItem => FlowInv'
<1> SUFFICES ASSUME IInv, BufInv, FlowInv, KeepItem PROVE FlowInv'
  OBVIOUS
<1>1. /\ UNCHANGED << prog, target, code, value, mem >> /\ pc = "llvm"
      /\ pc' \in {"llvm", "run"}
  BY DEF KeepItem
<1>2. Flow(code, prog)
  BY <1>1 DEF FlowInv, Produced
<1>3. MemFits(mem', Full(code', next' - 1), prog')
  <2>1. DOMAIN mem' = {}
    BY <1>1 DEF BufInv
  <2> QED BY <2>1 DEF MemFits
<1> QED BY <1>1, <1>2, <1>3 DEF FlowInv

(* An item finds what it reads stored, and so do those behind it.          *)
LEMMA RunFlow == IInv /\ BufInv /\ FlowInv /\ Run => FlowInv'
<1> SUFFICES ASSUME IInv, BufInv, FlowInv, Run PROVE FlowInv'
  OBVIOUS
<1> DEFINE n == Len(code)
           x == code[next]
           full == Full(code, next - 1)
<1>1. /\ UNCHANGED << prog, target, code, value, decls >> /\ pc = "run"
      /\ \/ Faults(mem, x)
         \/ /\ mem' = Exec(mem, x) /\ next' = next + 1
            /\ pc' \in {"done", "run"}
  BY DEF Run
<1>2. n \in Nat /\ next \in 1..n
  <2>1. n \in Nat
    BY SeqFacts DEF IInv, CodeOK
  <2>2. next \in Nat \ {0} /\ next <= n
    BY <1>1 DEF IInv, WalkOK
  <2> QED BY <2>1, <2>2
<1>3. Needs(x) \subseteq DOMAIN mem
  BY <1>1, <1>2 DEF BufInv, Produced, Ordered
<1>4. Flow(code, prog) /\ MemFits(mem, full, prog)
  BY <1>1 DEF FlowInv, Produced
<1>5. Flows(x, full, prog)
  BY <1>2, <1>4 DEF Flow
<1>6. Full(code, next) = full \cup Fills(x)
  <2> HIDE DEF n
  <2> QED BY <1>2, FullFacts
<1> HIDE DEF x, full
<1>7. ~ Faults(mem, x)
  BY <1>3, <1>4, <1>5, NoFault
<1>8. MemFits(Exec(mem, x), full \cup Fills(x), prog)
  BY <1>3, <1>4, <1>5, ExecFits
<1>9. MemFits(mem', Full(code', next' - 1), prog')
  <2>1. next' - 1 = next
    BY <1>1, <1>2, <1>7
  <2> QED BY <1>1, <1>6, <1>7, <1>8, <2>1
<1> QED BY <1>1, <1>4, <1>7, <1>9 DEF FlowInv

(* All steps.                                                              *)
LEMMA NextFlow == IInv /\ BufInv /\ FlowInv /\ [Next]_vars => FlowInv'
<1> SUFFICES ASSUME IInv, BufInv, FlowInv, [Next]_vars PROVE FlowInv'
  OBVIOUS
<1>1. CASE LowerFunction
  BY <1>1, QuietFlow DEF LowerFunction
<1>2. CASE RejectOp \/ AbortOp
  BY <1>2, QuietFlow DEF RejectOp, AbortOp
<1>3. CASE UNCHANGED vars
  BY <1>3, QuietFlow DEF vars
<1> QED BY <1>1, <1>2, <1>3, FoldCastFlow, ConvertOpFlow, VerifyFlow, LowerPrintFlow, KeepItemFlow, RunFlow DEF Next

(* Whatever function the compiler lowers, the code it runs reads no buffer *)
(* before it is allocated and every element stored, uses none that is      *)
(* freed, and leaves nothing allocated behind on the affine path.          *)
THEOREM MemorySafe == Spec => []MemoryIsSafe
<1>1. Init => BufInv /\ FlowInv
  BY InitBuf, InitFlow
<1>2. IInv /\ BufInv /\ FlowInv /\ [Next]_vars => BufInv' /\ FlowInv'
  BY NextBuf, NextFlow
<1>3. IInv /\ BufInv /\ FlowInv => MemoryIsSafe
  <2> SUFFICES ASSUME BufInv, FlowInv PROVE MemoryIsSafe
    OBVIOUS
  <2>1. ASSUME pc = "done", target = "affine" PROVE mem = << >>
    <3>1. DOMAIN mem = {} /\ mem = [b \in DOMAIN mem |-> mem[b]]
      BY <2>1 DEF BufInv
    <3> QED BY <3>1
  <2> QED BY <2>1 DEF MemoryIsSafe, FlowInv
<1> QED BY <1>1, <1>2, <1>3, Invariance, PTL DEF Spec
=============================================================================
