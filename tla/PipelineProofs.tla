---------------------------- MODULE PipelineProofs ----------------------------
(***************************************************************************)
(* Theorems about Pipeline, for all options and a main and at most one     *)
(* callee (InputsAssumption), both of any length: what is inlined,         *)
(* rewritten and merged, in whatever order, stays in SSA form, shape       *)
(* inference and the lowerings get what they take for granted, and main()  *)
(* hands out what was asked for.                                           *)
(***************************************************************************)
EXTENDS Pipeline, ToyDialectProofs, FiniteSetTheorems

-----------------------------------------------------------------------------
(* Sequences with an element taken out or put in.                          *)

LEMMA RemovedAt ==
    ASSUME NEW S, NEW s \in Seq(S), NEW i \in 1..Len(s)
    PROVE  LET r == RemoveAt(s, i)
           IN  /\ r \in Seq(S) /\ Len(r) = Len(s) - 1
               /\ \A j \in 1..(Len(s) - 1) : r[j] = IF j < i THEN s[j] ELSE s[j + 1]
<1> DEFINE n == Len(s)
           a == SubSeq(s, 1, i - 1)
           b == SubSeq(s, i + 1, n)
<1>1. n \in Nat /\ i \in Int /\ 1 <= i /\ i <= n /\ \A j \in 1..n : s[j] \in S
  OBVIOUS
<1>2. RemoveAt(s, i) = a \o b
  BY DEF RemoveAt
<1> HIDE DEF n
<1>3. a \in Seq(S) /\ Len(a) = i - 1 /\ \A j \in 1..(i - 1) : a[j] = s[j]
  BY <1>1, SubSeqProperties
<1>4. b \in Seq(S) /\ Len(b) = n - i /\ \A j \in 1..(n - i) : b[j] = s[i + j]
  BY <1>1, SubSeqProperties
<1> HIDE DEF a, b
<1>5. /\ a \o b \in Seq(S) /\ Len(a \o b) = n - 1
      /\ \A j \in 1..(n - 1) : (a \o b)[j] = IF j <= i - 1 THEN a[j] ELSE b[j - (i - 1)]
  <2>1. Len(a) + Len(b) = n - 1
    BY <1>1, <1>3, <1>4
  <2> QED BY <1>3, <1>4, <2>1, ConcatProperties
<1>6. ASSUME NEW j \in 1..(n - 1) PROVE (a \o b)[j] = IF j < i THEN s[j] ELSE s[j + 1]
  <2>1. CASE j < i
    <3>1. j \in 1..(i - 1) /\ j <= i - 1
      BY <1>1, <2>1
    <3> QED BY <1>3, <1>5, <2>1, <3>1
  <2>2. CASE ~ (j < i)
    <3>1. j - (i - 1) \in 1..(n - i) /\ ~ (j <= i - 1) /\ i + (j - (i - 1)) = j + 1
      BY <1>1, <2>2
    <3> QED BY <1>4, <1>5, <2>2, <3>1
  <2> QED BY <2>1, <2>2
<1> QED BY <1>2, <1>5, <1>6 DEF n

LEMMA InsertedAt ==
    ASSUME NEW S, NEW s \in Seq(S), NEW i \in 1..Len(s), NEW e \in S
    PROVE  LET r == InsertAt(s, i, e)
           IN  /\ r \in Seq(S) /\ Len(r) = Len(s) + 1 /\ r[i] = e
               /\ \A j \in 1..Len(s) : r[IF j < i THEN j ELSE j + 1] = s[j]
<1> DEFINE n == Len(s)
           a == SubSeq(s, 1, i - 1)
           b == SubSeq(s, i, n)
           c == a \o << e >>
<1>1. n \in Nat /\ i \in Int /\ 1 <= i /\ i <= n /\ \A j \in 1..n : s[j] \in S
  OBVIOUS
<1>2. InsertAt(s, i, e) = c \o b
  BY DEF InsertAt
<1> HIDE DEF n
<1>3. a \in Seq(S) /\ Len(a) = i - 1 /\ \A j \in 1..(i - 1) : a[j] = s[j]
  BY <1>1, SubSeqProperties
<1>4. b \in Seq(S) /\ Len(b) = n - i + 1 /\ \A j \in 1..(n - i + 1) : b[j] = s[i + j - 1]
  BY <1>1, SubSeqProperties
<1> HIDE DEF a, b
<1>5. c \in Seq(S) /\ Len(c) = i /\ \A j \in 1..i : c[j] = IF j <= i - 1 THEN a[j] ELSE e
  <2>1. << e >> \in Seq(S) /\ Len(<< e >>) = 1 /\ << e >>[1] = e /\ Len(a) + Len(<< e >>) = i
    BY <1>1, <1>3
  <2>2. /\ c \in Seq(S) /\ Len(c) = i
        /\ \A j \in 1..i : c[j] = IF j <= i - 1 THEN a[j] ELSE << e >>[j - (i - 1)]
    BY <1>3, <2>1, ConcatProperties
  <2>3. \A j \in 1..i : ~ (j <= i - 1) => j - (i - 1) = 1
    BY <1>1
  <2> HIDE DEF c
  <2> QED BY <2>1, <2>2, <2>3
<1> HIDE DEF c
<1>6. /\ c \o b \in Seq(S) /\ Len(c \o b) = n + 1
      /\ \A j \in 1..(n + 1) : (c \o b)[j] = IF j <= i THEN c[j] ELSE b[j - i]
  <2>1. /\ c \o b \in Seq(S) /\ Len(c \o b) = Len(c) + Len(b)
        /\ \A j \in 1..(Len(c) + Len(b)) : (c \o b)[j] = IF j <= Len(c) THEN c[j] ELSE b[j - Len(c)]
    BY <1>4, <1>5, ConcatProperties
  <2>2. Len(c) = i /\ Len(c) + Len(b) = n + 1
    BY <1>1, <1>4, <1>5
  <2> QED BY <2>1, <2>2
<1>7. ASSUME NEW j \in 1..(n + 1)
      PROVE  (c \o b)[j] = IF j < i THEN s[j] ELSE IF j = i THEN e ELSE s[j - 1]
  <2>1. CASE j < i
    <3>1. j \in 1..(i - 1) /\ j <= i - 1 /\ j <= i /\ j \in 1..i
      BY <1>1, <2>1
    <3> QED BY <1>3, <1>5, <1>6, <2>1, <3>1
  <2>2. CASE j = i
    <3>1. j \in 1..i /\ j <= i /\ ~ (j <= i - 1) /\ ~ (j < i)
      BY <1>1, <2>2
    <3> QED BY <1>5, <1>6, <2>2, <3>1
  <2>3. CASE j > i
    <3>1. j - i \in 1..(n - i + 1) /\ ~ (j <= i) /\ i + (j - i) - 1 = j - 1
      BY <1>1, <2>3
    <3>2. b[j - i] = s[j - 1]
      BY <1>4, <3>1
    <3>3. (c \o b)[j] = b[j - i] /\ ~ (j < i) /\ j # i
      BY <1>1, <1>6, <2>3, <3>1
    <3> QED BY <3>2, <3>3
  <2>4. j < i \/ j = i \/ j > i
    BY <1>1
  <2> QED BY <2>1, <2>2, <2>3, <2>4
<1> HIDE DEF c
<1>8. (c \o b)[i] = e
  <2>1. i \in 1..(n + 1) /\ ~ (i < i)
    BY <1>1
  <2> QED BY <1>7, <2>1
<1>9. ASSUME NEW j \in 1..n PROVE (c \o b)[IF j < i THEN j ELSE j + 1] = s[j]
  <2>1. CASE j < i
    <3>1. j \in 1..(n + 1)
      BY <1>1
    <3> QED BY <1>7, <2>1, <3>1
  <2>2. CASE ~ (j < i)
    <3>1. j + 1 \in 1..(n + 1) /\ ~ (j + 1 < i) /\ j + 1 # i /\ (j + 1) - 1 = j
      BY <1>1, <2>2
    <3> QED BY <1>7, <2>2, <3>1
  <2> QED BY <2>1, <2>2
<1> QED BY <1>2, <1>6, <1>8, <1>9 DEF n

-----------------------------------------------------------------------------
(* Bodies.  A rewrite may give a value another type, in one way only: what *)
(* had no shape gets one, and a vector may become something else.          *)

BodyOp == [kind : Kinds, args : Seq(Nat), type : Type, data : STRING \cup {"none"}]

Up(t, u) == IsRanked(t) => IsRanked(u) /\ (Len(t) # 1 => u = t)

(* What the type of an operation says about those of its operands.         *)
TypesFit(kind, in, t) ==
    /\ kind = "constant" => IsRanked(t)
    /\ kind = "cast" => IsRanked(in[1])
    /\ kind \in Elementwise /\ IsRanked(t) => IsRanked(in[1])
    /\ kind = "matrix_mul" /\ IsRanked(t) =>
          /\ IsRanked(in[1]) /\ IsRanked(in[2])
          /\ Len(in[1]) = 1 \/ Len(in[2]) = 1 => Len(t) = 1
    /\ kind = "transpose" /\ IsRanked(t) =>
          IsRanked(in[1]) /\ (Len(t) # 1 => t = TransposeShape(in[1]))

OpFits(p, o) ==
    /\ ArityOK(p[o].kind, Len(p[o].args))
    /\ \A k \in 1..Len(p[o].args) :
          p[o].args[k] \in 1..(o - 1) /\ p[p[o].args[k]].kind \notin Sinks
    /\ TypesFit(p[o].kind, InTypes(p, o), p[o].type)

(* What every body keeps to at all times.                                  *)
BodyInv(p) ==
    /\ p \in Seq(BodyOp) /\ p # << >>
    /\ \A o \in 1..Len(p) :
          /\ OpFits(p, o)
          /\ p[o].kind = "return" <=> o = Len(p)
          /\ p[o].kind = "arg" => \A u \in 1..o : p[u].kind = "arg"

LEMMA BodyFacts ==
    ASSUME NEW p \in Seq(BodyOp), p # << >>
    PROVE  /\ Len(p) \in Nat /\ Len(p) >= 1 /\ DOMAIN p = 1..Len(p)
           /\ Last(p) = p[Len(p)]
           /\ \A o \in 1..Len(p) :
                 /\ p[o].kind \in Kinds /\ p[o].type \in Type /\ p[o].args \in Seq(Nat)
                 /\ p[o].data \in STRING \cup {"none"}
                 /\ Len(p[o].args) \in Nat /\ DOMAIN p[o].args = 1..Len(p[o].args)
                 /\ \A k \in 1..Len(p[o].args) : p[o].args[k] \in Nat
<1>1. Len(p) \in Nat /\ Len(p) >= 1 /\ DOMAIN p = 1..Len(p)
  BY EmptySeq, LenProperties
<1>2. \A o \in 1..Len(p) : p[o] \in BodyOp
  OBVIOUS
<1>3. ASSUME NEW x \in BodyOp
      PROVE  /\ x.kind \in Kinds /\ x.type \in Type /\ x.args \in Seq(Nat) /\ x.data \in STRING \cup {"none"}
             /\ Len(x.args) \in Nat /\ DOMAIN x.args = 1..Len(x.args)
             /\ \A k \in 1..Len(x.args) : x.args[k] \in Nat
  <2>1. x.kind \in Kinds /\ x.type \in Type /\ x.args \in Seq(Nat) /\ x.data \in STRING \cup {"none"}
    BY DEF BodyOp
  <2> QED BY <2>1
<1> QED BY <1>1, <1>2, <1>3 DEF Last

LEMMA ReturnIsLast ==
    ASSUME NEW p, BodyInv(p)
    PROVE  Len(p) \in 1..Len(p) /\ p[Len(p)].kind = "return"
<1>1. Len(p) \in 1..Len(p)
  BY BodyFacts DEF BodyInv
<1> QED BY <1>1 DEF BodyInv

(* The types of the operands of an operation.                              *)
LEMMA InTypesAre ==
    ASSUME NEW p \in Seq(BodyOp), p # << >>, NEW o \in 1..Len(p),
           \A k \in 1..Len(p[o].args) : p[o].args[k] \in 1..Len(p)
    PROVE  /\ InTypes(p, o) = [k \in 1..Len(p[o].args) |-> p[p[o].args[k]].type]
           /\ InTypes(p, o) \in [1..Len(p[o].args) -> Type]
<1>1. DOMAIN p = 1..Len(p) /\ DOMAIN p[o].args = 1..Len(p[o].args)
  BY BodyFacts
<1>2. \A k \in 1..Len(p[o].args) : BuiltTypes(p)[p[o].args[k]] = p[p[o].args[k]].type
  BY <1>1 DEF BuiltTypes
<1>3. \A k \in 1..Len(p[o].args) : p[p[o].args[k]].type \in Type
  BY BodyFacts
<1>4. InTypes(p, o) = [k \in 1..Len(p[o].args) |-> BuiltTypes(p)[p[o].args[k]]]
  BY <1>1 DEF InTypes, OperandTypes
<1>5. InTypes(p, o) = [k \in 1..Len(p[o].args) |-> p[p[o].args[k]].type]
  BY <1>2, <1>4
<1> QED BY <1>3, <1>5

(* A transposed shape has as many extents, and transposes back.            *)
LEMMA TransposeTwice ==
    ASSUME NEW s \in Seq(Nat)
    PROVE  /\ TransposeShape(s) \in Seq(Nat) /\ Len(TransposeShape(s)) = Len(s)
           /\ TransposeShape(TransposeShape(s)) = s
<1> DEFINE n == Len(s)
           t == TransposeShape(s)
           u == TransposeShape(t)
<1>1. t \in Seq(Nat) /\ Len(t) = n
  BY DEF TransposeShape
<1>2. u \in Seq(Nat) /\ Len(u) = n
  <2> HIDE DEF t
  <2> QED BY <1>1 DEF TransposeShape
<1>3. CASE n > 1
  <2>1. ASSUME NEW i \in 1..n PROVE u[i] = s[i]
    <3>1. /\ t = [s EXCEPT ![n] = s[n - 1], ![n - 1] = s[n]]
          /\ u = [t EXCEPT ![n] = t[n - 1], ![n - 1] = t[n]]
      BY <1>1, <1>3 DEF TransposeShape
    <3>2. DOMAIN s = 1..n /\ DOMAIN t = 1..n /\ n - 1 \in 1..n /\ n \in 1..n /\ n - 1 # n
      BY <1>1, <1>3
    <3>3. t[n] = s[n - 1] /\ t[n - 1] = s[n] /\ (i \notin {n, n - 1} => t[i] = s[i])
      BY <3>1, <3>2
    <3>4. u[n] = t[n - 1] /\ u[n - 1] = t[n] /\ (i \notin {n, n - 1} => u[i] = t[i])
      BY <3>1, <3>2
    <3> QED BY <3>3, <3>4
  <2> HIDE DEF u, t
  <2> QED BY <1>1, <1>2, <2>1, SeqEqual DEF u, t
<1>4. CASE ~ (n > 1)
  BY <1>1, <1>4 DEF TransposeShape
<1> QED BY <1>1, <1>3, <1>4

(* Types that go up still fit.                                             *)
LEMMA FitsUp ==
    ASSUME NEW kind \in Kinds, NEW n \in Nat, ArityOK(kind, n),
           NEW in \in [1..n -> Type], NEW to \in [1..n -> Type], NEW t \in Type,
           \A k \in 1..n : Up(in[k], to[k]), TypesFit(kind, in, t)
    PROVE  TypesFit(kind, to, t)
<1>1. kind = "cast" => IsRanked(to[1])
  BY DEF ArityOK, TypesFit, Up
<1>2. kind \in Elementwise /\ IsRanked(t) => IsRanked(to[1])
  BY DEF ArityOK, TypesFit, Up, Elementwise
<1>3. kind = "matrix_mul" /\ IsRanked(t) =>
          /\ IsRanked(to[1]) /\ IsRanked(to[2])
          /\ Len(to[1]) = 1 \/ Len(to[2]) = 1 => Len(t) = 1
  <2> SUFFICES ASSUME kind = "matrix_mul", IsRanked(t)
               PROVE  /\ IsRanked(to[1]) /\ IsRanked(to[2])
                      /\ Len(to[1]) = 1 \/ Len(to[2]) = 1 => Len(t) = 1
    OBVIOUS
  <2>1. Up(in[1], to[1]) /\ Up(in[2], to[2])
    BY DEF ArityOK, Elementwise
  <2> QED BY <2>1 DEF TypesFit, Up
<1>4. kind = "transpose" /\ IsRanked(t) =>
          IsRanked(to[1]) /\ (Len(t) # 1 => t = TransposeShape(to[1]))
  <2> SUFFICES ASSUME kind = "transpose", IsRanked(t)
               PROVE  IsRanked(to[1]) /\ (Len(t) # 1 => t = TransposeShape(to[1]))
    OBVIOUS
  <2>1. n = 1 /\ Up(in[1], to[1]) /\ in[1] \in Type /\ IsRanked(in[1])
    BY DEF ArityOK, TypesFit
  <2>2. in[1] \in Seq(Nat)
    BY <2>1 DEF IsRanked, Type, Shape
  <2>3. Len(TransposeShape(in[1])) = Len(in[1])
    BY <2>2, TransposeTwice
  <2> QED BY <2>1, <2>3 DEF TypesFit, Up
<1> QED BY <1>1, <1>2, <1>3, <1>4 DEF TypesFit

-----------------------------------------------------------------------------
(* Rewritten bodies.                                                       *)

(* Operation j of q is operation i of p on other operands, whose types     *)
(* have only gone up.                                                      *)
Copies(q, j, p, i) ==
    /\ q[j].kind = p[i].kind /\ q[j].type = p[i].type /\ Len(q[j].args) = Len(p[i].args)
    /\ \A k \in 1..Len(p[i].args) :
          /\ q[j].args[k] \in 1..(j - 1)
          /\ q[q[j].args[k]].kind \notin Sinks
          /\ Up(p[p[i].args[k]].type, q[q[j].args[k]].type)

LEMMA CopyFits ==
    ASSUME NEW p, BodyInv(p), NEW q \in Seq(BodyOp), q # << >>,
           NEW i \in 1..Len(p), NEW j \in 1..Len(q), Copies(q, j, p, i)
    PROVE  OpFits(q, j)
<1> DEFINE n == Len(p[i].args)
<1>1. p \in Seq(BodyOp) /\ p # << >> /\ OpFits(p, i)
  BY DEF BodyInv
<1>2. /\ n \in Nat /\ p[i].kind \in Kinds /\ p[i].type \in Type
      /\ Len(q) \in Nat /\ Len(p) \in Nat
  BY <1>1, BodyFacts
<1>3. \A k \in 1..n : q[j].args[k] \in 1..Len(q)
  BY <1>2 DEF Copies
<1>4. \A k \in 1..n : p[i].args[k] \in 1..Len(p)
  BY <1>1, <1>2 DEF OpFits
<1>5. /\ InTypes(p, i) = [k \in 1..n |-> p[p[i].args[k]].type]
      /\ InTypes(p, i) \in [1..n -> Type]
  BY <1>1, <1>4, InTypesAre
<1>6. /\ InTypes(q, j) = [k \in 1..n |-> q[q[j].args[k]].type]
      /\ InTypes(q, j) \in [1..n -> Type]
  BY <1>3, InTypesAre DEF Copies
<1>7. \A k \in 1..n : Up(InTypes(p, i)[k], InTypes(q, j)[k])
  BY <1>5, <1>6 DEF Copies
<1>8. ArityOK(p[i].kind, n) /\ TypesFit(p[i].kind, InTypes(p, i), p[i].type)
  BY <1>1 DEF OpFits
<1>9. TypesFit(p[i].kind, InTypes(q, j), p[i].type)
  <2> HIDE DEF n
  <2> QED BY <1>2, <1>5, <1>6, <1>7, <1>8, FitsUp
<1> QED BY <1>8, <1>9 DEF OpFits, Copies

(* Operation j of q comes from p, or is one that a rewrite makes.          *)
Comes(q, j, p) ==
    \E i \in 1..Len(p) : Copies(q, j, p, i) /\ (i = Len(p) <=> j = Len(q))

Made == {"reshape", "matrix_mul", "constant"}
IsMade(q, j) == q[j].kind \in Made /\ OpFits(q, j) /\ j # Len(q)

(* What p returns, q returns too.                                          *)
Returned(p) == p[p[Len(p)].args[1]].type

KeepsReturn(p, q) ==
    /\ Len(q[Len(q)].args) = Len(p[Len(p)].args)
    /\ Len(p[Len(p)].args) = 1 => Up(Returned(p), Returned(q))

(* What a rewrite of p leads to.                                           *)
Evolves(p, q) ==
    /\ BodyInv(q)
    /\ KeepsReturn(p, q)
    /\ \A j \in 1..Len(q) :
          \/ q[j].kind \in Made
          \/ \E i \in 1..Len(p) : q[j].kind = p[i].kind /\ q[j].type = p[i].type

(* It is enough to look at each operation, and that none of them in front  *)
(* of the place of the rewrite changed its kind.                           *)
LEMMA RewrittenEvolves ==
    ASSUME NEW p, BodyInv(p), NEW q \in Seq(BodyOp), q # << >>,
           \A j \in 1..Len(q) : Comes(q, j, p) \/ IsMade(q, j),
           NEW c \in 1..Len(p), p[c].kind # "arg",
           \A j \in 1..Len(q) : j < c /\ j < Len(p) => q[j].kind = p[j].kind,
           \A j \in 1..Len(q) : j >= c => q[j].kind # "arg"
    PROVE  Evolves(p, q)
<1>1. p \in Seq(BodyOp) /\ p # << >> /\ Len(p) \in Nat /\ Len(q) \in Nat /\ Len(q) >= 1
  BY BodyFacts DEF BodyInv
<1>2. ASSUME NEW j \in 1..Len(q) PROVE OpFits(q, j)
  BY <1>2, CopyFits DEF Comes, IsMade
<1>3. ASSUME NEW j \in 1..Len(q) PROVE q[j].kind = "return" <=> j = Len(q)
  <2>1. CASE Comes(q, j, p)
    BY <2>1 DEF Comes, Copies, BodyInv
  <2>2. CASE IsMade(q, j)
    BY <2>2 DEF IsMade, Made
  <2> QED BY <2>1, <2>2
<1>4. ASSUME NEW j \in 1..Len(q), q[j].kind = "arg", NEW u \in 1..j PROVE q[u].kind = "arg"
  <2>1. j < c /\ j < Len(p) /\ u < c /\ u < Len(p) /\ u \in 1..Len(q)
    BY <1>1, <1>4
  <2>2. p[j].kind = "arg" /\ j \in 1..Len(p)
    BY <1>1, <1>4, <2>1
  <2>3. p[u].kind = "arg"
    BY <2>2 DEF BodyInv
  <2> QED BY <2>1, <2>3
<1>5. BodyInv(q)
  BY <1>2, <1>3, <1>4 DEF BodyInv
<1>6. KeepsReturn(p, q)
  <2>1. Len(q) \in 1..Len(q) /\ ~ IsMade(q, Len(q))
    BY <1>1 DEF IsMade
  <2>2. PICK i \in 1..Len(p) : Copies(q, Len(q), p, i) /\ (i = Len(p) <=> Len(q) = Len(q))
    BY <2>1 DEF Comes
  <2>3. Copies(q, Len(q), p, Len(p))
    BY <2>2
  <2> QED BY <2>3 DEF Copies, KeepsReturn, Returned
<1>7. \A j \in 1..Len(q) :
          \/ q[j].kind \in Made
          \/ \E i \in 1..Len(p) : q[j].kind = p[i].kind /\ q[j].type = p[i].type
  BY DEF Comes, Copies, IsMade
<1> QED BY <1>5, <1>6, <1>7 DEF Evolves

(* What ReplaceBy makes of a body, operation by operation.                 *)
Without(a, o, v) == IF a = o THEN v ELSE IF a > o THEN a - 1 ELSE a

(* q is p without operation o, and with v for its uses.                    *)
IsReplaced(q, p, o, v) ==
    /\ Len(q) = Len(p) - 1
    /\ \A j \in 1..(Len(p) - 1) : \E i \in 1..Len(p) :
          /\ i = IF j < o THEN j ELSE j + 1
          /\ q[j].kind = p[i].kind /\ q[j].type = p[i].type /\ Len(q[j].args) = Len(p[i].args)
          /\ \A k \in 1..Len(q[j].args) : q[j].args[k] = Without(p[i].args[k], o, v)

LEMMA ReplacedOps ==
    ASSUME NEW p, BodyInv(p), NEW o \in 1..Len(p), NEW v \in 1..o, Len(p) > 1
    PROVE  /\ ReplaceBy(p, o, v) \in Seq(BodyOp) /\ ReplaceBy(p, o, v) # << >>
           /\ IsReplaced(ReplaceBy(p, o, v), p, o, v)
<1> DEFINE r == [u \in DOMAIN p |-> [p[u] EXCEPT !.args = [k \in DOMAIN @ |-> Without(@[k], o, v)]]]
           q == ReplaceBy(p, o, v)
           n == Len(p)
<1>1. /\ p \in Seq(BodyOp) /\ p # << >> /\ n \in Nat /\ n > 1 /\ DOMAIN p = 1..n
      /\ o \in Nat /\ v \in Nat /\ o <= n /\ 1 <= o
      /\ \A u \in 1..n : p[u] \in BodyOp
  BY BodyFacts DEF BodyInv
<1>2. q = RemoveAt(r, o)
  BY DEF ReplaceBy, RenameUses, Without
<1>3. ASSUME NEW u \in 1..n
      PROVE  /\ r[u] \in BodyOp
             /\ r[u].kind = p[u].kind /\ r[u].type = p[u].type /\ Len(r[u].args) = Len(p[u].args)
             /\ \A k \in 1..Len(p[u].args) : r[u].args[k] = Without(p[u].args[k], o, v)
  <2> DEFINE a == p[u].args
             b == [k \in DOMAIN a |-> Without(a[k], o, v)]
  <2>1. a \in Seq(Nat) /\ Len(a) \in Nat /\ DOMAIN a = 1..Len(a) /\ \A k \in 1..Len(a) : a[k] \in Nat
    BY <1>1, BodyFacts
  <2>2. r[u] = [p[u] EXCEPT !.args = b]
    BY <1>1
  <2> HIDE DEF a, r
  <2>3. ASSUME NEW k \in 1..Len(a) PROVE Without(a[k], o, v) \in Nat
    <3>1. a[k] > o => a[k] - 1 \in Nat
      BY <1>1, <2>1
    <3> QED BY <1>1, <2>1, <3>1 DEF Without
  <2>4. b \in Seq(Nat) /\ Len(b) = Len(a) /\ \A k \in 1..Len(a) : b[k] = Without(a[k], o, v)
    BY <2>1, <2>3
  <2> HIDE DEF b
  <2>5. /\ r[u] \in BodyOp
        /\ r[u].kind = p[u].kind /\ r[u].type = p[u].type /\ r[u].args = b
    <3>1. p[u] \in BodyOp
      BY <1>1
    <3> QED BY <2>2, <2>4, <3>1 DEF BodyOp
  <2> QED BY <2>4, <2>5 DEF a
<1>4. r \in Seq(BodyOp) /\ Len(r) = n
  <2>1. r = [u \in 1..n |-> r[u]]
    BY <1>1
  <2> HIDE DEF r
  <2> QED BY <1>1, <1>3, <2>1
<1> HIDE DEF r, n
<1>5. /\ q \in Seq(BodyOp) /\ Len(q) = n - 1
      /\ \A j \in 1..(n - 1) : q[j] = IF j < o THEN r[j] ELSE r[j + 1]
  <2>1. o \in 1..Len(r)
    BY <1>1, <1>4
  <2>2. /\ RemoveAt(r, o) \in Seq(BodyOp) /\ Len(RemoveAt(r, o)) = Len(r) - 1
        /\ \A j \in 1..(Len(r) - 1) : RemoveAt(r, o)[j] = IF j < o THEN r[j] ELSE r[j + 1]
    BY <1>4, <2>1, RemovedAt
  <2> QED BY <1>2, <1>4, <2>2
<1> HIDE DEF q
<1>6. ASSUME NEW j \in 1..(n - 1)
      PROVE  \E i \in 1..n :
                /\ i = IF j < o THEN j ELSE j + 1
                /\ q[j].kind = p[i].kind /\ q[j].type = p[i].type /\ Len(q[j].args) = Len(p[i].args)
                /\ \A k \in 1..Len(q[j].args) : q[j].args[k] = Without(p[i].args[k], o, v)
  <2>1. PICK i \in 1..n : q[j] = r[i] /\ i = IF j < o THEN j ELSE j + 1
    BY <1>1, <1>5
  <2> QED BY <1>3, <2>1
<1>7. q # << >>
  BY <1>1, <1>5
<1>8. IsReplaced(q, p, o, v)
  BY <1>5, <1>6 DEF IsReplaced, n
<1> QED BY <1>5, <1>7, <1>8 DEF q

(* An operation replaced by an earlier value with a type that only goes    *)
(* up, or erased because nobody uses it.                                   *)
LEMMA ReplaceEvolves ==
    ASSUME NEW p, BodyInv(p), NEW o \in 1..Len(p), p[o].kind \notin Sinks \cup {"arg"},
           NEW v \in 1..o,
           \/ v # o /\ p[v].kind \notin Sinks /\ Up(p[o].type, p[v].type)
           \/ \A u \in 1..Len(p) : \A k \in 1..Len(p[u].args) : p[u].args[k] # o
    PROVE  Evolves(p, ReplaceBy(p, o, v))
<1> DEFINE q == ReplaceBy(p, o, v)
           n == Len(p)
           s(j) == IF j < o THEN j ELSE j + 1
<1>1. /\ p \in Seq(BodyOp) /\ p # << >> /\ n \in Nat /\ n >= 1 /\ o \in Nat /\ v \in Nat
      /\ \A u \in 1..n : DOMAIN p[u].args = 1..Len(p[u].args) /\ Len(p[u].args) \in Nat
  BY BodyFacts DEF BodyInv
<1>2. p[n].kind = "return" /\ o # n /\ n > 1 /\ o < n
  <2>1. p[n].kind = "return"
    BY ReturnIsLast
  <2>2. p[o].kind # "return"
    BY DEF Sinks
  <2> QED BY <1>1, <2>1, <2>2
<1>3. /\ q \in Seq(BodyOp) /\ q # << >> /\ Len(q) = n - 1
      /\ \A j \in 1..(n - 1) :
            /\ s(j) \in 1..n
            /\ q[j].kind = p[s(j)].kind
            /\ q[j].type = p[s(j)].type
            /\ Len(q[j].args) = Len(p[s(j)].args)
            /\ \A k \in 1..Len(q[j].args) : q[j].args[k] = Without(p[s(j)].args[k], o, v)
  <2>1. q \in Seq(BodyOp) /\ q # << >> /\ IsReplaced(q, p, o, v)
    BY <1>2, ReplacedOps
  <2> HIDE DEF q
  <2> QED BY <2>1 DEF IsReplaced
<1> HIDE DEF q
<1>4. ASSUME NEW j \in 1..(n - 1) PROVE Comes(q, j, p)
  <2> DEFINE i == s(j)
  <2>1. i \in 1..n /\ (i = n <=> j = n - 1) /\ j \in Nat
    BY <1>1, <1>2
  <2>2. ASSUME NEW k \in 1..Len(p[i].args)
        PROVE  /\ q[j].args[k] \in 1..(j - 1)
               /\ q[q[j].args[k]].kind \notin Sinks
               /\ Up(p[p[i].args[k]].type, q[q[j].args[k]].type)
    <3> DEFINE a == p[i].args[k]
               b == q[j].args[k]
    <3>1. a \in 1..(i - 1) /\ p[a].kind \notin Sinks
      BY <2>1 DEF BodyInv, OpFits
    <3>2. b = Without(a, o, v)
      BY <1>3
    <3>3. a \in Int /\ 1 <= a /\ a < i /\ (j < o => i = j) /\ (~ (j < o) => i = j + 1)
      BY <2>1, <3>1
    <3> HIDE DEF a, b, i
    <3>4. CASE a < o
      <4>1. b = a
        BY <1>1, <3>2, <3>3, <3>4 DEF Without
      <4>2. a \in 1..(j - 1) /\ a \in 1..(n - 1) /\ s(a) = a
        BY <1>1, <2>1, <3>3, <3>4
      <4>3. q[a].kind = p[a].kind /\ q[a].type = p[a].type
        BY <1>3, <4>2
      <4> QED BY <3>1, <4>1, <4>2, <4>3 DEF Up, a, b
    <3>5. CASE a > o
      <4>1. b = a - 1
        BY <1>1, <3>2, <3>3, <3>5 DEF Without
      <4>2. b \in 1..(j - 1) /\ b \in 1..(n - 1) /\ s(b) = a
        BY <1>1, <2>1, <3>3, <3>5, <4>1
      <4>3. q[b].kind = p[a].kind /\ q[b].type = p[a].type
        BY <1>3, <4>2
      <4> QED BY <3>1, <4>2, <4>3 DEF Up, a, b
    <3>6. CASE a = o
      <4>1. b = v /\ j >= o
        BY <1>1, <2>1, <3>2, <3>3, <3>6 DEF Without
      <4>2. v # o /\ p[v].kind \notin Sinks /\ Up(p[o].type, p[v].type)
        BY <2>1, <3>6 DEF a
      <4>3. v \in 1..(j - 1) /\ v \in 1..(n - 1) /\ s(v) = v
        BY <1>1, <1>2, <2>1, <4>1, <4>2
      <4>4. q[v].kind = p[v].kind /\ q[v].type = p[v].type
        BY <1>3, <4>3
      <4> QED BY <3>6, <4>1, <4>2, <4>3, <4>4 DEF a, b
    <3> QED BY <1>1, <3>3, <3>4, <3>5, <3>6
  <2>3. q[j].kind = p[i].kind /\ q[j].type = p[i].type /\ Len(q[j].args) = Len(p[i].args)
    BY <1>3
  <2> HIDE DEF i
  <2>4. Copies(q, j, p, i)
    BY <2>2, <2>3 DEF Copies
  <2> QED BY <1>3, <2>1, <2>4 DEF Comes
<1>5. \A j \in 1..Len(q) : j < o /\ j < Len(p) => q[j].kind = p[j].kind
  BY <1>3
<1>6. ASSUME NEW j \in 1..Len(q), j >= o PROVE q[j].kind # "arg"
  <2>1. s(j) = j + 1 /\ j + 1 \in 1..n /\ o \in 1..(j + 1)
    BY <1>1, <1>2, <1>3, <1>6
  <2>2. q[j].kind = p[j + 1].kind
    BY <1>3, <2>1
  <2>3. p[j + 1].kind = "arg" => p[o].kind = "arg"
    BY <2>1 DEF BodyInv
  <2> QED BY <2>2, <2>3
<1>7. Evolves(p, q)
  BY <1>3, <1>4, <1>5, <1>6, RewrittenEvolves
<1> QED BY <1>7 DEF q

(* An operation turned into another one where it stands.                   *)
LEMMA ChangeEvolves ==
    ASSUME NEW p, BodyInv(p), NEW o \in 1..Len(p), p[o].kind \notin Sinks \cup {"arg"},
           NEW x \in BodyOp, x.kind \in Made, ArityOK(x.kind, Len(x.args)),
           Up(p[o].type, x.type),
           \A k \in 1..Len(x.args) : x.args[k] \in 1..(o - 1) /\ p[x.args[k]].kind \notin Sinks,
           TypesFit(x.kind, [k \in 1..Len(x.args) |-> p[x.args[k]].type], x.type)
    PROVE  Evolves(p, [p EXCEPT ![o] = x])
<1> DEFINE q == [p EXCEPT ![o] = x]
           n == Len(p)
<1>1. /\ p \in Seq(BodyOp) /\ p # << >> /\ n \in Nat /\ n >= 1 /\ DOMAIN p = 1..n /\ o \in Nat
      /\ \A u \in 1..n : Len(p[u].args) \in Nat
  BY BodyFacts DEF BodyInv
<1>2. /\ q \in Seq(BodyOp) /\ Len(q) = n
      /\ \A j \in 1..n : q[j] = IF j = o THEN x ELSE p[j]
  BY <1>1, ExceptSeq
<1>3. q # << >>
  BY <1>1, <1>2
<1>4. x.kind \notin Sinks \cup {"arg"} /\ o # n /\ Len(x.args) \in Nat
  <2>1. p[n].kind = "return"
    BY ReturnIsLast
  <2>2. p[o].kind # "return" /\ x.args \in Seq(Nat)
    BY DEF Sinks, BodyOp
  <2> QED BY <2>1, <2>2 DEF Made, Sinks
<1> HIDE DEF q
<1>5. ASSUME NEW j \in 1..n PROVE Comes(q, j, p) \/ IsMade(q, j)
  <2>1. CASE j = o
    <3>1. q[j] = x /\ j # Len(q)
      BY <1>2, <1>4, <2>1
    <3>2. \A k \in 1..Len(x.args) : x.args[k] \in 1..Len(q) /\ q[x.args[k]] = p[x.args[k]]
      BY <1>1, <1>2
    <3>3. InTypes(q, j) = [k \in 1..Len(x.args) |-> q[x.args[k]].type]
      BY <1>2, <1>3, <3>1, <3>2, InTypesAre
    <3>4. InTypes(q, j) = [k \in 1..Len(x.args) |-> p[x.args[k]].type]
      BY <3>2, <3>3
    <3>5. OpFits(q, j)
      BY <2>1, <3>1, <3>2, <3>4 DEF OpFits
    <3> QED BY <3>1, <3>5 DEF IsMade
  <2>2. CASE j # o
    <3>1. q[j] = p[j] /\ OpFits(p, j)
      BY <1>2, <2>2 DEF BodyInv
    <3>2. ASSUME NEW k \in 1..Len(p[j].args)
          PROVE  /\ p[j].args[k] \in 1..(j - 1)
                 /\ q[p[j].args[k]].kind \notin Sinks
                 /\ Up(p[p[j].args[k]].type, q[p[j].args[k]].type)
      <4> DEFINE a == p[j].args[k]
      <4>1. a \in 1..(j - 1) /\ p[a].kind \notin Sinks
        BY <3>1 DEF OpFits
      <4>2. a \in 1..n
        BY <1>1, <4>1
      <4>3. q[a] = IF a = o THEN x ELSE p[a]
        BY <1>2, <4>2
      <4> HIDE DEF a
      <4> QED BY <1>4, <4>1, <4>3 DEF a, Up
    <3>3. Copies(q, j, p, j)
      BY <3>1, <3>2 DEF Copies
    <3> QED BY <1>2, <3>3 DEF Comes
  <2> QED BY <2>1, <2>2
<1>6. ASSUME NEW j \in 1..Len(q), j < o PROVE q[j].kind = p[j].kind
  <2>1. j \in 1..n
    BY <1>2
  <2>2. j # o
    BY ONLY <1>1, <1>6, <2>1
  <2> QED BY ONLY <1>2, <2>1, <2>2
<1>7. ASSUME NEW j \in 1..Len(q), j >= o PROVE q[j].kind # "arg"
  <2>1. j \in 1..n /\ o \in 1..j
    BY <1>1, <1>2, <1>7
  <2>2. p[j].kind = "arg" => p[o].kind = "arg"
    BY <2>1 DEF BodyInv
  <2> QED BY <1>2, <1>4, <2>1, <2>2
<1>8. Evolves(p, q)
  BY <1>2, <1>3, <1>5, <1>6, <1>7, RewrittenEvolves
<1> QED BY <1>8 DEF q

(* What the body has at the operands of an operation.                      *)
LEMMA OperandFacts ==
    ASSUME NEW p, BodyInv(p), NEW o \in 1..Len(p), NEW k \in 1..Len(p[o].args)
    PROVE  /\ p[o].args[k] \in 1..(o - 1) /\ p[o].args[k] \in 1..Len(p)
           /\ p[p[o].args[k]].kind \notin Sinks
           /\ InTypes(p, o)[k] = p[p[o].args[k]].type
           /\ p[p[o].args[k]].type \in Type
<1>1. p \in Seq(BodyOp) /\ p # << >> /\ OpFits(p, o) /\ Len(p) \in Nat /\ o \in Nat
  BY BodyFacts DEF BodyInv
<1>2. \A i \in 1..Len(p[o].args) : p[o].args[i] \in 1..(o - 1) /\ p[o].args[i] \in 1..Len(p)
  BY <1>1 DEF OpFits
<1>3. InTypes(p, o) = [i \in 1..Len(p[o].args) |-> p[p[o].args[i]].type]
  BY <1>1, <1>2, InTypesAre
<1>4. p[p[o].args[k]].type \in Type
  BY <1>1, <1>2, BodyFacts
<1> QED BY <1>1, <1>2, <1>3, <1>4 DEF OpFits

(* The rewrites, one by one.                                               *)
LEMMA EraseDeadEvolves ==
    ASSUME NEW p, BodyInv(p), NEW o \in DOMAIN p, NEW q \in EraseDead(p, o)
    PROVE  Evolves(p, q)
<1>1. p \in Seq(BodyOp) /\ p # << >> /\ DOMAIN p = 1..Len(p) /\ o \in 1..Len(p) /\ o \in 1..o
  BY BodyFacts DEF BodyInv
<1>2. Dead(p, o) /\ q = ReplaceBy(p, o, o)
  BY DEF EraseDead, When
<1>3. p[o].kind \notin Sinks \cup {"arg"}
  BY <1>2 DEF Dead, Effects
<1>4. ASSUME NEW u \in 1..Len(p), NEW k \in 1..Len(p[u].args) PROVE p[u].args[k] # o
  <2>1. DOMAIN p[u].args = 1..Len(p[u].args)
    BY <1>1, BodyFacts
  <2>2. o \notin Range(p[u].args)
    BY <1>1, <1>2 DEF Dead
  <2> QED BY <2>1, <2>2 DEF Range
<1> QED BY <1>1, <1>2, <1>3, <1>4, ReplaceEvolves

LEMMA MergeEvolves ==
    ASSUME NEW p, BodyInv(p), NEW o \in DOMAIN p, NEW q \in MergeDuplicate(p, o)
    PROVE  Evolves(p, q)
<1>1. p \in Seq(BodyOp) /\ p # << >> /\ DOMAIN p = 1..Len(p) /\ o \in 1..Len(p)
  BY BodyFacts DEF BodyInv
<1>2. PICK v \in 1..(o - 1) : p[v] = p[o] /\ p[o].kind \notin Effects /\ q = ReplaceBy(p, o, v)
  BY DEF MergeDuplicate
<1>3. p[o].kind \notin Sinks \cup {"arg"} /\ p[v].kind \notin Sinks /\ Up(p[o].type, p[v].type)
  BY <1>2 DEF Effects, Up
<1>4. v \in 1..o /\ v # o
  BY <1>1
<1> QED BY <1>1, <1>2, <1>3, <1>4, ReplaceEvolves

(* Replacing an operation by its operand, which has the same type.         *)
LEMMA ToOperandEvolves ==
    ASSUME NEW p, BodyInv(p), NEW o \in DOMAIN p, p[o].kind \in {"cast", "reshape"},
           p[o].type = Operand(p, o).type
    PROVE  Evolves(p, ReplaceBy(p, o, p[o].args[1]))
<1>1. p \in Seq(BodyOp) /\ p # << >> /\ DOMAIN p = 1..Len(p) /\ o \in 1..Len(p)
  BY BodyFacts DEF BodyInv
<1>2. Len(p[o].args) = 1
  BY <1>1 DEF BodyInv, OpFits, ArityOK
<1> DEFINE v == p[o].args[1]
<1>3. v \in 1..(o - 1) /\ p[v].kind \notin Sinks
  BY <1>1, <1>2, OperandFacts
<1>4. Up(p[o].type, p[v].type)
  BY DEF Up, Operand
<1> HIDE DEF v
<1>5. v \in 1..o /\ v # o /\ p[o].kind \notin Sinks \cup {"arg"}
  BY <1>1, <1>3 DEF Sinks
<1>6. Evolves(p, ReplaceBy(p, o, v))
  BY <1>1, <1>3, <1>4, <1>5, ReplaceEvolves
<1> QED BY <1>6 DEF v

LEMMA FoldCastEvolves ==
    ASSUME NEW p, BodyInv(p), NEW o \in DOMAIN p, NEW q \in FoldCast(p, o)
    PROVE  Evolves(p, q)
<1>1. p[o].kind = "cast" /\ p[o].type = Operand(p, o).type /\ q = ReplaceBy(p, o, p[o].args[1])
  BY DEF FoldCast, When
<1> QED BY <1>1, ToOperandEvolves

LEMMA RedundantReshapeEvolves ==
    ASSUME NEW p, BodyInv(p), NEW o \in DOMAIN p, NEW q \in RedundantReshape(p, o)
    PROVE  Evolves(p, q)
<1>1. p[o].kind = "reshape" /\ p[o].type = Operand(p, o).type /\ q = ReplaceBy(p, o, p[o].args[1])
  BY DEF RedundantReshape, When
<1> QED BY <1>1, ToOperandEvolves

LEMMA TransposeTransposeEvolves ==
    ASSUME NEW p, BodyInv(p), NEW o \in DOMAIN p, NEW q \in TransposeTranspose(p, o)
    PROVE  Evolves(p, q)
<1> DEFINE m == p[o].args[1]
           v == p[m].args[1]
<1>1. p \in Seq(BodyOp) /\ p # << >> /\ DOMAIN p = 1..Len(p) /\ o \in 1..Len(p)
  BY BodyFacts DEF BodyInv
<1>2. p[o].kind = "transpose" /\ p[m].kind = "transpose" /\ q = ReplaceBy(p, o, v)
  BY DEF TransposeTranspose, When, Operand
<1>3. Len(p[o].args) = 1
  BY <1>1, <1>2 DEF BodyInv, OpFits, ArityOK
<1>4. m \in 1..(o - 1) /\ m \in 1..Len(p) /\ InTypes(p, o)[1] = p[m].type /\ p[m].type \in Type
  BY <1>1, <1>3, OperandFacts
<1> HIDE DEF m
<1>5. Len(p[m].args) = 1
  BY <1>2, <1>4 DEF BodyInv, OpFits, ArityOK
<1>6. /\ v \in 1..(m - 1) /\ p[v].kind \notin Sinks
      /\ InTypes(p, m)[1] = p[v].type /\ p[v].type \in Type
  BY <1>4, <1>5, OperandFacts
<1> HIDE DEF v
<1>7. TypesFit(p[o].kind, InTypes(p, o), p[o].type) /\ TypesFit(p[m].kind, InTypes(p, m), p[m].type)
  BY <1>1, <1>4 DEF BodyInv, OpFits
<1>8. Up(p[o].type, p[v].type)
  <2> SUFFICES ASSUME IsRanked(p[o].type)
               PROVE  IsRanked(p[v].type) /\ (Len(p[o].type) # 1 => p[v].type = p[o].type)
    BY DEF Up
  <2>1. IsRanked(p[m].type) /\ (Len(p[o].type) # 1 => p[o].type = TransposeShape(p[m].type))
    BY <1>2, <1>4, <1>7 DEF TypesFit
  <2>2. IsRanked(p[v].type) /\ (Len(p[m].type) # 1 => p[m].type = TransposeShape(p[v].type))
    BY <1>2, <1>6, <1>7, <2>1 DEF TypesFit
  <2>3. p[m].type \in Seq(Nat) /\ p[v].type \in Seq(Nat)
    BY <1>4, <1>6, <2>1, <2>2 DEF IsRanked, Type, Shape
  <2>4. Len(TransposeShape(p[m].type)) = Len(p[m].type)
    BY <2>3, TransposeTwice
  <2>5. TransposeShape(TransposeShape(p[v].type)) = p[v].type
    BY <2>3, TransposeTwice
  <2> QED BY <2>1, <2>2, <2>4, <2>5
<1>9. v \in 1..o /\ v # o /\ p[o].kind \notin Sinks \cup {"arg"}
  BY <1>1, <1>2, <1>4, <1>6 DEF Sinks
<1> QED BY <1>1, <1>2, <1>6, <1>8, <1>9, ReplaceEvolves

LEMMA OpIsBodyOp ==
    ASSUME NEW kind \in Kinds, NEW args \in Seq(Nat), NEW type \in Type
    PROVE  /\ Op(kind, args, type) \in BodyOp
           /\ Op(kind, args, type).kind = kind
           /\ Op(kind, args, type).args = args
           /\ Op(kind, args, type).type = type
<1> DEFINE x == Op(kind, args, type)
<1>1. x = [kind |-> kind, args |-> args, type |-> type, data |-> "none"]
  BY DEF Op
<1> HIDE DEF x
<1>2. x \in BodyOp
  BY <1>1 DEF BodyOp
<1>3. x.kind = kind /\ x.args = args /\ x.type = type
  BY <1>1
<1> QED BY <1>2, <1>3 DEF x

LEMMA TansposeVectorEvolves ==
    ASSUME NEW p, BodyInv(p), NEW o \in DOMAIN p, NEW q \in TansposeVector2Reshape(p, o)
    PROVE  Evolves(p, q)
<1> DEFINE t == Operand(p, o).type
           a == p[o].args
           x == Op("reshape", a, << t[1], 1 >>)
<1>1. p \in Seq(BodyOp) /\ p # << >> /\ DOMAIN p = 1..Len(p) /\ o \in 1..Len(p)
  BY BodyFacts DEF BodyInv
<1>2. /\ p[o].kind = "transpose" /\ IsRanked(t) /\ Len(t) = 1
      /\ q = [p EXCEPT ![o] = x]
  BY DEF TansposeVector2Reshape, When
<1>3. Len(a) = 1 /\ a \in Seq(Nat) /\ OpFits(p, o)
  BY <1>1, <1>2, BodyFacts DEF BodyInv, OpFits, ArityOK
<1>4. /\ a[1] \in 1..(o - 1) /\ p[a[1]].kind \notin Sinks
      /\ InTypes(p, o)[1] = t /\ t \in Type
  BY <1>1, <1>3, OperandFacts DEF Operand
<1>5. t \in Seq(Nat) /\ << t[1], 1 >> \in Seq(Nat)
  <2>1. t \in Seq(Nat)
    BY <1>2, <1>4 DEF IsRanked, Type, Shape
  <2>2. t[1] \in Nat
    BY <1>2, <2>1
  <2> QED BY <2>1, <2>2
<1> HIDE DEF t, a
<1>6. /\ x \in BodyOp /\ x.kind = "reshape" /\ x.args = a /\ x.type = << t[1], 1 >>
  <2>1. "reshape" \in Kinds /\ << t[1], 1 >> \in Type
    BY <1>5 DEF Kinds, Type, Shape
  <2> QED BY <1>3, <2>1, OpIsBodyOp
<1> HIDE DEF x
<1>7. Up(p[o].type, x.type)
  <2>1. IsRanked(<< t[1], 1 >>)
    BY <1>5, UnrankedAssumption DEF IsRanked
  <2>2. IsRanked(p[o].type) => Len(p[o].type) = 1
    <3>1. IsRanked(p[o].type) /\ Len(p[o].type) # 1 => p[o].type = TransposeShape(t)
      BY <1>2, <1>3, <1>4 DEF OpFits, TypesFit
    <3>2. Len(TransposeShape(t)) = 1
      BY <1>2, <1>5, TransposeTwice
    <3> QED BY <3>1, <3>2
  <2> QED BY <1>6, <2>1, <2>2 DEF Up
<1>8. ArityOK(x.kind, Len(x.args)) /\ x.kind \in Made
  BY <1>3, <1>6 DEF ArityOK, Elementwise, Made
<1>9. TypesFit(x.kind, [k \in 1..Len(x.args) |-> p[x.args[k]].type], x.type)
  BY <1>6 DEF TypesFit, Elementwise
<1>10. \A k \in 1..Len(x.args) : x.args[k] \in 1..(o - 1) /\ p[x.args[k]].kind \notin Sinks
  <2>1. Len(x.args) = 1
    BY <1>3, <1>6
  <2>2. \A k \in 1..1 : k = 1
    OBVIOUS
  <2> QED BY <1>4, <1>6, <2>1, <2>2
<1>11. p[o].kind \notin Sinks \cup {"arg"}
  BY <1>2 DEF Sinks
<1> QED BY <1>1, <1>2, <1>6, <1>7, <1>8, <1>9, <1>10, <1>11, ChangeEvolves

LEMMA ReshapeReshapeEvolves ==
    ASSUME NEW p, BodyInv(p), NEW o \in DOMAIN p, NEW q \in ReshapeReshape(p, o)
    PROVE  Evolves(p, q)
<1> DEFINE m == p[o].args[1]
           a == p[m].args
           x == [p[o] EXCEPT !.args = a]
<1>1. p \in Seq(BodyOp) /\ p # << >> /\ DOMAIN p = 1..Len(p) /\ o \in 1..Len(p) /\ p[o] \in BodyOp
  BY BodyFacts DEF BodyInv
<1>2. p[o].kind = "reshape" /\ p[m].kind = "reshape" /\ q = [p EXCEPT ![o] = x]
  BY DEF ReshapeReshape, When, Operand
<1>3. Len(p[o].args) = 1
  BY <1>1, <1>2 DEF BodyInv, OpFits, ArityOK
<1>4. m \in 1..(o - 1) /\ m \in 1..Len(p)
  BY <1>1, <1>3, OperandFacts
<1> HIDE DEF m
<1>5. Len(a) = 1 /\ a \in Seq(Nat)
  BY <1>1, <1>2, <1>4, BodyFacts DEF BodyInv, OpFits, ArityOK
<1>6. a[1] \in 1..(m - 1) /\ p[a[1]].kind \notin Sinks
  BY <1>4, <1>5, OperandFacts
<1> HIDE DEF a
<1>7. x \in BodyOp /\ x.kind = "reshape" /\ x.args = a /\ x.type = p[o].type
  BY <1>1, <1>2, <1>5 DEF BodyOp
<1> HIDE DEF x
<1>8. ArityOK(x.kind, Len(x.args)) /\ x.kind \in Made
  BY <1>5, <1>7 DEF ArityOK, Elementwise, Made
<1>9. TypesFit(x.kind, [k \in 1..Len(x.args) |-> p[x.args[k]].type], x.type)
  BY <1>7 DEF TypesFit, Elementwise
<1>10. \A k \in 1..Len(x.args) : x.args[k] \in 1..(o - 1) /\ p[x.args[k]].kind \notin Sinks
  <2>1. a[1] \in 1..(o - 1)
    BY <1>1, <1>4, <1>6
  <2>2. Len(x.args) = 1
    BY <1>5, <1>7
  <2>3. \A k \in 1..1 : k = 1
    OBVIOUS
  <2> QED BY <1>6, <1>7, <2>1, <2>2, <2>3
<1>11. p[o].kind \notin Sinks \cup {"arg"} /\ Up(p[o].type, x.type)
  BY <1>2, <1>7 DEF Sinks, Up
<1> QED BY <1>1, <1>2, <1>7, <1>8, <1>9, <1>10, <1>11, ChangeEvolves

LEMMA FoldReshapeConstantEvolves ==
    ASSUME NEW p, BodyInv(p), NEW o \in DOMAIN p, NEW q \in FoldReshapeConstant(p, o)
    PROVE  Evolves(p, q)
<1> DEFINE m == p[o].args[1]
           x == [p[m] EXCEPT !.type = p[o].type]
<1>1. p \in Seq(BodyOp) /\ p # << >> /\ DOMAIN p = 1..Len(p) /\ o \in 1..Len(p)
  BY BodyFacts DEF BodyInv
<1>2. /\ p[o].kind = "reshape" /\ p[m].kind = "constant" /\ IsRanked(p[o].type)
      /\ q = [p EXCEPT ![o] = x]
  BY DEF FoldReshapeConstant, ReshapesConstant, When, Operand
<1>3. Len(p[o].args) = 1
  BY <1>1, <1>2 DEF BodyInv, OpFits, ArityOK
<1>4. m \in 1..Len(p)
  BY <1>1, <1>3, OperandFacts
<1> HIDE DEF m
<1>5. Len(p[m].args) = 0 /\ p[m] \in BodyOp /\ p[o].type \in Type
  BY <1>1, <1>2, <1>4, BodyFacts DEF BodyInv, OpFits, ArityOK
<1>6. x \in BodyOp /\ x.kind = "constant" /\ Len(x.args) = 0 /\ x.type = p[o].type
  BY <1>2, <1>5 DEF BodyOp
<1> HIDE DEF x
<1>7. ArityOK(x.kind, Len(x.args)) /\ x.kind \in Made
  BY <1>6 DEF ArityOK, Elementwise, Made
<1>8. TypesFit(x.kind, [k \in 1..Len(x.args) |-> p[x.args[k]].type], x.type)
  BY <1>2, <1>6 DEF TypesFit, Elementwise
<1>9. \A k \in 1..Len(x.args) : x.args[k] \in 1..(o - 1) /\ p[x.args[k]].kind \notin Sinks
  BY <1>6
<1>10. p[o].kind \notin Sinks \cup {"arg"} /\ Up(p[o].type, x.type)
  BY <1>2, <1>6 DEF Sinks, Up
<1> QED BY <1>1, <1>2, <1>6, <1>7, <1>8, <1>9, <1>10, ChangeEvolves

-----------------------------------------------------------------------------
(* Promoting an operand of a product.                                      *)

Shifted(a, o) == IF a >= o THEN a + 1 ELSE a
Origin(j, o)  == IF j < o THEN j ELSE j - 1

(* q is p with x put in at o.                                              *)
IsInserted(q, p, o, x) ==
    /\ q \in Seq(BodyOp) /\ q # << >> /\ Len(q) = Len(p) + 1 /\ q[o] = x
    /\ \A j \in 1..Len(q) : j # o =>
          /\ Origin(j, o) \in 1..Len(p)
          /\ q[j].kind = p[Origin(j, o)].kind
          /\ q[j].type = p[Origin(j, o)].type
          /\ Len(q[j].args) = Len(p[Origin(j, o)].args)
          /\ \A k \in 1..Len(q[j].args) : q[j].args[k] = Shifted(p[Origin(j, o)].args[k], o)

LEMMA InsertedOps ==
    ASSUME NEW p, BodyInv(p), NEW o \in 1..Len(p), NEW x \in BodyOp
    PROVE  IsInserted(InsertBefore(p, o, x), p, o, x)
<1> DEFINE r == [u \in DOMAIN p |-> [p[u] EXCEPT !.args = [k \in DOMAIN @ |-> Shifted(@[k], o)]]]
           q == InsertBefore(p, o, x)
           n == Len(p)
<1>1. /\ p \in Seq(BodyOp) /\ p # << >> /\ n \in Nat /\ n >= 1 /\ DOMAIN p = 1..n
      /\ o \in Nat /\ o <= n /\ 1 <= o
      /\ \A u \in 1..n : p[u] \in BodyOp
  BY BodyFacts DEF BodyInv
<1>2. q = InsertAt(r, o, x)
  BY DEF InsertBefore, RenameUses, Shifted
<1>3. ASSUME NEW u \in 1..n
      PROVE  /\ r[u] \in BodyOp
             /\ r[u].kind = p[u].kind /\ r[u].type = p[u].type /\ Len(r[u].args) = Len(p[u].args)
             /\ \A k \in 1..Len(p[u].args) : r[u].args[k] = Shifted(p[u].args[k], o)
  <2> DEFINE a == p[u].args
             b == [k \in DOMAIN a |-> Shifted(a[k], o)]
  <2>1. a \in Seq(Nat) /\ Len(a) \in Nat /\ DOMAIN a = 1..Len(a) /\ \A k \in 1..Len(a) : a[k] \in Nat
    BY <1>1, BodyFacts
  <2>2. r[u] = [p[u] EXCEPT !.args = b]
    BY <1>1
  <2> HIDE DEF a, r
  <2>3. ASSUME NEW k \in 1..Len(a) PROVE Shifted(a[k], o) \in Nat
    BY <1>1, <2>1 DEF Shifted
  <2>4. b \in Seq(Nat) /\ Len(b) = Len(a) /\ \A k \in 1..Len(a) : b[k] = Shifted(a[k], o)
    BY <2>1, <2>3
  <2> HIDE DEF b
  <2>5. /\ r[u] \in BodyOp
        /\ r[u].kind = p[u].kind /\ r[u].type = p[u].type /\ r[u].args = b
    <3>1. p[u] \in BodyOp
      BY <1>1
    <3> QED BY <2>2, <2>4, <3>1 DEF BodyOp
  <2> QED BY <2>4, <2>5 DEF a
<1>4. r \in Seq(BodyOp) /\ Len(r) = n
  <2>1. r = [u \in 1..n |-> r[u]]
    BY <1>1
  <2> HIDE DEF r
  <2> QED BY <1>1, <1>3, <2>1
<1> HIDE DEF r, n
<1>5. /\ q \in Seq(BodyOp) /\ Len(q) = n + 1 /\ q[o] = x
      /\ \A j \in 1..n : q[IF j < o THEN j ELSE j + 1] = r[j]
  <2>1. o \in 1..Len(r)
    BY <1>1, <1>4
  <2>2. LET t == InsertAt(r, o, x)
        IN  /\ t \in Seq(BodyOp) /\ Len(t) = Len(r) + 1 /\ t[o] = x
            /\ \A j \in 1..Len(r) : t[IF j < o THEN j ELSE j + 1] = r[j]
    <3> DEFINE e == x
    <3> HIDE DEF e
    <3>1. e \in BodyOp
      BY DEF e
    <3>2. LET t == InsertAt(r, o, e)
          IN  /\ t \in Seq(BodyOp) /\ Len(t) = Len(r) + 1 /\ t[o] = e
              /\ \A j \in 1..Len(r) : t[IF j < o THEN j ELSE j + 1] = r[j]
      <4>1. r \in Seq(BodyOp)
        BY <1>4
      <4> QED BY <2>1, <3>1, <4>1, InsertedAt
    <3> QED BY <3>2 DEF e
  <2> QED BY <1>2, <1>4, <2>2
<1> HIDE DEF q
<1>6. ASSUME NEW j \in 1..Len(q), j # o, NEW s \in Int, s = IF j < o THEN j ELSE j - 1
      PROVE  /\ s \in 1..n
             /\ q[j].kind = p[s].kind
             /\ q[j].type = p[s].type
             /\ Len(q[j].args) = Len(p[s].args)
             /\ \A k \in 1..Len(q[j].args) : q[j].args[k] = Shifted(p[s].args[k], o)
  <2>1. s \in 1..n /\ j = IF s < o THEN s ELSE s + 1
    BY <1>1, <1>5, <1>6
  <2>2. q[j] = r[s]
    BY <1>5, <2>1
  <2> QED BY <1>3, <2>1, <2>2
<1>7. q # << >> /\ q[o] = x
  BY <1>1, <1>5
<1>8. ASSUME NEW j \in 1..Len(q), j # o
      PROVE  LET s == Origin(j, o)
             IN  /\ s \in 1..n
                 /\ q[j].kind = p[s].kind
                 /\ q[j].type = p[s].type
                 /\ Len(q[j].args) = Len(p[s].args)
                 /\ \A k \in 1..Len(q[j].args) : q[j].args[k] = Shifted(p[s].args[k], o)
  <2> DEFINE s == Origin(j, o)
  <2>1. s \in Int /\ s = IF j < o THEN j ELSE j - 1
    BY DEF Origin
  <2> HIDE DEF s
  <2>2. /\ s \in 1..n
        /\ q[j].kind = p[s].kind
        /\ q[j].type = p[s].type
        /\ Len(q[j].args) = Len(p[s].args)
        /\ \A k \in 1..Len(q[j].args) : q[j].args[k] = Shifted(p[s].args[k], o)
    BY <1>6, <1>8, <2>1
  <2> QED BY <2>2 DEF s
<1> QED BY <1>5, <1>7, <1>8 DEF IsInserted, q, n

(* A product with a vector is a vector.                                    *)
LEMMA VectorProduct ==
    ASSUME NEW l \in Seq(Nat), NEW r \in Seq(Nat), MatmulCompatible(l, r),
           Len(l) = 1 \/ Len(r) = 1
    PROVE  Len(MatmulShape(l, r)) = 1
<1>1. /\ Len(l) \in Nat /\ Len(r) \in Nat
      /\ Len(l) >= 2 \/ Len(r) >= 2
      /\ Len(r) = Len(l) + 1 \/ Len(l) = Len(r) \/ Len(l) = Len(r) + 1
  BY DEF MatmulCompatible, MatmulRanks
<1> DEFINE a == Len(l)
           b == Len(r)
<1> HIDE DEF a, b
<1>4. /\ a \in Nat /\ b \in Nat /\ (a >= 2 \/ b >= 2)
      /\ b = a + 1 \/ a = b \/ a = b + 1
  BY <1>1 DEF a, b
<1>5. (a = 1 => b = 2) /\ (b = 1 => a = 2)
  BY <1>4
<1>2. CASE Len(l) = 1
  <2>1. Len(r) = 2
    BY <1>2, <1>5 DEF a, b
  <2>2. Batch(l, r) = << >>
    BY <1>2, <2>1 DEF Batch
  <2>3. MatmulShape(l, r) = << >> \o << >> \o << r[2] >>
    BY <1>2, <2>1, <2>2 DEF MatmulShape
  <2> QED BY <2>3
<1>3. CASE Len(r) = 1
  <2>1. Len(l) = 2
    BY <1>3, <1>5 DEF a, b
  <2>2. Batch(l, r) = << >>
    BY <1>3, <2>1 DEF Batch
  <2>3. MatmulShape(l, r) = << >> \o << l[1] >> \o << >>
    BY <1>3, <2>1, <2>2 DEF MatmulShape
  <2> QED BY <2>3
<1> QED BY <1>2, <1>3

(* The type of the product fits its new operands.                          *)
LEMMA PromotedType ==
    ASSUME NEW in \in [1..2 -> Type], NEW t \in Type, TypesFit("matrix_mul", in, t),
           NEW k \in {1, 2}, IsRanked(in[k]), Len(in[k]) = 1,
           NEW s \in Seq(Nat), Len(s) = 2
    PROVE  LET to == [in EXCEPT ![k] = s]
               u  == IF CanInfer("matrix_mul", to) THEN MatmulShape(to[1], to[2]) ELSE t
           IN  /\ u \in Type /\ Up(t, u)
               /\ TypesFit("matrix_mul", to, u)
<1> DEFINE to == [in EXCEPT ![k] = s]
           u == IF CanInfer("matrix_mul", to) THEN MatmulShape(to[1], to[2]) ELSE t
<1>1. /\ to \in [1..2 -> Type] /\ to[k] = s /\ IsRanked(s)
      /\ \A i \in {1, 2} : i # k => to[i] = in[i]
  BY UnrankedAssumption DEF Type, Shape, IsRanked
<1> HIDE DEF to
<1>2. IsRanked(t) => Len(t) = 1 /\ IsRanked(in[1]) /\ IsRanked(in[2])
  BY DEF TypesFit
<1>3. CASE CanInfer("matrix_mul", to)
  <2>1. IsRanked(to[1]) /\ IsRanked(to[2]) /\ MatmulCompatible(to[1], to[2])
    BY <1>3 DEF CanInfer, Elementwise
  <2>2. to[1] \in Seq(Nat) /\ to[2] \in Seq(Nat)
    BY <1>1, <2>1 DEF IsRanked, Type, Shape
  <2>3. MatmulShape(to[1], to[2]) \in Seq(Nat)
    BY <2>1, <2>2, MatmulShapeType
  <2>4. u = MatmulShape(to[1], to[2])
    BY <1>3
  <2> HIDE DEF u
  <2>5. u \in Type /\ IsRanked(u)
    BY <2>3, <2>4, UnrankedAssumption DEF Type, Shape, IsRanked
  <2>6. Len(to[1]) = 1 \/ Len(to[2]) = 1 => Len(u) = 1
    BY <2>1, <2>2, <2>4, VectorProduct
  <2>7. TypesFit("matrix_mul", to, u)
    BY <2>1, <2>6 DEF TypesFit, Elementwise
  <2>8. Up(t, u)
    BY <1>2, <2>5 DEF Up
  <2> QED BY <2>5, <2>7, <2>8 DEF u, to
<1>4. CASE ~ CanInfer("matrix_mul", to)
  <2>1. u = t
    BY <1>4
  <2>2. TypesFit("matrix_mul", to, t)
    BY <1>1, <1>2 DEF TypesFit, Elementwise
  <2> QED BY <2>1, <2>2 DEF Up, to
<1> QED BY <1>3, <1>4

LEMMA PromotedEvolves ==
    ASSUME NEW p, BodyInv(p), NEW o \in DOMAIN p, p[o].kind = "matrix_mul",
           NEW k \in {1, 2}, IsVector(p, o, k), NEW s \in Seq(Nat), Len(s) = 2
    PROVE  Evolves(p, Promoted(p, o, k, s))
<1> DEFINE n == Len(p)
           a == p[o].args
           in == InTypes(p, o)
           to == [in EXCEPT ![k] = s]
           t == IF CanInfer("matrix_mul", to) THEN MatmulShape(to[1], to[2]) ELSE p[o].type
           x == Op("reshape", << a[k] >>, s)
           w == InsertBefore(p, o, x)
           b == [w[o + 1].args EXCEPT ![k] = o]
           y == Op("matrix_mul", b, t)
           q == [w EXCEPT ![o + 1] = y]
           From(j) == Origin(j, o)
<1>1. Promoted(p, o, k, s) = q
  BY DEF Promoted, InTypes
<1>2. /\ p \in Seq(BodyOp) /\ p # << >> /\ n \in Nat /\ n >= 1 /\ DOMAIN p = 1..n
      /\ o \in 1..n /\ o \in Nat
  BY BodyFacts DEF BodyInv
<1>3. Len(a) = 2 /\ a \in Seq(Nat) /\ OpFits(p, o) /\ p[o].type \in Type
  BY <1>2, BodyFacts DEF BodyInv, OpFits, ArityOK, Elementwise
<1>4. \A i \in {1, 2} : /\ a[i] \in 1..(o - 1) /\ p[a[i]].kind \notin Sinks
                        /\ in[i] = p[a[i]].type /\ in[i] \in Type
  <2> SUFFICES ASSUME NEW i \in {1, 2}
               PROVE  /\ a[i] \in 1..(o - 1) /\ p[a[i]].kind \notin Sinks
                      /\ in[i] = p[a[i]].type /\ in[i] \in Type
    OBVIOUS
  <2>1. i \in 1..Len(a) /\ o \in 1..Len(p)
    BY <1>2, <1>3
  <2> QED BY <2>1, OperandFacts
<1>5. in \in [1..2 -> Type]
  <2>1. \A i \in 1..Len(a) : a[i] \in 1..Len(p)
    BY <1>2, OperandFacts
  <2> QED BY <1>2, <1>3, <2>1, InTypesAre
<1>6. p[o].type \in Type /\ TypesFit("matrix_mul", in, p[o].type)
  BY <1>3 DEF OpFits
<1>7. IsRanked(in[k]) /\ Len(in[k]) = 1
  BY <1>4 DEF IsVector
<1> HIDE DEF in, n
<1>8. t \in Type /\ Up(p[o].type, t) /\ TypesFit("matrix_mul", to, t)
  BY <1>5, <1>6, <1>7, PromotedType
<1>9. /\ to \in [1..2 -> Type] /\ to[k] = s
      /\ \A i \in {1, 2} : i # k => to[i] = in[i]
  BY <1>5 DEF Type, Shape
<1> HIDE DEF to, t
<1>10. x \in BodyOp /\ x.kind = "reshape" /\ x.args = << a[k] >> /\ x.type = s
  <2> DEFINE c == << a[k] >>
  <2>1. "reshape" \in Kinds /\ s \in Type /\ c \in Seq(Nat)
    BY <1>4 DEF Kinds, Type, Shape
  <2> HIDE DEF c
  <2>2. /\ Op("reshape", c, s) \in BodyOp /\ Op("reshape", c, s).kind = "reshape"
        /\ Op("reshape", c, s).args = c /\ Op("reshape", c, s).type = s
    BY <2>1, OpIsBodyOp
  <2> QED BY <2>2 DEF c
<1> HIDE DEF x
<1>11. /\ w \in Seq(BodyOp) /\ w # << >> /\ Len(w) = n + 1 /\ w[o] = x
       /\ \A j \in 1..(n + 1) : j # o =>
             /\ From(j) \in 1..n
             /\ w[j].kind = p[From(j)].kind
             /\ w[j].type = p[From(j)].type
             /\ Len(w[j].args) = Len(p[From(j)].args)
             /\ \A i \in 1..Len(w[j].args) : w[j].args[i] = Shifted(p[From(j)].args[i], o)
  <2>1. o \in 1..Len(p) /\ x \in BodyOp
    BY <1>2, <1>10 DEF n
  <2>2. /\ w \in Seq(BodyOp) /\ w # << >> /\ Len(w) = Len(p) + 1 /\ w[o] = x
        /\ \A j \in 1..Len(w) : j # o =>
              /\ From(j) \in 1..Len(p)
              /\ w[j].kind = p[From(j)].kind
              /\ w[j].type = p[From(j)].type
              /\ Len(w[j].args) = Len(p[From(j)].args)
              /\ \A i \in 1..Len(w[j].args) : w[j].args[i] = Shifted(p[From(j)].args[i], o)
    <3>1. IsInserted(w, p, o, x)
      BY <2>1, InsertedOps
    <3> HIDE DEF w
    <3> QED BY <3>1 DEF IsInserted
  <2> HIDE DEF w
  <2> QED BY <2>2 DEF n
<1> HIDE DEF w
<1>12. /\ o + 1 \in 1..(n + 1) /\ o + 1 # o /\ From(o + 1) = o
       /\ w[o + 1].args \in Seq(Nat) /\ Len(w[o + 1].args) = 2
       /\ w[o + 1].args[1] = a[1] /\ w[o + 1].args[2] = a[2]
  <2>1. o + 1 \in 1..(n + 1) /\ o + 1 # o /\ From(o + 1) = o
    BY <1>2 DEF Origin
  <2>2. Len(w[o + 1].args) = 2 /\ \A i \in 1..2 : w[o + 1].args[i] = Shifted(a[i], o)
    BY <1>3, <1>11, <2>1
  <2>3. w[o + 1].args \in Seq(Nat)
    BY <1>11, <2>1, BodyFacts
  <2>4. \A i \in {1, 2} : Shifted(a[i], o) = a[i]
    BY <1>2, <1>4 DEF Shifted
  <2> QED BY <2>1, <2>2, <2>3, <2>4
<1>13. b \in Seq(Nat) /\ Len(b) = 2 /\ b[k] = o /\ \A i \in {1, 2} : i # k => b[i] = a[i]
  <2>1. k \in 1..Len(w[o + 1].args)
    BY <1>12
  <2> QED BY <1>2, <1>12, <2>1, ExceptSeq
<1> HIDE DEF b
<1>14. y \in BodyOp /\ y.kind = "matrix_mul" /\ y.args = b /\ y.type = t
  <2>1. "matrix_mul" \in Kinds
    BY DEF Kinds
  <2> QED BY <1>8, <1>13, <2>1, OpIsBodyOp
<1> HIDE DEF y
<1>15. /\ q \in Seq(BodyOp) /\ q # << >> /\ Len(q) = n + 1 /\ q[o] = x /\ q[o + 1] = y
       /\ \A j \in 1..(n + 1) : j # o /\ j # o + 1 => q[j] = w[j]
  <2>1. o + 1 \in 1..Len(w) /\ o \in 1..Len(w)
    BY <1>2, <1>11
  <2>2. /\ q \in Seq(BodyOp) /\ Len(q) = Len(w)
        /\ \A j \in 1..Len(w) : q[j] = IF j = o + 1 THEN y ELSE w[j]
    BY <1>11, <1>14, <2>1, ExceptSeq
  <2> HIDE DEF q
  <2>3. q # << >>
    BY <1>2, <1>11, <2>2
  <2> QED BY <1>11, <1>12, <2>1, <2>2, <2>3
<1> HIDE DEF q
(* What stands for an earlier value in the new body.                       *)
<1>16. ASSUME NEW v \in 1..n, p[v].kind \notin Sinks
       PROVE  /\ Shifted(v, o) \in 1..(n + 1)
              /\ q[Shifted(v, o)].kind \notin Sinks
              /\ Up(p[v].type, q[Shifted(v, o)].type)
              /\ v < o => Shifted(v, o) = v /\ q[v].type = p[v].type
  <2> DEFINE j == Shifted(v, o)
  <2>1. j \in 1..(n + 1) /\ j # o /\ From(j) = v /\ (v < o => j = v) /\ (j = o + 1 => v = o)
    BY <1>2 DEF Shifted, Origin
  <2> HIDE DEF j
  <2>2. CASE j = o + 1
    <3>1. v = o /\ q[j] = y
      BY <1>15, <2>1, <2>2
    <3>2. "matrix_mul" \notin Sinks /\ ~ (v < o)
      BY <1>2, <3>1 DEF Sinks
    <3> QED BY <1>8, <1>14, <2>1, <3>1, <3>2 DEF j
  <2>3. CASE j # o + 1
    <3>1. q[j] = w[j] /\ w[j].kind = p[v].kind /\ w[j].type = p[v].type
      BY <1>11, <1>15, <2>1, <2>3
    <3> QED BY <1>16, <2>1, <3>1 DEF j, Up
  <2> QED BY <2>2, <2>3
<1>17. ASSUME NEW j \in 1..(n + 1) PROVE Comes(q, j, p) \/ IsMade(q, j)
  <2>1. CASE j = o
    <3>1. q[j] = x /\ j # Len(q) /\ Len(x.args) = 1 /\ x.args[1] = a[k]
      BY <1>2, <1>10, <1>15, <2>1
    <3>2. a[k] \in 1..(j - 1) /\ q[a[k]].kind \notin Sinks
      <4>1. a[k] \in 1..n /\ p[a[k]].kind \notin Sinks /\ a[k] < o
        BY <1>2, <1>4
      <4>2. q[a[k]].kind \notin Sinks
        BY <1>16, <4>1
      <4> QED BY <1>4, <2>1, <4>2
    <3>3. ArityOK(x.kind, 1) /\ TypesFit(x.kind, InTypes(q, j), x.type) /\ x.kind \in Made
      BY <1>10 DEF ArityOK, TypesFit, Elementwise, Made
    <3>4. \A i \in 1..Len(x.args) : x.args[i] \in 1..(j - 1) /\ q[x.args[i]].kind \notin Sinks
      BY <3>1, <3>2
    <3>5. OpFits(q, j)
      BY <3>1, <3>3, <3>4 DEF OpFits
    <3> QED BY <3>1, <3>3, <3>5 DEF IsMade
  <2>2. CASE j = o + 1
    <3>1. q[j] = y /\ Len(y.args) = 2 /\ y.args = b
      BY <1>13, <1>14, <1>15, <2>2
    <3>2. j # Len(q)
      <4>1. o # n
        BY ReturnIsLast DEF n
      <4> QED BY <1>2, <1>15, <2>2, <4>1
    <3>3. ASSUME NEW i \in {1, 2}
          PROVE  b[i] \in 1..(j - 1) /\ b[i] \in 1..(n + 1)
                 /\ q[b[i]].kind \notin Sinks /\ q[b[i]].type = to[i]
      <4>1. CASE i = k
        <5>1. b[i] = o /\ q[o] = x /\ to[i] = s
          BY <1>9, <1>13, <1>15, <4>1
        <5>2. "reshape" \notin Sinks
          BY DEF Sinks
        <5> QED BY <1>2, <1>10, <2>2, <5>1, <5>2
      <4>2. CASE i # k
        <5>1. b[i] = a[i] /\ to[i] = p[a[i]].type
          BY <1>4, <1>9, <1>13, <4>2
        <5>2. a[i] \in 1..n /\ a[i] < o /\ p[a[i]].kind \notin Sinks
          BY <1>2, <1>4
        <5>3. q[a[i]].kind \notin Sinks /\ q[a[i]].type = p[a[i]].type
          BY <1>16, <5>2
        <5> QED BY <1>2, <2>2, <5>1, <5>2, <5>3
      <4> QED BY <4>1, <4>2
    <3>4. \A i \in 1..2 : i \in {1, 2}
      OBVIOUS
    <3>5. InTypes(q, j) = [i \in 1..2 |-> q[b[i]].type]
      <4>1. \A i \in 1..Len(q[j].args) : q[j].args[i] \in 1..Len(q)
        BY <1>15, <3>1, <3>3, <3>4
      <4>2. j \in 1..Len(q)
        BY <1>15
      <4>3. InTypes(q, j) = [i \in 1..Len(q[j].args) |-> q[q[j].args[i]].type]
        BY <1>15, <4>1, <4>2, InTypesAre
      <4> QED BY <3>1, <4>3
    <3>6. InTypes(q, j) = to
      <4>1. to = [i \in 1..2 |-> to[i]]
        BY <1>9
      <4> QED BY <3>3, <3>4, <3>5, <4>1
    <3>7. ArityOK(y.kind, 2) /\ y.kind \in Made
      BY <1>14 DEF ArityOK, Elementwise, Made
    <3>8. OpFits(q, j)
      BY <1>8, <1>14, <3>1, <3>3, <3>4, <3>6, <3>7 DEF OpFits
    <3> QED BY <3>1, <3>2, <3>7, <3>8 DEF IsMade
  <2>3. CASE j # o /\ j # o + 1
    <3> DEFINE i == From(j)
    <3>1. /\ i \in 1..n /\ q[j] = w[j]
          /\ q[j].kind = p[i].kind /\ q[j].type = p[i].type /\ Len(q[j].args) = Len(p[i].args)
          /\ \A m \in 1..Len(p[i].args) : q[j].args[m] = Shifted(p[i].args[m], o)
      BY <1>11, <1>15, <2>3
    <3>2. (j < o => i = j) /\ (~ (j < o) => i = j - 1 /\ i > o) /\ (i = n <=> j = n + 1)
      BY <1>2, <2>3 DEF Origin
    <3> HIDE DEF i
    <3>3. ASSUME NEW m \in 1..Len(p[i].args)
          PROVE  /\ q[j].args[m] \in 1..(j - 1)
                 /\ q[q[j].args[m]].kind \notin Sinks
                 /\ Up(p[p[i].args[m]].type, q[q[j].args[m]].type)
      <4> DEFINE v == p[i].args[m]
      <4>1. v \in 1..(i - 1) /\ v \in 1..n /\ p[v].kind \notin Sinks
        BY <3>1, OperandFacts DEF n
      <4>2. q[j].args[m] = Shifted(v, o)
        BY <3>1
      <4> HIDE DEF v
      <4>3. Shifted(v, o) \in 1..(j - 1)
        BY <1>2, <3>1, <3>2, <4>1 DEF Shifted
      <4> QED BY <1>16, <4>1, <4>2, <4>3 DEF v
    <3>4. Copies(q, j, p, i)
      BY <3>1, <3>3 DEF Copies
    <3> QED BY <1>15, <3>1, <3>2, <3>4 DEF Comes, n
  <2> QED BY <2>1, <2>2, <2>3
<1>18. ASSUME NEW j \in 1..(n + 1), j < o PROVE q[j].kind = p[j].kind
  <2>1. From(j) = j /\ j # o /\ j # o + 1
    BY <1>2, <1>18 DEF Origin
  <2> QED BY <1>11, <1>15, <2>1
<1>19. ASSUME NEW j \in 1..(n + 1), j >= o PROVE q[j].kind # "arg"
  <2>1. CASE j = o \/ j = o + 1
    BY <1>10, <1>14, <1>15, <2>1
  <2>2. CASE j # o /\ j # o + 1
    <3>3. From(j) \in 1..n /\ o \in 1..From(j)
      BY <1>2, <1>11, <1>19, <2>2 DEF Origin
    <3>1. From(j) \in 1..n /\ o \in 1..From(j) /\ q[j].kind = p[From(j)].kind
      BY <1>11, <1>15, <2>2, <3>3
    <3>2. p[From(j)].kind = "arg" => p[o].kind = "arg"
      BY <3>1 DEF BodyInv, n
    <3> QED BY <3>1, <3>2
  <2> QED BY <2>1, <2>2
<1>20. Evolves(p, q)
  <2>1. o \in 1..Len(p) /\ p[o].kind # "arg"
    BY <1>2 DEF n
  <2>2. \A j \in 1..Len(q) : j < o /\ j < Len(p) => q[j].kind = p[j].kind
    BY <1>15, <1>18
  <2>3. \A j \in 1..Len(q) : j >= o => q[j].kind # "arg"
    BY <1>15, <1>19
  <2>4. \A j \in 1..Len(q) : Comes(q, j, p) \/ IsMade(q, j)
    BY <1>15, <1>17
  <2> QED BY <1>15, <2>1, <2>2, <2>3, <2>4, RewrittenEvolves
<1> QED BY <1>1, <1>20

LEMMA VectorExtent ==
    ASSUME NEW p, BodyInv(p), NEW o \in DOMAIN p, p[o].kind = "matrix_mul",
           NEW k \in {1, 2}, IsVector(p, o, k)
    PROVE  p[p[o].args[k]].type[1] \in Nat
<1> DEFINE t == p[p[o].args[k]].type
<1>1. p \in Seq(BodyOp) /\ p # << >> /\ DOMAIN p = 1..Len(p) /\ o \in 1..Len(p)
  BY BodyFacts DEF BodyInv
<1>2. Len(p[o].args) = 2
  BY <1>1 DEF BodyInv, OpFits, ArityOK, Elementwise
<1>3. t \in Type
  BY <1>1, <1>2, OperandFacts
<1>4. IsRanked(t) /\ Len(t) = 1
  BY DEF IsVector
<1> HIDE DEF t
<1>5. t \in Seq(Nat)
  BY <1>3, <1>4 DEF IsRanked, Type, Shape
<1>6. \A i \in 1..Len(t) : t[i] \in Nat
  BY <1>5
<1>7. 1 \in 1..Len(t)
  BY <1>4
<1> QED BY <1>6, <1>7 DEF t

(* A vector on the left is a row, one on the right a column.               *)
LEMMA PromoteVectorMatrixEvolves ==
    ASSUME NEW p, BodyInv(p), NEW o \in DOMAIN p, NEW q \in PromoteVectorMatrix(p, o)
    PROVE  Evolves(p, q)
<1> DEFINE n == Operand(p, o).type[1]
<1>1. /\ p[o].kind = "matrix_mul" /\ IsVector(p, o, 1) /\ q = Promoted(p, o, 1, << 1, n >>)
  BY DEF PromoteVectorMatrix, When
<1>2. n \in Nat
  BY <1>1, VectorExtent DEF Operand
<1> HIDE DEF n
<1>3. << 1, n >> \in Seq(Nat) /\ Len(<< 1, n >>) = 2
  BY <1>2
<1> QED BY <1>1, <1>3, PromotedEvolves

LEMMA PromoteMatrixVectorEvolves ==
    ASSUME NEW p, BodyInv(p), NEW o \in DOMAIN p, NEW q \in PromoteMatrixVector(p, o)
    PROVE  Evolves(p, q)
<1> DEFINE n == p[p[o].args[2]].type[1]
<1>1. /\ p[o].kind = "matrix_mul" /\ IsVector(p, o, 2) /\ q = Promoted(p, o, 2, << n, 1 >>)
  BY DEF PromoteMatrixVector, When
<1>2. n \in Nat
  BY <1>1, VectorExtent
<1> HIDE DEF n
<1>3. << n, 1 >> \in Seq(Nat) /\ Len(<< n, 1 >>) = 2
  BY <1>2
<1> QED BY <1>1, <1>3, PromotedEvolves

-----------------------------------------------------------------------------
(* What holds at each step.                                                *)

(* Shape inference has not been here: these have no shape yet.             *)
Untyped(p) == \A o \in 1..Len(p) :
    p[o].kind \in Sinks \cup {"arg", "transpose", "cast"} => p[o].type = Unranked

NoCalls(p) == \A o \in 1..Len(p) : p[o].kind # "generic_call"

(* A call in main can be replaced by the body of the other function.       *)
CallsFit(m) ==
    /\ \A o \in 1..Len(m.main) : m.main[o].kind = "generic_call" =>
          /\ "callee" \in DOMAIN m /\ Len(m.callee[Len(m.callee)].args) = 1
          /\ Up(m.main[o].type, Returned(m.callee))
    /\ "callee" \in DOMAIN m => NoCalls(m.callee)

NoVectors(p) == \A o \in 1..Len(p) : p[o].kind = "matrix_mul" =>
    \A k \in {1, 2} : ~ IsVector(p, o, k)

(* CSE and the removal of dead code change the type of no operand.         *)
LEMMA ReplaceKeepsTypes ==
    ASSUME NEW p, BodyInv(p), NEW o \in 1..Len(p), p[o].kind \notin Sinks \cup {"arg"},
           NEW v \in 1..o,
           \/ v # o /\ p[v].type = p[o].type
           \/ \A u \in 1..Len(p) : \A k \in 1..Len(p[u].args) : p[u].args[k] # o,
           NoVectors(p)
    PROVE  NoVectors(ReplaceBy(p, o, v))
<1> DEFINE q == ReplaceBy(p, o, v)
           n == Len(p)
           s(j) == IF j < o THEN j ELSE j + 1
<1>1. /\ p \in Seq(BodyOp) /\ p # << >> /\ n \in Nat /\ n >= 1 /\ o \in Nat /\ v \in Nat
  BY BodyFacts DEF BodyInv
<1>2. o # n /\ n > 1 /\ o < n
  <2>1. p[n].kind = "return"
    BY ReturnIsLast
  <2>2. p[o].kind # "return"
    BY DEF Sinks
  <2> QED BY <1>1, <2>1, <2>2
<1>3. /\ Len(q) = n - 1
      /\ \A j \in 1..(n - 1) :
            /\ s(j) \in 1..n
            /\ q[j].kind = p[s(j)].kind
            /\ q[j].type = p[s(j)].type
            /\ Len(q[j].args) = Len(p[s(j)].args)
            /\ \A k \in 1..Len(q[j].args) : q[j].args[k] = Without(p[s(j)].args[k], o, v)
  <2>1. IsReplaced(q, p, o, v)
    BY <1>2, ReplacedOps
  <2> HIDE DEF q
  <2> QED BY <2>1 DEF IsReplaced
<1> HIDE DEF q
<1>4. ASSUME NEW j \in 1..(n - 1), q[j].kind = "matrix_mul", NEW k \in {1, 2}
      PROVE  ~ IsVector(q, j, k)
  <2> DEFINE i == s(j)
             a == p[i].args[k]
             b == q[j].args[k]
  <2>1. i \in 1..n /\ p[i].kind = "matrix_mul" /\ Len(q[j].args) = Len(p[i].args)
    BY <1>3, <1>4
  <2>2. Len(p[i].args) = 2
    BY <2>1 DEF BodyInv, OpFits, ArityOK, Elementwise
  <2>3. k \in 1..Len(p[i].args) /\ k \in 1..Len(q[j].args)
    BY <2>1, <2>2
  <2>4. a \in 1..(i - 1)
    BY <2>1, <2>3, OperandFacts
  <2>5. b = Without(a, o, v)
    BY <1>3, <2>3
  <2>6. a \in Int /\ 1 <= a /\ a < i /\ (j < o => i = j) /\ (~ (j < o) => i = j + 1)
    BY <2>1, <2>4
  <2>7. a = o => v # o /\ p[v].type = p[o].type
    BY <2>1, <2>3
  <2>8. ~ IsVector(p, i, k)
    BY <2>1 DEF NoVectors
  <2> HIDE DEF a, b, i
  <2>9. b \in 1..(n - 1) /\ (a # o => s(b) = a) /\ (a = o => s(b) = v)
    <3>1. CASE a < o
      BY <1>1, <1>2, <2>5, <2>6, <3>1 DEF Without
    <3>2. CASE a > o
      BY <1>1, <1>2, <2>1, <2>5, <2>6, <3>2 DEF Without
    <3>3. CASE a = o
      <4>1. b = v /\ v < o
        BY <1>1, <2>5, <2>7, <3>3 DEF Without
      <4> QED BY <1>1, <1>2, <3>3, <4>1
    <3> QED BY <1>1, <2>6, <3>1, <3>2, <3>3
  <2>10. q[b].type = p[s(b)].type
    BY <1>3, <2>9
  <2>11. q[b].type = p[a].type
    BY <2>7, <2>9, <2>10
  <2> QED BY <2>8, <2>11 DEF IsVector, a, b
<1>5. NoVectors(q)
  BY <1>3, <1>4 DEF NoVectors
<1> QED BY <1>5 DEF q

LEMMA EraseDeadKeepsTypes ==
    ASSUME NEW p, BodyInv(p), NoVectors(p), NEW o \in DOMAIN p, NEW q \in EraseDead(p, o)
    PROVE  NoVectors(q)
<1>1. p \in Seq(BodyOp) /\ p # << >> /\ DOMAIN p = 1..Len(p) /\ o \in 1..Len(p) /\ o \in 1..o
  BY BodyFacts DEF BodyInv
<1>2. Dead(p, o) /\ q = ReplaceBy(p, o, o)
  BY DEF EraseDead, When
<1>3. p[o].kind \notin Sinks \cup {"arg"}
  BY <1>2 DEF Dead, Effects
<1>4. ASSUME NEW u \in 1..Len(p), NEW k \in 1..Len(p[u].args) PROVE p[u].args[k] # o
  <2>1. DOMAIN p[u].args = 1..Len(p[u].args)
    BY <1>1, BodyFacts
  <2>2. o \notin Range(p[u].args)
    BY <1>1, <1>2 DEF Dead
  <2> QED BY <2>1, <2>2 DEF Range
<1> QED BY <1>1, <1>2, <1>3, <1>4, ReplaceKeepsTypes

LEMMA MergeKeepsTypes ==
    ASSUME NEW p, BodyInv(p), NoVectors(p), NEW o \in DOMAIN p, NEW q \in MergeDuplicate(p, o)
    PROVE  NoVectors(q)
<1>1. p \in Seq(BodyOp) /\ p # << >> /\ DOMAIN p = 1..Len(p) /\ o \in 1..Len(p)
  BY BodyFacts DEF BodyInv
<1>2. PICK v \in 1..(o - 1) : p[v] = p[o] /\ p[o].kind \notin Effects /\ q = ReplaceBy(p, o, v)
  BY DEF MergeDuplicate
<1>3. p[o].kind \notin Sinks \cup {"arg"} /\ p[v].type = p[o].type
  BY <1>2 DEF Effects
<1>4. v \in 1..o /\ v # o
  BY <1>1
<1> QED BY <1>1, <1>2, <1>3, <1>4, ReplaceKeepsTypes

(* A body nothing is left to rewrite in has no product with a vector.      *)
LEMMA CanonicalHasNoVectors ==
    ASSUME NEW p, BodyInv(p), IsCanonical(p)
    PROVE  NoVectors(p)
<1>1. DOMAIN p = 1..Len(p)
  BY BodyFacts DEF BodyInv
<1>2. ASSUME NEW o \in 1..Len(p), p[o].kind = "matrix_mul", NEW k \in {1, 2} PROVE ~ IsVector(p, o, k)
  <2>1. Rewrites(p, o) = {}
    BY <1>1 DEF IsCanonical
  <2>2. ~ Dead(p, o)
    <3>1. Dead(p, o) => EraseDead(p, o) # {}
      BY DEF EraseDead, When
    <3> QED BY <2>1, <3>1 DEF Rewrites
  <2>3. PromoteVectorMatrix(p, o) = {} /\ PromoteMatrixVector(p, o) = {}
    BY <2>1, <2>2 DEF Rewrites
  <2>4. ~ IsVector(p, o, 1)
    BY <1>2, <2>3 DEF PromoteVectorMatrix, When
  <2>5. ~ IsVector(p, o, 2)
    BY <1>2, <2>3 DEF PromoteMatrixVector, When
  <2> QED BY <2>4, <2>5
<1> QED BY <1>2 DEF NoVectors

(* What a rewrite keeps, besides.                                          *)
LEMMA EvolvesKeeps ==
    ASSUME NEW p, BodyInv(p), NEW q, Evolves(p, q)
    PROVE  /\ Untyped(p) => Untyped(q)
           /\ NoCalls(p) => NoCalls(q)
<1>1. ASSUME NEW j \in 1..Len(q), q[j].kind \notin Made
      PROVE  \E i \in 1..Len(p) : q[j].kind = p[i].kind /\ q[j].type = p[i].type
  BY <1>1 DEF Evolves
<1>2. ASSUME Untyped(p) PROVE Untyped(q)
  <2>1. ASSUME NEW j \in 1..Len(q), q[j].kind \in Sinks \cup {"arg", "transpose", "cast"}
        PROVE  q[j].type = Unranked
    <3>1. q[j].kind \notin Made
      BY <2>1 DEF Made, Sinks
    <3>2. PICK i \in 1..Len(p) : q[j].kind = p[i].kind /\ q[j].type = p[i].type
      BY <1>1, <3>1
    <3> QED BY <1>2, <2>1, <3>2 DEF Untyped
  <2> QED BY <2>1 DEF Untyped
<1>3. ASSUME NoCalls(p) PROVE NoCalls(q)
  <2>1. ASSUME NEW j \in 1..Len(q), q[j].kind = "generic_call" PROVE FALSE
    <3>1. q[j].kind \notin Made
      BY <2>1 DEF Made
    <3>2. PICK i \in 1..Len(p) : q[j].kind = p[i].kind
      BY <1>1, <3>1
    <3> QED BY <1>3, <2>1, <3>2 DEF NoCalls
  <2> QED BY <2>1 DEF NoCalls
<1> QED BY <1>2, <1>3


-----------------------------------------------------------------------------
(* Shape inference, in one step.                                           *)

Typed(p, ty) == [o \in DOMAIN p |-> [p[o] EXCEPT !.type = ty[o]]]

LEMMA BodyIsDominated ==
    ASSUME NEW p, BodyInv(p)
    PROVE  Dominated(p)
<1>1. p \in Seq(BodyOp) /\ p # << >> /\ \A o \in 1..Len(p) : OpFits(p, o)
  BY DEF BodyInv
<1>2. Len(p) \in Nat /\ DOMAIN p = 1..Len(p)
  BY <1>1, BodyFacts
<1>3. ASSUME NEW o \in 1..Len(p)
      PROVE  /\ p[o].kind \in Kinds /\ p[o].args \in Seq(Nat) /\ p[o].type \in Type
             /\ ArityOK(p[o].kind, Len(p[o].args))
             /\ \A k \in DOMAIN p[o].args : p[o].args[k] \in 1..(o - 1)
  <2>1. /\ p[o].kind \in Kinds /\ p[o].args \in Seq(Nat) /\ p[o].type \in Type
        /\ DOMAIN p[o].args = 1..Len(p[o].args)
    BY <1>1, BodyFacts
  <2> QED BY <1>1, <2>1 DEF OpFits
<1> QED BY <1>2, <1>3 DEF Dominated

(* The types found in program order are types.                             *)
LEMMA InOrderTypesType ==
    ASSUME NEW p, Dominated(p)
    PROVE  InOrderTypes(p) \in [DOMAIN p -> Type]
<1> DEFINE ty == InOrderTypes(p)
           n == Len(p)
           T == {m \in 0..n : \A o \in 1..m : ty[o] \in Type}
<1>1. n \in Nat /\ DOMAIN p = 1..n
  BY DEF Dominated
<1>2. ty = [o \in 1..n |-> EquationType(p, ty, o)]
  BY <1>1, InOrderIsSolution
<1> HIDE DEF ty, n
<1>3. 0 \in T
  BY <1>1
<1>4. ASSUME NEW m \in 1..n, m - 1 \in T PROVE m \in T
  <2>1. m \in 0..n /\ m \in DOMAIN p /\ ty[m] = EquationType(p, ty, m)
    BY <1>1, <1>2
  <2>2. \A o \in 1..(m - 1) : ty[o] \in Type
    BY <1>4
  <2> DEFINE tz == [o \in 1..n |-> IF o < m THEN ty[o] ELSE Unranked]
  <2>3. tz \in [DOMAIN p -> Type]
    <3>1. \A o \in 1..n : o < m => o \in 1..(m - 1)
      BY <1>1
    <3> QED BY <1>1, <2>2, <3>1 DEF Type
  <2>4. \A k \in DOMAIN p[m].args : ty[p[m].args[k]] = tz[p[m].args[k]]
    <3>1. \A k \in DOMAIN p[m].args : p[m].args[k] \in 1..(m - 1)
      BY <2>1 DEF Dominated
    <3>2. \A a \in 1..(m - 1) : a \in 1..n /\ a < m
      BY <1>1
    <3> QED BY <3>1, <3>2
  <2> HIDE DEF tz
  <2>5. InferredType(p, tz, m) \in Type /\ p[m].type \in Type
    BY <2>1, <2>3, InferredTypeType DEF Dominated
  <2>6. InferredType(p, ty, m) = InferredType(p, tz, m)
    BY <2>4, SameOperands
  <2>7. ty[m] \in Type
    BY <2>1, <2>5, <2>6 DEF EquationType
  <2>8. \A o \in 1..m : o = m \/ o \in 1..(m - 1)
    OBVIOUS
  <2> QED BY <2>1, <2>2, <2>7, <2>8
<1> HIDE DEF T
<1>5. 0..n \subseteq T
  BY <1>1, <1>3, <1>4, UpTo
<1>6. \A o \in 1..n : ty[o] \in Type
  <2>1. n \in T
    BY <1>1, <1>5
  <2> QED BY <2>1 DEF T
<1>7. ty \in [1..n -> Type]
  BY <1>2, <1>6
<1> QED BY <1>1, <1>7 DEF ty

(* What inferShapes() gives fits the operands.                             *)
LEMMA InferredFits ==
    ASSUME NEW kind \in Kinds, NEW n \in Nat, ArityOK(kind, n),
           NEW in \in [1..n -> Type], CanInfer(kind, in)
    PROVE  TypesFit(kind, in, ResultShape(kind, in))
<1> DEFINE t == ResultShape(kind, in)
<1>1. CASE kind \in Elementwise \cup {"cast"}
  BY <1>1 DEF CanInfer, TypesFit, ResultShape, Elementwise
<1>2. CASE kind = "matrix_mul"
  <2>1. /\ in[1] \in Seq(Nat) /\ in[2] \in Seq(Nat) /\ MatmulCompatible(in[1], in[2])
        /\ IsRanked(in[1]) /\ IsRanked(in[2])
    BY <1>2 DEF ArityOK, CanInfer, Elementwise, IsRanked, Type, Shape
  <2>2. t = MatmulShape(in[1], in[2])
    BY <1>2 DEF ResultShape
  <2>3. Len(in[1]) = 1 \/ Len(in[2]) = 1 => Len(t) = 1
    BY <2>1, <2>2, VectorProduct
  <2> HIDE DEF t
  <2>4. TypesFit(kind, in, t)
    BY <1>2, <2>1, <2>3 DEF TypesFit, Elementwise
  <2> QED BY <2>4 DEF t
<1>3. CASE kind = "transpose"
  BY <1>3 DEF CanInfer, TypesFit, ResultShape, Elementwise
<1> QED BY <1>1, <1>2, <1>3 DEF CanInfer

(* An inferred body is one.                                                *)
LEMMA TypedIsBody ==
    ASSUME NEW p, BodyInv(p)
    PROVE  /\ BodyInv(Typed(p, InOrderTypes(p)))
           /\ \A o \in 1..Len(p) : Typed(p, InOrderTypes(p))[o].kind = p[o].kind
           /\ Len(Typed(p, InOrderTypes(p))) = Len(p)
<1> DEFINE ty == InOrderTypes(p)
           q == Typed(p, ty)
           n == Len(p)
<1>1. /\ p \in Seq(BodyOp) /\ p # << >> /\ n \in Nat /\ n >= 1 /\ DOMAIN p = 1..n
      /\ \A o \in 1..n : p[o] \in BodyOp /\ OpFits(p, o)
  BY BodyFacts DEF BodyInv
<1>2. Dominated(p)
  BY BodyIsDominated
<1>3. /\ ty \in [1..n -> Type]
      /\ \A o \in 1..n : ty[o] = EquationType(p, ty, o)
  <2>1. ty \in [1..n -> Type]
    BY <1>1, <1>2, InOrderTypesType
  <2>2. ty = [o \in 1..n |-> EquationType(p, ty, o)]
    BY <1>1, <1>2, InOrderIsSolution
  <2> HIDE DEF ty
  <2> QED BY <2>1, <2>2
<1> HIDE DEF ty
<1>4. ASSUME NEW o \in 1..n
      PROVE  /\ q[o] \in BodyOp /\ q[o].kind = p[o].kind /\ q[o].args = p[o].args
             /\ q[o].type = ty[o]
  <2>1. q[o] = [p[o] EXCEPT !.type = ty[o]]
    BY <1>1 DEF Typed
  <2>2. p[o] \in BodyOp /\ ty[o] \in Type
    BY <1>1, <1>3
  <2> HIDE DEF q
  <2> QED BY <2>1, <2>2 DEF BodyOp
<1>5. q \in Seq(BodyOp) /\ Len(q) = n
  <2>1. q = [o \in 1..n |-> q[o]]
    BY <1>1 DEF Typed
  <2> HIDE DEF q
  <2>2. [o \in 1..n |-> q[o]] \in Seq(BodyOp) /\ Len([o \in 1..n |-> q[o]]) = n
    BY <1>1, <1>4, IsASeq
  <2> QED BY <2>1, <2>2
<1> HIDE DEF q, n
<1>6. q # << >>
  BY <1>1, <1>5
<1>7. ASSUME NEW o \in 1..n PROVE Up(p[o].type, ty[o])
  <2>1. HasDynamicShapeReturn(p, BuiltTypes(p), o) => p[o].type = Unranked
    BY <1>1 DEF HasDynamicShapeReturn, BuiltTypes
  <2>2. ty[o] = p[o].type \/ p[o].type = Unranked
    BY <1>3, <2>1 DEF EquationType
  <2> QED BY <2>2 DEF Up, IsRanked
<1>8. ASSUME NEW o \in 1..n PROVE OpFits(q, o)
  <2> DEFINE m == Len(p[o].args)
             kind == p[o].kind
             in == InTypes(p, o)
             to == InTypes(q, o)
  <2>1. /\ ArityOK(kind, m) /\ TypesFit(kind, in, p[o].type)
        /\ m \in Nat /\ kind \in Kinds /\ p[o].type \in Type /\ DOMAIN p[o].args = 1..m
    BY <1>1, BodyFacts DEF OpFits, n
  <2>2. \A k \in 1..m : /\ p[o].args[k] \in 1..(o - 1) /\ p[o].args[k] \in 1..n
                        /\ p[p[o].args[k]].kind \notin Sinks
                        /\ in[k] = p[p[o].args[k]].type
    BY OperandFacts DEF n
  <2>3. to = [k \in 1..m |-> ty[p[o].args[k]]] /\ to \in [1..m -> Type]
    <3>1. \A k \in 1..Len(q[o].args) : q[o].args[k] \in 1..Len(q)
      BY <1>4, <1>5, <2>2
    <3>2. /\ InTypes(q, o) = [k \in 1..Len(q[o].args) |-> q[q[o].args[k]].type]
          /\ InTypes(q, o) \in [1..Len(q[o].args) -> Type]
      BY <1>5, <1>6, <3>1, InTypesAre
    <3>3. \A k \in 1..m : q[q[o].args[k]].type = ty[p[o].args[k]]
      BY <1>4, <2>2
    <3> QED BY <1>4, <3>2, <3>3
  <2>4. in \in [1..m -> Type]
    <3>1. \A k \in 1..Len(p[o].args) : p[o].args[k] \in 1..Len(p)
      BY <2>2 DEF n
    <3> QED BY <1>1, <3>1, InTypesAre DEF n
  <2>5. \A k \in 1..m : Up(in[k], to[k])
    BY <1>7, <2>2, <2>3
  <2>6. InferredType(p, ty, o) = InferShapes(kind, to, Unranked)
    BY <2>1, <2>3 DEF InferredType, OperandTypes
  <2> HIDE DEF to, in, m, kind
  <2>7. TypesFit(kind, to, ty[o])
    <3>1. CASE ty[o] = p[o].type
      BY <2>1, <2>3, <2>4, <2>5, <3>1, FitsUp
    <3>2. CASE ty[o] # p[o].type
      <4>1. ty[o] = InferShapes(kind, to, Unranked) /\ p[o].type = Unranked
        <5>1. HasDynamicShapeReturn(p, BuiltTypes(p), o) => p[o].type = Unranked
          BY <1>1 DEF HasDynamicShapeReturn, BuiltTypes
        <5> QED BY <1>3, <2>6, <3>2, <5>1 DEF EquationType
      <4>2. CanInfer(kind, to) /\ ty[o] = ResultShape(kind, to)
        BY <3>2, <4>1 DEF InferShapes
      <4> QED BY <2>1, <2>3, <4>2, InferredFits
    <3> QED BY <3>1, <3>2
  <2>8. \A k \in 1..Len(q[o].args) : q[o].args[k] \in 1..(o - 1) /\ q[q[o].args[k]].kind \notin Sinks
    BY <1>4, <2>2 DEF m
  <2> QED BY <1>4, <2>1, <2>7, <2>8 DEF OpFits, to, m, kind
<1>9. BodyInv(q)
  <2>1. ASSUME NEW o \in 1..n
        PROVE  /\ q[o].kind = "return" <=> o = n
               /\ q[o].kind = "arg" => \A u \in 1..o : q[u].kind = "arg"
    <3>1. \A u \in 1..o : u \in 1..n
      BY <1>1
    <3>2. /\ p[o].kind = "return" <=> o = n
          /\ p[o].kind = "arg" => \A u \in 1..o : p[u].kind = "arg"
      BY DEF BodyInv, n
    <3> QED BY <1>4, <3>1, <3>2
  <2> QED BY <1>5, <1>6, <1>8, <2>1 DEF BodyInv
<1>10. Len(q) = n /\ \A o \in 1..n : q[o].kind = p[o].kind
  BY <1>4, <1>5
<1> QED BY <1>9, <1>10 DEF q, ty, n


-----------------------------------------------------------------------------
(* What the passes take for granted.                                       *)

LEMMA BodyIsInSSAForm ==
    ASSUME NEW p, BodyInv(p)
    PROVE  InSSAForm(p)
<1>1. DOMAIN p = 1..Len(p) /\ p \in Seq(BodyOp) /\ p # << >>
  BY BodyFacts DEF BodyInv
<1>2. ASSUME NEW o \in DOMAIN p
      PROVE  /\ ArityOK(p[o].kind, Len(p[o].args))
             /\ \A k \in DOMAIN p[o].args :
                   p[o].args[k] \in 1..(o - 1) /\ p[p[o].args[k]].kind \notin Sinks
             /\ p[o].kind = "return" <=> o = Len(p)
  <2>0. o \in 1..Len(p)
    BY <1>1
  <2>1. OpFits(p, o) /\ (p[o].kind = "return" <=> o = Len(p))
    BY <2>0 DEF BodyInv
  <2>2. DOMAIN p[o].args = 1..Len(p[o].args)
    BY <1>1, BodyFacts
  <2> QED BY <2>1, <2>2 DEF OpFits
<1> QED BY <1>2, Zenon DEF InSSAForm

LEMMA BodyIsVerified ==
    ASSUME NEW p, BodyInv(p), VerifiesBody(p)
    PROVE  Verified(p)
<1>1. DOMAIN p = 1..Len(p) /\ p \in Seq(BodyOp) /\ p # << >>
  BY BodyFacts DEF BodyInv
<1>2. ASSUME NEW o \in 1..Len(p)
      PROVE  /\ ArityOK(p[o].kind, Len(p[o].args))
             /\ \A k \in DOMAIN p[o].args : p[o].args[k] \in 1..(o - 1)
             /\ Verifies(p[o].kind, InTypes(p, o), p[o].type)
             /\ p[o].kind = "transpose" /\ IsRanked(p[o].type) /\ Len(p[o].type) # 1 =>
                   p[o].type = TransposeShape(InTypes(p, o)[1])
  <2>1. OpFits(p, o)
    BY DEF BodyInv
  <2>2. DOMAIN p[o].args = 1..Len(p[o].args)
    BY <1>1, BodyFacts
  <2>3. Verifies(p[o].kind, InTypes(p, o), p[o].type)
    BY <1>1 DEF VerifiesBody, InTypes
  <2>4. TypesFit(p[o].kind, InTypes(p, o), p[o].type)
    BY <2>1 DEF OpFits
  <2>5. p[o].kind = "transpose" /\ IsRanked(p[o].type) /\ Len(p[o].type) # 1 =>
            p[o].type = TransposeShape(InTypes(p, o)[1])
    BY <2>4 DEF TypesFit
  <2> QED BY <2>1, <2>2, <2>3, <2>5 DEF OpFits
<1> QED BY <1>1, <1>2 DEF Verified, InTypes

(* The type a builder would give.                                          *)
LEMMA BuiltType ==
    ASSUME NEW kind \in Kinds, NEW n \in Nat, ArityOK(kind, n),
           NEW in \in [1..n -> Type], NEW t \in Type,
           TypesFit(kind, in, t), Verifies(kind, in, t),
           kind \in Sinks \cup {"arg", "transpose", "cast"} => t = Unranked
    PROVE  BuildType(kind, in, t)
<1>1. kind \in Elementwise => t \in {in[1], Unranked}
  <2> SUFFICES ASSUME kind \in Elementwise, IsRanked(t) PROVE t = in[1]
    BY DEF IsRanked
  <2>1. n = 2 /\ DOMAIN in = 1..n /\ IsRanked(in[1])
    BY DEF ArityOK, TypesFit
  <2>2. CompatibleTypes(in[1], t)
    BY <2>1 DEF Verifies
  <2> QED BY <2>1, <2>2 DEF CompatibleTypes, IsRanked
<1>2. kind = "matrix_mul" /\ IsRanked(t) => CanInfer(kind, in) /\ t = ResultShape(kind, in)
  BY DEF TypesFit, Verifies, CanInfer, ResultShape
<1>3. kind = "constant" => IsRanked(t)
  BY DEF TypesFit
<1>4. kind = "cast" => IsRanked(in[1])
  BY DEF TypesFit
<1> QED BY <1>1, <1>2, <1>3, <1>4 DEF BuildType

LEMMA BodyIsWellFormed ==
    ASSUME NEW p, BodyInv(p), Untyped(p), VerifiesBody(p)
    PROVE  WellFormed(Bare(p))
<1> DEFINE b == Bare(p)
           n == Len(p)
<1>1. p \in Seq(BodyOp) /\ p # << >> /\ n \in Nat /\ DOMAIN p = 1..n
  BY BodyFacts DEF BodyInv
<1>2. ASSUME NEW o \in 1..n
      PROVE  /\ b[o] \in Operation /\ b[o].kind = p[o].kind /\ b[o].args = p[o].args
             /\ b[o].type = p[o].type
  <2>1. b[o] = [kind |-> p[o].kind, args |-> p[o].args, type |-> p[o].type]
    BY <1>1 DEF Bare
  <2>2. p[o].kind \in Kinds /\ p[o].args \in Seq(Nat) /\ p[o].type \in Type
    BY <1>1, BodyFacts
  <2> HIDE DEF b
  <2> QED BY <2>1, <2>2 DEF Operation
<1>3. b \in Seq(Operation) /\ Len(b) = n /\ DOMAIN b = 1..n
  <2>1. b = [o \in 1..n |-> b[o]]
    BY <1>1 DEF Bare
  <2> HIDE DEF b
  <2>2. [o \in 1..n |-> b[o]] \in Seq(Operation) /\ Len([o \in 1..n |-> b[o]]) = n
    BY <1>1, <1>2, IsASeq
  <2>3. DOMAIN [o \in 1..n |-> b[o]] = 1..n
    OBVIOUS
  <2> QED BY <2>1, <2>2, <2>3
<1> HIDE DEF b, n
<1>4. ASSUME NEW o \in 1..n PROVE MayFollow(SubSeq(b, 1, o - 1), b[o])
  <2> DEFINE s == SubSeq(b, 1, o - 1)
             args == b[o].args
             in == [k \in DOMAIN args |-> s[args[k]].type]
             m == Len(args)
  <2>1. /\ s \in Seq(Operation) /\ Len(s) = o - 1 /\ \A i \in 1..(o - 1) : s[i] = b[i]
        /\ DOMAIN s = 1..(o - 1)
    BY <1>1, <1>3
  <2> HIDE DEF s
  <2>2. /\ OpFits(p, o) /\ p[o].kind \in Kinds /\ p[o].type \in Type
        /\ DOMAIN args = 1..m /\ m \in Nat /\ args = p[o].args
    <3>1. args = p[o].args
      BY <1>2
    <3> HIDE DEF args
    <3>2. o \in 1..Len(p) /\ OpFits(p, o)
      BY DEF BodyInv, n
    <3>3. /\ p[o].kind \in Kinds /\ p[o].type \in Type
          /\ DOMAIN args = 1..Len(args) /\ Len(args) \in Nat
      BY <1>1, <3>1, <3>2, BodyFacts
    <3> QED BY <3>1, <3>2, <3>3
  <2> HIDE DEF args, m
  <2>3. \A k \in 1..m : /\ args[k] \in 1..(o - 1) /\ args[k] \in 1..n
                        /\ p[args[k]].kind \notin Sinks
    <3>1. \A k \in 1..Len(p[o].args) :
             /\ p[o].args[k] \in 1..(o - 1) /\ p[o].args[k] \in 1..Len(p)
             /\ p[p[o].args[k]].kind \notin Sinks
      BY OperandFacts DEF n
    <3> QED BY <2>2, <3>1 DEF n, m, args
  <2>4. \A k \in 1..m : s[args[k]].type = p[args[k]].type /\ s[args[k]].kind = p[args[k]].kind
    BY <1>2, <2>1, <2>3
  <2>5. in = InTypes(p, o) /\ in \in [1..m -> Type]
    <3>1. m = Len(p[o].args)
      BY <2>2 DEF m
    <3>2. /\ InTypes(p, o) = [k \in 1..m |-> p[args[k]].type]
          /\ InTypes(p, o) \in [1..m -> Type]
      BY <1>1, <2>2, <2>3, <3>1, InTypesAre DEF n
    <3>3. in = [k \in 1..m |-> p[args[k]].type]
      BY <2>2, <2>4
    <3> QED BY <3>2, <3>3
  <2> HIDE DEF in
  <2>6. ArityOK(p[o].kind, m) /\ TypesFit(p[o].kind, in, p[o].type)
    BY <2>2, <2>5 DEF OpFits, m
  <2>7. Verifies(p[o].kind, in, p[o].type)
    BY <1>1, <2>5 DEF VerifiesBody, InTypes
  <2>8. p[o].kind \in Sinks \cup {"arg", "transpose", "cast"} => p[o].type = Unranked
    BY DEF Untyped, n
  <2>9. BuildType(p[o].kind, in, p[o].type)
    BY <2>2, <2>5, <2>6, <2>7, <2>8, BuiltType
  <2>10. p[o].kind = "arg" => \A i \in DOMAIN s : s[i].kind = "arg"
    <3> SUFFICES ASSUME p[o].kind = "arg", NEW i \in 1..(o - 1) PROVE s[i].kind = "arg"
      BY <2>1
    <3>1. i \in 1..n /\ i \in 1..o
      BY <1>1
    <3>2. p[i].kind = "arg"
      BY <3>1 DEF BodyInv, n
    <3> QED BY <1>2, <2>1, <3>1, <3>2
  <2>11. MayFollow(s, b[o]) <=>
           /\ b[o] \in Operation
           /\ ArityOK(b[o].kind, m)
           /\ b[o].kind = "arg" => \A i \in DOMAIN s : s[i].kind = "arg"
           /\ \A k \in DOMAIN args : args[k] \in 1..Len(s) /\ s[args[k]].kind \notin Sinks
           /\ BuildType(b[o].kind, in, b[o].type)
           /\ Verifies(b[o].kind, in, b[o].type)
    BY DEF MayFollow, in, args, m
  <2>12. \A k \in DOMAIN args : args[k] \in 1..Len(s) /\ s[args[k]].kind \notin Sinks
    BY <2>1, <2>2, <2>3, <2>4
  <2>13. MayFollow(s, b[o])
    BY <1>2, <2>6, <2>7, <2>9, <2>10, <2>11, <2>12
  <2> QED BY <2>13 DEF s
<1>5. WellFormed(b)
  BY <1>3, <1>4 DEF WellFormed
<1> QED BY <1>5 DEF b

(* What the code generator leaves.                                         *)
LEMMA GeneratedBody ==
    ASSUME NEW p, IsBody(p)
    PROVE  BodyInv(p) /\ Untyped(p)
<1> DEFINE b == Bare(p)
           n == Len(p)
           R == [kind : Kinds, args : Seq(Nat), type : Type, data : STRING]
<1>1. p \in Seq(R) /\ p # << >> /\ WellFormed(b) /\ \A o \in DOMAIN p : p[o].kind = "return" <=> o = Len(p)
  BY DEF IsBody
<1>2. n \in Nat /\ DOMAIN p = 1..n /\ n >= 1 /\ \A o \in 1..n : p[o] \in R
  <2> HIDE DEF R, b
  <2>1. n \in Nat /\ DOMAIN p = 1..n /\ n # 0
    BY <1>1, EmptySeq, LenProperties
  <2>2. \A o \in 1..n : p[o] \in R
    BY <1>1
  <2> QED BY <2>1, <2>2
<1>3. p \in Seq(BodyOp)
  <2>1. \A o \in 1..n : p[o] \in BodyOp
    BY <1>2 DEF BodyOp
  <2>2. p = [o \in 1..n |-> p[o]]
    BY <1>1, <1>2
  <2> QED BY <1>2, <2>1, <2>2, IsASeq
<1>4. ASSUME NEW o \in 1..n
      PROVE  b[o].kind = p[o].kind /\ b[o].args = p[o].args /\ b[o].type = p[o].type
  <2>1. b[o] = [kind |-> p[o].kind, args |-> p[o].args, type |-> p[o].type]
    BY <1>2 DEF Bare
  <2> HIDE DEF b
  <2> QED BY <2>1
<1>5. DOMAIN b = 1..n /\ b \in Seq(Operation) /\ Len(b) = n
  <2>1. DOMAIN b = 1..n
    BY <1>2 DEF Bare
  <2>2. b \in Seq(Operation)
    BY <1>1 DEF WellFormed
  <2> HIDE DEF b
  <2>3. DOMAIN b = 1..Len(b) /\ Len(b) \in Nat
    BY <2>2
  <2> QED BY <1>2, <2>1, <2>2, <2>3
<1> HIDE DEF b, n
<1>6. ASSUME NEW o \in 1..n
      PROVE  /\ OpFits(p, o)
             /\ p[o].kind = "arg" => \A u \in 1..o : p[u].kind = "arg"
             /\ p[o].kind \in Sinks \cup {"arg", "transpose", "cast"} => p[o].type = Unranked
  <2> DEFINE s == SubSeq(b, 1, o - 1)
             args == b[o].args
             in == [k \in DOMAIN args |-> s[args[k]].type]
             m == Len(args)
  <2>1. Len(s) = o - 1 /\ (\A i \in 1..(o - 1) : s[i] = b[i]) /\ DOMAIN s = 1..(o - 1)
    BY <1>2, <1>5
  <2>2. MayFollow(s, b[o])
    BY <1>1, <1>5 DEF WellFormed
  <2> HIDE DEF s
  <2>3. DOMAIN args = 1..m /\ m \in Nat /\ args = p[o].args
    BY <1>2, <1>3, <1>4, BodyFacts DEF n
  <2>4. /\ ArityOK(b[o].kind, m)
        /\ b[o].kind = "arg" => \A i \in DOMAIN s : s[i].kind = "arg"
        /\ \A k \in DOMAIN args : args[k] \in 1..Len(s) /\ s[args[k]].kind \notin Sinks
        /\ BuildType(b[o].kind, in, b[o].type)
    BY <2>2 DEF MayFollow
  <2> HIDE DEF args, m
  <2>5. \A k \in 1..m : /\ args[k] \in 1..(o - 1) /\ args[k] \in 1..n /\ p[args[k]].kind \notin Sinks
                        /\ s[args[k]].type = p[args[k]].type
    <3>1. ASSUME NEW i \in 1..(o - 1)
          PROVE  i \in 1..n /\ s[i].kind = p[i].kind /\ s[i].type = p[i].type
      <4>1. i \in 1..n
        BY <1>2
      <4>2. s[i] = b[i]
        BY <2>1
      <4> QED BY <1>4, <4>1, <4>2
    <3>2. \A k \in 1..m : args[k] \in 1..(o - 1) /\ s[args[k]].kind \notin Sinks
      BY <2>1, <2>3, <2>4
    <3> QED BY <3>1, <3>2
  <2>6. in = InTypes(p, o)
    <3>1. m = Len(p[o].args) /\ n = Len(p)
      BY <2>3 DEF m, n
    <3>2. InTypes(p, o) = [k \in 1..m |-> p[args[k]].type]
      <4>1. p # << >> /\ o \in 1..Len(p) /\ \A k \in 1..Len(p[o].args) : p[o].args[k] \in 1..Len(p)
        BY <1>1, <2>3, <2>5, <3>1
      <4>2. InTypes(p, o) = [k \in 1..Len(p[o].args) |-> p[p[o].args[k]].type]
        BY <1>3, <4>1, InTypesAre
      <4> QED BY <2>3, <3>1, <4>2
    <3>3. in = [k \in 1..m |-> p[args[k]].type]
      BY <2>3, <2>5
    <3> QED BY <3>2, <3>3
  <2> HIDE DEF in
  <2>7. BuildType(p[o].kind, in, p[o].type)
    BY <1>4, <2>4
  <2>8. TypesFit(p[o].kind, in, p[o].type)
    <3> DEFINE kind == p[o].kind
               t == p[o].type
    <3> HIDE DEF kind, t
    <3>1. BuildType(kind, in, t)
      BY <2>7 DEF kind, t
    <3>2. kind = "constant" => IsRanked(t)
      BY <3>1 DEF BuildType
    <3>3. kind = "cast" => IsRanked(in[1])
      BY <3>1 DEF BuildType
    <3>4. kind \in Elementwise /\ IsRanked(t) => IsRanked(in[1])
      BY <3>1 DEF BuildType, IsRanked
    <3>5. kind = "transpose" => ~ IsRanked(t)
      BY <3>1 DEF BuildType, IsRanked
    <3>6. kind = "matrix_mul" /\ IsRanked(t) =>
             /\ IsRanked(in[1]) /\ IsRanked(in[2])
             /\ Len(in[1]) = 1 \/ Len(in[2]) = 1 => Len(t) = 1
      <4> SUFFICES ASSUME kind = "matrix_mul", IsRanked(t)
                   PROVE  /\ IsRanked(in[1]) /\ IsRanked(in[2])
                          /\ Len(in[1]) = 1 \/ Len(in[2]) = 1 => Len(t) = 1
        OBVIOUS
      <4>1. CanInfer(kind, in) /\ t = ResultShape(kind, in)
        BY <3>1 DEF BuildType
      <4>2. /\ IsRanked(in[1]) /\ IsRanked(in[2]) /\ MatmulCompatible(in[1], in[2])
            /\ t = MatmulShape(in[1], in[2])
        BY <4>1 DEF CanInfer, ResultShape, Elementwise
      <4>3. in[1] \in Type /\ in[2] \in Type
        <5>1. m = 2
          BY <1>4, <2>4 DEF ArityOK, Elementwise, kind
        <5>2. 1 \in 1..m /\ 2 \in 1..m
          BY <5>1
        <5>3. \A k \in 1..m : s[args[k]].type \in Type
          BY <1>1, <1>3, <2>5, BodyFacts DEF n
        <5> QED BY <2>3, <5>2, <5>3 DEF in
      <4>4. in[1] \in Seq(Nat) /\ in[2] \in Seq(Nat)
        BY <4>2, <4>3 DEF IsRanked, Type, Shape
      <4> QED BY <4>2, <4>4, VectorProduct
    <3> QED BY <3>2, <3>3, <3>4, <3>5, <3>6 DEF TypesFit, kind, t
  <2>9. OpFits(p, o)
    BY <1>4, <2>3, <2>4, <2>5, <2>6, <2>8 DEF OpFits, m
  <2>10. p[o].kind = "arg" => \A u \in 1..o : p[u].kind = "arg"
    <3> SUFFICES ASSUME p[o].kind = "arg", NEW u \in 1..o PROVE p[u].kind = "arg"
      OBVIOUS
    <3>1. u = o \/ u \in 1..(o - 1)
      BY <1>2
    <3>2. u \in 1..(o - 1) => p[u].kind = "arg"
      <4>1. b[o].kind = "arg"
        BY <1>4
      <4>2. \A i \in DOMAIN s : s[i].kind = "arg"
        BY <2>4, <4>1
      <4>3. u \in 1..(o - 1) => s[u] = b[u] /\ u \in DOMAIN s /\ u \in 1..n
        BY <1>2, <2>1
      <4> QED BY <1>4, <4>2, <4>3
    <3> QED BY <3>1, <3>2
  <2>11. p[o].kind \in Sinks \cup {"arg", "transpose", "cast"} => p[o].type = Unranked
    BY <2>7 DEF BuildType
  <2> QED BY <2>9, <2>10, <2>11
<1>7. ASSUME NEW o \in 1..n PROVE p[o].kind = "return" <=> o = n
  <2>1. o \in DOMAIN p
    BY <1>2
  <2> QED BY <1>1, <2>1 DEF n
<1>8. BodyInv(p)
  BY <1>1, <1>3, <1>6, <1>7 DEF BodyInv, n
<1>9. Untyped(p)
  BY <1>6 DEF Untyped, n
<1> QED BY <1>8, <1>9


-----------------------------------------------------------------------------
(* The steps of main() in the order in which they can come, numbered, and  *)
(* those that the options ask for.                                         *)
Plan(o) ==
    << << "parse", "main" >>, << "mlirgen", "main" >>,
       << "canonicalize", "callee" >>, << "canonicalize", "main" >>,
       << "inline", "main" >>, << "canonicalize", "main" >>,
       << "infer", "callee" >>, << "canonicalize", "callee" >>, << "cse", "callee" >>,
       << "infer", "main" >>, << "canonicalize", "main" >>, << "cse", "main" >>,
       << "linalg", "main" >>, << "affine", "main" >>, << "llvm", "main" >>,
       << "translate", "main" >>,
       << IF o.emit = "ast" THEN "ast" ELSE IF o.emit = "none" THEN o.run ELSE "dump", "main" >> >>

InPlan(o, r) ==
    \/ r \in {1, 17}
    \/ r \in {2, 3, 4, 5, 6, 7, 10} /\ o.emit # "ast"
    \/ r \in {8, 9, 11, 12} /\ o.emit # "ast" /\ (o.emit \in {"toy", "linalg"} => o.opt)
    \/ r = 13 /\ o.emit = "linalg"
    \/ r = 14 /\ o.emit \in {"none", "affine", "LLVM", "llvm-ir"}
    \/ r = 15 /\ o.emit \in {"none", "LLVM", "llvm-ir"}
    \/ r = 16 /\ o.emit \in {"none", "llvm-ir"}

(* The steps s are those of the plan with the numbers R, in order.         *)
Items(plan) == {plan[r] : r \in 1..17}

Lists(s, plan, R) ==
    /\ s \in Seq(Items(plan))
    /\ \E h \in [1..Len(s) -> R] :
          /\ \A i, j \in 1..Len(s) : i < j => h[i] < h[j]
          /\ \A r \in R : \E i \in 1..Len(s) : h[i] = r
          /\ \A i \in 1..Len(s) : s[i] = plan[h[i]]

(* The numbers of the steps left when number m comes next: until the input *)
(* has been parsed nobody has looked at the functions.                     *)
Left(o, m, D) == {r \in 1..17 : InPlan(o, r) /\ r >= m /\ (m = 1 \/ Plan(o)[r][2] \in D)}

LEMMA ListsNone == ASSUME NEW plan PROVE Lists(<< >>, plan, {})
<1> DEFINE h == [i \in 1..0 |-> 0]
<1>1. << >> \in Seq(Items(plan)) /\ Len(<< >>) = 0
  OBVIOUS
<1>2. h \in [1..0 -> {}]
  OBVIOUS
<1> HIDE DEF h
<1> QED BY <1>1, <1>2 DEF Lists

LEMMA ListsOne ==
    ASSUME NEW plan, NEW r \in 1..17
    PROVE  Lists(<< plan[r] >>, plan, {r})
<1> DEFINE s == << plan[r] >>
           h == [i \in 1..1 |-> r]
           P == Items(plan)
<1>1. plan[r] \in P
  BY DEF Items
<1> HIDE DEF P
<1>2. s \in Seq(P) /\ Len(s) = 1 /\ s[1] = plan[r]
  BY <1>1
<1>3. h \in [1..1 -> {r}] /\ h[1] = r
  OBVIOUS
<1>4. \A i \in 1..1 : i = 1
  OBVIOUS
<1> HIDE DEF s, h
<1>5. \A i, j \in 1..1 : i < j => h[i] < h[j]
  BY <1>4
<1>6. Lists(s, plan, {r})
  BY <1>2, <1>3, <1>4, <1>5 DEF Lists, P
<1> QED BY <1>6 DEF s

(* One list after the other.                                               *)
LEMMA ListsConcat ==
    ASSUME NEW plan, NEW R \in SUBSET (1..17), NEW Q \in SUBSET (1..17),
           \A r \in R : \A q \in Q : r < q,
           NEW s, Lists(s, plan, R), NEW t, Lists(t, plan, Q)
    PROVE  Lists(s \o t, plan, R \cup Q)
<1> DEFINE P == Items(plan)
           a == Len(s)
           b == Len(t)
<1>1. s \in Seq(P) /\ t \in Seq(P)
  BY DEF Lists
<1> HIDE DEF P
<1>2. /\ s \o t \in Seq(P) /\ Len(s \o t) = a + b /\ a \in Nat /\ b \in Nat
      /\ \A k \in 1..(a + b) : (s \o t)[k] = IF k <= a THEN s[k] ELSE t[k - a]
  BY <1>1, ConcatProperties, LenProperties
<1>3. PICK f \in [1..a -> R] :
          /\ \A i, j \in 1..a : i < j => f[i] < f[j]
          /\ \A r \in R : \E i \in 1..a : f[i] = r
          /\ \A i \in 1..a : s[i] = plan[f[i]]
  BY DEF Lists
<1>4. PICK g \in [1..b -> Q] :
          /\ \A i, j \in 1..b : i < j => g[i] < g[j]
          /\ \A r \in Q : \E i \in 1..b : g[i] = r
          /\ \A i \in 1..b : t[i] = plan[g[i]]
  BY DEF Lists
<1> HIDE DEF a, b
<1> DEFINE h == [i \in 1..(a + b) |-> IF i <= a THEN f[i] ELSE g[i - a]]
           u == s \o t
<1>5. ASSUME NEW i \in 1..(a + b)
      PROVE  /\ i <= a => i \in 1..a /\ h[i] = f[i]
             /\ ~ (i <= a) => i - a \in 1..b /\ h[i] = g[i - a]
  BY <1>2
<1> HIDE DEF h, u
<1>6. ASSUME NEW i \in 1..(a + b) PROVE h[i] \in R \cup Q /\ u[i] = plan[h[i]]
  BY <1>2, <1>3, <1>4, <1>5 DEF u
<1>7. h \in [1..(a + b) -> R \cup Q]
  <2>1. h = [i \in 1..(a + b) |-> h[i]]
    BY DEF h
  <2> QED BY <1>6, <2>1
<1>8. ASSUME NEW i \in 1..(a + b), NEW j \in 1..(a + b), i < j PROVE h[i] < h[j]
  <2>1. CASE j <= a
    <3>1. i <= a
      BY <1>2, <1>8, <2>1
    <3>2. i \in 1..a /\ j \in 1..a /\ h[i] = f[i] /\ h[j] = f[j]
      BY <1>5, <2>1, <3>1
    <3> QED BY <1>3, <1>8, <3>2
  <2>2. CASE ~ (j <= a) /\ i <= a
    <3>1. i \in 1..a /\ h[i] = f[i] /\ j - a \in 1..b /\ h[j] = g[j - a]
      BY <1>5, <2>2
    <3>2. f[i] \in R /\ g[j - a] \in Q
      BY <1>3, <1>4, <3>1
    <3> QED BY <3>1, <3>2
  <2>3. CASE ~ (j <= a) /\ ~ (i <= a)
    <3>1. i - a \in 1..b /\ h[i] = g[i - a] /\ j - a \in 1..b /\ h[j] = g[j - a]
      BY <1>5, <2>3
    <3>2. i - a < j - a
      BY <1>2, <1>8
    <3> QED BY <1>4, <3>1, <3>2
  <2> QED BY <2>1, <2>2, <2>3
<1>9. ASSUME NEW r \in R \cup Q PROVE \E i \in 1..(a + b) : h[i] = r
  <2>1. CASE r \in R
    <3>1. PICK i \in 1..a : f[i] = r
      BY <1>3, <2>1
    <3>2. i \in 1..(a + b) /\ i <= a
      BY <1>2
    <3> QED BY <1>5, <3>1, <3>2
  <2>2. CASE r \in Q
    <3>1. PICK i \in 1..b : g[i] = r
      BY <1>4, <2>2
    <3>2. i + a \in 1..(a + b) /\ ~ (i + a <= a) /\ (i + a) - a = i
      BY <1>2
    <3>3. h[i + a] = g[i]
      BY <1>5, <3>2
    <3> QED BY <3>1, <3>2, <3>3
  <2> QED BY <2>1, <2>2
<1>10. Lists(u, plan, R \cup Q)
  <2>1. u \in Seq(P) /\ Len(u) = a + b
    BY <1>2 DEF u
  <2>2. /\ \A i, j \in 1..(a + b) : i < j => h[i] < h[j]
        /\ \A r \in R \cup Q : \E i \in 1..(a + b) : h[i] = r
        /\ \A i \in 1..(a + b) : u[i] = plan[h[i]]
    BY <1>6, <1>8, <1>9
  <2>3. u \in Seq(Items(plan))
    BY <2>1 DEF P
  <2>4. h \in [1..Len(u) -> R \cup Q]
    BY <1>7, <2>1
  <2>5. \A i, j \in 1..Len(u) : i < j => h[i] < h[j]
    BY <2>1, <2>2
  <2>6. \A r \in R \cup Q : \E i \in 1..Len(u) : h[i] = r
    BY <2>1, <2>2
  <2>7. \A i \in 1..Len(u) : u[i] = plan[h[i]]
    BY <2>1, <2>2
  <2> QED BY ONLY <2>3, <2>4, <2>5, <2>6, <2>7, Zenon DEF Lists
<1> QED BY <1>10 DEF u

(* The head of a list has the least number.                                *)
LEMMA ListsTail ==
    ASSUME NEW plan, NEW R \in SUBSET (1..17), NEW m \in R, \A r \in R : m <= r,
           NEW s, Lists(s, plan, R)
    PROVE  /\ s # << >> /\ Head(s) = plan[m]
           /\ Lists(Tail(s), plan, R \ {m})
<1> DEFINE P == Items(plan)
           n == Len(s)
           t == Tail(s)
<1>1. s \in Seq(P)
  BY DEF Lists
<1> HIDE DEF P
<1>2. PICK h \in [1..n -> R] :
          /\ \A i, j \in 1..n : i < j => h[i] < h[j]
          /\ \A r \in R : \E i \in 1..n : h[i] = r
          /\ \A i \in 1..n : s[i] = plan[h[i]]
  BY DEF Lists
<1>3. n \in Nat
  BY <1>1
<1>4. PICK k \in 1..n : h[k] = m
  BY <1>2
<1>5. n >= 1 /\ s # << >> /\ Head(s) = s[1] /\ t \in Seq(P) /\ Len(t) = n - 1
      /\ \A i \in 1..(n - 1) : t[i] = s[i + 1]
  <2>1. n >= 1
    BY <1>3, <1>4
  <2>2. s # << >>
    BY <2>1
  <2> QED BY <1>1, <2>1, <2>2, HeadTailProperties
<1> HIDE DEF n, t
<1>6. h[1] = m
  <2>1. 1 \in 1..n
    BY <1>3, <1>5
  <2>2. k = 1 \/ 1 < k
    BY <1>3
  <2>3. ~ (1 < k)
    <3>1. 1 < k => h[1] < h[k]
      BY <1>2, <2>1
    <3>2. h[1] \in R
      BY <1>2, <2>1
    <3>3. \A r \in R : r \in Int /\ m <= r /\ ~ (r < m)
      <4>1. \A r \in R : r \in Int
        OBVIOUS
      <4> QED BY <4>1
    <3> QED BY <1>4, <3>1, <3>2, <3>3
  <2> QED BY <1>4, <2>2, <2>3
<1> DEFINE g == [i \in 1..(n - 1) |-> h[i + 1]]
<1>7. ASSUME NEW i \in 1..(n - 1)
      PROVE  /\ i + 1 \in 1..n /\ g[i] = h[i + 1] /\ g[i] \in R \ {m}
             /\ t[i] = plan[g[i]]
  <2>1. i + 1 \in 1..n /\ 1 \in 1..n /\ 1 < i + 1
    BY <1>3
  <2>2. g[i] = h[i + 1]
    OBVIOUS
  <2> HIDE DEF g
  <2>3. h[1] < h[i + 1] /\ h[i + 1] \in R /\ t[i] = s[i + 1]
    BY <1>2, <1>5, <2>1
  <2>4. m \in Int
    OBVIOUS
  <2> QED BY <1>2, <1>6, <2>1, <2>2, <2>3, <2>4
<1>8. g \in [1..(n - 1) -> R \ {m}]
  <2>1. g = [i \in 1..(n - 1) |-> g[i]]
    OBVIOUS
  <2> HIDE DEF g
  <2> QED BY <1>7, <2>1
<1> HIDE DEF g
<1>9. ASSUME NEW i \in 1..(n - 1), NEW j \in 1..(n - 1), i < j PROVE g[i] < g[j]
  <2>1. i + 1 \in 1..n /\ j + 1 \in 1..n /\ i + 1 < j + 1
    BY <1>3, <1>9
  <2>2. h[i + 1] < h[j + 1]
    BY <1>2, <2>1
  <2> QED BY <1>7, <2>2
<1>10. ASSUME NEW r \in R \ {m} PROVE \E i \in 1..(n - 1) : g[i] = r
  <2>1. PICK i \in 1..n : h[i] = r
    BY <1>2
  <2>2. i # 1
    BY <1>6, <2>1
  <2>3. i - 1 \in 1..(n - 1) /\ (i - 1) + 1 = i
    BY <1>3, <2>2
  <2>4. g[i - 1] = h[i]
    BY <1>7, <2>3
  <2> QED BY <2>1, <2>3, <2>4
<1>11. Lists(t, plan, R \ {m})
  <2>1. /\ \A i, j \in 1..(n - 1) : i < j => g[i] < g[j]
        /\ \A r \in R \ {m} : \E i \in 1..(n - 1) : g[i] = r
        /\ \A i \in 1..(n - 1) : t[i] = plan[g[i]]
    BY <1>7, <1>9, <1>10
  <2>2. t \in Seq(Items(plan)) /\ Len(t) = n - 1
    BY <1>5 DEF P
  <2>3. g \in [1..Len(t) -> R \ {m}]
    BY <1>8, <2>2
  <2>4. \A i, j \in 1..Len(t) : i < j => g[i] < g[j]
    BY <2>1, <2>2
  <2>5. \A r \in R \ {m} : \E i \in 1..Len(t) : g[i] = r
    BY <2>1, <2>2
  <2>6. \A i \in 1..Len(t) : t[i] = plan[g[i]]
    BY <2>1, <2>2
  <2> QED BY ONLY <2>2, <2>3, <2>4, <2>5, <2>6, Zenon DEF Lists
<1>12. Head(s) = plan[m]
  <2>1. 1 \in 1..n
    BY <1>3, <1>5
  <2> QED BY <1>2, <1>5, <1>6, <2>1
<1> QED BY <1>5, <1>11, <1>12 DEF t


(* The steps for functions that are still there.                           *)
LEMMA ListsRemaining ==
    ASSUME NEW plan, NEW R \in SUBSET (1..17), R # {}, NEW s, Lists(s, plan, R),
           NEW m
    PROVE  Lists(Remaining(s, m), plan, {r \in R : plan[r][2] \in DOMAIN m})
<1> DEFINE n == Len(s)
           Part(k) == IF s[k][2] \in DOMAIN m THEN << s[k] >> ELSE << >>
           ss == [k \in DOMAIN s |-> Part(k)]
           f == CHOOSE g : IsFlat(g, ss, n)
<1>1. s \in Seq(Items(plan))
  BY DEF Lists
<1>2. PICK h \in [1..n -> R] :
          /\ \A i, j \in 1..n : i < j => h[i] < h[j]
          /\ \A r \in R : \E i \in 1..n : h[i] = r
          /\ \A i \in 1..n : s[i] = plan[h[i]]
  BY DEF Lists
<1>3. n \in Nat /\ DOMAIN s = 1..n /\ n >= 1
  <2>1. n \in Nat /\ DOMAIN s = 1..n
    BY <1>1
  <2>2. PICK r \in R : TRUE
    OBVIOUS
  <2>3. \E i \in 1..n : h[i] = r
    BY <1>2
  <2> QED BY <2>1, <2>3
<1>4. ss = [k \in 1..n |-> Part(k)]
  BY <1>3
<1>5. Remaining(s, m) = FlattenSeq(ss)
  BY DEF Remaining, If
<1> HIDE DEF ss
<1>6. Len(ss) = n
  BY <1>3, <1>4
<1>7. FlattenSeq(ss) = f[n]
  <2>1. n # 0
    BY <1>3
  <2> HIDE DEF n
  <2> QED BY <1>6, <2>1 DEF FlattenSeq, IsFlat
<1> HIDE DEF n
<1>8. IsFlat(f, ss, n)
  BY <1>3, FlatExists
<1> HIDE DEF f
<1>9. \A i \in 1..n : f[i] = IF i = 1 THEN Part(i) ELSE f[i - 1] \o Part(i)
  BY <1>4, <1>8 DEF IsFlat
<1> DEFINE K(i) == {r \in R : plan[r][2] \in DOMAIN m /\ \E j \in 1..i : h[j] = r}
           Own(i) == {r \in {h[i]} : plan[r][2] \in DOMAIN m}
           T == {i \in 0..n : i # 0 => Lists(f[i], plan, K(i))}
<1>10. ASSUME NEW i \in 1..n PROVE Lists(Part(i), plan, Own(i)) /\ h[i] \in R /\ h[i] \in 1..17
  <2>1. h[i] \in R /\ s[i] = plan[h[i]]
    BY <1>2
  <2>2. h[i] \in 1..17
    BY <2>1
  <2>3. CASE plan[h[i]][2] \in DOMAIN m
    <3>1. Part(i) = << plan[h[i]] >> /\ Own(i) = {h[i]}
      BY <2>1, <2>3
    <3> QED BY <2>1, <2>2, <3>1, ListsOne
  <2>4. CASE ~ (plan[h[i]][2] \in DOMAIN m)
    <3>1. Part(i) = << >> /\ Own(i) = {}
      BY <2>1, <2>4
    <3> QED BY <2>1, <2>2, <3>1, ListsNone
  <2> QED BY <2>3, <2>4
<1> HIDE DEF Part
<1>11. 0 \in T
  BY <1>3
<1>12. ASSUME NEW i \in 1..n, i - 1 \in T PROVE i \in T
  <2>1. i \in 0..n /\ i \in Int
    BY <1>3
  <2>2. CASE i = 1
    <3>1. f[i] = Part(i)
      BY <1>9, <2>2
    <3>2. K(i) = Own(i)
      <4>1. \A j \in 1..i : j = i
        BY <2>2
      <4>2. i \in 1..i
        BY <2>2
      <4> QED BY <1>10, <4>1, <4>2
    <3> QED BY <1>10, <2>1, <3>1, <3>2
  <2>3. CASE i # 1
    <3>1. f[i] = f[i - 1] \o Part(i)
      BY <1>9, <2>3
    <3>2. Lists(f[i - 1], plan, K(i - 1))
      BY <1>12, <2>1, <2>3
    <3>3. K(i) = K(i - 1) \cup Own(i)
      <4>1. \A j \in 1..i : j = i \/ j \in 1..(i - 1)
        BY <2>1
      <4>2. \A j \in 1..(i - 1) : j \in 1..i
        BY <2>1
      <4>3. i \in 1..i
        BY <2>1
      <4> QED BY <1>10, <4>1, <4>2, <4>3
    <3>4. ASSUME NEW r \in K(i - 1), NEW q \in Own(i) PROVE r < q
      <4>1. PICK j \in 1..(i - 1) : h[j] = r
        OBVIOUS
      <4>2. j \in 1..n /\ j < i /\ q = h[i]
        BY <1>3, <2>1
      <4> QED BY <1>2, <4>1, <4>2
    <3>5. K(i - 1) \in SUBSET (1..17) /\ Own(i) \in SUBSET (1..17)
      BY <1>10
    <3> HIDE DEF K, Own
    <3>6. Lists(f[i - 1] \o Part(i), plan, K(i - 1) \cup Own(i))
      BY <1>10, <3>2, <3>4, <3>5, ListsConcat
    <3>7. Lists(f[i], plan, K(i))
      BY <3>1, <3>3, <3>6
    <3> QED BY <2>1, <3>7
  <2> QED BY <2>2, <2>3
<1> HIDE DEF T, Own
<1>13. 0..n \subseteq T
  BY <1>3, <1>11, <1>12, UpTo
<1>14. n \in T /\ n # 0
  BY <1>3, <1>13
<1>15. K(n) = {r \in R : plan[r][2] \in DOMAIN m}
  BY <1>2
<1>16. Lists(f[n], plan, K(n))
  <2> HIDE DEF K
  <2> QED BY <1>14 DEF T
<1> QED BY <1>5, <1>7, <1>15, <1>16


(* A list of names, for one function.                                      *)
LEMMA ListsEach ==
    ASSUME NEW plan, NEW X, NEW names \in Seq(X), NEW g, NEW b \in Nat,
           \A k \in 1..Len(names) : b + k \in 1..17 /\ plan[b + k] = << names[k], g >>
    PROVE  Lists([k \in DOMAIN names |-> << names[k], g >>], plan, (b + 1)..(b + Len(names)))
<1> DEFINE n == Len(names)
           s == [k \in DOMAIN names |-> << names[k], g >>]
           h == [k \in 1..n |-> b + k]
           R == (b + 1)..(b + n)
<1>1. n \in Nat /\ DOMAIN names = 1..n
  OBVIOUS
<1>2. s = [k \in 1..n |-> << names[k], g >>]
  BY <1>1
<1> HIDE DEF n
<1>3. ASSUME NEW k \in 1..n PROVE s[k] = plan[h[k]] /\ s[k] \in Items(plan) /\ h[k] \in R /\ h[k] = b + k
  <2>1. b + k \in 1..17 /\ plan[b + k] = << names[k], g >>
    BY DEF n
  <2>2. s[k] = << names[k], g >> /\ h[k] = b + k
    BY <1>2
  <2>3. plan[b + k] \in Items(plan)
    BY <2>1 DEF Items
  <2>4. b + k \in R
    BY <1>1
  <2> HIDE DEF s, h, R
  <2> QED BY <2>1, <2>2, <2>3, <2>4
<1>4. s \in Seq(Items(plan)) /\ Len(s) = n
  <2>1. \A k \in 1..n : << names[k], g >> \in Items(plan)
    BY <1>2, <1>3
  <2> QED BY <1>1, <1>2, <2>1, IsASeq
<1>5. h \in [1..n -> R]
  BY <1>3
<1> HIDE DEF s, h
<1>6. \A i, j \in 1..n : i < j => h[i] < h[j]
  BY <1>1, <1>3
<1>7. ASSUME NEW r \in R PROVE \E i \in 1..n : h[i] = r
  <2>1. r - b \in 1..n /\ b + (r - b) = r
    BY <1>1
  <2> QED BY <1>3, <2>1
<1>8. /\ h \in [1..Len(s) -> R]
      /\ \A i, j \in 1..Len(s) : i < j => h[i] < h[j]
      /\ \A r \in R : \E i \in 1..Len(s) : h[i] = r
      /\ \A i \in 1..Len(s) : s[i] = plan[h[i]]
  BY <1>3, <1>4, <1>5, <1>6, <1>7
<1>9. s \in Seq(Items(plan))
  BY <1>4
<1>10. Lists(s, plan, R)
  BY ONLY <1>8, <1>9, Zenon DEF Lists
<1> QED BY <1>10 DEF s, R, n

LEMMA PlanFacts ==
    ASSUME NEW o
    PROVE  LET plan == Plan(o)
           IN  /\ plan[1] = << "parse", "main" >> /\ plan[2] = << "mlirgen", "main" >>
               /\ plan[3] = << "canonicalize", "callee" >> /\ plan[4] = << "canonicalize", "main" >>
               /\ plan[5] = << "inline", "main" >> /\ plan[6] = << "canonicalize", "main" >>
               /\ plan[7] = << "infer", "callee" >> /\ plan[8] = << "canonicalize", "callee" >>
               /\ plan[9] = << "cse", "callee" >> /\ plan[10] = << "infer", "main" >>
               /\ plan[11] = << "canonicalize", "main" >> /\ plan[12] = << "cse", "main" >>
               /\ plan[13] = << "linalg", "main" >> /\ plan[14] = << "affine", "main" >>
               /\ plan[15] = << "llvm", "main" >> /\ plan[16] = << "translate", "main" >>
               /\ plan[17] = << IF o.emit = "ast" THEN "ast"
                                ELSE IF o.emit = "none" THEN o.run ELSE "dump", "main" >>
<1> QED BY DEF Plan

(* The order of the actions.                                               *)
LEMMA ActionsInOrder ==
    ASSUME NEW o \in Options
    PROVE  /\ o.emit \in {"none", "ast", "toy", "linalg", "affine", "LLVM", "llvm-ir"}
           /\ o.run \in {"native", "jit"} /\ o.opt \in BOOLEAN
           /\ AtLeast(o, "affine") <=> o.emit \in {"affine", "LLVM", "llvm-ir"}
           /\ AtLeast(o, "LLVM") <=> o.emit \in {"LLVM", "llvm-ir"}
<1> DEFINE N(e) == CHOOSE n \in DOMAIN Actions : Actions[n] = e
<1>1. /\ DOMAIN Actions = 1..7
      /\ Actions[1] = "none" /\ Actions[2] = "ast" /\ Actions[3] = "toy" /\ Actions[4] = "linalg"
      /\ Actions[5] = "affine" /\ Actions[6] = "LLVM" /\ Actions[7] = "llvm-ir"
  BY DEF Actions
<1>2. \A k \in 1..7 : k = 1 \/ k = 2 \/ k = 3 \/ k = 4 \/ k = 5 \/ k = 6 \/ k = 7
  OBVIOUS
<1>3. o.emit \in Range(Actions) /\ o.run \in {"native", "jit"} /\ o.opt \in BOOLEAN
  BY DEF Options, Emits
<1>4. PICK k \in 1..7 : o.emit = Actions[k]
  BY <1>1, <1>3 DEF Range
<1>5. ASSUME NEW i \in 1..7, NEW j \in 1..7, Actions[i] = Actions[j] PROVE i = j
  BY <1>1, <1>2, <1>5
<1>6. ASSUME NEW i \in 1..7 PROVE N(Actions[i]) = i
  <2>1. N(Actions[i]) \in 1..7 /\ Actions[N(Actions[i])] = Actions[i]
    BY <1>1
  <2> HIDE DEF N
  <2> QED BY <1>5, <2>1
<1>7. AtLeast(o, "affine") <=> N(Actions[k]) >= N(Actions[5])
  BY <1>1, <1>4 DEF AtLeast
<1>8. AtLeast(o, "LLVM") <=> N(Actions[k]) >= N(Actions[6])
  BY <1>1, <1>4 DEF AtLeast
<1> HIDE DEF N
<1>9. (AtLeast(o, "affine") <=> k >= 5) /\ (AtLeast(o, "LLVM") <=> k >= 6)
  BY <1>6, <1>7, <1>8
<1> QED BY <1>1, <1>2, <1>3, <1>4, <1>9


(* The steps of main() are those of the plan that the options ask for.     *)
LEMMA StepsAreLeft ==
    ASSUME NEW o \in Options
    PROVE  Lists(Steps(o), Plan(o), {r \in 1..17 : InPlan(o, r)})
<1> DEFINE plan == Plan(o)
           emits == {"none", "ast", "toy", "linalg", "affine", "LLVM", "llvm-ir"}
           made == o.emit \in {"toy", "linalg"} => o.opt
           R(A, c) == {r \in A : c}
<1>1. o.emit \in emits
  BY ActionsInOrder
<1>2. /\ NeedLLVM(o) <=> o.emit \in {"none", "llvm-ir"}
      /\ (NeedLLVM(o) \/ AtLeast(o, "affine")) <=> o.emit \in {"none", "affine", "LLVM", "llvm-ir"}
      /\ LowersToLLVM(o) <=> o.emit \in {"none", "LLVM", "llvm-ir"}
      /\ NeedCanonicalizer(o) <=> o.opt \/ o.emit \in {"none", "affine", "LLVM", "llvm-ir"}
  BY ActionsInOrder DEF NeedLLVM, LowersToLLVM, NeedCanonicalizer
<1> DEFINE c == NeedCanonicalizer(o)
           inliner == ForAll(<< "canonicalize" >>)
           names == << "infer" >> \o If(c, << "canonicalize", "cse" >>)
           infers == ForAll(names)
           linalg == If(o.emit = "linalg", Module("linalg"))
           affine == If(NeedLLVM(o) \/ AtLeast(o, "affine"), Module("affine"))
           llvm == If(LowersToLLVM(o), Module("llvm"))
<1> HIDE DEF plan
<1>3. ASSUME NEW name, NEW r \in 1..17, plan[r] = << name, "main" >>
      PROVE  Lists(Module(name), plan, {r})
  <2>1. Module(name) = << plan[r] >>
    BY <1>3 DEF Module
  <2> QED BY <2>1, ListsOne
<1>4. ASSUME NEW name, NEW r \in 1..17, plan[r] = << name, "main" >>, NEW b \in BOOLEAN
      PROVE  Lists(If(b, Module(name)), plan, R({r}, b))
  <2>1. CASE b
    <3>1. If(b, Module(name)) = Module(name) /\ R({r}, b) = {r}
      BY <2>1 DEF If
    <3> QED BY <1>3, <1>4, <3>1
  <2>2. CASE ~ b
    <3>1. If(b, Module(name)) = << >> /\ R({r}, b) = {}
      BY <2>2 DEF If
    <3> QED BY <3>1, ListsNone
  <2> QED BY <2>1, <2>2
<1>5. Lists(inliner, plan, {3, 4})
  <2> DEFINE s == << "canonicalize" >>
             X == {"canonicalize"}
  <2>1. s \in Seq(X) /\ Len(s) = 1 /\ s[1] = "canonicalize"
    OBVIOUS
  <2> HIDE DEF s
  <2>2. \A k \in 1..Len(s) : 2 + k \in 1..17 /\ plan[2 + k] = << s[k], "callee" >>
    BY <2>1, PlanFacts DEF plan
  <2>3. \A k \in 1..Len(s) : 3 + k \in 1..17 /\ plan[3 + k] = << s[k], "main" >>
    BY <2>1, PlanFacts DEF plan
  <2> HIDE DEF X
  <2>4. Lists([k \in DOMAIN s |-> << s[k], "callee" >>], plan, (2 + 1)..(2 + Len(s)))
    BY <2>1, <2>2, ListsEach
  <2>5. Lists([k \in DOMAIN s |-> << s[k], "main" >>], plan, (3 + 1)..(3 + Len(s)))
    BY <2>1, <2>3, ListsEach
  <2>6. (2 + 1)..(2 + Len(s)) = {3} /\ (3 + 1)..(3 + Len(s)) = {4}
    BY <2>1
  <2>7. inliner = [k \in DOMAIN s |-> << s[k], "callee" >>] \o [k \in DOMAIN s |-> << s[k], "main" >>]
    BY DEF ForAll, s
  <2> DEFINE s1 == [k \in DOMAIN s |-> << s[k], "callee" >>]
             s2 == [k \in DOMAIN s |-> << s[k], "main" >>]
  <2> HIDE DEF s1, s2
  <2>10. Lists(s1, plan, {3}) /\ Lists(s2, plan, {4}) /\ inliner = s1 \o s2
    BY <2>4, <2>5, <2>6, <2>7 DEF s1, s2
  <2>11. {3} \in SUBSET (1..17) /\ {4} \in SUBSET (1..17) /\ \A i \in {3} : \A j \in {4} : i < j
    OBVIOUS
  <2>12. Lists(s1 \o s2, plan, {3} \cup {4})
    BY ONLY <2>10, <2>11, ListsConcat
  <2>8. Lists(inliner, plan, {3} \cup {4})
    BY <2>10, <2>12
  <2>9. {3} \cup {4} = {3, 4}
    OBVIOUS
  <2> QED BY <2>8, <2>9
<1>6. Lists(infers, plan, {7, 10} \cup R({8, 9, 11, 12}, c))
  <2> DEFINE X == {"infer", "canonicalize", "cse"}
             n == IF c THEN 3 ELSE 1
             A == (6 + 1)..(6 + n)
             B == (9 + 1)..(9 + n)
  <2>13. n = (IF c THEN 3 ELSE 1)
    OBVIOUS
  <2>1. /\ names \in Seq(X) /\ Len(names) = n /\ names[1] = "infer"
        /\ n = 3 => names[2] = "canonicalize" /\ names[3] = "cse"
    <3>1. CASE c
      <4>1. If(c, << "canonicalize", "cse" >>) = << "canonicalize", "cse" >> /\ n = 3
        BY <3>1 DEF If
      <4> DEFINE t == << "canonicalize", "cse" >>
                 u == << "infer" >>
      <4>2. names = u \o t
        BY <4>1
      <4>3. u \in Seq(X) /\ Len(u) = 1 /\ u[1] = "infer"
        OBVIOUS
      <4>4. t \in Seq(X) /\ Len(t) = 2 /\ t[1] = "canonicalize" /\ t[2] = "cse"
        OBVIOUS
      <4> HIDE DEF t, u, X, names, n
      <4>7. /\ u \o t \in Seq(X)
            /\ Len(u \o t) = Len(u) + Len(t)
            /\ \A i \in 1..Len(u) + Len(t) : (u \o t)[i] = IF i <= Len(u) THEN u[i] ELSE t[i - Len(u)]
        BY ONLY <4>3, <4>4, ConcatProperties
      <4>5. names \in Seq(X) /\ Len(names) = 3
        BY ONLY <4>2, <4>3, <4>4, <4>7
      <4>6. names[1] = u[1] /\ names[2] = t[1] /\ names[3] = t[2]
        <5>1. /\ (u \o t)[1] = IF 1 <= 1 THEN u[1] ELSE t[1 - 1]
              /\ (u \o t)[2] = IF 2 <= 1 THEN u[2] ELSE t[2 - 1]
              /\ (u \o t)[3] = IF 3 <= 1 THEN u[3] ELSE t[3 - 1]
          BY ONLY <4>3, <4>4, <4>7
        <5>2. (u \o t)[1] = u[1] /\ (u \o t)[2] = t[1] /\ (u \o t)[3] = t[2]
          BY ONLY <5>1
        <5> QED BY ONLY <4>2, <5>2
      <4> QED BY ONLY <4>1, <4>3, <4>4, <4>5, <4>6
    <3>2. CASE ~ c
      <4>1. If(c, << "canonicalize", "cse" >>) = << >> /\ n = 1
        BY <3>2 DEF If
      <4>2. names = << "infer" >> \o << >>
        BY <4>1
      <4>3. << "infer" >> \o << >> = << "infer" >>
        OBVIOUS
      <4>4. << "infer" >> \in Seq(X) /\ Len(<< "infer" >>) = 1 /\ << "infer" >>[1] = "infer"
        OBVIOUS
      <4> QED BY ONLY <4>1, <4>2, <4>3, <4>4
    <3> QED BY <3>1, <3>2
  <2> HIDE DEF names, X, c, n
  <2>14. n = 3 \/ n = 1
    BY <2>13
  <2>9. \A k \in 1..n : k = 1 \/ (n = 3 /\ k = 2) \/ (n = 3 /\ k = 3)
    <3> TAKE k \in 1..n
    <3>1. CASE n = 3
      <4>1. k \in 1..3
        BY <3>1
      <4> QED BY <3>1, <4>1
    <3>2. CASE n = 1
      <4>1. k \in 1..1
        BY <3>2
      <4> QED BY <4>1
    <3> QED BY <2>14, <3>1, <3>2
  <2>10. /\ plan[6 + 1] = << "infer", "callee" >> /\ plan[6 + 2] = << "canonicalize", "callee" >>
         /\ plan[6 + 3] = << "cse", "callee" >> /\ plan[9 + 1] = << "infer", "main" >>
         /\ plan[9 + 2] = << "canonicalize", "main" >> /\ plan[9 + 3] = << "cse", "main" >>
    BY PlanFacts DEF plan
  <2>2. \A k \in 1..Len(names) : 6 + k \in 1..17 /\ plan[6 + k] = << names[k], "callee" >>
    BY <2>1, <2>9, <2>10, <2>13
  <2>3. \A k \in 1..Len(names) : 9 + k \in 1..17 /\ plan[9 + k] = << names[k], "main" >>
    BY <2>1, <2>9, <2>10, <2>13
  <2>4. Lists([k \in DOMAIN names |-> << names[k], "callee" >>], plan, (6 + 1)..(6 + Len(names)))
    BY <2>1, <2>2, ListsEach
  <2>5. Lists([k \in DOMAIN names |-> << names[k], "main" >>], plan, (9 + 1)..(9 + Len(names)))
    BY <2>1, <2>3, ListsEach
  <2>6. /\ A = (6 + 1)..(6 + Len(names)) /\ B = (9 + 1)..(9 + Len(names))
        /\ A \in SUBSET (1..17) /\ B \in SUBSET (1..17)
        /\ \A i \in A : \A j \in B : i < j
        /\ A \cup B = {7, 10} \cup R({8, 9, 11, 12}, c)
    <3>1. A = (6 + 1)..(6 + Len(names)) /\ B = (9 + 1)..(9 + Len(names))
      BY <2>1
    <3>2. CASE c
      <4>1. A = 7..9 /\ B = 10..12 /\ R({8, 9, 11, 12}, c) = {8, 9, 11, 12}
        BY <2>13, <3>2
      <4> HIDE DEF A, B, R
      <4> QED BY <3>1, <4>1
    <3>3. CASE ~ c
      <4>1. A = 7..7 /\ B = 10..10 /\ R({8, 9, 11, 12}, c) = {}
        BY <2>13, <3>3
      <4> HIDE DEF A, B, R
      <4> QED BY <3>1, <4>1
    <3> QED BY <3>2, <3>3
  <2>7. infers = [k \in DOMAIN names |-> << names[k], "callee" >>]
                   \o [k \in DOMAIN names |-> << names[k], "main" >>]
    BY DEF ForAll
  <2> HIDE DEF A, B
  <2> DEFINE s1 == [k \in DOMAIN names |-> << names[k], "callee" >>]
             s2 == [k \in DOMAIN names |-> << names[k], "main" >>]
  <2> HIDE DEF s1, s2
  <2>11. Lists(s1, plan, A) /\ Lists(s2, plan, B) /\ infers = s1 \o s2
    BY <2>4, <2>5, <2>6, <2>7 DEF s1, s2
  <2>12. Lists(s1 \o s2, plan, A \cup B)
    BY ONLY <2>6, <2>11, ListsConcat
  <2>8. Lists(infers, plan, A \cup B)
    BY <2>11, <2>12
  <2> QED BY <2>6, <2>8
<1> HIDE DEF c, inliner, names, infers
<1>7. ASSUME NEW s, NEW A \in SUBSET (1..17), Lists(s, plan, A),
             NEW t, NEW B \in SUBSET (1..17), Lists(t, plan, B),
             \A i \in A : \A j \in B : i < j, NEW C, C = A \cup B
      PROVE  Lists(s \o t, plan, C)
  BY <1>7, ListsConcat
<1> DEFINE A2 == {3, 4, 5, 6}
           A3 == {3, 4, 5, 6, 7, 10} \cup R({8, 9, 11, 12}, c)
           L13 == o.emit = "linalg"
           L14 == NeedLLVM(o) \/ AtLeast(o, "affine")
           L15 == LowersToLLVM(o)
           A4 == A3 \cup R({13}, L13)
           A5 == A4 \cup R({14}, L14)
           A6 == A5 \cup R({15}, L15)
<1>8. Lists(InlinerSteps, plan, A2)
  <2>1. Lists(Module("inline"), plan, {5}) /\ Lists(Module("canonicalize"), plan, {6})
    BY <1>3, PlanFacts DEF plan
  <2>2. Lists(inliner \o Module("inline"), plan, {3, 4, 5})
    BY <1>5, <1>7, <2>1
  <2>3. Lists((inliner \o Module("inline")) \o Module("canonicalize"), plan, A2)
    BY <1>7, <2>1, <2>2
  <2> QED BY <2>3 DEF InlinerSteps, inliner
<1>9. Lists(InlinerSteps \o infers, plan, A3)
  <2> DEFINE B == {7, 10} \cup R({8, 9, 11, 12}, c)
  <2>1. A2 \in SUBSET (1..17) /\ B \in SUBSET (1..17) /\ A3 = A2 \cup B
        /\ \A i \in A2 : \A j \in B : i < j
    OBVIOUS
  <2>2. Lists(infers, plan, B)
    BY <1>6
  <2> HIDE DEF B, A2, A3
  <2> QED BY <1>7, <1>8, <2>1, <2>2
<1>10. /\ Lists(linalg, plan, R({13}, L13)) /\ Lists(affine, plan, R({14}, L14))
       /\ Lists(llvm, plan, R({15}, L15))
  <2>1. L13 \in BOOLEAN /\ L14 \in BOOLEAN /\ L15 \in BOOLEAN
    BY DEF NeedLLVM, AtLeast, LowersToLLVM
  <2>2. plan[13] = << "linalg", "main" >> /\ plan[14] = << "affine", "main" >> /\ plan[15] = << "llvm", "main" >>
    BY PlanFacts DEF plan
  <2>3. 13 \in 1..17 /\ 14 \in 1..17 /\ 15 \in 1..17
    OBVIOUS
  <2> HIDE DEF L13, L14, L15
  <2>4. Lists(If(L13, Module("linalg")), plan, R({13}, L13))
    BY <1>4, <2>1, <2>2, <2>3
  <2>5. Lists(If(L14, Module("affine")), plan, R({14}, L14))
    BY <1>4, <2>1, <2>2, <2>3
  <2>6. Lists(If(L15, Module("llvm")), plan, R({15}, L15))
    BY <1>4, <2>1, <2>2, <2>3
  <2> QED BY <2>4, <2>5, <2>6 DEF L13, L14, L15
<1>11. Passes(o) = (((InlinerSteps \o infers) \o linalg) \o affine) \o llvm
  BY DEF Passes, infers, names, c
<1> HIDE DEF linalg, affine, llvm, L13, L14, L15
<1>12. Lists(Passes(o), plan, A6)
  <2>1. /\ A3 \in SUBSET (1..17) /\ R({13}, L13) \in SUBSET (1..17)
        /\ \A i \in A3 : \A j \in R({13}, L13) : i < j
    OBVIOUS
  <2>2. /\ A4 \in SUBSET (1..17) /\ R({14}, L14) \in SUBSET (1..17)
        /\ \A i \in A4 : \A j \in R({14}, L14) : i < j
    OBVIOUS
  <2>3. /\ A5 \in SUBSET (1..17) /\ R({15}, L15) \in SUBSET (1..17)
        /\ \A i \in A5 : \A j \in R({15}, L15) : i < j
    OBVIOUS
  <2> HIDE DEF A3, R
  <2>4. Lists((InlinerSteps \o infers) \o linalg, plan, A4)
    BY <1>7, <1>9, <1>10, <2>1
  <2> HIDE DEF A4
  <2>5. Lists(((InlinerSteps \o infers) \o linalg) \o affine, plan, A5)
    BY <1>7, <1>10, <2>2, <2>4
  <2> HIDE DEF A5
  <2>6. Lists((((InlinerSteps \o infers) \o linalg) \o affine) \o llvm, plan, A6)
    BY <1>7, <1>10, <2>3, <2>5
  <2> QED BY <1>11, <2>6
<1>13. Lists(Module("parse"), plan, {1})
  BY <1>3, PlanFacts DEF plan
<1>14. CASE o.emit = "ast"
  <2>1. Lists(Module("ast"), plan, {17})
    BY <1>3, <1>14, PlanFacts DEF plan
  <2>2. Lists(Module("parse") \o Module("ast"), plan, {1, 17})
    BY <1>7, <1>13, <2>1
  <2>3. {r \in 1..17 : InPlan(o, r)} = {1, 17}
    BY <1>14 DEF InPlan
  <2>4. Steps(o) = Module("parse") \o Module("ast")
    BY <1>14 DEF Steps
  <2> QED BY <2>2, <2>3, <2>4 DEF plan
<1>15. CASE o.emit # "ast"
  <2> DEFINE jit == o.emit \in {"none", "llvm-ir"}
             last == IF o.emit \notin {"none", "llvm-ir"} THEN Module("dump")
                     ELSE Module("translate")
                          \o (IF o.emit = "llvm-ir" THEN Module("dump")
                              ELSE Module(o.run))
             A7 == {2} \cup A6
             A8 == A7 \cup ({17} \cup R({16}, jit))
             A9 == {1} \cup A8
  <2>1. Steps(o) = Module("parse") \o ((Module("mlirgen") \o Passes(o)) \o last)
    BY <1>15 DEF Steps
  <2>2. Lists(Module("mlirgen") \o Passes(o), plan, A7)
    <3>1. Lists(Module("mlirgen"), plan, {2})
      BY <1>3, PlanFacts DEF plan
    <3>2. {2} \in SUBSET (1..17) /\ A6 \in SUBSET (1..17) /\ \A i \in {2} : \A j \in A6 : i < j
      OBVIOUS
    <3> HIDE DEF A6
    <3> QED BY <1>7, <1>12, <3>1, <3>2
  <2>3. Lists(last, plan, {17} \cup R({16}, jit))
    <3>1. CASE o.emit \notin {"none", "llvm-ir"}
      <4>1. last = Module("dump") /\ {17} \cup R({16}, jit) = {17}
        BY <3>1
      <4>3. plan[17] = << "dump", "main" >>
        BY <1>15, <3>1, PlanFacts DEF plan
      <4>2. Lists(Module("dump"), plan, {17})
        BY <1>3, <4>3
      <4> QED BY <4>1, <4>2
    <3>2. CASE o.emit \in {"none", "llvm-ir"}
      <4> DEFINE name == IF o.emit = "llvm-ir" THEN "dump" ELSE o.run
      <4>1. last = Module("translate") \o Module(name) /\ {17} \cup R({16}, jit) = {16, 17}
        BY <3>2
      <4>2. Lists(Module("translate"), plan, {16})
        BY <1>3, PlanFacts DEF plan
      <4>3. plan[17] = << name, "main" >>
        BY <1>15, <3>2, PlanFacts DEF plan
      <4> HIDE DEF name
      <4>4. Lists(Module(name), plan, {17})
        BY <1>3, <4>3
      <4>5. Lists(Module("translate") \o Module(name), plan, {16, 17})
        BY <1>7, <4>2, <4>4
      <4> QED BY <4>1, <4>5
    <3> QED BY <3>1, <3>2
  <2> HIDE DEF last
  <2>4. Lists((Module("mlirgen") \o Passes(o)) \o last, plan, A8)
    <3> DEFINE B == {17} \cup R({16}, jit)
    <3>1. A7 \in SUBSET (1..17) /\ B \in SUBSET (1..17) /\ \A i \in A7 : \A j \in B : i < j
      OBVIOUS
    <3>2. Lists(last, plan, B)
      BY <2>3
    <3> HIDE DEF A7, B
    <3>3. Lists((Module("mlirgen") \o Passes(o)) \o last, plan, A7 \cup B)
      BY <1>7, <2>2, <3>1, <3>2
    <3> QED BY <3>3 DEF B
  <2>5. Lists(Steps(o), plan, A9)
    <3>1. {1} \in SUBSET (1..17) /\ A8 \in SUBSET (1..17) /\ \A i \in {1} : \A j \in A8 : i < j
      OBVIOUS
    <3> HIDE DEF A8
    <3> DEFINE s == Module("parse")
               t == (Module("mlirgen") \o Passes(o)) \o last
    <3>2. Lists(s, plan, {1}) /\ Lists(t, plan, A8) /\ Steps(o) = s \o t
      BY <1>13, <2>1, <2>4
    <3> HIDE DEF s, t
    <3>3. Lists(s \o t, plan, {1} \cup A8)
      BY ONLY <3>1, <3>2, ListsConcat
    <3> QED BY <3>2, <3>3
  <2>6. A9 = {r \in 1..17 : InPlan(o, r)}
    <3>1. A9 \in SUBSET (1..17)
      OBVIOUS
    <3>2. /\ c <=> (o.emit \in {"toy", "linalg"} => o.opt)
          /\ L13 <=> o.emit = "linalg"
          /\ L14 <=> o.emit \in {"none", "affine", "LLVM", "llvm-ir"}
          /\ L15 <=> o.emit \in {"none", "LLVM", "llvm-ir"}
          /\ jit <=> o.emit \in {"none", "llvm-ir"}
      BY <1>1, <1>2, <1>15 DEF L13, L14, L15, c
    <3> HIDE DEF jit, c
    <3>3. ASSUME NEW r \in 1..17 PROVE r \in A9 <=> InPlan(o, r)
      <4>1. CASE r \in {1, 2, 3, 4, 5, 6, 7, 10, 17}
        <5>1. r \in A9
          BY <4>1
        <5>2. InPlan(o, r)
          BY <1>15, <4>1 DEF InPlan
        <5> QED BY <5>1, <5>2
      <4>2. CASE r \in {8, 9, 11, 12}
        <5>1. r \in A9 <=> c
          BY <4>2
        <5>2. InPlan(o, r) <=> (o.emit \in {"toy", "linalg"} => o.opt)
          BY <1>15, <4>2 DEF InPlan
        <5> QED BY <3>2, <5>1, <5>2
      <4>3. CASE r = 13
        <5>1. r \in A9 <=> L13
          BY <4>3
        <5>2. InPlan(o, r) <=> o.emit = "linalg"
          BY <4>3 DEF InPlan
        <5> QED BY <3>2, <5>1, <5>2
      <4>4. CASE r = 14
        <5>1. r \in A9 <=> L14
          BY <4>4
        <5>2. InPlan(o, r) <=> o.emit \in {"none", "affine", "LLVM", "llvm-ir"}
          BY <4>4 DEF InPlan
        <5> QED BY <3>2, <5>1, <5>2
      <4>5. CASE r = 15
        <5>1. r \in A9 <=> L15
          BY <4>5
        <5>2. InPlan(o, r) <=> o.emit \in {"none", "LLVM", "llvm-ir"}
          BY <4>5 DEF InPlan
        <5> QED BY <3>2, <5>1, <5>2
      <4>6. CASE r = 16
        <5>1. r \in A9 <=> jit
          BY <4>6
        <5>2. InPlan(o, r) <=> o.emit \in {"none", "llvm-ir"}
          BY <4>6 DEF InPlan
        <5> QED BY <3>2, <5>1, <5>2
      <4> QED BY <4>1, <4>2, <4>3, <4>4, <4>5, <4>6
    <3> HIDE DEF A9
    <3> QED BY <3>1, <3>3
  <2> QED BY <2>5, <2>6 DEF plan
<1> QED BY <1>14, <1>15


-----------------------------------------------------------------------------
(* The block arguments of a body are its first operations.                 *)
LEMMA FormalsFirst ==
    ASSUME NEW f, BodyInv(f)
    PROVE  /\ Cardinality(Formals(f)) \in 0..(Len(f) - 1)
           /\ \A v \in 1..Len(f) : f[v].kind = "arg" <=> v <= Cardinality(Formals(f))
<1> DEFINE A(i) == {v \in 1..i : f[v].kind = "arg"}
           T == {i \in 0..Len(f) : \E n \in 0..i : A(i) = 1..n}
<1>1. /\ Len(f) \in Nat /\ Len(f) >= 1 /\ DOMAIN f = 1..Len(f)
      /\ f[Len(f)].kind # "arg"
      /\ \A o \in 1..Len(f) : f[o].kind = "arg" => \A u \in 1..o : f[u].kind = "arg"
  <2>1. f \in Seq(BodyOp) /\ f # << >> /\ f[Len(f)].kind = "return"
    BY ReturnIsLast DEF BodyInv
  <2> QED BY <2>1, BodyFacts DEF BodyInv
<1>2. 0 \in T
  <2>1. A(0) = 1..0 /\ 0 \in 0..0
    OBVIOUS
  <2> QED BY <1>1, <2>1
<1>3. ASSUME NEW i \in 1..Len(f), i - 1 \in T PROVE i \in T
  <2>1. PICK n \in 0..(i - 1) : A(i - 1) = 1..n
    BY <1>3
  <2>2. CASE f[i].kind = "arg"
    <3>1. A(i) = 1..i
      BY <1>1, <2>2
    <3>2. i \in 0..i /\ i \in 0..Len(f)
      BY <1>1
    <3> QED BY <3>1, <3>2
  <2>3. CASE f[i].kind # "arg"
    <3>1. A(i) = A(i - 1)
      <4>1. \A v \in 1..i : v = i \/ v \in 1..(i - 1)
        BY <1>1
      <4>2. \A v \in 1..(i - 1) : v \in 1..i
        BY <1>1
      <4> QED BY <2>3, <4>1, <4>2
    <3>2. n \in 0..i /\ i \in 0..Len(f)
      BY <1>1
    <3> HIDE DEF A
    <3> QED BY <2>1, <3>1, <3>2
  <2> QED BY <2>2, <2>3
<1>4. Len(f) \in T
  <2> HIDE DEF T
  <2>1. 0..Len(f) \subseteq T
    BY <1>1, <1>2, <1>3, UpTo
  <2> QED BY <1>1, <2>1
<1>5. PICK n \in 0..Len(f) : A(Len(f)) = 1..n
  BY <1>4
<1>6. Formals(f) = 1..n
  BY <1>1, <1>5 DEF Formals
<1>7. Cardinality(1..n) = n
  BY FS_Interval
<1>8. \A v \in 1..Len(f) : f[v].kind = "arg" <=> v \in 1..n
  BY <1>5
<1>9. n # Len(f)
  <2>1. Len(f) \in 1..Len(f)
    BY <1>1
  <2> QED BY <1>1, <1>8, <2>1
<1> HIDE DEF A, T
<1>10. Cardinality(Formals(f)) = n
  BY <1>6, <1>7
<1>12. Len(f) \in Nat
  BY <1>1
<1>11. n \in 0..(Len(f) - 1)
  BY <1>9, <1>12
<1> QED BY <1>8, <1>10, <1>11

(* The elements of N, in order.                                            *)
Listed(n, N) == FlattenSeq([k \in 1..n |-> IF k \in N THEN << k >> ELSE << >>])

LEMMA ListedAre ==
    ASSUME NEW n \in Nat, NEW N \in SUBSET (1..n)
    PROVE  /\ Listed(n, N) \in Seq(N)
           /\ \A v \in N : \E c \in 1..Len(Listed(n, N)) : Listed(n, N)[c] = v
<1> DEFINE Part(k) == IF k \in N THEN << k >> ELSE << >>
           ss == [k \in 1..n |-> Part(k)]
           f == CHOOSE g : IsFlat(g, ss, n)
           Good(s, i) == s \in Seq(N) /\ \A v \in N : v <= i => \E c \in 1..Len(s) : s[c] = v
           T == {i \in 0..n : i # 0 => Good(f[i], i)}
<1>1. Len(ss) = n /\ Listed(n, N) = FlattenSeq(ss)
  BY DEF Listed
<1>2. ASSUME NEW i \in 1..n
      PROVE  Part(i) \in Seq(N) /\ (i \in N => Len(Part(i)) = 1 /\ Part(i)[1] = i)
  BY <1>2
<1>3. CASE n = 0
  <2>1. FlattenSeq(ss) = ss
    BY <1>1, <1>3 DEF FlattenSeq
  <2>2. ss = << >> /\ N = {}
    BY <1>3
  <2>3. << >> \in Seq(N)
    OBVIOUS
  <2> QED BY <1>1, <2>1, <2>2, <2>3
<1>4. CASE n # 0
  <2>1. FlattenSeq(ss) = f[n]
    <3> HIDE DEF ss
    <3> QED BY <1>1, <1>4 DEF FlattenSeq, IsFlat
  <2>2. IsFlat(f, ss, n)
    <3> HIDE DEF ss
    <3> QED BY FlatExists
  <2> HIDE DEF f
  <2>3. \A i \in 1..n : f[i] = IF i = 1 THEN Part(i) ELSE f[i - 1] \o Part(i)
    BY <2>2 DEF IsFlat
  <2> HIDE DEF Part, ss
  <2>4. 0 \in T
    OBVIOUS
  <2>5. ASSUME NEW i \in 1..n, i - 1 \in T PROVE i \in T
    <3>1. CASE i = 1
      <4>1. f[i] = Part(i)
        BY <2>3, <3>1
      <4>2. Good(Part(i), i)
        <5>1. \A v \in N : v <= i => v = i
          BY <3>1
        <5> QED BY <1>2, <5>1
      <4> QED BY <4>1, <4>2
    <3>2. CASE i # 1
      <4> DEFINE s == f[i - 1]
                 t == Part(i)
      <4>1. f[i] = s \o t
        BY <2>3, <3>2
      <4>2. Good(s, i - 1)
        BY <2>5, <3>2
      <4>3. t \in Seq(N) /\ (i \in N => Len(t) = 1 /\ t[1] = i)
        BY <1>2
      <4> HIDE DEF s, t
      <4>4. /\ s \o t \in Seq(N) /\ Len(s) \in Nat /\ Len(t) \in Nat
            /\ Len(s \o t) = Len(s) + Len(t)
            /\ \A k \in 1..Len(s) + Len(t) : (s \o t)[k] = IF k <= Len(s) THEN s[k] ELSE t[k - Len(s)]
        BY <4>2, <4>3, ConcatProperties
      <4>5. ASSUME NEW v \in N, v <= i PROVE \E c \in 1..Len(s \o t) : (s \o t)[c] = v
        <5>1. CASE v = i
          <6>1. Len(t) = 1 /\ t[1] = i
            BY <4>3, <5>1
          <6>2. Len(s) + 1 \in 1..Len(s) + Len(t) /\ ~ (Len(s) + 1 <= Len(s)) /\ (Len(s) + 1) - Len(s) = 1
            BY <4>4, <6>1
          <6>3. (s \o t)[Len(s) + 1] = t[1]
            BY <4>4, <6>2
          <6> QED BY <4>4, <5>1, <6>1, <6>2, <6>3
        <5>2. CASE v # i
          <6>1. v <= i - 1
            BY <4>5, <5>2
          <6>2. PICK c \in 1..Len(s) : s[c] = v
            BY <4>2, <6>1
          <6>3. c \in 1..Len(s) + Len(t) /\ c <= Len(s)
            BY <4>4
          <6>4. (s \o t)[c] = s[c]
            BY <4>4, <6>3
          <6> QED BY <4>4, <6>2, <6>3, <6>4
        <5> QED BY <5>1, <5>2
      <4>6. Good(s \o t, i)
        BY <4>4, <4>5
      <4>7. i \in 0..n
        OBVIOUS
      <4> HIDE DEF Good, s, t
      <4> QED BY <4>1, <4>6, <4>7
    <3> QED BY <3>1, <3>2
  <2>6. 0..n \subseteq T
    <3> HIDE DEF T
    <3> QED BY <2>4, <2>5, UpTo
  <2>7. Good(f[n], n)
    BY <1>4, <2>6
  <2> QED BY <1>1, <2>1, <2>7
<1> QED BY <1>3, <1>4


(* The operations of p with the operands that g gives new names.           *)
Renamed(p, g) == [u \in DOMAIN p |-> [p[u] EXCEPT !.args = [k \in DOMAIN @ |-> g[@[k]]]]]

IsRenamed(r, p, g) ==
    /\ r \in Seq(BodyOp) /\ Len(r) = Len(p)
    /\ \A u \in 1..Len(p) :
          /\ r[u].kind = p[u].kind /\ r[u].type = p[u].type /\ Len(r[u].args) = Len(p[u].args)
          /\ \A k \in 1..Len(p[u].args) : r[u].args[k] = g[p[u].args[k]]

LEMMA RenamedOps ==
    ASSUME NEW p, BodyInv(p), NEW g \in [1..Len(p) -> Nat]
    PROVE  IsRenamed(Renamed(p, g), p, g)
<1> DEFINE r == Renamed(p, g)
           n == Len(p)
<1>1. /\ p \in Seq(BodyOp) /\ p # << >> /\ n \in Nat /\ n >= 1 /\ DOMAIN p = 1..n
      /\ \A u \in 1..n : p[u] \in BodyOp
  BY BodyFacts DEF BodyInv
<1>3. ASSUME NEW u \in 1..n
      PROVE  /\ r[u] \in BodyOp
             /\ r[u].kind = p[u].kind /\ r[u].type = p[u].type /\ Len(r[u].args) = Len(p[u].args)
             /\ \A k \in 1..Len(p[u].args) : r[u].args[k] = g[p[u].args[k]]
  <2> DEFINE a == p[u].args
             b == [k \in DOMAIN a |-> g[a[k]]]
  <2>1. a \in Seq(Nat) /\ Len(a) \in Nat /\ DOMAIN a = 1..Len(a)
    BY <1>1, BodyFacts
  <2>2. r[u] = [p[u] EXCEPT !.args = b]
    BY <1>1 DEF Renamed
  <2>3. ASSUME NEW k \in 1..Len(a) PROVE g[a[k]] \in Nat
    BY OperandFacts, <1>1
  <2> HIDE DEF a, r
  <2>4. b \in Seq(Nat) /\ Len(b) = Len(a) /\ \A k \in 1..Len(a) : b[k] = g[a[k]]
    BY <2>1, <2>3
  <2> HIDE DEF b
  <2>5. /\ r[u] \in BodyOp
        /\ r[u].kind = p[u].kind /\ r[u].type = p[u].type /\ r[u].args = b
    <3>1. p[u] \in BodyOp
      BY <1>1
    <3> QED BY <2>2, <2>4, <3>1 DEF BodyOp
  <2> QED BY <2>4, <2>5 DEF a
<1>4. r \in Seq(BodyOp) /\ Len(r) = n
  <2>1. r = [u \in 1..n |-> r[u]]
    BY <1>1 DEF Renamed
  <2> HIDE DEF r
  <2> QED BY <1>1, <1>3, <2>1
<1> QED BY <1>3, <1>4 DEF IsRenamed

(* The four parts of a sequence.                                           *)
InParts(q, A, B, C, D) ==
    /\ Len(q) = Len(A) + Len(B) + Len(C) + Len(D)
    /\ \A j \in 1..Len(A) : q[j] = A[j]
    /\ \A j \in 1..Len(B) : q[Len(A) + j] = B[j]
    /\ \A j \in 1..Len(C) : q[Len(A) + Len(B) + j] = C[j]
    /\ \A j \in 1..Len(D) : q[Len(A) + Len(B) + Len(C) + j] = D[j]

LEMMA FourParts ==
    ASSUME NEW S, NEW A \in Seq(S), NEW B \in Seq(S), NEW C \in Seq(S), NEW D \in Seq(S)
    PROVE  A \o B \o C \o D \in Seq(S) /\ InParts(A \o B \o C \o D, A, B, C, D)
<1>1. ASSUME NEW s \in Seq(S), NEW t \in Seq(S)
      PROVE  /\ s \o t \in Seq(S) /\ Len(s \o t) = Len(s) + Len(t)
             /\ \A j \in 1..Len(s) : (s \o t)[j] = s[j]
             /\ \A j \in 1..Len(t) : (s \o t)[Len(s) + j] = t[j]
  <2>1. Len(s) \in Nat /\ Len(t) \in Nat
    OBVIOUS
  <2>2. /\ s \o t \in Seq(S) /\ Len(s \o t) = Len(s) + Len(t)
        /\ \A i \in 1..Len(s) + Len(t) : (s \o t)[i] = IF i <= Len(s) THEN s[i] ELSE t[i - Len(s)]
    BY ConcatProperties
  <2>3. ASSUME NEW j \in 1..Len(s) PROVE (s \o t)[j] = s[j]
    <3>1. j \in 1..Len(s) + Len(t) /\ j <= Len(s)
      BY <2>1
    <3> QED BY <2>2, <3>1
  <2>4. ASSUME NEW j \in 1..Len(t) PROVE (s \o t)[Len(s) + j] = t[j]
    <3>1. Len(s) + j \in 1..Len(s) + Len(t) /\ ~ (Len(s) + j <= Len(s)) /\ (Len(s) + j) - Len(s) = j
      BY <2>1
    <3> QED BY <2>2, <3>1
  <2> QED BY <2>2, <2>3, <2>4
<1> DEFINE s1 == A \o B
           s2 == s1 \o C
           s3 == s2 \o D
<1>2. /\ s1 \in Seq(S) /\ Len(s1) = Len(A) + Len(B)
      /\ \A j \in 1..Len(A) : s1[j] = A[j]
      /\ \A j \in 1..Len(B) : s1[Len(A) + j] = B[j]
  BY <1>1
<1> HIDE DEF s1
<1>3. /\ s2 \in Seq(S) /\ Len(s2) = Len(s1) + Len(C)
      /\ \A j \in 1..Len(s1) : s2[j] = s1[j]
      /\ \A j \in 1..Len(C) : s2[Len(s1) + j] = C[j]
  BY <1>1, <1>2
<1> HIDE DEF s2
<1>4. /\ s3 \in Seq(S) /\ Len(s3) = Len(s2) + Len(D)
      /\ \A j \in 1..Len(s2) : s3[j] = s2[j]
      /\ \A j \in 1..Len(D) : s3[Len(s2) + j] = D[j]
  BY <1>1, <1>3
<1> HIDE DEF s3
<1>5. Len(A) \in Nat /\ Len(B) \in Nat /\ Len(C) \in Nat /\ Len(D) \in Nat
  OBVIOUS
<1>6. ASSUME NEW j \in 1..Len(A) PROVE s3[j] = A[j]
  <2>1. j \in 1..Len(s1) /\ j \in 1..Len(s2)
    BY <1>2, <1>3, <1>5
  <2> QED BY <1>2, <1>3, <1>4, <2>1
<1>7. ASSUME NEW j \in 1..Len(B) PROVE s3[Len(A) + j] = B[j]
  <2>1. Len(A) + j \in 1..Len(s1) /\ Len(A) + j \in 1..Len(s2)
    BY <1>2, <1>3, <1>5
  <2> QED BY <1>2, <1>3, <1>4, <2>1
<1>8. ASSUME NEW j \in 1..Len(C) PROVE s3[Len(A) + Len(B) + j] = C[j]
  <2>1. Len(s1) + j \in 1..Len(s2)
    BY <1>2, <1>3, <1>5
  <2>2. s3[Len(s1) + j] = C[j]
    BY <1>3, <1>4, <2>1
  <2> QED BY <1>2, <2>2
<1>9. ASSUME NEW j \in 1..Len(D) PROVE s3[Len(A) + Len(B) + Len(C) + j] = D[j]
  <2>1. s3[Len(s2) + j] = D[j]
    BY <1>4
  <2> QED BY <1>2, <1>3, <2>1
<1>10. Len(s3) = Len(A) + Len(B) + Len(C) + Len(D)
  BY <1>2, <1>3, <1>4
<1>11. s3 \in Seq(S) /\ InParts(s3, A, B, C, D)
  BY <1>4, <1>6, <1>7, <1>8, <1>9, <1>10 DEF InParts
<1> QED BY <1>11 DEF s1, s2, s3


(* The names that inlining the call o gives to the values of f, and to     *)
(* those of p.                                                             *)
CastNeeds(p, o, n) == {k \in 1..n : NeedsCast(p, o, k)}
CastList(p, o, n)  == Listed(n, CastNeeds(p, o, n))

InlineName(p, o, n, v) ==
    CASE v > n                            -> o + Len(CastList(p, o, n)) + (v - n) - 1
      [] v \in 1..n /\ NeedsCast(p, o, v) ->
            o - 1 + CHOOSE c \in DOMAIN CastList(p, o, n) : CastList(p, o, n)[c] = v
      [] OTHER                            -> p[o].args[v]

CalleeNames(p, o, f, n) == [v \in 1..Len(f) |-> InlineName(p, o, n, v)]

MainName(p, o, f, n, more, a) ==
    IF a = o THEN InlineName(p, o, n, Last(f).args[1]) ELSE IF a > o THEN a + more ELSE a
MainNames(p, o, f, n, more) == [a \in 1..Len(p) |-> MainName(p, o, f, n, more, a)]

CastOps(p, o, n) ==
    [c \in DOMAIN CastList(p, o, n) |-> Op("cast", << p[o].args[CastList(p, o, n)[c]] >>, Unranked)]

CalleeOps(p, o, f, n) == SubSeq(Renamed(f, CalleeNames(p, o, f, n)), n + 1, Len(f) - 1)

MainOps(p, o, f, n) ==
    SubSeq(Renamed(p, MainNames(p, o, f, n, Len(CastOps(p, o, n)) + Len(CalleeOps(p, o, f, n)) - 1)),
           o + 1, Len(p))

LEMMA InlineParts ==
    ASSUME NEW p, BodyInv(p), NEW f, BodyInv(f), NEW o \in 1..Len(p)
    PROVE  LET n == Cardinality(Formals(f))
           IN  InlineCall(p, o, f) = SubSeq(p, 1, o - 1) \o CastOps(p, o, n)
                                       \o CalleeOps(p, o, f, n) \o MainOps(p, o, f, n)
<1> DEFINE n == Cardinality(Formals(f))
           args == p[o].args
           cast == FlattenSeq([k \in 1..n |-> IF NeedsCast(p, o, k) THEN << k >> ELSE << >>])
           casts == [c \in DOMAIN cast |-> Op("cast", << args[cast[c]] >>, Unranked)]
           first == o + Len(cast)
           NewName(v) ==
               CASE v > n                            -> first + (v - n) - 1
                 [] v \in 1..n /\ NeedsCast(p, o, v) -> o - 1 + CHOOSE c \in DOMAIN cast : cast[c] = v
                 [] OTHER                            -> args[v]
           inF   == RenameUses(f, NewName)
           body  == SubSeq(inF, n + 1, Len(f) - 1)
           more  == Len(casts) + Len(body) - 1
           rest  == RenameUses(p, LAMBDA a : IF a = o THEN NewName(Last(f).args[1])
                                     ELSE IF a > o THEN a + more ELSE a)
<1>1. InlineCall(p, o, f) = SubSeq(p, 1, o - 1) \o casts \o body \o SubSeq(rest, o + 1, Len(p))
  BY Zenon DEF InlineCall
<1> HIDE DEF n
<1>2. cast = CastList(p, o, n)
  <2>1. ASSUME NEW k \in 1..n
        PROVE  (IF NeedsCast(p, o, k) THEN << k >> ELSE << >>)
               = (IF k \in CastNeeds(p, o, n) THEN << k >> ELSE << >>)
    BY DEF CastNeeds
  <2>2. [k \in 1..n |-> IF NeedsCast(p, o, k) THEN << k >> ELSE << >>]
        = [k \in 1..n |-> IF k \in CastNeeds(p, o, n) THEN << k >> ELSE << >>]
    BY <2>1
  <2> QED BY <2>2 DEF CastList, Listed
<1> HIDE DEF cast
<1>3. casts = CastOps(p, o, n)
  BY <1>2 DEF CastOps
<1> HIDE DEF casts
<1>4. ASSUME NEW v PROVE NewName(v) = InlineName(p, o, n, v)
  BY <1>2 DEF InlineName
<1> HIDE DEF NewName
<1>5. ASSUME NEW q, BodyInv(q), NEW u \in 1..Len(q), NEW k \in DOMAIN q[u].args
      PROVE  q[u].args[k] \in 1..Len(q)
  <2>1. k \in 1..Len(q[u].args)
    BY <1>5, BodyFacts DEF BodyInv
  <2> QED BY <1>5, <2>1, OperandFacts
<1>6. inF = Renamed(f, CalleeNames(p, o, f, n))
  <2>1. DOMAIN f = 1..Len(f)
    BY BodyFacts DEF BodyInv
  <2>2. ASSUME NEW u \in 1..Len(f), NEW k \in DOMAIN f[u].args
        PROVE  NewName(f[u].args[k]) = CalleeNames(p, o, f, n)[f[u].args[k]]
    BY <1>4, <1>5 DEF CalleeNames
  <2>3. ASSUME NEW u \in 1..Len(f)
        PROVE  [f[u] EXCEPT !.args = [k \in DOMAIN @ |-> NewName(@[k])]]
               = [f[u] EXCEPT !.args = [k \in DOMAIN @ |-> CalleeNames(p, o, f, n)[@[k]]]]
    BY <2>2
  <2>4. inF = [u \in 1..Len(f) |-> [f[u] EXCEPT !.args = [k \in DOMAIN @ |-> NewName(@[k])]]]
    BY <2>1 DEF RenameUses
  <2>5. Renamed(f, CalleeNames(p, o, f, n))
        = [u \in 1..Len(f) |-> [f[u] EXCEPT !.args = [k \in DOMAIN @ |-> CalleeNames(p, o, f, n)[@[k]]]]]
    BY <2>1 DEF Renamed
  <2> HIDE DEF inF
  <2> QED BY <2>3, <2>4, <2>5
<1> HIDE DEF inF
<1>7. body = CalleeOps(p, o, f, n)
  BY <1>6 DEF CalleeOps
<1> HIDE DEF body
<1>8. more = Len(CastOps(p, o, n)) + Len(CalleeOps(p, o, f, n)) - 1
  BY <1>3, <1>7
<1> HIDE DEF more
<1>9. rest = Renamed(p, MainNames(p, o, f, n, more))
  <2> DEFINE F(a) == IF a = o THEN NewName(Last(f).args[1]) ELSE IF a > o THEN a + more ELSE a
             names == MainNames(p, o, f, n, more)
  <2>1. DOMAIN p = 1..Len(p)
    BY BodyFacts DEF BodyInv
  <2>2. ASSUME NEW u \in 1..Len(p), NEW k \in DOMAIN p[u].args
        PROVE  F(p[u].args[k]) = names[p[u].args[k]]
    BY <1>4, <1>5 DEF MainNames, MainName
  <2>4. rest = [u \in 1..Len(p) |-> [p[u] EXCEPT !.args = [k \in DOMAIN @ |-> F(@[k])]]]
    BY <2>1 DEF RenameUses
  <2> HIDE DEF F, rest
  <2>3. ASSUME NEW u \in 1..Len(p)
        PROVE  [p[u] EXCEPT !.args = [k \in DOMAIN @ |-> F(@[k])]]
               = [p[u] EXCEPT !.args = [k \in DOMAIN @ |-> names[@[k]]]]
    BY <2>2
  <2>5. Renamed(p, names)
        = [u \in 1..Len(p) |-> [p[u] EXCEPT !.args = [k \in DOMAIN @ |-> names[@[k]]]]]
    BY <2>1 DEF Renamed
  <2> HIDE DEF names
  <2>6. rest = Renamed(p, names)
    BY <2>3, <2>4, <2>5
  <2> QED BY <2>6 DEF names
<1> HIDE DEF rest
<1>10. SubSeq(rest, o + 1, Len(p)) = MainOps(p, o, f, n)
  BY <1>8, <1>9 DEF MainOps
<1> QED BY <1>1, <1>3, <1>7, <1>10 DEF n


(* A value of f becomes an operation of its copy, a cast, or an actual.    *)
LEMMA InlineNameFacts ==
    ASSUME NEW p, BodyInv(p), NEW f, BodyInv(f), NEW o \in 1..Len(p), Inlinable(p, o, f)
    PROVE  LET n == Cardinality(Formals(f))
               cast == CastList(p, o, n)
           IN  /\ n \in Nat /\ n <= Len(f) - 1 /\ Len(p[o].args) = n
               /\ Len(cast) \in Nat /\ DOMAIN cast = 1..Len(cast)
               /\ \A c \in 1..Len(cast) : cast[c] \in 1..n /\ IsRanked(p[p[o].args[cast[c]]].type)
               /\ \A v \in 1..Len(f) :
                     /\ v > n => InlineName(p, o, n, v) = o + Len(cast) + (v - n) - 1
                     /\ v <= n => \/ \E c \in 1..Len(cast) : InlineName(p, o, n, v) = o - 1 + c
                                  \/ InlineName(p, o, n, v) = p[o].args[v] /\ p[o].args[v] \in 1..(o - 1)
<1> DEFINE n == Cardinality(Formals(f))
           N == CastNeeds(p, o, n)
           cast == CastList(p, o, n)
<1>1. n \in 0..(Len(f) - 1) /\ Len(f) \in Nat /\ Len(p) \in Nat
  <2>1. f \in Seq(BodyOp) /\ f # << >> /\ p \in Seq(BodyOp) /\ p # << >>
    BY DEF BodyInv
  <2>2. n \in 0..(Len(f) - 1)
    BY FormalsFirst
  <2> QED BY <2>1, <2>2, BodyFacts
<1>2. Len(p[o].args) = n
  BY DEF Inlinable
<1> HIDE DEF n
<1>3. N \in SUBSET (1..n) /\ \A k \in N : NeedsCast(p, o, k)
  BY DEF CastNeeds
<1>4. cast \in Seq(N) /\ \A v \in N : \E c \in 1..Len(cast) : cast[c] = v
  <2>1. cast = Listed(n, N)
    BY DEF CastList
  <2> HIDE DEF cast, N
  <2>2. n \in Nat
    BY <1>1
  <2> QED BY <1>3, <2>1, <2>2, ListedAre
<1>5. \A v \in 1..n : NeedsCast(p, o, v) => v \in N
  BY DEF CastNeeds
<1>6. ASSUME NEW v \in 1..Len(f), v > n
      PROVE  InlineName(p, o, n, v) = o + Len(cast) + (v - n) - 1
  <2>1. ~ (v \in 1..n)
    BY <1>1, <1>6
  <2> QED BY Zenon, <1>6, <2>1 DEF InlineName, cast
<1> HIDE DEF N
<1>7. Len(cast) \in Nat /\ DOMAIN cast = 1..Len(cast) /\ \A c \in 1..Len(cast) : cast[c] \in N
  BY <1>4
<1>8. ASSUME NEW v \in 1..Len(f), v <= n
      PROVE  \/ \E c \in 1..Len(cast) : InlineName(p, o, n, v) = o - 1 + c
             \/ InlineName(p, o, n, v) = p[o].args[v] /\ p[o].args[v] \in 1..(o - 1)
  <2>1. v \in 1..n /\ ~ (v > n)
    BY <1>1, <1>8
  <2>2. CASE NeedsCast(p, o, v)
    <3> DEFINE c == CHOOSE c \in DOMAIN cast : cast[c] = v
    <3>1. \E d \in DOMAIN cast : cast[d] = v
      BY <1>4, <1>5, <1>7, <2>1, <2>2
    <3>2. c \in DOMAIN cast
      BY <3>1
    <3>3. InlineName(p, o, n, v) = o - 1 + c
      BY Zenon, <2>1, <2>2 DEF InlineName
    <3> HIDE DEF c, cast
    <3> QED BY <1>7, <3>2, <3>3
  <2>3. CASE ~ NeedsCast(p, o, v)
    <3>1. InlineName(p, o, n, v) = p[o].args[v]
      BY Zenon, <2>1, <2>3 DEF InlineName
    <3>2. p[o].args[v] \in 1..(o - 1)
      BY <1>2, <2>1, OperandFacts
    <3> QED BY <3>1, <3>2
  <2> QED BY <2>2, <2>3
<1>9. \A c \in 1..Len(cast) : cast[c] \in 1..n /\ IsRanked(p[p[o].args[cast[c]]].type)
  BY <1>3, <1>7 DEF NeedsCast
<1>10. n \in Nat /\ n <= Len(f) - 1
  BY <1>1
<1> HIDE DEF cast
<1>11. /\ n \in Nat /\ n <= Len(f) - 1 /\ Len(p[o].args) = n
       /\ Len(cast) \in Nat /\ DOMAIN cast = 1..Len(cast)
       /\ \A c \in 1..Len(cast) : cast[c] \in 1..n /\ IsRanked(p[p[o].args[cast[c]]].type)
       /\ \A v \in 1..Len(f) :
             /\ v > n => InlineName(p, o, n, v) = o + Len(cast) + (v - n) - 1
             /\ v <= n => \/ \E c \in 1..Len(cast) : InlineName(p, o, n, v) = o - 1 + c
                          \/ InlineName(p, o, n, v) = p[o].args[v] /\ p[o].args[v] \in 1..(o - 1)
  BY <1>2, <1>6, <1>7, <1>8, <1>9, <1>10
<1> QED BY <1>11 DEF cast, n

(* What InlineCall makes of the call o, operation by operation: what was   *)
(* in front of it, L casts, the operations of f, what was behind it.       *)
IsInlined(q, p, o, f, n, cast) ==
    LET L == Len(cast)
        M == (o - 1) + L + (Len(f) - 1 - n)
    IN  /\ q \in Seq(BodyOp) /\ Len(q) = M + (Len(p) - o)
        /\ \A j \in 1..(o - 1) : q[j] = p[j]
        /\ \A c \in 1..L : q[o - 1 + c] = Op("cast", << p[o].args[cast[c]] >>, Unranked)
        /\ \A v \in 1..(Len(f) - 1 - n) :
              /\ q[(o - 1) + L + v].kind = f[n + v].kind
              /\ q[(o - 1) + L + v].type = f[n + v].type
              /\ Len(q[(o - 1) + L + v].args) = Len(f[n + v].args)
              /\ \A k \in 1..Len(f[n + v].args) :
                    q[(o - 1) + L + v].args[k] = InlineName(p, o, n, f[n + v].args[k])
        /\ \A i \in 1..(Len(p) - o) :
              /\ q[M + i].kind = p[o + i].kind
              /\ q[M + i].type = p[o + i].type
              /\ Len(q[M + i].args) = Len(p[o + i].args)
              /\ \A k \in 1..Len(p[o + i].args) :
                    q[M + i].args[k] = MainName(p, o, f, n, M - o, p[o + i].args[k])

LEMMA InlinedOps ==
    ASSUME NEW p, BodyInv(p), NEW f, BodyInv(f), NEW o \in 1..Len(p), Inlinable(p, o, f),
           Len(f[Len(f)].args) = 1
    PROVE  LET n == Cardinality(Formals(f))
           IN  IsInlined(InlineCall(p, o, f), p, o, f, n, CastList(p, o, n))
<1> DEFINE n == Cardinality(Formals(f))
           cast == CastList(p, o, n)
           L == Len(cast)
           B == Len(f) - 1 - n
           A1 == SubSeq(p, 1, o - 1)
           A2 == CastOps(p, o, n)
           A3 == CalleeOps(p, o, f, n)
           A4 == MainOps(p, o, f, n)
           q == InlineCall(p, o, f)
<1>1. /\ n \in Nat /\ n <= Len(f) - 1 /\ Len(p[o].args) = n
      /\ L \in Nat /\ DOMAIN cast = 1..L
      /\ \A c \in 1..L : cast[c] \in 1..n /\ IsRanked(p[p[o].args[cast[c]]].type)
      /\ \A v \in 1..Len(f) :
            /\ v > n => InlineName(p, o, n, v) = o + L + (v - n) - 1
            /\ v <= n => \/ \E c \in 1..L : InlineName(p, o, n, v) = o - 1 + c
                         \/ InlineName(p, o, n, v) = p[o].args[v] /\ p[o].args[v] \in 1..(o - 1)
  BY Zenon, InlineNameFacts
<1>2. q = A1 \o A2 \o A3 \o A4
  BY Zenon, InlineParts
<1> HIDE DEF n, q
<1>3. /\ p \in Seq(BodyOp) /\ Len(p) \in Nat /\ DOMAIN p = 1..Len(p) /\ o \in Nat /\ o <= Len(p) /\ 1 <= o
      /\ f \in Seq(BodyOp) /\ Len(f) \in Nat /\ DOMAIN f = 1..Len(f) /\ Len(f) >= 1 /\ Last(f) = f[Len(f)]
  BY BodyFacts DEF BodyInv
<1>4. A1 \in Seq(BodyOp) /\ Len(A1) = o - 1 /\ \A j \in 1..(o - 1) : A1[j] = p[j]
  <2>1. \A j \in 1..(o - 1) : p[j] \in BodyOp
    BY <1>3
  <2>2. 1 \in Int /\ o - 1 \in Int
    BY <1>3
  <2>3. /\ SubSeq(p, 1, o - 1) \in Seq(BodyOp)
        /\ Len(SubSeq(p, 1, o - 1)) = IF 1 <= o - 1 THEN o - 1 - 1 + 1 ELSE 0
        /\ \A j \in 1..(o - 1 - 1 + 1) : SubSeq(p, 1, o - 1)[j] = p[1 + j - 1]
    BY <2>1, <2>2, SubSeqProperties
  <2> HIDE DEF A1
  <2>4. (IF 1 <= o - 1 THEN o - 1 - 1 + 1 ELSE 0) = o - 1 /\ o - 1 - 1 + 1 = o - 1
        /\ \A j \in 1..(o - 1) : 1 + j - 1 = j
    BY <1>3
  <2> QED BY <2>3, <2>4 DEF A1
<1>5. /\ A2 \in Seq(BodyOp) /\ Len(A2) = L
      /\ \A c \in 1..L : A2[c] = Op("cast", << p[o].args[cast[c]] >>, Unranked)
  <2>1. A2 = [c \in 1..L |-> Op("cast", << p[o].args[cast[c]] >>, Unranked)]
    BY <1>1 DEF CastOps
  <2>2. ASSUME NEW c \in 1..L PROVE Op("cast", << p[o].args[cast[c]] >>, Unranked) \in BodyOp
    <3> DEFINE a == p[o].args[cast[c]]
    <3>1. a \in Nat
      BY <1>1, <1>3, OperandFacts
    <3> HIDE DEF a
    <3>2. << a >> \in Seq(Nat) /\ "cast" \in Kinds /\ Unranked \in Type
      BY <3>1 DEF Kinds, Type
    <3> QED BY <3>2, OpIsBodyOp DEF a
  <2> HIDE DEF A2
  <2> QED BY <1>1, <2>1, <2>2
<1>18. n \in Nat /\ n <= Len(f) - 1 /\ Len(f) \in Nat /\ Len(p) \in Nat /\ o \in Nat /\ o <= Len(p) /\ 1 <= o
       /\ L \in Nat
  BY <1>1, <1>3
<1>6. ASSUME NEW v \in 1..Len(f) PROVE InlineName(p, o, n, v) \in Nat
  <2>1. CASE v > n
    <3>1. o + L + (v - n) - 1 \in Nat
      BY <1>18, <2>1
    <3> QED BY <1>1, <2>1, <3>1
  <2>2. CASE v <= n
    <3>1. CASE \E c \in 1..L : InlineName(p, o, n, v) = o - 1 + c
      <4>1. PICK c \in 1..L : InlineName(p, o, n, v) = o - 1 + c
        BY <3>1
      <4>2. o - 1 + c \in Nat
        BY <1>18
      <4> QED BY <4>1, <4>2
    <3>2. CASE InlineName(p, o, n, v) = p[o].args[v] /\ p[o].args[v] \in 1..(o - 1)
      BY <3>2
    <3> QED BY <1>1, <2>2, <3>1, <3>2
  <2> QED BY <1>18, <2>1, <2>2
<1>7. /\ A3 \in Seq(BodyOp) /\ Len(A3) = B
      /\ \A v \in 1..B : A3[v] = Renamed(f, CalleeNames(p, o, f, n))[n + v]
      /\ IsRenamed(Renamed(f, CalleeNames(p, o, f, n)), f, CalleeNames(p, o, f, n))
  <2> DEFINE g == CalleeNames(p, o, f, n)
             r == Renamed(f, g)
  <2>1. g \in [1..Len(f) -> Nat]
    BY <1>6 DEF CalleeNames
  <2> HIDE DEF g
  <2>2. IsRenamed(r, f, g)
    BY <2>1, RenamedOps
  <2> HIDE DEF r
  <2>3. \A j \in (n + 1)..(Len(f) - 1) : r[j] \in BodyOp
    BY <1>1, <1>3, <2>2 DEF IsRenamed
  <2>4. /\ SubSeq(r, n + 1, Len(f) - 1) \in Seq(BodyOp)
        /\ Len(SubSeq(r, n + 1, Len(f) - 1)) = IF n + 1 <= Len(f) - 1 THEN Len(f) - 1 - (n + 1) + 1 ELSE 0
        /\ \A j \in 1..(Len(f) - 1 - (n + 1) + 1) : SubSeq(r, n + 1, Len(f) - 1)[j] = r[n + 1 + j - 1]
    <3>1. n + 1 \in Int /\ Len(f) - 1 \in Int
      BY <1>1, <1>3
    <3> QED BY <2>3, <3>1, SubSeqProperties
  <2>5. /\ (IF n + 1 <= Len(f) - 1 THEN Len(f) - 1 - (n + 1) + 1 ELSE 0) = B
        /\ Len(f) - 1 - (n + 1) + 1 = B /\ \A j \in 1..B : n + 1 + j - 1 = n + j
    BY <1>18
  <2>6. A3 = SubSeq(r, n + 1, Len(f) - 1)
    BY DEF CalleeOps, r, g
  <2> HIDE DEF A3, B
  <2>7. A3 \in Seq(BodyOp) /\ Len(A3) = B /\ \A v \in 1..B : A3[v] = r[n + v]
    BY <2>4, <2>5, <2>6
  <2> QED BY <2>2, <2>7 DEF r, g
<1> DEFINE more == L + B - 1
           h == MainNames(p, o, f, n, more)
<1>8. h \in [1..Len(p) -> Nat]
  <2>1. Last(f).args[1] \in 1..Len(f)
    <3>1. Len(f) \in 1..Len(f) /\ 1 \in 1..Len(f[Len(f)].args)
      BY <1>3
    <3> QED BY <1>3, <3>1, OperandFacts
  <2>2. ASSUME NEW a \in 1..Len(p) PROVE MainName(p, o, f, n, more, a) \in Nat
    <3>1. CASE a = o
      BY <1>6, <2>1, <3>1 DEF MainName
    <3>2. CASE a > o
      <4>1. a + more \in Nat
        BY <1>1, <1>3, <3>2
      <4>2. MainName(p, o, f, n, more, a) = a + more
        BY <1>3, <3>2 DEF MainName
      <4> QED BY <4>1, <4>2
    <3>3. CASE a < o
      BY <1>3, <3>3 DEF MainName
    <3> QED BY <1>3, <3>1, <3>2, <3>3
  <2> QED BY <2>2 DEF MainNames
<1>9. /\ A4 \in Seq(BodyOp) /\ Len(A4) = Len(p) - o
      /\ \A i \in 1..(Len(p) - o) : A4[i] = Renamed(p, h)[o + i]
      /\ IsRenamed(Renamed(p, h), p, h)
  <2> DEFINE r == Renamed(p, h)
  <2>6. A4 = SubSeq(r, o + 1, Len(p))
    <3>1. Len(A2) + Len(A3) - 1 = more
      BY <1>5, <1>7
    <3> QED BY <3>1 DEF MainOps
  <2> HIDE DEF h, A4
  <2>2. IsRenamed(r, p, h)
    BY <1>8, RenamedOps
  <2> HIDE DEF r
  <2>3. \A j \in (o + 1)..Len(p) : r[j] \in BodyOp
    BY <1>3, <2>2 DEF IsRenamed
  <2>4. /\ SubSeq(r, o + 1, Len(p)) \in Seq(BodyOp)
        /\ Len(SubSeq(r, o + 1, Len(p))) = IF o + 1 <= Len(p) THEN Len(p) - (o + 1) + 1 ELSE 0
        /\ \A j \in 1..(Len(p) - (o + 1) + 1) : SubSeq(r, o + 1, Len(p))[j] = r[o + 1 + j - 1]
    <3>1. o + 1 \in Int /\ Len(p) \in Int
      BY <1>3
    <3> QED BY <2>3, <3>1, SubSeqProperties
  <2>5. /\ (IF o + 1 <= Len(p) THEN Len(p) - (o + 1) + 1 ELSE 0) = Len(p) - o
        /\ Len(p) - (o + 1) + 1 = Len(p) - o /\ \A j \in 1..(Len(p) - o) : o + 1 + j - 1 = o + j
    BY <1>18
  <2>7. A4 \in Seq(BodyOp) /\ Len(A4) = Len(p) - o /\ \A i \in 1..(Len(p) - o) : A4[i] = r[o + i]
    BY <2>4, <2>5, <2>6
  <2> QED BY <2>2, <2>7 DEF r
<1> HIDE DEF A1, A2, A3, A4
<1>10. q \in Seq(BodyOp) /\ InParts(q, A1, A2, A3, A4)
  BY <1>2, <1>4, <1>5, <1>7, <1>9, FourParts
<1> DEFINE M == (o - 1) + L + (Len(f) - 1 - n)
<1>11. M - o = more /\ M = Len(A1) + Len(A2) + Len(A3)
  BY <1>1, <1>3, <1>4, <1>5, <1>7
<1>12. q \in Seq(BodyOp) /\ Len(q) = M + (Len(p) - o)
  BY <1>9, <1>10, <1>11 DEF InParts
<1>13. \A j \in 1..(o - 1) : q[j] = p[j]
  BY <1>4, <1>10 DEF InParts
<1> HIDE DEF cast
<1>14. \A c \in 1..L : q[o - 1 + c] = Op("cast", << p[o].args[cast[c]] >>, Unranked)
  BY <1>4, <1>5, <1>10 DEF InParts
<1>15. ASSUME NEW v \in 1..(Len(f) - 1 - n)
       PROVE  /\ q[(o - 1) + L + v].kind = f[n + v].kind
              /\ q[(o - 1) + L + v].type = f[n + v].type
              /\ Len(q[(o - 1) + L + v].args) = Len(f[n + v].args)
              /\ \A k \in 1..Len(f[n + v].args) :
                    q[(o - 1) + L + v].args[k] = InlineName(p, o, n, f[n + v].args[k])
  <2> DEFINE g == CalleeNames(p, o, f, n)
             r == Renamed(f, g)
  <2>1. q[(o - 1) + L + v] = r[n + v]
    BY <1>4, <1>5, <1>7, <1>10 DEF InParts
  <2>2. IsRenamed(r, f, g) /\ n + v \in 1..Len(f)
    BY <1>1, <1>3, <1>7
  <2>3. ASSUME NEW k \in 1..Len(f[n + v].args)
        PROVE  g[f[n + v].args[k]] = InlineName(p, o, n, f[n + v].args[k])
    <3>1. f[n + v].args[k] \in 1..Len(f)
      BY <2>2, OperandFacts
    <3> QED BY <3>1 DEF CalleeNames
  <2> HIDE DEF g, r
  <2> QED BY <2>1, <2>2, <2>3 DEF IsRenamed
<1>16. ASSUME NEW i \in 1..(Len(p) - o)
       PROVE  /\ q[M + i].kind = p[o + i].kind
              /\ q[M + i].type = p[o + i].type
              /\ Len(q[M + i].args) = Len(p[o + i].args)
              /\ \A k \in 1..Len(p[o + i].args) :
                    q[M + i].args[k] = MainName(p, o, f, n, M - o, p[o + i].args[k])
  <2> DEFINE r == Renamed(p, h)
  <2>1. q[M + i] = r[o + i]
    BY <1>9, <1>10, <1>11 DEF InParts
  <2>2. IsRenamed(r, p, h) /\ o + i \in 1..Len(p)
    BY <1>3, <1>9
  <2>3. ASSUME NEW k \in 1..Len(p[o + i].args)
        PROVE  h[p[o + i].args[k]] = MainName(p, o, f, n, M - o, p[o + i].args[k])
    <3>1. p[o + i].args[k] \in 1..Len(p)
      BY <2>2, OperandFacts
    <3> HIDE DEF M, more
    <3> QED BY <1>11, <3>1 DEF MainNames
  <2> HIDE DEF h, r, M
  <2> QED BY <2>1, <2>2, <2>3 DEF IsRenamed
<1>17. IsInlined(q, p, o, f, n, cast)
  BY Zenon, <1>12, <1>13, <1>14, <1>15, <1>16 DEF IsInlined
<1> QED BY <1>17 DEF q, n, cast


(* Inlining a call keeps a body a body: the operations of f find a cast of *)
(* every ranked actual, and the users of the call what f returns.          *)
LEMMA InlineKeeps ==
    ASSUME NEW p, BodyInv(p), NEW f, BodyInv(f), Untyped(f), NoCalls(f),
           NEW o \in 1..Len(p), Inlinable(p, o, f),
           Len(f[Len(f)].args) = 1, Up(p[o].type, Returned(f))
    PROVE  LET q == InlineCall(p, o, f)
           IN  /\ BodyInv(q)
               /\ Untyped(p) => Untyped(q)
               /\ \A j \in 1..Len(q) : q[j].kind = "generic_call" =>
                     \E i \in 1..Len(p) : p[i].kind = "generic_call" /\ p[i].type = q[j].type
<1> DEFINE n == Cardinality(Formals(f))
           cast == CastList(p, o, n)
           L == Len(cast)
           B == Len(f) - 1 - n
           M == (o - 1) + L + (Len(f) - 1 - n)
           q == InlineCall(p, o, f)
           ret == f[Len(f)].args[1]
<1>1. /\ n \in Nat /\ n <= Len(f) - 1 /\ Len(p[o].args) = n
      /\ L \in Nat /\ DOMAIN cast = 1..L
      /\ \A c \in 1..L : cast[c] \in 1..n /\ IsRanked(p[p[o].args[cast[c]]].type)
      /\ \A v \in 1..Len(f) :
            /\ v > n => InlineName(p, o, n, v) = o + L + (v - n) - 1
            /\ v <= n => \/ \E c \in 1..L : InlineName(p, o, n, v) = o - 1 + c
                         \/ InlineName(p, o, n, v) = p[o].args[v] /\ p[o].args[v] \in 1..(o - 1)
  BY Zenon, InlineNameFacts
<1>2. IsInlined(q, p, o, f, n, cast)
  BY Zenon, InlinedOps
<1>3. \A v \in 1..Len(f) : f[v].kind = "arg" <=> v <= n
  BY Zenon, FormalsFirst
<1> HIDE DEF n, cast, q
<1>4. /\ p \in Seq(BodyOp) /\ p # << >> /\ f \in Seq(BodyOp) /\ f # << >> /\ Last(f) = f[Len(f)]
      /\ n \in Nat /\ n <= Len(f) - 1 /\ Len(f) \in Nat /\ Len(p) \in Nat /\ o \in Nat /\ o <= Len(p)
      /\ 1 <= o /\ L \in Nat
  BY <1>1, BodyFacts DEF BodyInv
<1>5. /\ q \in Seq(BodyOp) /\ Len(q) = M + (Len(p) - o)
      /\ \A j \in 1..(o - 1) : q[j] = p[j]
      /\ \A c \in 1..L : q[o - 1 + c] = Op("cast", << p[o].args[cast[c]] >>, Unranked)
      /\ \A v \in 1..B :
            /\ q[(o - 1) + L + v].kind = f[n + v].kind
            /\ q[(o - 1) + L + v].type = f[n + v].type
            /\ Len(q[(o - 1) + L + v].args) = Len(f[n + v].args)
            /\ \A k \in 1..Len(f[n + v].args) :
                  q[(o - 1) + L + v].args[k] = InlineName(p, o, n, f[n + v].args[k])
      /\ \A i \in 1..(Len(p) - o) :
            /\ q[M + i].kind = p[o + i].kind
            /\ q[M + i].type = p[o + i].type
            /\ Len(q[M + i].args) = Len(p[o + i].args)
            /\ \A k \in 1..Len(p[o + i].args) :
                  q[M + i].args[k] = MainName(p, o, f, n, M - o, p[o + i].args[k])
  BY Zenon, <1>2 DEF IsInlined
<1> DEFINE b == (o - 1) + L
<1>20. /\ n \in Nat /\ n <= Len(f) - 1 /\ Len(f) \in Nat /\ Len(p) \in Nat /\ o \in Nat /\ o <= Len(p)
       /\ 1 <= o /\ L \in Nat
  BY <1>4
<1>6. /\ b \in Nat /\ M \in Nat /\ M = b + B /\ B \in Nat /\ b >= o - 1 /\ M >= b
      /\ B = Len(f) - 1 - n /\ b = o - 1 + L
  BY <1>20
<1>21. q \in Seq(BodyOp) /\ Len(q) = M + (Len(p) - o)
  BY <1>5
<1>22. \A j \in 1..(o - 1) : q[j] = p[j]
  BY <1>5
<1>23. \A c \in 1..L : q[o - 1 + c] = Op("cast", << p[o].args[cast[c]] >>, Unranked)
  BY <1>5
<1> DEFINE Name(v) == InlineName(p, o, n, v)
<1>24. \A v \in 1..B :
          /\ q[b + v].kind = f[n + v].kind
          /\ q[b + v].type = f[n + v].type
          /\ Len(q[b + v].args) = Len(f[n + v].args)
          /\ \A k \in 1..Len(f[n + v].args) : q[b + v].args[k] = Name(f[n + v].args[k])
  BY <1>5
<1>25. \A i \in 1..(Len(p) - o) :
          /\ q[M + i].kind = p[o + i].kind
          /\ q[M + i].type = p[o + i].type
          /\ Len(q[M + i].args) = Len(p[o + i].args)
          /\ \A k \in 1..Len(p[o + i].args) :
                q[M + i].args[k] = MainName(p, o, f, n, M - o, p[o + i].args[k])
  BY <1>5
<1> HIDE DEF b, B, M
<1> DEFINE lf == Len(f)
           lp == Len(p)
           lq == Len(q)
<1>7. p[o].kind = "generic_call" /\ o # Len(p) /\ o < Len(p)
  <2>1. p[o].kind = "generic_call"
    BY DEF Inlinable
  <2>2. p[Len(p)].kind = "return"
    BY ReturnIsLast
  <2>3. o # Len(p)
    BY ONLY <2>1, <2>2
  <2>4. o # lp /\ o <= lp /\ o \in Nat /\ lp \in Nat
    BY <1>20, <2>3
  <2> HIDE DEF lp
  <2>5. o < lp
    BY ONLY <2>4
  <2> QED BY <2>1, <2>4, <2>5 DEF lp
<1>30. /\ n \in Nat /\ n <= lf - 1 /\ lf \in Nat /\ lp \in Nat /\ o \in Nat /\ o < lp /\ 1 <= o
       /\ L \in Nat /\ b \in Nat /\ M \in Nat /\ B \in Nat /\ lq \in Nat
       /\ M = b + B /\ B = lf - 1 - n /\ b = o - 1 + L /\ lq = M + (lp - o)
  <2>1. lq = M + (lp - o) /\ o < lp
    BY <1>7, <1>21
  <2>2. /\ n \in Nat /\ n <= lf - 1 /\ lf \in Nat /\ lp \in Nat /\ o \in Nat /\ 1 <= o /\ L \in Nat
        /\ b \in Nat /\ M \in Nat /\ B \in Nat /\ M = b + B /\ B = lf - 1 - n /\ b = o - 1 + L
    BY <1>6, <1>20
  <2> HIDE DEF lf, lp, lq, L
  <2>3. lq \in Nat
    BY ONLY <2>1, <2>2
  <2> QED BY <2>1, <2>2, <2>3
<1> HIDE DEF lf, lp, lq, L
<1>8. ret \in 1..(Len(f) - 1) /\ f[ret].kind \notin Sinks /\ Returned(f) = f[ret].type
  <2>1. Len(f) \in 1..Len(f) /\ 1 \in 1..Len(f[Len(f)].args)
    BY <1>6, <1>20
  <2> QED BY <2>1, OperandFacts DEF Returned
<1>9. ASSUME NEW v \in 1..(Len(f) - 1), f[v].kind \notin Sinks
      PROVE  /\ Name(v) \in 1..(b + IF v > n THEN v - n ELSE 0)
             /\ q[Name(v)].kind \notin Sinks
             /\ Up(f[v].type, q[Name(v)].type)
  <2>0. v \in 1..Len(f) /\ v \in Nat
    BY <1>6, <1>20
  <2>1. CASE v > n
    <3> DEFINE w == v - n
    <3>1. w \in 1..B /\ n + w = v /\ w \in Nat
      BY <1>6, <1>20, <2>1
    <3>2. Name(v) = b + w
      <4>1. Name(v) = o + L + (v - n) - 1
        BY <1>1, <2>0, <2>1
      <4> HIDE DEF Name
      <4> QED BY <1>6, <1>20, <2>0, <4>1
    <3>3. q[b + w].kind = f[v].kind /\ q[b + w].type = f[v].type
      BY <1>24, <3>1
    <3>4. Name(v) \in 1..(b + IF v > n THEN v - n ELSE 0)
      <4> HIDE DEF w
      <4>1. (IF v > n THEN v - n ELSE 0) = w
        BY <2>1 DEF w
      <4>2. b + w \in 1..(b + w)
        BY ONLY <1>30, <3>1
      <4> QED BY <3>2, <4>1, <4>2
    <3>5. Up(f[v].type, f[v].type)
      BY DEF Up
    <3> QED BY <1>9, <3>2, <3>3, <3>4, <3>5
  <2>2. CASE v <= n
    <3>1. f[v].type = Unranked
      BY <1>3, <2>0, <2>2 DEF Untyped
    <3>2. Up(f[v].type, q[Name(v)].type)
      BY <3>1 DEF Up, IsRanked
    <3>3. CASE \E c \in 1..L : Name(v) = o - 1 + c
      <4>1. PICK c \in 1..L : Name(v) = o - 1 + c
        BY <3>3
      <4>5. q[o - 1 + c] = Op("cast", << p[o].args[cast[c]] >>, Unranked)
        BY <1>23
      <4>6. Op("cast", << p[o].args[cast[c]] >>, Unranked).kind = "cast"
        BY DEF Op
      <4>2. q[Name(v)].kind = "cast"
        BY ONLY <4>1, <4>5, <4>6
      <4>3. Name(v) \in 1..b
        BY <1>6, <1>20, <4>1
      <4> HIDE DEF Name
      <4>4. Name(v) \in 1..(b + IF v > n THEN v - n ELSE 0)
        BY <1>20, <1>6, <2>0, <2>2, <4>3
      <4> QED BY <3>2, <4>2, <4>4 DEF Sinks
    <3>4. CASE Name(v) = p[o].args[v] /\ p[o].args[v] \in 1..(o - 1)
      <4>1. v \in 1..Len(p[o].args)
        BY <1>1, <2>0, <2>2
      <4>2. p[p[o].args[v]].kind \notin Sinks
        BY <4>1, OperandFacts
      <4>3. q[Name(v)].kind \notin Sinks
        BY <1>22, <3>4, <4>2
      <4>4. Name(v) \in 1..b
        <5> DEFINE a == p[o].args[v]
        <5>1. a \in 1..(o - 1) /\ Name(v) = a
          BY <3>4
        <5> HIDE DEF a
        <5>2. b \in Nat /\ o \in Nat /\ o - 1 <= b
          BY <1>6, <1>20
        <5> QED BY ONLY <5>1, <5>2
      <4> HIDE DEF Name
      <4>5. Name(v) \in 1..(b + IF v > n THEN v - n ELSE 0)
        BY <1>20, <1>6, <2>0, <2>2, <4>4
      <4> QED BY <3>2, <4>3, <4>5
    <3> QED BY <1>1, <2>0, <2>2, <3>3, <3>4
  <2> QED BY <1>6, <1>20, <2>0, <2>1, <2>2
<1> HIDE DEF Name
<1>10. ASSUME NEW j \in 1..(o - 1)
       PROVE  j \in 1..Len(p) /\ j < Len(p) /\ q[j] = p[j] /\ Copies(q, j, p, j)
  <2>1. j \in 1..Len(p) /\ j < Len(p) /\ q[j] = p[j]
    <3>1. j \in 1..lp /\ j < lp
      BY ONLY <1>30, j \in 1..(o - 1)
    <3> QED BY <1>22, <3>1 DEF lp
  <2>2. ASSUME NEW k \in 1..Len(p[j].args)
        PROVE  /\ q[j].args[k] \in 1..(j - 1)
               /\ q[q[j].args[k]].kind \notin Sinks
               /\ Up(p[p[j].args[k]].type, q[q[j].args[k]].type)
    <3> DEFINE a == p[j].args[k]
    <3>1. a \in 1..(j - 1) /\ p[a].kind \notin Sinks
      BY <2>1, OperandFacts
    <3> HIDE DEF a
    <3>2. a \in 1..(o - 1)
      BY <1>20, <3>1
    <3>3. q[a] = p[a] /\ q[j].args[k] = a
      BY <1>22, <2>1, <3>2 DEF a
    <3> QED BY <3>1, <3>3 DEF Up, a
  <2> QED BY <2>1, <2>2 DEF Copies
<1>11. ASSUME NEW c \in 1..L
       PROVE  LET j == o - 1 + c
              IN  q[j].kind = "cast" /\ q[j].type = Unranked /\ OpFits(q, j)
  <2> DEFINE j == o - 1 + c
             a == p[o].args[cast[c]]
  <2>1. /\ q[j] = Op("cast", << a >>, Unranked)
        /\ cast[c] \in 1..n /\ IsRanked(p[a].type)
    BY <1>1, <1>23
  <2>2. a \in 1..(o - 1) /\ p[a].kind \notin Sinks
    BY <1>1, <2>1, OperandFacts
  <2>3. q[a] = p[a]
    BY <1>22, <2>2
  <2>11. j = o - 1 + c /\ c \in 1..L
    OBVIOUS
  <2> HIDE DEF a, j
  <2>12. j \in Nat /\ j > o - 1 /\ j \in 1..lq
    BY ONLY <1>30, <2>11
  <2>4. j \in Nat /\ j > o - 1 /\ j \in 1..Len(q)
    BY <2>12 DEF lq
  <2>13. a \in 1..(j - 1) /\ a \in 1..lq
    BY ONLY <1>30, <2>2, <2>12
  <2>5. a \in 1..(j - 1) /\ a \in 1..Len(q)
    BY <2>13 DEF lq
  <2>6. /\ q[j].kind = "cast" /\ q[j].type = Unranked /\ Len(q[j].args) = 1 /\ q[j].args[1] = a
        /\ 1..Len(q[j].args) = {1}
    BY <2>1 DEF Op
  <2>7. InTypes(q, j) = [k \in 1..Len(q[j].args) |-> q[q[j].args[k]].type]
    <3>1. q # << >>
      BY <2>4
    <3>2. \A k \in 1..Len(q[j].args) : q[j].args[k] \in 1..Len(q)
      BY <2>5, <2>6
    <3> QED BY <1>21, <2>4, <3>1, <3>2, InTypesAre
  <2>8. InTypes(q, j)[1] = q[a].type
    BY <2>6, <2>7
  <2>9. TypesFit(q[j].kind, InTypes(q, j), q[j].type)
    BY <2>1, <2>3, <2>6, <2>8 DEF TypesFit, Elementwise
  <2>10. ArityOK(q[j].kind, Len(q[j].args))
    BY <2>6 DEF ArityOK, Elementwise
  <2>14. OpFits(q, j)
    <3>1. \A k \in 1..Len(q[j].args) : q[j].args[k] \in 1..(j - 1) /\ q[q[j].args[k]].kind \notin Sinks
      BY <2>2, <2>3, <2>5, <2>6
    <3> QED BY <2>9, <2>10, <3>1 DEF OpFits
  <2> QED BY <2>6, <2>14 DEF j
<1>12. ASSUME NEW v \in 1..B
       PROVE  /\ q[b + v].kind = f[n + v].kind /\ q[b + v].type = f[n + v].type
              /\ n + v \in 1..Len(f) /\ n + v < Len(f) /\ n + v > n
              /\ Copies(q, b + v, f, n + v)
  <2> DEFINE j == b + v
             z == n + v
  <2>6. z \in 1..lf /\ z < lf /\ z > n
    <3>1. v \in 1..B
      OBVIOUS
    <3> QED BY ONLY <1>30, <3>1
  <2>1. z \in 1..Len(f) /\ z < Len(f) /\ z > n
    BY <2>6 DEF lf
  <2>2. /\ q[j].kind = f[z].kind /\ q[j].type = f[z].type
        /\ Len(q[j].args) = Len(f[z].args)
        /\ \A k \in 1..Len(f[z].args) : q[j].args[k] = Name(f[z].args[k])
    BY <1>24
  <2>4. b \in Nat /\ n \in Nat /\ j \in Nat /\ z \in Nat /\ v \in Nat /\ j = b + v /\ z = n + v
        /\ v >= 1
    BY <1>30
  <2> HIDE DEF j, z
  <2>3. ASSUME NEW k \in 1..Len(f[z].args)
        PROVE  /\ q[j].args[k] \in 1..(j - 1)
               /\ q[q[j].args[k]].kind \notin Sinks
               /\ Up(f[f[z].args[k]].type, q[q[j].args[k]].type)
    <3> DEFINE w == f[z].args[k]
    <3>1. w \in 1..(z - 1) /\ f[w].kind \notin Sinks
      BY <2>1, OperandFacts
    <3>4. q[j].args[k] = Name(w)
      BY <2>2
    <3> HIDE DEF w
    <3>6. Len(f) \in Nat
      BY <1>20
    <3>2. w \in 1..(Len(f) - 1) /\ w \in Nat
      BY ONLY <2>1, <2>4, <3>1, <3>6
    <3>3. /\ Name(w) \in 1..(b + IF w > n THEN w - n ELSE 0)
          /\ q[Name(w)].kind \notin Sinks
          /\ Up(f[w].type, q[Name(w)].type)
      BY <1>9, <3>1, <3>2
    <3>5. Name(w) \in 1..(j - 1)
      BY ONLY <2>4, <3>1, <3>2, <3>3
    <3> QED BY <3>3, <3>4, <3>5 DEF w
  <2>5. Copies(q, j, f, z)
    BY Zenon, <2>2, <2>3 DEF Copies
  <2> QED BY <2>1, <2>2, <2>5 DEF j, z
<1>13. ASSUME NEW i \in 1..(Len(p) - o)
       PROVE  /\ q[M + i].kind = p[o + i].kind /\ q[M + i].type = p[o + i].type
              /\ o + i \in 1..Len(p) /\ Copies(q, M + i, p, o + i)
  <2> DEFINE j == M + i
             z == o + i
  <2>1. z \in 1..Len(p)
    BY <1>20
  <2>2. /\ q[j].kind = p[z].kind /\ q[j].type = p[z].type
        /\ Len(q[j].args) = Len(p[z].args)
        /\ \A k \in 1..Len(p[z].args) : q[j].args[k] = MainName(p, o, f, n, M - o, p[z].args[k])
    BY <1>25
  <2>4. M \in Nat /\ o \in Nat /\ j \in Nat /\ z \in Nat /\ i \in Nat /\ j = M + i /\ z = o + i
        /\ i >= 1 /\ o >= 1 /\ M >= b /\ b >= o - 1 /\ b \in Nat
    <3>1. i \in 1..(lp - o)
      BY DEF lp
    <3> QED BY ONLY <1>30, <3>1
  <2>5. z <= Len(p) /\ Len(p) \in Nat
    BY <1>20
  <2> HIDE DEF j, z
  <2>3. ASSUME NEW k \in 1..Len(p[z].args)
        PROVE  /\ q[j].args[k] \in 1..(j - 1)
               /\ q[q[j].args[k]].kind \notin Sinks
               /\ Up(p[p[z].args[k]].type, q[q[j].args[k]].type)
    <3> DEFINE a == p[z].args[k]
    <3>1. a \in 1..(z - 1) /\ p[a].kind \notin Sinks
      BY <2>1, OperandFacts
    <3>2. q[j].args[k] = MainName(p, o, f, n, M - o, a)
      BY <2>2
    <3> HIDE DEF a
    <3>3. a \in Nat /\ a >= 1 /\ a <= z - 1
      BY ONLY <2>4, <3>1
    <3>7. Up(p[a].type, p[a].type)
      BY DEF Up
    <3>4. CASE a < o
      <4>1. MainName(p, o, f, n, M - o, a) = a
        <5>1. ~ (a > o) /\ a # o
          BY ONLY <2>4, <3>3, <3>4
        <5> QED BY Zenon, <5>1 DEF MainName
      <4>2. a \in 1..(o - 1) /\ a \in 1..(j - 1)
        BY ONLY <2>4, <3>3, <3>4
      <4>3. q[a] = p[a]
        BY <1>22, <4>2
      <4> QED BY <3>1, <3>2, <3>7, <4>1, <4>2, <4>3 DEF a
    <3>5. CASE a = o
      <4>5. MainName(p, o, f, n, M - o, a) = InlineName(p, o, n, Last(f).args[1])
        BY ONLY <3>5 DEF MainName
      <4>1. MainName(p, o, f, n, M - o, a) = Name(ret)
        BY <1>4, <4>5 DEF Name
      <4>6. ret \in 1..(Len(f) - 1) /\ f[ret].kind \notin Sinks /\ Returned(f) = f[ret].type
        BY <1>8
      <4> HIDE DEF ret
      <4>2. /\ Name(ret) \in 1..(b + IF ret > n THEN ret - n ELSE 0)
            /\ q[Name(ret)].kind \notin Sinks
            /\ Up(f[ret].type, q[Name(ret)].type)
        BY <1>9, <4>6
      <4>3. Name(ret) \in 1..(j - 1)
        <5> DEFINE a1 == Name(ret)
        <5>1. ret \in 1..(lf - 1)
          BY <4>6 DEF lf
        <5>2. a1 \in 1..(b + IF ret > n THEN ret - n ELSE 0)
          BY <4>2
        <5> HIDE DEF a1
        <5>3. a1 \in 1..(j - 1)
          BY ONLY <1>30, <2>4, <5>1, <5>2
        <5> QED BY <5>3 DEF a1
      <4>4. Up(p[a].type, q[Name(ret)].type)
        <5>1. Up(p[o].type, f[ret].type)
          BY <4>6
        <5> QED BY <3>5, <4>2, <5>1 DEF Up
      <4> QED BY <3>2, <4>1, <4>2, <4>3, <4>4 DEF a
    <3>6. CASE a > o
      <4>1. MainName(p, o, f, n, M - o, a) = a + (M - o)
        <5>1. a # o
          BY ONLY <2>4, <3>3, <3>6
        <5> QED BY Zenon, <3>6, <5>1 DEF MainName
      <4> DEFINE e == a - o
      <4>2. e \in 1..(Len(p) - o) /\ o + e = a /\ a + (M - o) = M + e /\ M + e \in 1..(j - 1)
        BY ONLY <2>4, <2>5, <3>3, <3>6
      <4> HIDE DEF e
      <4>3. q[M + e].kind = p[o + e].kind /\ q[M + e].type = p[o + e].type
        BY <1>25, <4>2
      <4> QED BY <3>1, <3>2, <3>7, <4>1, <4>2, <4>3 DEF a
    <3>8. a < o \/ a = o \/ a > o
      BY ONLY <2>4, <3>3
    <3> QED BY <3>4, <3>5, <3>6, <3>8
  <2>6. Copies(q, j, p, z)
    BY Zenon, <2>2, <2>3 DEF Copies
  <2> QED BY <2>1, <2>2, <2>6 DEF j, z
<1> DEFINE In1(j) == j \in 1..(o - 1)
           In2(j) == \E c \in 1..L : j = o - 1 + c
           In3(j) == \E v \in 1..B : j = b + v
           In4(j) == \E i \in 1..(lp - o) : j = M + i
<1>14. ASSUME NEW j \in 1..Len(q) PROVE In1(j) \/ In2(j) \/ In3(j) \/ In4(j)
  <2>6. j \in 1..lq
    BY DEF lq
  <2>1. CASE j <= o - 1
    BY ONLY <1>30, <2>1, <2>6
  <2>2. CASE j > o - 1 /\ j <= b
    <3>1. j - (o - 1) \in 1..L /\ j = o - 1 + (j - (o - 1))
      BY ONLY <1>30, <2>2, <2>6
    <3> QED BY <3>1
  <2>3. CASE j > b /\ j <= M
    <3>1. j - b \in 1..B /\ j = b + (j - b)
      BY ONLY <1>30, <2>3, <2>6
    <3> QED BY <3>1
  <2>4. CASE j > M
    <3>1. j - M \in 1..(lp - o) /\ j = M + (j - M)
      BY ONLY <1>30, <2>4, <2>6
    <3> QED BY <3>1
  <2> HIDE DEF In1, In2, In3, In4
  <2>5. j <= o - 1 \/ (j > o - 1 /\ j <= b) \/ (j > b /\ j <= M) \/ j > M
    BY ONLY <1>30, <2>6
  <2> QED BY <2>1, <2>2, <2>3, <2>4, <2>5
<1>15. lq \in Nat /\ lq >= 1 /\ q # << >>
  <2>1. lq \in Nat /\ lq >= 1
    BY ONLY <1>30
  <2>2. q # << >>
    BY <2>1 DEF lq
  <2> QED BY <2>1, <2>2

<1>16. ASSUME NEW j \in 1..Len(q)
       PROVE  /\ OpFits(q, j)
              /\ q[j].kind = "return" <=> j = Len(q)
              /\ q[j].kind = "arg" => j \in 1..(o - 1)
              /\ Untyped(p) /\ q[j].kind \in Sinks \cup {"arg", "transpose", "cast"} =>
                     q[j].type = Unranked
              /\ q[j].kind = "generic_call" =>
                     \E i \in 1..Len(p) : p[i].kind = "generic_call" /\ p[i].type = q[j].type
  <2>1. CASE In1(j)
    <3>1. j \in 1..(o - 1)
      BY <2>1
    <3>5. j # lq
      BY ONLY <1>30, <3>1
    <3>2. j \in 1..Len(p) /\ j < Len(p) /\ q[j] = p[j] /\ Copies(q, j, p, j) /\ j # Len(q)
      BY <1>10, <3>1, <3>5 DEF lq
    <3>3. OpFits(q, j)
      BY <1>21, <1>15, <3>2, CopyFits
    <3>4. p[j].kind # "return"
      BY <1>4, <3>2 DEF BodyInv
    <3> QED BY <3>1, <3>2, <3>3, <3>4 DEF Untyped
  <2>2. CASE In2(j)
    <3>1. PICK c \in 1..L : j = o - 1 + c
      BY <2>2
    <3>2. q[j].kind = "cast" /\ q[j].type = Unranked /\ OpFits(q, j)
      BY <1>11, <3>1
    <3>3. j # lq
      <4>1. c \in 1..L
        OBVIOUS
      <4> QED BY ONLY <1>30, <3>1, <4>1
    <3> QED BY <3>2, <3>3 DEF lq
  <2>3. CASE In3(j)
    <3>1. PICK v \in 1..B : j = b + v
      BY <2>3
    <3>2. /\ q[j].kind = f[n + v].kind /\ q[j].type = f[n + v].type
          /\ n + v \in 1..Len(f) /\ n + v < Len(f) /\ n + v > n
          /\ Copies(q, j, f, n + v)
      BY <1>12, <3>1
    <3>3. OpFits(q, j)
      BY <1>21, <1>15, <3>2, CopyFits
    <3>4. f[n + v].kind # "return" /\ f[n + v].kind # "arg" /\ f[n + v].kind # "generic_call"
      <4>1. n + v # Len(f) /\ ~ (n + v <= n)
        <5>1. v \in 1..B
          OBVIOUS
        <5>2. n + v # lf /\ ~ (n + v <= n)
          BY ONLY <1>30, <5>1
        <5> QED BY <5>2 DEF lf
      <4> QED BY <1>3, <3>2, <4>1 DEF BodyInv, NoCalls
    <3>5. j # lq
      <4>1. v \in 1..B
        OBVIOUS
      <4> QED BY ONLY <1>30, <3>1, <4>1
    <3>6. f[n + v].kind \in Sinks \cup {"arg", "transpose", "cast"} => f[n + v].type = Unranked
      BY <3>2 DEF Untyped
    <3> QED BY <3>2, <3>3, <3>4, <3>5, <3>6 DEF lq
  <2>4. CASE In4(j)
    <3>1. PICK i \in 1..(Len(p) - o) : j = M + i
      BY <2>4 DEF lp
    <3>2. /\ q[j].kind = p[o + i].kind /\ q[j].type = p[o + i].type
          /\ o + i \in 1..Len(p) /\ Copies(q, j, p, o + i)
      BY <1>13, <3>1
    <3>3. OpFits(q, j)
      BY <1>21, <1>15, <3>2, CopyFits
    <3>4. p[o + i].kind = "return" <=> o + i = Len(p)
      BY <3>2 DEF BodyInv
    <3>5. j = Len(q) <=> o + i = Len(p)
      <4>1. i \in 1..(lp - o)
        BY DEF lp
      <4>2. j = lq <=> o + i = lp
        BY ONLY <1>30, <3>1, <4>1
      <4> QED BY <4>2 DEF lp, lq
    <3>6. p[o + i].kind # "arg"
      <4>1. o \in 1..(o + i)
        BY <1>6, <1>20
      <4>2. p[o].kind # "arg"
        BY <1>7
      <4> QED BY <3>2, <4>1, <4>2 DEF BodyInv
    <3>7. Untyped(p) /\ p[o + i].kind \in Sinks \cup {"arg", "transpose", "cast"} =>
              p[o + i].type = Unranked
      BY <3>2 DEF Untyped
    <3> QED BY <3>2, <3>3, <3>4, <3>5, <3>6, <3>7
  <2> HIDE DEF In1, In2, In3, In4
  <2> QED BY <1>14, <2>1, <2>2, <2>3, <2>4
<1>17. ASSUME NEW j \in 1..Len(q), q[j].kind = "arg", NEW u \in 1..j PROVE q[u].kind = "arg"
  <2>1. j \in 1..(o - 1)
    BY <1>16, <1>17
  <2>2. u \in 1..(o - 1) /\ q[j] = p[j] /\ q[u] = p[u] /\ j \in 1..Len(p)
    <3>1. u \in 1..(o - 1)
      BY <1>6, <1>20, <2>1
    <3> QED BY <1>10, <2>1, <3>1
  <2> QED BY <1>17, <2>2 DEF BodyInv
<1>26. BodyInv(q)
  BY <1>21, <1>15, <1>16, <1>17 DEF BodyInv
<1>19. Untyped(p) => Untyped(q)
  BY <1>16 DEF Untyped
<1> QED BY <1>16, <1>19, <1>26 DEF q


-----------------------------------------------------------------------------
(* What the program is when step m comes next.                             *)
FormAt(o, m) ==
    IF m = 1 THEN "source" ELSE IF m = 2 THEN "ast" ELSE IF m = 15 THEN "affine"
    ELSE IF m = 16 THEN "llvm" ELSE IF m = 17 THEN Requested(o)[2] ELSE "toy"

(* With the functions D, step e follows step m.                            *)
Follows(o, m, e, D) ==
    /\ e \in (m + 1)..17 /\ e \in Left(o, e, D)
    /\ \A r \in (m + 1)..(e - 1) : ~ (InPlan(o, r) /\ Plan(o)[r][2] \in D)

LEMMA OfMain ==
    ASSUME NEW o \in Options, NEW r \in 1..17
    PROVE  Plan(o)[r][2] = IF r \in {3, 7, 8, 9} THEN "callee" ELSE "main"
<1> HIDE DEF Plan
<1>1. CASE r \in {1, 2, 3, 4, 5, 6, 7, 8}
  BY <1>1, PlanFacts
<1>2. CASE r \in {9, 10, 11, 12, 13, 14, 15, 16, 17}
  BY <1>2, PlanFacts
<1>3. r \in {1, 2, 3, 4, 5, 6, 7, 8} \cup {9, 10, 11, 12, 13, 14, 15, 16, 17}
  OBVIOUS
<1> QED BY <1>1, <1>2, <1>3

LEMMA NextIs ==
    ASSUME NEW o \in Options, NEW D, "main" \in D, NEW m \in 1..16, InPlan(o, m),
           NEW e, Follows(o, m, e, D)
    PROVE  /\ m = 1 => e \in {2, 17} /\ FormAt(o, e) = "ast"
           /\ m = 2 => e \in {3, 4}
           /\ m \in 2..12 => FormAt(o, e) = "toy"
           /\ m = 13 => e = 17 /\ FormAt(o, e) = "linalg"
           /\ m = 14 => e \in {15, 17} /\ FormAt(o, e) = "affine"
           /\ m = 15 => e \in {16, 17} /\ FormAt(o, e) = "llvm"
           /\ m = 16 => e = 17 /\ FormAt(o, e) = "ir"
           /\ e = 12 => m = 11
           /\ e = 14 => m = 12
<1>1. o.emit \in {"none", "ast", "toy", "linalg", "affine", "LLVM", "llvm-ir"}
  BY ActionsInOrder
<1>2. e \in (m + 1)..17 /\ InPlan(o, e)
  BY DEF Follows, Left
<1>3. ASSUME NEW r \in 1..17, r > m, r < e, r \notin {3, 7, 8, 9} PROVE ~ InPlan(o, r)
  <2>1. r \in (m + 1)..(e - 1)
    BY <1>2, <1>3
  <2>2. Plan(o)[r][2] \in D
    BY <1>3, OfMain
  <2> QED BY <2>1, <2>2 DEF Follows
<1>4. /\ o.emit = "ast" => Requested(o)[2] = "ast"
      /\ o.emit = "toy" => Requested(o)[2] = "toy"
      /\ o.emit = "linalg" => Requested(o)[2] = "linalg"
      /\ o.emit = "affine" => Requested(o)[2] = "affine"
      /\ o.emit = "LLVM" => Requested(o)[2] = "llvm"
      /\ o.emit \in {"none", "llvm-ir"} => Requested(o)[2] = "ir"
  BY DEF Requested
<1> DEFINE In(r) == InPlan(o, r)
<1>5. /\ In(2) <=> o.emit # "ast"
      /\ In(4) <=> o.emit # "ast"
      /\ In(5) <=> o.emit # "ast"
      /\ In(6) <=> o.emit # "ast"
      /\ In(10) <=> o.emit # "ast"
      /\ In(11) <=> (o.emit # "ast" /\ (o.emit \in {"toy", "linalg"} => o.opt))
      /\ In(12) <=> (o.emit # "ast" /\ (o.emit \in {"toy", "linalg"} => o.opt))
      /\ In(13) <=> o.emit = "linalg"
      /\ In(14) <=> o.emit \in {"none", "affine", "LLVM", "llvm-ir"}
      /\ In(15) <=> o.emit \in {"none", "LLVM", "llvm-ir"}
      /\ In(16) <=> o.emit \in {"none", "llvm-ir"}
  BY DEF InPlan
<1>6. \A r \in {2, 3, 4, 5, 6, 7, 8, 9, 10, 11, 12} : In(r) => o.emit # "ast"
  BY DEF InPlan
<1> HIDE DEF In
<1>7. \A r \in {2, 4, 5, 6, 10, 11, 12, 13, 14, 15, 16} : r > m /\ r < e => ~ In(r)
  BY <1>3 DEF In
<1>8. In(m) /\ In(e)
  BY <1>2 DEF In
<1>9. /\ m \in Int /\ e \in Int /\ m < e /\ 1 <= m /\ e <= 17
  BY <1>2
<1>10. /\ e = 2 => FormAt(o, e) = "ast"
       /\ e \in 3..14 => FormAt(o, e) = "toy"
       /\ e = 15 => FormAt(o, e) = "affine"
       /\ e = 16 => FormAt(o, e) = "llvm"
       /\ e = 17 => FormAt(o, e) = Requested(o)[2]
  BY <1>9 DEF FormAt
<1>11. m = 1 => e \in {2, 17} /\ FormAt(o, e) = "ast"
  <2> SUFFICES ASSUME m = 1 PROVE e \in {2, 17} /\ FormAt(o, e) = "ast"
    OBVIOUS
  <2>1. CASE o.emit = "ast"
    <3>1. e \notin {2, 3, 4, 5, 6, 7, 8, 9, 10, 11, 12}
      BY <1>6, <1>8, <2>1
    <3>2. e \notin {13, 14, 15, 16}
      BY <1>5, <1>8, <2>1
    <3>3. e = 17
      BY <1>9, <3>1, <3>2
    <3> QED BY <1>4, <1>10, <2>1, <3>3
  <2>2. CASE o.emit # "ast"
    <3>1. ~ (2 < e)
      BY <1>5, <1>7, <2>2
    <3>2. e = 2
      BY <1>9, <3>1
    <3> QED BY <1>10, <3>2
  <2> QED BY <2>1, <2>2
<1>12. m = 2 => e \in {3, 4}
  <2> SUFFICES ASSUME m = 2 PROVE e \in {3, 4}
    OBVIOUS
  <2>1. o.emit # "ast"
    BY <1>5, <1>8
  <2>2. ~ (4 < e)
    BY <1>5, <1>7, <2>1
  <2> QED BY <1>9, <2>2
<1>13. m \in 2..12 => FormAt(o, e) = "toy"
  <2> SUFFICES ASSUME m \in 2..12 PROVE FormAt(o, e) = "toy"
    OBVIOUS
  <2>1. o.emit # "ast"
    <3>1. m \in {2, 3, 4, 5, 6, 7, 8, 9, 10, 11, 12}
      OBVIOUS
    <3> QED BY <1>6, <1>8, <3>1
  <2>2. CASE e <= 14
    <3>1. e \in 3..14
      BY <1>9, <2>2
    <3> QED BY <1>10, <3>1
  <2>3. CASE e > 14
    <3>1. ~ In(14) /\ ~ In(13)
      BY <1>7, <1>9, <2>3
    <3>2. o.emit = "toy"
      BY <1>1, <1>5, <2>1, <3>1
    <3>3. e \notin {15, 16}
      BY <1>5, <1>8, <3>2
    <3>4. e = 17
      BY <1>9, <2>3, <3>3
    <3> QED BY <1>4, <1>10, <3>2, <3>4
  <2> QED BY <1>9, <2>2, <2>3
<1>14. m = 13 => e = 17 /\ FormAt(o, e) = "linalg"
  <2> SUFFICES ASSUME m = 13 PROVE e = 17 /\ FormAt(o, e) = "linalg"
    OBVIOUS
  <2>1. o.emit = "linalg"
    BY <1>5, <1>8
  <2>2. e \notin {14, 15, 16}
    BY <1>5, <1>8, <2>1
  <2>3. e = 17
    BY <1>9, <2>2
  <2> QED BY <1>4, <1>10, <2>1, <2>3
<1>15. m = 14 => e \in {15, 17} /\ FormAt(o, e) = "affine"
  <2> SUFFICES ASSUME m = 14 PROVE e \in {15, 17} /\ FormAt(o, e) = "affine"
    OBVIOUS
  <2>1. o.emit \in {"none", "affine", "LLVM", "llvm-ir"}
    BY <1>5, <1>8
  <2>2. CASE e = 15
    BY <1>10, <2>2
  <2>3. CASE e # 15
    <3>1. ~ In(15)
      BY <1>7, <1>9, <2>3
    <3>2. o.emit = "affine"
      BY <1>5, <2>1, <3>1
    <3>3. e # 16
      BY <1>5, <1>8, <3>2
    <3>4. e = 17
      BY <1>9, <2>3, <3>3
    <3> QED BY <1>4, <1>10, <3>2, <3>4
  <2> QED BY <2>2, <2>3
<1>16. m = 15 => e \in {16, 17} /\ FormAt(o, e) = "llvm"
  <2> SUFFICES ASSUME m = 15 PROVE e \in {16, 17} /\ FormAt(o, e) = "llvm"
    OBVIOUS
  <2>1. o.emit \in {"none", "LLVM", "llvm-ir"}
    BY <1>5, <1>8
  <2>2. CASE e = 16
    BY <1>10, <2>2
  <2>3. CASE e # 16
    <3>1. ~ In(16)
      BY <1>7, <1>9, <2>3
    <3>2. o.emit = "LLVM"
      BY <1>5, <2>1, <3>1
    <3>4. e = 17
      BY <1>9, <2>3
    <3> QED BY <1>4, <1>10, <3>2, <3>4
  <2> QED BY <2>2, <2>3
<1>17. m = 16 => e = 17 /\ FormAt(o, e) = "ir"
  <2> SUFFICES ASSUME m = 16 PROVE e = 17 /\ FormAt(o, e) = "ir"
    OBVIOUS
  <2>1. o.emit \in {"none", "llvm-ir"}
    BY <1>5, <1>8
  <2>2. e = 17
    BY <1>9
  <2> QED BY <1>4, <1>10, <2>1, <2>2
<1>18. e = 12 => m = 11
  <2> SUFFICES ASSUME e = 12 PROVE m = 11
    OBVIOUS
  <2>1. ~ (11 > m)
    BY <1>5, <1>7, <1>8
  <2> QED BY <1>9, <2>1
<1>19. e = 14 => m = 12
  <2> SUFFICES ASSUME e = 14 PROVE m = 12
    OBVIOUS
  <2>1. o.emit \in {"none", "affine", "LLVM", "llvm-ir"}
    BY <1>5, <1>8
  <2>2. In(12) /\ ~ In(13)
    BY <1>5, <2>1
  <2>3. ~ (12 > m)
    BY <1>7, <2>2
  <2>4. m # 13
    BY <1>8, <2>2
  <2> QED BY <1>9, <2>3, <2>4
<1> QED BY <1>11, <1>12, <1>13, <1>14, <1>15, <1>16, <1>17, <1>18, <1>19

(* After step m the steps left are those that follow it.                   *)
LEMMA Advance ==
    ASSUME NEW o \in Options, NEW D, NEW m \in 1..16, m \in Left(o, m, D),
           NEW s, Lists(s, Plan(o), Left(o, m, D)),
           NEW f, "main" \in DOMAIN f, DOMAIN f \subseteq D
    PROVE  \E e \in 1..17 :
              /\ Follows(o, m, e, DOMAIN f)
              /\ Lists(Remaining(Tail(s), f), Plan(o), Left(o, e, DOMAIN f))
              /\ m # 1 /\ DOMAIN f = D => Lists(Tail(s), Plan(o), Left(o, e, DOMAIN f))
<1> DEFINE plan == Plan(o)
           R == Left(o, m, D)
           Q == {r \in R \ {m} : plan[r][2] \in DOMAIN f}
<1>1. R \in SUBSET (1..17) /\ \A r \in R : m <= r
  BY DEF Left
<1>2. Lists(Tail(s), plan, R \ {m})
  <2> HIDE DEF plan, R
  <2>1. m \in R /\ Lists(s, plan, R)
    BY DEF plan, R
  <2> QED BY <1>1, <2>1, ListsTail
<1>3. 17 \in Q
  <2>1. plan[17][2] = "main"
    BY OfMain
  <2>2. InPlan(o, 17) /\ 17 >= m /\ 17 # m
    BY DEF InPlan
  <2>3. "main" \in D
    OBVIOUS
  <2> QED BY <2>1, <2>2, <2>3 DEF Left
<1>4. Lists(Remaining(Tail(s), f), plan, Q)
  <2>1. R \ {m} \in SUBSET (1..17) /\ R \ {m} # {}
    BY <1>1, <1>3
  <2> DEFINE P == R \ {m}
             t == Tail(s)
  <2>2. P \in SUBSET (1..17) /\ P # {} /\ Lists(t, plan, P)
    BY <1>2, <2>1
  <2> HIDE DEF P, plan, t
  <2>3. Lists(Remaining(t, f), plan, {r \in P : plan[r][2] \in DOMAIN f})
    BY <2>2, ListsRemaining
  <2> QED BY <2>3 DEF P, t
<1>5. PICK e \in Q : \A r \in Q : e <= r
  <2>1. Q \in SUBSET Nat /\ Q # {}
    BY <1>1, <1>3
  <2> HIDE DEF Q
  <2> QED BY <2>1, LeastNumber
<1>6. e \in 1..17 /\ e > m /\ InPlan(o, e) /\ plan[e][2] \in DOMAIN f
  <2>1. e \in R /\ e # m /\ plan[e][2] \in DOMAIN f
    BY <1>5
  <2>2. e \in 1..17 /\ InPlan(o, e)
    BY <2>1 DEF Left
  <2> QED BY <1>1, <2>1, <2>2
<1>7. \A r \in 1..17 : r \in Q <=> (InPlan(o, r) /\ r > m /\ plan[r][2] \in DOMAIN f)
  <2> HIDE DEF plan
  <2> QED BY DEF Left, plan
<1>8. Q = Left(o, e, DOMAIN f)
  <2>1. \A r \in 1..17 : r \in Left(o, e, DOMAIN f) <=> (InPlan(o, r) /\ r >= e /\ plan[r][2] \in DOMAIN f)
    BY <1>6 DEF Left
  <2>2. Q \in SUBSET (1..17) /\ Left(o, e, DOMAIN f) \in SUBSET (1..17)
    BY <1>1 DEF Left
  <2> HIDE DEF Q, plan
  <2>3. ASSUME NEW r \in 1..17 PROVE r \in Q <=> r \in Left(o, e, DOMAIN f)
    <3>1. CASE r \in Q
      <4>1. e <= r
        BY <1>5, <3>1
      <4> QED BY <1>7, <2>1, <3>1, <4>1
    <3>2. CASE r \in Left(o, e, DOMAIN f)
      <4>1. r > m
        BY <1>6, <2>1, <3>2
      <4> QED BY <1>7, <2>1, <3>2, <4>1
    <3> QED BY <3>1, <3>2
  <2> QED BY <2>2, <2>3
<1>9. Follows(o, m, e, DOMAIN f)
  <2>1. e \in (m + 1)..17
    BY <1>6
  <2>2. e \in Left(o, e, DOMAIN f)
    BY <1>5, <1>8
  <2>3. ASSUME NEW r \in (m + 1)..(e - 1), InPlan(o, r), plan[r][2] \in DOMAIN f PROVE FALSE
    <3>1. r \in 1..17 /\ r > m /\ r < e
      BY <1>6
    <3>2. r \in Q
      BY <1>7, <2>3, <3>1
    <3> HIDE DEF Q
    <3> QED BY <1>5, <1>6, <3>1, <3>2
  <2> QED BY <2>1, <2>2, <2>3 DEF Follows
<1>10. ASSUME m # 1, DOMAIN f = D PROVE Q = R \ {m}
  <2>1. \A r \in R : plan[r][2] \in D
    BY <1>10 DEF Left
  <2> HIDE DEF plan, R
  <2> QED BY <1>10, <2>1
<1> HIDE DEF Q
<1> QED BY <1>2, <1>4, <1>6, <1>8, <1>9, <1>10


-----------------------------------------------------------------------------
(* What is known of the module when step m comes next.  Until shape        *)
(* inference has been over a function its transposes and casts have no     *)
(* shape; until the inliner is through the calls can be inlined; the       *)
(* verifier has passed the module that inference and the lowerings get;    *)
(* and CSE, and with it the affine lowering, sees no product with a vector.*)
Stage(m) ==
    /\ form = FormAt(options, m)
    /\ m <= 10 => Untyped(mod.main)
    /\ m <= 7 /\ "callee" \in DOMAIN mod => Untyped(mod.callee)
    /\ m <= 5 => CallsFit(mod)
    /\ m \in {7, 10, 13, 14} => \A g \in DOMAIN mod : VerifiesBody(mod[g])
    /\ m \in {12, 14} => NoVectors(mod.main)

IsNext(m) ==
    /\ m \in Left(options, m, DOMAIN mod)
    /\ Lists(todo, Plan(options), Left(options, m, DOMAIN mod))
    /\ Stage(m)

Running == \E m \in 1..17 : IsNext(m)

IsModuleInv(m) ==
    /\ DOMAIN m \in {{"main"}, {"callee", "main"}}
    /\ \A g \in DOMAIN m : BodyInv(m[g])

(* The inductive invariant.                                                *)
PipelineInv ==
    /\ options \in Options
    /\ IsModuleInv(mod)
    /\ exit \in {"running", "abort", "0", "1", "-1"}
    /\ output = IF exit = "0" THEN Requested(options) ELSE << >>
    /\ exit = "running" => Running

(* The step that comes next, and the function it is for.                   *)
LEMMA NextStep ==
    ASSUME NEW m \in 1..17, options \in Options, IsModuleInv(mod), IsNext(m)
    PROVE  /\ todo # << >> /\ Head(todo) = Plan(options)[m]
           /\ fn = (IF m \in {3, 7, 8, 9} THEN "callee" ELSE "main")
           /\ fn \in DOMAIN mod /\ BodyInv(Body)
           /\ "main" \in DOMAIN mod
           /\ InPlan(options, m)
<1> DEFINE R == Left(options, m, DOMAIN mod)
<1>1. R \in SUBSET (1..17) /\ m \in R /\ \A r \in R : m <= r
  BY DEF Left, IsNext
<1>2. Lists(todo, Plan(options), R)
  BY DEF IsNext
<1> HIDE DEF R
<1>3. todo # << >> /\ Head(todo) = Plan(options)[m]
  BY <1>1, <1>2, ListsTail
<1>4. fn = Plan(options)[m][2]
  BY <1>3 DEF fn
<1>5. fn = (IF m \in {3, 7, 8, 9} THEN "callee" ELSE "main")
  BY <1>4, OfMain
<1>6. "main" \in DOMAIN mod
  BY DEF IsModuleInv
<1>7. InPlan(options, m) /\ (m = 1 \/ Plan(options)[m][2] \in DOMAIN mod)
  BY DEF IsNext, Left
<1>8. fn \in DOMAIN mod
  <2>1. CASE m = 1
    BY <1>5, <1>6, <2>1
  <2>2. CASE m # 1
    BY <1>4, <1>7, <2>2
  <2> QED BY <2>1, <2>2
<1>9. BodyInv(Body)
  BY <1>8 DEF IsModuleInv, Body
<1> QED BY <1>3, <1>5, <1>6, <1>7, <1>8, <1>9

(* The number of the step tells its name, and the name the numbers.        *)
Named(m, name) ==
    /\ name = "parse" => m = 1
    /\ name = "mlirgen" => m = 2
    /\ name = "canonicalize" => m \in {3, 4, 6, 8, 11}
    /\ name = "inline" => m = 5
    /\ name = "infer" => m \in {7, 10}
    /\ name = "cse" => m \in {9, 12}
    /\ name = "linalg" => m = 13
    /\ name = "affine" => m = 14
    /\ name = "llvm" => m = 15
    /\ name = "translate" => m = 16
    /\ name \in {"ast", "dump", "jit", "native"} =>
          m = 17 /\ name = Plan(options)[17][1]

LEMMA DoingStep ==
    ASSUME options \in Options, NEW m \in 1..17, Head(todo) = Plan(options)[m],
           NEW name, Doing(name)
    PROVE  Named(m, name)
<1> DEFINE last == Plan(options)[17][1]
<1>1. Plan(options)[m][1] = name
  BY DEF Doing
<1>2. last \in {"ast", "dump", "jit", "native"}
  <2>1. last = IF options.emit = "ast" THEN "ast" ELSE IF options.emit = "none" THEN options.run ELSE "dump"
    BY PlanFacts
  <2> QED BY <2>1, ActionsInOrder
<1>3. CASE m \in {1, 2, 3, 4}
  BY <1>1, <1>3, PlanFacts DEF Named
<1>4. CASE m \in {5, 6, 7, 8}
  BY <1>1, <1>4, PlanFacts DEF Named
<1>5. CASE m \in {9, 10, 11, 12}
  BY <1>1, <1>5, PlanFacts DEF Named
<1>6. CASE m \in {13, 14, 15, 16}
  BY <1>1, <1>6, PlanFacts DEF Named
<1>7. CASE m = 17
  BY <1>1, <1>2, <1>7 DEF Named
<1>8. m \in {1, 2, 3, 4} \/ m \in {5, 6, 7, 8} \/ m \in {9, 10, 11, 12} \/ m \in {13, 14, 15, 16} \/ m = 17
  OBVIOUS
<1> QED BY <1>3, <1>4, <1>5, <1>6, <1>7, <1>8

(* It holds at the start: all the steps are left, and the module is one    *)
(* that the code generator accepts.                                        *)
LEMMA PipelineInit == Init => PipelineInv
<1> SUFFICES ASSUME Init PROVE PipelineInv
  OBVIOUS
<1>1. PICK i \in Inputs : options = i[1] /\ mod = i[2]
  BY DEF Init
<1>2. options \in Options /\ IsModule(mod)
  BY <1>1, InputsAssumption
<1>3. \A g \in DOMAIN mod : BodyInv(mod[g]) /\ Untyped(mod[g])
  BY <1>2, GeneratedBody DEF IsModule
<1>4. DOMAIN mod \in {{"main"}, {"callee", "main"}} /\ "main" \in DOMAIN mod
  BY <1>2 DEF IsModule
<1>5. IsModuleInv(mod)
  BY <1>3, <1>4 DEF IsModuleInv
<1>6. CallsFit(mod)
  <2> DEFINE f == mod.callee
             p == mod.main
  <2>1. /\ \A o \in DOMAIN p : p[o].kind = "generic_call" =>
              /\ "callee" \in DOMAIN mod /\ Last(f).args # << >>
              /\ p[o].type = f[Last(f).args[1]].type
        /\ "callee" \in DOMAIN mod => \A o \in DOMAIN f : f[o].kind # "generic_call"
    BY <1>2 DEF IsModule
  <2>2. BodyInv(p)
    BY <1>3, <1>4
  <2>3. DOMAIN p = 1..Len(p)
    BY <2>2, BodyFacts DEF BodyInv
  <2>4. "callee" \in DOMAIN mod => BodyInv(f)
    BY <1>3
  <2>5. "callee" \in DOMAIN mod => /\ DOMAIN f = 1..Len(f) /\ Last(f) = f[Len(f)]
                                   /\ Last(f).args # << >> => Len(f[Len(f)].args) = 1
    <3> SUFFICES ASSUME "callee" \in DOMAIN mod
                 PROVE  /\ DOMAIN f = 1..Len(f) /\ Last(f) = f[Len(f)]
                        /\ Last(f).args # << >> => Len(f[Len(f)].args) = 1
      OBVIOUS
    <3>1. /\ DOMAIN f = 1..Len(f) /\ Last(f) = f[Len(f)]
          /\ Len(f) \in 1..Len(f) /\ f[Len(f)].kind = "return" /\ f[Len(f)].args \in Seq(Nat)
      BY <2>4, BodyFacts, ReturnIsLast DEF BodyInv
    <3>2. ArityOK("return", Len(f[Len(f)].args))
      BY <2>4, <3>1 DEF BodyInv, OpFits
    <3>3. Len(f[Len(f)].args) \in {0, 1}
      BY <3>2 DEF ArityOK
    <3>4. Last(f).args # << >> => Len(f[Len(f)].args) # 0
      BY <3>1
    <3> QED BY <3>1, <3>3, <3>4
  <2> HIDE DEF f, p
  <2>6. ASSUME NEW o \in 1..Len(p), p[o].kind = "generic_call"
        PROVE  /\ "callee" \in DOMAIN mod /\ Len(f[Len(f)].args) = 1
               /\ Up(p[o].type, Returned(f))
    <3>1. "callee" \in DOMAIN mod /\ Len(f[Len(f)].args) = 1 /\ p[o].type = f[Last(f).args[1]].type
      BY <2>1, <2>3, <2>5, <2>6
    <3>2. p[o].type = Returned(f)
      BY <2>5, <3>1 DEF Returned
    <3> QED BY <3>1, <3>2 DEF Up
  <2>7. "callee" \in DOMAIN mod => NoCalls(f)
    BY <2>1, <2>5 DEF NoCalls
  <2> QED BY <2>6, <2>7 DEF CallsFit, f, p
<1>7. Left(options, 1, DOMAIN mod) = {r \in 1..17 : InPlan(options, r)}
  BY DEF Left
<1>8. Lists(todo, Plan(options), Left(options, 1, DOMAIN mod))
  BY <1>2, <1>7, StepsAreLeft DEF Init
<1>9. 1 \in Left(options, 1, DOMAIN mod)
  BY <1>7 DEF InPlan
<1>10. Stage(1)
  BY <1>3, <1>4, <1>6 DEF Stage, FormAt, Init
<1>11. Running
  BY <1>8, <1>9, <1>10 DEF Running, IsNext
<1>12. exit = "running" /\ output = << >>
  BY DEF Init
<1> QED BY <1>2, <1>5, <1>11, <1>12 DEF PipelineInv


(* q is what rewriting, merging or inlining has made of the body p.        *)
Becomes(p, q) ==
    /\ BodyInv(q)
    /\ Untyped(p) => Untyped(q)
    /\ \A j \in 1..Len(q) : q[j].kind = "generic_call" =>
          \E i \in 1..Len(p) : p[i].kind = "generic_call" /\ p[i].type = q[j].type

LEMMA EvolvesBecomes ==
    ASSUME NEW p, BodyInv(p), NEW q, Evolves(p, q)
    PROVE  Becomes(p, q)
<1>1. BodyInv(q) /\ (Untyped(p) => Untyped(q))
  BY EvolvesKeeps DEF Evolves
<1>2. ASSUME NEW j \in 1..Len(q), q[j].kind = "generic_call"
      PROVE  \E i \in 1..Len(p) : p[i].kind = "generic_call" /\ p[i].type = q[j].type
  BY <1>2 DEF Evolves, Made
<1> QED BY <1>1, <1>2 DEF Becomes

LEMMA UpUp ==
    ASSUME NEW t, NEW u, NEW v, Up(t, u), Up(u, v)
    PROVE  Up(t, v)
BY DEF Up

(* A function of a module changes, the other one does not.                 *)
LEMMA ModuleBecomes ==
    ASSUME NEW M, IsModuleInv(M), NEW g \in DOMAIN M, NEW q, Becomes(M[g], q),
           NEW N, N = [M EXCEPT ![g] = q]
    PROVE  /\ IsModuleInv(N) /\ DOMAIN N = DOMAIN M
           /\ Untyped(M["main"]) => Untyped(N["main"])
           /\ "callee" \in DOMAIN M /\ Untyped(M["callee"]) => Untyped(N["callee"])
           /\ CallsFit(M) /\ (g = "callee" => KeepsReturn(M[g], q)) => CallsFit(N)
           /\ NoVectors(M["main"]) /\ (g = "main" => NoVectors(q)) => NoVectors(N["main"])
<1>1. DOMAIN N = DOMAIN M /\ N[g] = q /\ \A h \in DOMAIN M : h # g => N[h] = M[h]
  OBVIOUS
<1>2. /\ DOMAIN M \in {{"main"}, {"callee", "main"}} /\ "main" \in DOMAIN M
      /\ \A h \in DOMAIN M : BodyInv(M[h])
      /\ g = "main" \/ g = "callee"
  BY DEF IsModuleInv
<1>3. BodyInv(q) /\ (Untyped(M[g]) => Untyped(q))
  BY DEF Becomes
<1>4. IsModuleInv(N)
  BY <1>1, <1>2, <1>3 DEF IsModuleInv
<1>5. Untyped(M["main"]) => Untyped(N["main"])
  BY <1>1, <1>2, <1>3
<1>6. "callee" \in DOMAIN M /\ Untyped(M["callee"]) => Untyped(N["callee"])
  BY <1>1, <1>2, <1>3
<1>7. ASSUME CallsFit(M), g = "callee" => KeepsReturn(M[g], q) PROVE CallsFit(N)
  <2> DEFINE p == M["main"]
             f == M["callee"]
             p2 == N["main"]
             f2 == N["callee"]
  <2>1. /\ \A o \in 1..Len(p) : p[o].kind = "generic_call" =>
              /\ "callee" \in DOMAIN M /\ Len(f[Len(f)].args) = 1
              /\ Up(p[o].type, Returned(f))
        /\ "callee" \in DOMAIN M => NoCalls(f)
    BY <1>7 DEF CallsFit
  <2>2. \A j \in 1..Len(q) : q[j].kind = "generic_call" =>
            \E i \in 1..Len(M[g]) : M[g][i].kind = "generic_call" /\ M[g][i].type = q[j].type
    BY DEF Becomes
  <2> SUFFICES /\ \A o \in 1..Len(p2) : p2[o].kind = "generic_call" =>
                     /\ "callee" \in DOMAIN M /\ Len(f2[Len(f2)].args) = 1
                     /\ Up(p2[o].type, Returned(f2))
               /\ "callee" \in DOMAIN M => NoCalls(f2)
    BY <1>1 DEF CallsFit
  <2>3. CASE g = "main"
    <3>1. p2 = q /\ M[g] = p /\ ("callee" \in DOMAIN M => f2 = f)
      BY <1>1, <2>3
    <3> HIDE DEF p, p2, f, f2
    <3> QED BY <2>1, <2>2, <3>1
  <2>4. CASE g = "callee"
    <3>1. p2 = p /\ M[g] = f /\ f2 = q /\ "callee" \in DOMAIN M
      BY <1>1, <1>2, <2>4
    <3>2. KeepsReturn(f, q)
      BY <1>7, <2>4, <3>1
    <3> HIDE DEF p, p2, f, f2
    <3>3. NoCalls(f2)
      BY <2>1, <2>2, <3>1 DEF NoCalls
    <3>4. ASSUME NEW o \in 1..Len(p2), p2[o].kind = "generic_call"
          PROVE  Len(f2[Len(f2)].args) = 1 /\ Up(p2[o].type, Returned(f2))
      <4>1. Len(f[Len(f)].args) = 1 /\ Up(p[o].type, Returned(f))
        BY <2>1, <3>1, <3>4
      <4>2. Len(q[Len(q)].args) = 1 /\ Up(Returned(f), Returned(q))
        BY <3>2, <4>1 DEF KeepsReturn
      <4>3. Up(p[o].type, Returned(q))
        BY <4>1, <4>2, UpUp
      <4> QED BY <3>1, <4>2, <4>3
    <3> QED BY <3>1, <3>3, <3>4
  <2> QED BY <1>2, <2>3, <2>4
<1>8. NoVectors(M["main"]) /\ (g = "main" => NoVectors(q)) => NoVectors(N["main"])
  BY <1>1, <1>2
<1> QED BY <1>1, <1>4, <1>5, <1>6, <1>7, <1>8

(* A step that changes the body in hand and leaves everything else keeps   *)
(* the invariant.                                                          *)
Same == UNCHANGED << options, todo, form, exit, output >>

LEMMA SameStep ==
    ASSUME PipelineInv, exit = "running", NEW m \in 1..17, IsNext(m),
           m \notin {7, 10, 13, 14},
           NEW q, Becomes(Body, q), mod' = [mod EXCEPT ![fn] = q], Same,
           m = 3 => KeepsReturn(Body, q),
           m = 12 => (NoVectors(Body) => NoVectors(q))
    PROVE  PipelineInv'
<1>1. options \in Options /\ IsModuleInv(mod)
  BY DEF PipelineInv
<1>2. /\ fn = (IF m \in {3, 7, 8, 9} THEN "callee" ELSE "main")
      /\ fn \in DOMAIN mod /\ "main" \in DOMAIN mod
  BY <1>1, NextStep
<1> DEFINE M == mod
           N == mod'
           g == fn
<1>3. Body = M[g]
  BY DEF Body
<1>4. N = [M EXCEPT ![g] = q]
  OBVIOUS
<1> HIDE DEF M, N, g
<1>5. /\ IsModuleInv(N) /\ DOMAIN N = DOMAIN M
      /\ Untyped(M["main"]) => Untyped(N["main"])
      /\ "callee" \in DOMAIN M /\ Untyped(M["callee"]) => Untyped(N["callee"])
      /\ CallsFit(M) /\ (g = "callee" => KeepsReturn(M[g], q)) => CallsFit(N)
      /\ NoVectors(M["main"]) /\ (g = "main" => NoVectors(q)) => NoVectors(N["main"])
  <2>1. IsModuleInv(M) /\ g \in DOMAIN M /\ Becomes(M[g], q)
    BY <1>1, <1>2, <1>3 DEF M, g
  <2> QED BY <1>4, <2>1, ModuleBecomes
<1>6. /\ IsModuleInv(mod') /\ DOMAIN mod' = DOMAIN mod
      /\ Untyped(mod.main) => Untyped(mod'.main)
      /\ "callee" \in DOMAIN mod /\ Untyped(mod.callee) => Untyped(mod'.callee)
      /\ CallsFit(mod) /\ (fn = "callee" => KeepsReturn(Body, q)) => CallsFit(mod')
      /\ NoVectors(mod.main) /\ (fn = "main" => NoVectors(q)) => NoVectors(mod'.main)
  BY <1>3, <1>5 DEF M, N, g
<1>7. Stage(m)
  BY DEF IsNext
<1>8. m <= 5 => CallsFit(mod')
  <2> SUFFICES ASSUME m <= 5 PROVE CallsFit(mod')
    OBVIOUS
  <2>1. CallsFit(mod)
    BY <1>7 DEF Stage
  <2>2. fn = "callee" => m = 3
    BY <1>2
  <2> QED BY <1>6, <2>1, <2>2
<1>9. m \in {12, 14} => NoVectors(mod'.main)
  <2> SUFFICES ASSUME m = 12 PROVE NoVectors(mod'.main)
    OBVIOUS
  <2>1. NoVectors(mod.main)
    BY <1>7 DEF Stage
  <2>2. fn = "main"
    BY <1>2
  <2>3. Body = mod.main
    BY <2>2 DEF Body
  <2> QED BY <1>6, <2>1, <2>3
<1>10. /\ form' = FormAt(options', m)
       /\ m <= 10 => Untyped(mod'.main)
       /\ m <= 7 /\ "callee" \in DOMAIN mod' => Untyped(mod'.callee)
  BY <1>6, <1>7 DEF Stage, Same
<1>11. Stage(m)'
  BY <1>8, <1>9, <1>10 DEF Stage
<1>12. /\ m \in Left(options', m, DOMAIN mod')
       /\ Lists(todo', Plan(options'), Left(options', m, DOMAIN mod'))
  BY <1>6 DEF IsNext, Same
<1>13. Running'
  <2>1. IsNext(m)'
    BY <1>11, <1>12 DEF IsNext
  <2> QED BY <2>1 DEF Running
<1>14. /\ options' \in Options /\ exit' \in {"running", "abort", "0", "1", "-1"}
       /\ output' = IF exit' = "0" THEN Requested(options') ELSE << >>
  BY DEF PipelineInv, Same
<1> QED BY <1>6, <1>13, <1>14 DEF PipelineInv


(* A step that main() is through with: one of those left comes next.       *)
LEMMA Onward ==
    ASSUME PipelineInv, NEW m \in 1..16, IsNext(m),
           "main" \in DOMAIN mod', DOMAIN mod' \subseteq DOMAIN mod,
           \/ todo' = Remaining(Tail(todo), mod')
           \/ m # 1 /\ mod' = mod /\ todo' = Tail(todo),
           options' = options,
           \A e \in 1..17 : Follows(options, m, e, DOMAIN mod') => Stage(e)'
    PROVE  Running'
<1> DEFINE o == options
           D == DOMAIN mod
           N == mod'
           s == todo
<1>1. /\ o \in Options /\ m \in Left(o, m, D) /\ Lists(s, Plan(o), Left(o, m, D))
      /\ "main" \in DOMAIN N /\ DOMAIN N \subseteq D
  BY DEF PipelineInv, IsNext
<1>2. \/ todo' = Remaining(Tail(s), N)
      \/ m # 1 /\ DOMAIN N = D /\ todo' = Tail(s)
  OBVIOUS
<1> HIDE DEF o, D, N, s
<1>3. PICK e \in 1..17 :
          /\ Follows(o, m, e, DOMAIN N)
          /\ Lists(Remaining(Tail(s), N), Plan(o), Left(o, e, DOMAIN N))
          /\ m # 1 /\ DOMAIN N = D => Lists(Tail(s), Plan(o), Left(o, e, DOMAIN N))
  BY <1>1, Advance
<1>4. Lists(todo', Plan(o), Left(o, e, DOMAIN N))
  BY <1>2, <1>3
<1>5. e \in Left(o, e, DOMAIN N)
  BY <1>3 DEF Follows
<1>6. Stage(e)'
  BY <1>3 DEF o, N
<1>7. IsNext(e)'
  BY <1>4, <1>5, <1>6 DEF IsNext, o, N
<1> QED BY <1>7 DEF Running

(* The end of a pass over the module: the verifier passes what comes next. *)
LEMMA EndPassInv ==
    ASSUME PipelineInv, exit = "running", NEW m \in 3..12, IsNext(m),
           NEW M, IsModuleInv(M), DOMAIN M \subseteq DOMAIN mod, EndPass(M),
           m < 10 => Untyped(M["main"]),
           m < 7 /\ "callee" \in DOMAIN M => Untyped(M["callee"]),
           m < 5 => M = mod,
           m \in {11, 12} => NoVectors(M["main"])
    PROVE  PipelineInv'
<1>1. /\ mod' = M /\ todo' = Remaining(Tail(todo), M) /\ options' = options /\ form' = form
      /\ output' = output /\ exit' \in {"running", "1"}
      /\ exit' = "running" => \A g \in DOMAIN M : VerifiesBody(M[g])
  BY DEF EndPass
<1>2. options \in Options /\ output = << >>
  BY DEF PipelineInv
<1>3. ASSUME exit' = "running" PROVE Running'
  <2>1. m \in 1..16 /\ "main" \in DOMAIN M
    BY DEF IsModuleInv
  <2>2. InPlan(options, m)
    BY DEF IsNext, Left
  <2>3. Stage(m)
    BY DEF IsNext
  <2>4. ASSUME NEW e \in 1..17, Follows(options, m, e, DOMAIN M) PROVE Stage(e)'
    <3>1. /\ m \in 2..12 => FormAt(options, e) = "toy"
          /\ e = 12 => m = 11
          /\ e = 14 => m = 12
      BY <1>2, <2>1, <2>2, <2>4, NextIs
    <3>2. e > m
      BY <2>4 DEF Follows
    <3>3. form' = FormAt(options', e)
      <4>1. FormAt(options, m) = "toy"
        BY DEF FormAt
      <4>2. m \in 2..12
        OBVIOUS
      <4> QED BY <1>1, <2>3, <3>1, <4>1, <4>2 DEF Stage
    <3>4. e <= 10 => Untyped(mod'.main)
      BY <1>1, <3>2
    <3>5. e <= 7 /\ "callee" \in DOMAIN mod' => Untyped(mod'.callee)
      BY <1>1, <3>2
    <3>6. e <= 5 => CallsFit(mod')
      <4> SUFFICES ASSUME e <= 5 PROVE CallsFit(mod')
        OBVIOUS
      <4>1. m < 5 /\ m <= 5
        BY <3>2
      <4>2. M = mod
        BY <4>1
      <4> QED BY <1>1, <2>3, <4>1, <4>2 DEF Stage
    <3>7. \A g \in DOMAIN mod' : VerifiesBody(mod'[g])
      BY <1>1, <1>3
    <3>8. e \in {12, 14} => NoVectors(mod'.main)
      BY <1>1, <3>1
    <3> QED BY <3>3, <3>4, <3>5, <3>6, <3>7, <3>8 DEF Stage
  <2> QED BY <1>1, <2>1, <2>4, Onward
<1>4. /\ options' \in Options /\ IsModuleInv(mod') /\ exit' \in {"running", "abort", "0", "1", "-1"}
      /\ output' = IF exit' = "0" THEN Requested(options') ELSE << >>
  BY <1>1, <1>2
<1> QED BY <1>3, <1>4 DEF PipelineInv

(* main() gives up.                                                        *)
LEMMA StopInv ==
    ASSUME PipelineInv, NEW code \in {"abort", "1", "-1"}, exit = "running", Stop(code)
    PROVE  PipelineInv'
<1>1. /\ exit' = code /\ options' = options /\ mod' = mod /\ output' = output
      /\ exit' # "running" /\ exit' # "0"
  BY DEF Stop
<1>2. options \in Options /\ output = << >> /\ IsModuleInv(mod)
  BY DEF PipelineInv
<1> QED BY <1>1, <1>2 DEF PipelineInv

(* An invariant that a step of a pass starts from.                         *)
LEMMA AtStep ==
    ASSUME PipelineInv, NEW name, Doing(name)
    PROVE  /\ exit = "running" /\ options \in Options /\ IsModuleInv(mod)
           /\ \E m \in 1..17 :
                 /\ IsNext(m) /\ Stage(m) /\ Named(m, name)
                 /\ fn = (IF m \in {3, 7, 8, 9} THEN "callee" ELSE "main")
                 /\ fn \in DOMAIN mod /\ BodyInv(Body) /\ "main" \in DOMAIN mod
                 /\ InPlan(options, m)
                 /\ (m = 17 => Head(todo)[1] = Plan(options)[17][1])
<1>1. exit = "running"
  BY DEF Doing
<1>2. options \in Options /\ IsModuleInv(mod) /\ Running
  BY <1>1 DEF PipelineInv
<1>3. PICK m \in 1..17 : IsNext(m)
  BY <1>2 DEF Running
<1>4. /\ todo # << >> /\ Head(todo) = Plan(options)[m]
      /\ fn = (IF m \in {3, 7, 8, 9} THEN "callee" ELSE "main")
      /\ fn \in DOMAIN mod /\ BodyInv(Body)
      /\ "main" \in DOMAIN mod
      /\ InPlan(options, m)
  BY <1>2, <1>3, NextStep
<1>5. Named(m, name)
  BY <1>2, <1>4, DoingStep
<1>6. Stage(m)
  BY <1>3 DEF IsNext
<1>7. m = 17 => Head(todo)[1] = Plan(options)[17][1]
  BY <1>4
<1> QED BY <1>1, <1>2, <1>3, <1>4, <1>5, <1>6, <1>7

-----------------------------------------------------------------------------
(* A rewrite of the canonicalizer or of CSE.                               *)
LEMMA EvolvesStep ==
    ASSUME PipelineInv, NEW name \in {"canonicalize", "cse"}, Doing(name),
           NEW q, Evolves(Body, q), mod' = [mod EXCEPT ![fn] = q], Same,
           name = "cse" => (NoVectors(Body) => NoVectors(q))
    PROVE  PipelineInv'
<1>1. PICK m \in 1..17 : IsNext(m) /\ Named(m, name) /\ BodyInv(Body)
  BY AtStep
<1>2. exit = "running"
  BY DEF Doing
<1>3. Becomes(Body, q)
  BY <1>1, EvolvesBecomes
<1>4. KeepsReturn(Body, q)
  BY DEF Evolves
<1>5. m \notin {7, 10, 13, 14} /\ (m = 12 => name = "cse")
  BY <1>1 DEF Named
<1>6. m = 12 => (NoVectors(Body) => NoVectors(q))
  BY <1>5
<1> QED BY ONLY PipelineInv, <1>1, <1>2, <1>3, <1>4, <1>5, <1>6, Same,
            mod' = [mod EXCEPT ![fn] = q], SameStep

LEMMA EraseDeadCodeStep == ASSUME PipelineInv, EraseDeadCode PROVE PipelineInv'
<1>1. PICK name \in {"canonicalize", "cse"} : Doing(name)
  BY DEF EraseDeadCode
<1>2. PICK o \in DOMAIN Body : \E q \in EraseDead(Body, o) : mod' = [mod EXCEPT ![fn] = q]
  BY DEF EraseDeadCode
<1>3. PICK q \in EraseDead(Body, o) : mod' = [mod EXCEPT ![fn] = q]
  BY <1>2
<1>4. Same
  BY DEF EraseDeadCode, Same
<1>5. BodyInv(Body)
  BY <1>1, AtStep
<1>6. Evolves(Body, q) /\ (NoVectors(Body) => NoVectors(q))
  BY <1>5, EraseDeadEvolves, EraseDeadKeepsTypes
<1> QED BY <1>1, <1>3, <1>4, <1>6, EvolvesStep

LEMMA MergeStep == ASSUME PipelineInv, Merge PROVE PipelineInv'
<1>1. Doing("cse")
  BY DEF Merge
<1>2. PICK o \in DOMAIN Body : \E q \in MergeDuplicate(Body, o) : mod' = [mod EXCEPT ![fn] = q]
  BY DEF Merge
<1>3. PICK q \in MergeDuplicate(Body, o) : mod' = [mod EXCEPT ![fn] = q]
  BY <1>2
<1>4. Same
  BY DEF Merge, Same
<1>5. BodyInv(Body)
  BY <1>1, AtStep
<1>6. Evolves(Body, q) /\ (NoVectors(Body) => NoVectors(q))
  BY <1>5, MergeEvolves, MergeKeepsTypes
<1> QED BY <1>1, <1>3, <1>4, <1>6, EvolvesStep


LEMMA FoldCastStep == ASSUME PipelineInv, Rewrite(FoldCast) PROVE PipelineInv'
<1>1. Doing("canonicalize") /\ Same
  BY DEF Rewrite, Same
<1>2. BodyInv(Body)
  BY <1>1, AtStep
<1>3. PICK o \in DOMAIN Body : \E q \in FoldCast(Body, o) : mod' = [mod EXCEPT ![fn] = q]
  BY DEF Rewrite
<1>4. PICK q \in FoldCast(Body, o) : mod' = [mod EXCEPT ![fn] = q]
  BY <1>3
<1>5. Evolves(Body, q)
  BY <1>2, FoldCastEvolves
<1> QED BY <1>1, <1>4, <1>5, EvolvesStep

LEMMA TransposeTransposeStep == ASSUME PipelineInv, Rewrite(TransposeTranspose) PROVE PipelineInv'
<1>1. Doing("canonicalize") /\ Same
  BY DEF Rewrite, Same
<1>2. BodyInv(Body)
  BY <1>1, AtStep
<1>3. PICK o \in DOMAIN Body : \E q \in TransposeTranspose(Body, o) : mod' = [mod EXCEPT ![fn] = q]
  BY DEF Rewrite
<1>4. PICK q \in TransposeTranspose(Body, o) : mod' = [mod EXCEPT ![fn] = q]
  BY <1>3
<1>5. Evolves(Body, q)
  BY <1>2, TransposeTransposeEvolves
<1> QED BY <1>1, <1>4, <1>5, EvolvesStep

LEMMA TansposeVector2ReshapeStep == ASSUME PipelineInv, Rewrite(TansposeVector2Reshape) PROVE PipelineInv'
<1>1. Doing("canonicalize") /\ Same
  BY DEF Rewrite, Same
<1>2. BodyInv(Body)
  BY <1>1, AtStep
<1>3. PICK o \in DOMAIN Body : \E q \in TansposeVector2Reshape(Body, o) : mod' = [mod EXCEPT ![fn] = q]
  BY DEF Rewrite
<1>4. PICK q \in TansposeVector2Reshape(Body, o) : mod' = [mod EXCEPT ![fn] = q]
  BY <1>3
<1>5. Evolves(Body, q)
  BY <1>2, TansposeVectorEvolves
<1> QED BY <1>1, <1>4, <1>5, EvolvesStep

LEMMA ReshapeReshapeStep == ASSUME PipelineInv, Rewrite(ReshapeReshape) PROVE PipelineInv'
<1>1. Doing("canonicalize") /\ Same
  BY DEF Rewrite, Same
<1>2. BodyInv(Body)
  BY <1>1, AtStep
<1>3. PICK o \in DOMAIN Body : \E q \in ReshapeReshape(Body, o) : mod' = [mod EXCEPT ![fn] = q]
  BY DEF Rewrite
<1>4. PICK q \in ReshapeReshape(Body, o) : mod' = [mod EXCEPT ![fn] = q]
  BY <1>3
<1>5. Evolves(Body, q)
  BY <1>2, ReshapeReshapeEvolves
<1> QED BY <1>1, <1>4, <1>5, EvolvesStep

LEMMA RedundantReshapeStep == ASSUME PipelineInv, Rewrite(RedundantReshape) PROVE PipelineInv'
<1>1. Doing("canonicalize") /\ Same
  BY DEF Rewrite, Same
<1>2. BodyInv(Body)
  BY <1>1, AtStep
<1>3. PICK o \in DOMAIN Body : \E q \in RedundantReshape(Body, o) : mod' = [mod EXCEPT ![fn] = q]
  BY DEF Rewrite
<1>4. PICK q \in RedundantReshape(Body, o) : mod' = [mod EXCEPT ![fn] = q]
  BY <1>3
<1>5. Evolves(Body, q)
  BY <1>2, RedundantReshapeEvolves
<1> QED BY <1>1, <1>4, <1>5, EvolvesStep

LEMMA FoldReshapeConstantStep == ASSUME PipelineInv, Rewrite(FoldReshapeConstant) PROVE PipelineInv'
<1>1. Doing("canonicalize") /\ Same
  BY DEF Rewrite, Same
<1>2. BodyInv(Body)
  BY <1>1, AtStep
<1>3. PICK o \in DOMAIN Body : \E q \in FoldReshapeConstant(Body, o) : mod' = [mod EXCEPT ![fn] = q]
  BY DEF Rewrite
<1>4. PICK q \in FoldReshapeConstant(Body, o) : mod' = [mod EXCEPT ![fn] = q]
  BY <1>3
<1>5. Evolves(Body, q)
  BY <1>2, FoldReshapeConstantEvolves
<1> QED BY <1>1, <1>4, <1>5, EvolvesStep

LEMMA PromoteVectorMatrixStep == ASSUME PipelineInv, Rewrite(PromoteVectorMatrix) PROVE PipelineInv'
<1>1. Doing("canonicalize") /\ Same
  BY DEF Rewrite, Same
<1>2. BodyInv(Body)
  BY <1>1, AtStep
<1>3. PICK o \in DOMAIN Body : \E q \in PromoteVectorMatrix(Body, o) : mod' = [mod EXCEPT ![fn] = q]
  BY DEF Rewrite
<1>4. PICK q \in PromoteVectorMatrix(Body, o) : mod' = [mod EXCEPT ![fn] = q]
  BY <1>3
<1>5. Evolves(Body, q)
  BY <1>2, PromoteVectorMatrixEvolves
<1> QED BY <1>1, <1>4, <1>5, EvolvesStep

LEMMA PromoteMatrixVectorStep == ASSUME PipelineInv, Rewrite(PromoteMatrixVector) PROVE PipelineInv'
<1>1. Doing("canonicalize") /\ Same
  BY DEF Rewrite, Same
<1>2. BodyInv(Body)
  BY <1>1, AtStep
<1>3. PICK o \in DOMAIN Body : \E q \in PromoteMatrixVector(Body, o) : mod' = [mod EXCEPT ![fn] = q]
  BY DEF Rewrite
<1>4. PICK q \in PromoteMatrixVector(Body, o) : mod' = [mod EXCEPT ![fn] = q]
  BY <1>3
<1>5. Evolves(Body, q)
  BY <1>2, PromoteMatrixVectorEvolves
<1> QED BY <1>1, <1>4, <1>5, EvolvesStep


LEMMA InlineStep == ASSUME PipelineInv, Inline PROVE PipelineInv'
<1>1. Doing("inline") /\ Same
  BY DEF Inline, Same
<1>2. PICK o \in Calls :
          /\ Inlinable(mod.main, o, mod.callee)
          /\ mod' = [mod EXCEPT !.main = InlineCall(mod.main, o, mod.callee)]
  BY DEF Inline
<1>3. exit = "running" /\ IsModuleInv(mod)
  BY <1>1, AtStep
<1>4. PICK m \in 1..17 : /\ IsNext(m) /\ Stage(m) /\ Named(m, "inline")
                         /\ fn = (IF m \in {3, 7, 8, 9} THEN "callee" ELSE "main")
                         /\ "main" \in DOMAIN mod /\ BodyInv(Body)
  BY <1>1, AtStep
<1>5. m = 5 /\ fn = "main"
  BY <1>4 DEF Named
<1> DEFINE p == mod.main
           f == mod.callee
           q == InlineCall(p, o, f)
<1>6. Body = p
  BY <1>5 DEF Body
<1>7. o \in 1..Len(p) /\ p[o].kind = "generic_call" /\ BodyInv(p)
  <2>1. BodyInv(p)
    BY <1>4, <1>6
  <2>2. p \in Seq(BodyOp) /\ p # << >>
    BY <2>1 DEF BodyInv
  <2>3. DOMAIN p = 1..Len(p)
    BY <2>2, BodyFacts
  <2> QED BY <1>2, <2>1, <2>3 DEF Calls
<1>8. CallsFit(mod) /\ ("callee" \in DOMAIN mod => Untyped(f))
  BY <1>4, <1>5 DEF Stage
<1>9. /\ "callee" \in DOMAIN mod /\ Len(f[Len(f)].args) = 1
      /\ Up(p[o].type, Returned(f)) /\ NoCalls(f)
  BY <1>7, <1>8 DEF CallsFit
<1>10. BodyInv(f)
  BY <1>3, <1>9 DEF IsModuleInv
<1>11. mod' = [mod EXCEPT ![fn] = q]
  BY <1>2, <1>5
<1>12. Inlinable(p, o, f) /\ Untyped(f)
  BY <1>2, <1>8, <1>9
<1> HIDE DEF p, f
<1>13. /\ BodyInv(q)
       /\ Untyped(p) => Untyped(q)
       /\ \A j \in 1..Len(q) : q[j].kind = "generic_call" =>
             \E i \in 1..Len(p) : p[i].kind = "generic_call" /\ p[i].type = q[j].type
  BY <1>7, <1>9, <1>10, <1>12, InlineKeeps
<1>14. Becomes(Body, q)
  BY <1>6, <1>13 DEF Becomes
<1> HIDE DEF q
<1>15. m \notin {7, 10, 13, 14} /\ m # 3 /\ m # 12
  BY <1>5
<1> QED BY ONLY PipelineInv, <1>1, <1>3, <1>4, <1>11, <1>14, <1>15, SameStep

(* A module that is as it was, or without the other function.              *)
LEMMA EndInlineStep == ASSUME PipelineInv, EndInline PROVE PipelineInv'
<1>1. Doing("inline")
  BY DEF EndInline
<1>2. PICK M : EndPass(M) /\ M \in {mod, [main |-> mod.main]}
  BY DEF EndInline
<1>3. exit = "running" /\ IsModuleInv(mod)
  BY <1>1, AtStep
<1>4. PICK m \in 1..17 : IsNext(m) /\ Stage(m) /\ Named(m, "inline") /\ "main" \in DOMAIN mod
  BY <1>1, AtStep
<1>5. m = 5
  BY <1>4 DEF Named
<1>6. M["main"] = mod["main"] /\ DOMAIN M \subseteq DOMAIN mod
  BY <1>2, <1>4
<1>7. IsModuleInv(M)
  BY <1>2, <1>3, <1>4 DEF IsModuleInv
<1>8. Untyped(mod["main"]) /\ ("callee" \in DOMAIN mod => Untyped(mod["callee"]))
  BY <1>4, <1>5 DEF Stage
<1>9. "callee" \in DOMAIN M => Untyped(M["callee"])
  <2>1. CASE M = mod
    BY <1>8, <2>1
  <2>2. CASE M = [main |-> mod.main]
    BY <2>2
  <2> QED BY <1>2, <2>1, <2>2
<1>10. Untyped(M["main"])
  BY <1>6, <1>8
<1>11. m \in 3..12 /\ ~ (m < 5) /\ m \notin {11, 12}
  BY <1>5
<1> QED BY ONLY PipelineInv, <1>2, <1>3, <1>4, <1>6, <1>7, <1>9, <1>10, <1>11, EndPassInv

LEMMA EndCanonicalizeStep == ASSUME PipelineInv, EndCanonicalize PROVE PipelineInv'
<1>1. Doing("canonicalize") /\ IsCanonical(Body) /\ EndPass(mod)
  BY DEF EndCanonicalize
<1>3. exit = "running" /\ IsModuleInv(mod)
  BY <1>1, AtStep
<1>4. PICK m \in 1..17 : /\ IsNext(m) /\ Stage(m) /\ Named(m, "canonicalize")
                         /\ fn = (IF m \in {3, 7, 8, 9} THEN "callee" ELSE "main")
                         /\ BodyInv(Body)
  BY <1>1, AtStep
<1>5. m \in {3, 4, 6, 8, 11}
  BY <1>4 DEF Named
<1>6. m < 10 => Untyped(mod["main"])
  BY <1>4, <1>5 DEF Stage
<1>7. m < 7 /\ "callee" \in DOMAIN mod => Untyped(mod["callee"])
  BY <1>4, <1>5 DEF Stage
<1>8. m \in {11, 12} => NoVectors(mod["main"])
  <2> SUFFICES ASSUME m = 11 PROVE NoVectors(mod["main"])
    BY <1>5
  <2>1. NoVectors(Body)
    BY <1>1, <1>4, CanonicalHasNoVectors
  <2>2. fn = "main"
    BY <1>4
  <2> QED BY <2>1, <2>2 DEF Body
<1>9. m \in 3..12
  BY <1>5
<1> QED BY ONLY PipelineInv, <1>1, <1>3, <1>4, <1>6, <1>7, <1>8, <1>9, EndPassInv

LEMMA EndCSEStep == ASSUME PipelineInv, EndCSE PROVE PipelineInv'
<1>1. Doing("cse") /\ EndPass(mod)
  BY DEF EndCSE
<1>3. exit = "running" /\ IsModuleInv(mod)
  BY <1>1, AtStep
<1>4. PICK m \in 1..17 : IsNext(m) /\ Stage(m) /\ Named(m, "cse")
  BY <1>1, AtStep
<1>5. m \in {9, 12}
  BY <1>4 DEF Named
<1>6. m < 10 => Untyped(mod["main"])
  BY <1>4, <1>5 DEF Stage
<1>7. ~ (m < 7)
  BY <1>5
<1>8. m \in {11, 12} => NoVectors(mod["main"])
  BY <1>4, <1>5 DEF Stage
<1>9. m \in 3..12
  BY <1>5
<1>10. ~ (m < 5)
  BY <1>5
<1> QED BY ONLY PipelineInv, <1>1, <1>3, <1>4, <1>6, <1>7, <1>8, <1>9, <1>10, EndPassInv

(* Shape inference only sets the types; before it reaches main, main has   *)
(* still those that the builders gave it.                                  *)
LEMMA InferStep == ASSUME PipelineInv, Infer PROVE PipelineInv'
<1>1. Doing("infer")
  BY DEF Infer
<1>3. exit = "running" /\ IsModuleInv(mod)
  BY <1>1, AtStep
<1>4. PICK m \in 1..17 : /\ IsNext(m) /\ Stage(m) /\ Named(m, "infer")
                         /\ fn = (IF m \in {3, 7, 8, 9} THEN "callee" ELSE "main")
                         /\ fn \in DOMAIN mod /\ BodyInv(Body)
  BY <1>1, AtStep
<1> DEFINE p == Body
           q == Typed(p, InOrderTypes(p))
           M == [mod EXCEPT ![fn] = q]
<1>5. EndPass(M) \/ Stop("1")
  <2> DEFINE types == InOrderTypes(p)
  <2>1. EndPass([mod EXCEPT ![fn] = [o \in DOMAIN mod[fn] |-> [mod[fn][o] EXCEPT !.type = types[o]]]]) \/ Stop("1")
    BY Zenon DEF Infer
  <2> QED BY <2>1 DEF Typed, Body
<1>6. m \in {7, 10}
  BY <1>4 DEF Named
<1>7. CASE Stop("1")
  BY <1>3, <1>7, StopInv
<1>8. CASE EndPass(M)
  <2>1. BodyInv(q)
    BY <1>4, TypedIsBody
  <2> HIDE DEF q
  <2>2. IsModuleInv(M) /\ DOMAIN M \subseteq DOMAIN mod
    BY <1>3, <1>4, <2>1 DEF IsModuleInv
  <2>3. m < 10 => Untyped(M["main"])
    <3> SUFFICES ASSUME m = 7 PROVE Untyped(M["main"])
      BY <1>6
    <3>1. fn = "callee"
      BY <1>4
    <3>2. Untyped(mod["main"])
      BY <1>4 DEF Stage
    <3>3. M["main"] = mod["main"]
      BY <1>3, <3>1 DEF IsModuleInv
    <3> QED BY <3>2, <3>3
  <2>4. m \in 3..12 /\ ~ (m < 7) /\ ~ (m < 5) /\ m \notin {11, 12}
    BY <1>6
  <2> HIDE DEF M
  <2> QED BY ONLY PipelineInv, <1>3, <1>4, <1>8, <2>2, <2>3, <2>4, EndPassInv
<1> QED BY <1>5, <1>7, <1>8


(* An assertion, an error, or a failure outside the repository.            *)
LEMMA StopStep ==
    ASSUME PipelineInv, AbortFold \/ Fail \/ FailToLower
    PROVE  PipelineInv'
<1>1. exit = "running" /\ \E code \in {"abort", "1", "-1"} : Stop(code)
  BY DEF AbortFold, Fail, FailToLower, Doing
<1> QED BY <1>1, StopInv

LEMMA SucceedStep == ASSUME PipelineInv, Succeed PROVE PipelineInv'
<1>1. PICK name \in External : Doing(name) /\ form' = FormAfter[name]
  BY DEF Succeed
<1>2. /\ todo' = Remaining(Tail(todo), mod) /\ mod' = mod /\ options' = options
      /\ exit' = exit /\ output' = output
  BY DEF Succeed
<1>3. exit = "running" /\ options \in Options /\ IsModuleInv(mod)
  BY <1>1, AtStep
<1>4. PICK m \in 1..17 : /\ IsNext(m) /\ Stage(m) /\ Named(m, name)
                         /\ "main" \in DOMAIN mod /\ InPlan(options, m)
  BY <1>1, AtStep
<1>5. \/ m = 1 /\ form' = "ast"
      \/ m = 2 /\ form' = "toy"
      \/ m = 16 /\ form' = "ir"
  BY <1>1, <1>4 DEF Named, External, FormAfter
<1>6. m \in 1..16
  BY <1>5
<1>7. ASSUME NEW e \in 1..17, Follows(options, m, e, DOMAIN mod') PROVE Stage(e)'
  <2>1. Follows(options, m, e, DOMAIN mod)
    BY <1>2, <1>7
  <2>2. /\ m = 1 => e \in {2, 17} /\ FormAt(options, e) = "ast"
        /\ m = 2 => e \in {3, 4}
        /\ m \in 2..12 => FormAt(options, e) = "toy"
        /\ m = 16 => e = 17 /\ FormAt(options, e) = "ir"
    BY <1>3, <1>4, <1>6, <2>1, NextIs
  <2>3. form' = FormAt(options', e)
    BY <1>2, <1>5, <2>2
  <2>4. (e \in {2, 3, 4} /\ m < 5) \/ e = 17
    BY <1>5, <2>2
  <2>5. m < 5 => /\ Untyped(mod.main) /\ CallsFit(mod)
                 /\ "callee" \in DOMAIN mod => Untyped(mod.callee)
    BY <1>4 DEF Stage
  <2>6. CASE e = 17
    BY <2>3, <2>6 DEF Stage
  <2>7. CASE e \in {2, 3, 4} /\ m < 5
    BY <1>2, <2>3, <2>5, <2>7 DEF Stage
  <2> QED BY <2>4, <2>6, <2>7
<1>8. "main" \in DOMAIN mod' /\ DOMAIN mod' \subseteq DOMAIN mod /\ todo' = Remaining(Tail(todo), mod')
  BY <1>2, <1>4
<1>9. Running'
  BY ONLY PipelineInv, <1>2, <1>4, <1>6, <1>7, <1>8, Onward
<1> QED BY <1>2, <1>3, <1>9 DEF PipelineInv

(* After a lowering only other lowerings, or the end, are left.            *)
LEMMA LowerStep == ASSUME PipelineInv, Lower PROVE PipelineInv'
<1>1. PICK target \in {"linalg", "affine", "llvm"} : Doing(target) /\ form' = target
  BY DEF Lower
<1>2. /\ todo' = Tail(todo) /\ mod' = mod /\ options' = options
      /\ exit' = exit /\ output' = output
  BY DEF Lower
<1>3. exit = "running" /\ options \in Options /\ IsModuleInv(mod)
  BY <1>1, AtStep
<1>4. PICK m \in 1..17 : /\ IsNext(m) /\ Stage(m) /\ Named(m, target)
                         /\ "main" \in DOMAIN mod /\ InPlan(options, m)
  BY <1>1, AtStep
<1>5. \/ m = 13 /\ form' = "linalg"
      \/ m = 14 /\ form' = "affine"
      \/ m = 15 /\ form' = "llvm"
  BY <1>1, <1>4 DEF Named
<1>6. m \in 1..16 /\ m # 1
  BY <1>5
<1>7. ASSUME NEW e \in 1..17, Follows(options, m, e, DOMAIN mod') PROVE Stage(e)'
  <2>1. Follows(options, m, e, DOMAIN mod)
    BY <1>2, <1>7
  <2>2. /\ m = 13 => e = 17 /\ FormAt(options, e) = "linalg"
        /\ m = 14 => e \in {15, 17} /\ FormAt(options, e) = "affine"
        /\ m = 15 => e \in {16, 17} /\ FormAt(options, e) = "llvm"
    BY <1>3, <1>4, <1>6, <2>1, NextIs
  <2>3. form' = FormAt(options', e)
    BY <1>2, <1>5, <2>2
  <2>4. e \in {15, 16, 17}
    BY <1>5, <2>2
  <2> QED BY <2>3, <2>4 DEF Stage
<1>8. "main" \in DOMAIN mod' /\ DOMAIN mod' \subseteq DOMAIN mod
  BY <1>2, <1>4
<1>9. Running'
  BY ONLY PipelineInv, <1>2, <1>4, <1>6, <1>7, <1>8, Onward
<1> QED BY <1>2, <1>3, <1>9 DEF PipelineInv

(* What is delivered is named by the last step and the form it comes in.   *)
LEMMA DeliverStep == ASSUME PipelineInv, Deliver PROVE PipelineInv'
<1>1. PICK name \in {"ast", "dump", "jit", "native"} :
          Doing(name) /\ output' = << IF name = "ast" THEN "dump" ELSE name, form >>
  BY DEF Deliver
<1>2. exit' = "0" /\ mod' = mod /\ options' = options
  BY DEF Deliver
<1>3. options \in Options /\ IsModuleInv(mod)
  BY <1>1, AtStep
<1>4. PICK m \in 1..17 : Stage(m) /\ Named(m, name)
  BY <1>1, AtStep
<1>5. m = 17 /\ name = Plan(options)[17][1]
  BY <1>4 DEF Named
<1>6. form = Requested(options)[2]
  BY <1>4, <1>5 DEF Stage, FormAt
<1>7. output' = Requested(options)
  <2>1. Plan(options)[17][1] = IF options.emit = "ast" THEN "ast" ELSE IF options.emit = "none" THEN options.run ELSE "dump"
    BY <1>3, PlanFacts
  <2>2. options.run \in {"jit", "native"}
    BY <1>3, ActionsInOrder
  <2>3. Requested(options)[1] = IF name = "ast" THEN "dump" ELSE name
    BY <1>5, <2>1, <2>2 DEF Requested
  <2>4. Requested(options) = << Requested(options)[1], Requested(options)[2] >>
    BY DEF Requested
  <2> QED BY <1>1, <1>6, <2>3, <2>4
<1> QED BY <1>2, <1>3, <1>7 DEF PipelineInv

(* Every step of the compiler keeps the invariant.                         *)
LEMMA PipelineStep == PipelineInv /\ [Next]_vars => PipelineInv'
<1> SUFFICES ASSUME PipelineInv, [Next]_vars PROVE PipelineInv'
  OBVIOUS
<1>1. CASE UNCHANGED vars
  <2>1. /\ options' = options /\ mod' = mod /\ todo' = todo /\ form' = form
        /\ exit' = exit /\ output' = output
    BY <1>1 DEF vars
  <2>2. Running => Running'
    BY <2>1 DEF Running, IsNext, Stage
  <2> QED BY <2>1, <2>2 DEF PipelineInv
<1>2. CASE Succeed \/ Fail \/ Deliver
  BY <1>2, SucceedStep, StopStep, DeliverStep
<1>3. CASE EraseDeadCode \/ AbortFold \/ Merge
  BY <1>3, EraseDeadCodeStep, StopStep, MergeStep
<1>4. CASE Rewrite(FoldCast) \/ Rewrite(TransposeTranspose)
  BY <1>4, FoldCastStep, TransposeTransposeStep
<1>5. CASE Rewrite(TansposeVector2Reshape) \/ Rewrite(ReshapeReshape)
  BY <1>5, TansposeVector2ReshapeStep, ReshapeReshapeStep
<1>6. CASE Rewrite(RedundantReshape) \/ Rewrite(FoldReshapeConstant)
  BY <1>6, RedundantReshapeStep, FoldReshapeConstantStep
<1>7. CASE Rewrite(PromoteVectorMatrix) \/ Rewrite(PromoteMatrixVector)
  BY <1>7, PromoteVectorMatrixStep, PromoteMatrixVectorStep
<1>8. CASE Inline \/ EndInline
  BY <1>8, InlineStep, EndInlineStep
<1>9. CASE EndCanonicalize \/ EndCSE \/ Infer
  BY <1>9, EndCanonicalizeStep, EndCSEStep, InferStep
<1>10. CASE Lower \/ FailToLower
  BY <1>10, LowerStep, StopStep
<1> QED BY <1>1, <1>2, <1>3, <1>4, <1>5, <1>6, <1>7, <1>8, <1>9, <1>10 DEF Next

THEOREM PipelineInvariant == Spec => []PipelineInv
BY PipelineInit, PipelineStep, PTL DEF Spec


(* No rewrite, no merge and no inlining, in whatever order they happen,    *)
(* breaks the SSA form of a body (Canonicalizations.cpp, InlineProcess.cpp),*)
(* and main() has a step left until it ends.                               *)
THEOREM PipelineTypeOK == Spec => []TypeOK
<1>1. PipelineInv => TypeOK
  <2> SUFFICES ASSUME PipelineInv PROVE TypeOK
    OBVIOUS
  <2>1. options \in Options /\ exit \in {"running", "abort", "0", "1", "-1"}
    BY DEF PipelineInv
  <2>2. \A g \in DOMAIN mod : InSSAForm(mod[g])
    BY BodyIsInSSAForm DEF PipelineInv, IsModuleInv
  <2>3. exit = "running" => todo # << >>
    <3> SUFFICES ASSUME exit = "running" PROVE todo # << >>
      OBVIOUS
    <3>1. PICK m \in 1..17 : IsNext(m)
      BY DEF PipelineInv, Running
    <3> QED BY <3>1, NextStep DEF PipelineInv
  <2> QED BY <2>1, <2>2, <2>3 DEF TypeOK
<1> QED BY <1>1, PipelineInvariant, PTL

(* Exit code 0 means that the user got what the options ask for in the     *)
(* form they name, and after a failure nothing was delivered (main() and   *)
(* MLIRLowerProcess).                                                      *)
THEOREM DeliversAsRequested == Spec => []OutputAsRequested
<1>1. PipelineInv => OutputAsRequested
  BY DEF PipelineInv, OutputAsRequested
<1> QED BY <1>1, PipelineInvariant, PTL

(* Whatever the inliner and its canonicalizer did to a function, shape     *)
(* inference finds it as well formed as the builders leave it: what        *)
(* ShapeInferenceProofs assumes of its program.                            *)
THEOREM InferenceInputIsWellFormed == Spec => []InferenceGetsWellFormed
<1>1. PipelineInv => InferenceGetsWellFormed
  <2> SUFFICES ASSUME PipelineInv, Doing("infer") PROVE WellFormed(Bare(Body))
    BY DEF InferenceGetsWellFormed
  <2>1. PICK m \in 1..17 : /\ Stage(m) /\ Named(m, "infer")
                           /\ fn = (IF m \in {3, 7, 8, 9} THEN "callee" ELSE "main")
                           /\ fn \in DOMAIN mod /\ BodyInv(Body)
    BY AtStep
  <2>2. m \in {7, 10}
    BY <2>1 DEF Named
  <2>3. VerifiesBody(Body)
    BY <2>1, <2>2 DEF Stage, Body
  <2>4. Untyped(Body)
    <3>1. CASE m = 7
      <4>1. fn = "callee"
        BY <2>1, <3>1
      <4> QED BY <2>1, <3>1, <4>1 DEF Stage, Body
    <3>2. CASE m = 10
      <4>1. fn = "main"
        BY <2>1, <3>2
      <4> QED BY <2>1, <3>2, <4>1 DEF Stage, Body
    <3> QED BY <2>2, <3>1, <3>2
  <2> QED BY <2>1, <2>3, <2>4, BodyIsWellFormed
<1> QED BY <1>1, PipelineInvariant, PTL

(* What the lowerings take for granted of main holds when they start, for  *)
(* every module and every order of the rewrites, although no verifier      *)
(* looks at a transpose: the assumption of the theorems about Lowering.    *)
THEOREM LoweringInputIsVerified == Spec => []LoweringGetsVerified
<1>1. PipelineInv => LoweringGetsVerified
  <2> SUFFICES ASSUME PipelineInv, NEW name \in {"linalg", "affine"}, Doing(name)
               PROVE  Verified(mod.main)
    BY DEF LoweringGetsVerified
  <2>1. PICK m \in 1..17 : /\ Stage(m) /\ Named(m, name) /\ "main" \in DOMAIN mod
    BY AtStep
  <2>2. m \in {13, 14}
    BY <2>1 DEF Named
  <2>3. VerifiesBody(mod.main)
    BY <2>1, <2>2 DEF Stage
  <2>4. BodyInv(mod.main)
    BY <2>1 DEF PipelineInv, IsModuleInv
  <2> QED BY <2>3, <2>4, BodyIsVerified
<1> QED BY <1>1, PipelineInvariant, PTL

(* No product with a vector reaches the affine pass, whatever the options: *)
(* a canonicalizer always runs in front of it, and neither CSE nor the     *)
(* erasure of dead code brings a vector back (CustomizedCanonicalize.td).  *)
THEOREM NoVectorsReachAffine == Spec => []VectorsArePromoted
<1>1. PipelineInv => VectorsArePromoted
  <2> SUFFICES ASSUME PipelineInv, Doing("affine"),
                      NEW o \in DOMAIN mod.main, mod.main[o].kind = "matrix_mul", NEW k \in {1, 2}
               PROVE  ~ IsVector(mod.main, o, k)
    BY DEF VectorsArePromoted
  <2>1. PICK m \in 1..17 : /\ Stage(m) /\ Named(m, "affine") /\ "main" \in DOMAIN mod
    BY AtStep
  <2>2. NoVectors(mod.main)
    BY <2>1 DEF Named, Stage
  <2>3. DOMAIN mod.main = 1..Len(mod.main)
    <3>1. BodyInv(mod.main)
      BY <2>1 DEF PipelineInv, IsModuleInv
    <3> QED BY <3>1, BodyFacts DEF BodyInv
  <2> QED BY <2>2, <2>3 DEF NoVectors
<1> QED BY <1>1, PipelineInvariant, PTL
=============================================================================
