--------------------------- MODULE ToyDialectProofs ---------------------------
(***************************************************************************)
(* What the other proofs need of the dialect: the least number principle,  *)
(* from which everything computed along a sequence is derived, the laws of *)
(* the element count, and the types that program order gives a function.   *)
(***************************************************************************)
EXTENDS ToyFunction, SequenceTheorems, WellFoundedInduction, TLAPS

(* Every non-empty set of natural numbers has a least element.             *)
LEMMA LeastNumber ==
    ASSUME NEW T \in SUBSET Nat, T # {}
    PROVE  \E m \in T : \A k \in T : m <= k
<1> DEFINE R == OpToRel(<, Nat)
<1>1. IsWellFoundedOn(R, Nat)
  BY NatLessThanWellFounded
<1> HIDE DEF R
<1>2. PICK m \in T : \A k \in T : ~ (<< k, m >> \in R)
  BY <1>1, WFMin
<1>3. \A k \in T : m <= k
  <2> SUFFICES ASSUME NEW k \in T, k < m PROVE FALSE
    OBVIOUS
  <2>1. << k, m >> \in R
    BY DEF R, OpToRel
  <2> QED BY <1>2, <2>1
<1> QED BY <1>3

(* The same, for the operator that chooses it.                             *)
LEMMA MinOfNumbers ==
    ASSUME NEW T \in SUBSET Nat, T # {}
    PROVE  Min(T) \in T /\ \A k \in T : Min(T) <= k
<1>1. \E m \in T : \A k \in T : m <= k
  BY LeastNumber
<1> QED BY <1>1 DEF Min

(* What holds of 0 and goes from every number to the next, up to n, holds  *)
(* of all of them.                                                         *)
LEMMA UpTo ==
    ASSUME NEW n \in Nat, NEW T, 0 \in T,
           \A k \in 1..n : k - 1 \in T => k \in T
    PROVE  0..n \subseteq T
<1> DEFINE Out == (0..n) \ T
<1> SUFFICES ASSUME Out # {} PROVE FALSE
  OBVIOUS
<1>1. PICK m \in Out : \A k \in Out : m <= k
  <2>1. Out \in SUBSET Nat
    OBVIOUS
  <2> HIDE DEF Out
  <2> QED BY <2>1, LeastNumber
<1>2. m \in 1..n /\ m - 1 \in 0..n /\ m - 1 \notin Out
  BY <1>1
<1>3. m - 1 \in T
  BY <1>2
<1> QED BY <1>1, <1>2, <1>3

(* A non-empty set of numbers up to n has a largest element, which is Max. *)
LEMMA MaxOfNumbers ==
    ASSUME NEW n \in Nat, NEW T \in SUBSET (1..n), T # {}
    PROVE  Max(T) \in T /\ \A k \in T : k <= Max(T)
<1> DEFINE Below == {n - k : k \in T}
<1>1. Below \in SUBSET Nat /\ Below # {}
  <2>1. \A k \in T : n - k \in Nat
    OBVIOUS
  <2>2. \A b \in Below : b \in Nat
    BY <2>1
  <2> QED BY <2>2
<1>2. PICK b \in Below : \A k \in Below : b <= k
  <2> HIDE DEF Below
  <2> QED BY <1>1, LeastNumber
<1>3. PICK m \in T : b = n - m
  OBVIOUS
<1>4. \A k \in T : k <= m
  <2> SUFFICES ASSUME NEW k \in T PROVE k <= m
    OBVIOUS
  <2>1. b <= n - k
    BY <1>2
  <2> QED BY <1>3, <2>1
<1>5. \E x \in T : \A y \in T : x >= y
  <2>1. \A y \in T : m >= y
    BY <1>4
  <2> QED BY <2>1
<1>6. Max(T) \in T /\ \A y \in T : Max(T) >= y
  BY <1>5 DEF Max
<1>7. \A k \in T : k <= Max(T)
  BY <1>6
<1> QED BY <1>6, <1>7

(* A set of numbers up to n that has n in it has n as its maximum.         *)
LEMMA MaxIsBound ==
    ASSUME NEW n \in Nat, NEW T \in SUBSET (1..n), n \in T
    PROVE  Max(T) = n
<1>1. T # {}
  OBVIOUS
<1>2. Max(T) \in T /\ \A k \in T : k <= Max(T)
  BY <1>1, MaxOfNumbers
<1>3. Max(T) \in 1..n /\ n <= Max(T)
  BY <1>2
<1> QED BY <1>3

-----------------------------------------------------------------------------
(* The element count, which is a fold over the positions of the shape.     *)

(* A product, which is stored in an int if w says so.                      *)
Times(w, n, d) == IF w THEN ToInt(n * d) ELSE n * d

(* g folds every set of positions up to m.                                 *)
IsFold(w, g, s, m) ==
    g = [T \in SUBSET (1..m) |->
           IF T = {} THEN 1 ELSE Times(w, g[T \ {Max(T)}], s[Max(T)])]

(* The partial products of s.                                              *)
IsProducts(q, s) ==
    /\ q \in [0..Len(s) -> Nat]
    /\ q[0] = 1
    /\ \A k \in 1..Len(s) : q[k] = q[k - 1] * s[k]

(* The folds that NumElements and IntProduct are made of exist.            *)
LEMMA FoldExists ==
    ASSUME NEW w, NEW s, NEW n \in Nat
    PROVE  \E g : IsFold(w, g, s, n)
<1> DEFINE Folds == {m \in 0..n : \E g : IsFold(w, g, s, m)}
<1>1. 0 \in Folds
  <2> DEFINE g == [T \in SUBSET (1..0) |-> 1]
  <2>1. \A T \in SUBSET (1..0) : T = {}
    OBVIOUS
  <2>2. g = [T \in SUBSET (1..0) |-> IF T = {} THEN 1 ELSE Times(w, g[T \ {Max(T)}], s[Max(T)])]
    BY <2>1
  <2> QED BY <2>2 DEF IsFold
<1>2. ASSUME NEW m \in 1..n, m - 1 \in Folds PROVE m \in Folds
  <2>1. PICK h : IsFold(w, h, s, m - 1)
    BY <1>2
  <2> DEFINE g == [T \in SUBSET (1..m) |->
                     IF m \in T THEN Times(w, h[T \ {m}], s[m]) ELSE h[T]]
  <2>2. ASSUME NEW T \in SUBSET (1..m)
        PROVE  g[T] = IF T = {} THEN 1 ELSE Times(w, g[T \ {Max(T)}], s[Max(T)])
    <3>1. CASE m \in T
      <4>1. Max(T) = m
        <5>1. m \in Nat
          OBVIOUS
        <5> QED BY <3>1, <5>1, MaxIsBound
      <4>2. T \ {m} \in SUBSET (1..m) /\ m \notin T \ {m}
        OBVIOUS
      <4>3. g[T] = Times(w, h[T \ {m}], s[m]) /\ g[T \ {m}] = h[T \ {m}]
        BY <3>1, <4>2
      <4> HIDE DEF g
      <4> QED BY <3>1, <4>1, <4>3
    <3>2. CASE m \notin T /\ T # {}
      <4>1. T \in SUBSET (1..(m - 1))
        BY <1>2, <3>2
      <4>2. T \ {Max(T)} \in SUBSET (1..m) /\ m \notin T \ {Max(T)}
        BY <3>2
      <4>3. g[T] = h[T] /\ g[T \ {Max(T)}] = h[T \ {Max(T)}]
        BY <3>2, <4>2
      <4>4. h[T] = Times(w, h[T \ {Max(T)}], s[Max(T)])
        BY <2>1, <3>2, <4>1 DEF IsFold
      <4> HIDE DEF g
      <4> QED BY <3>2, <4>3, <4>4
    <3>3. CASE T = {}
      <4>1. T \in SUBSET (1..(m - 1)) /\ m \notin T
        BY <3>3
      <4>2. h[T] = 1
        BY <2>1, <3>3, <4>1 DEF IsFold
      <4>3. g[T] = h[T]
        BY <4>1
      <4> HIDE DEF g
      <4> QED BY <3>3, <4>2, <4>3
    <3> QED BY <3>1, <3>2, <3>3
  <2>3. g = [T \in SUBSET (1..m) |-> g[T]]
    OBVIOUS
  <2> HIDE DEF g
  <2>4. g = [T \in SUBSET (1..m) |-> IF T = {} THEN 1 ELSE Times(w, g[T \ {Max(T)}], s[Max(T)])]
    BY <2>2, <2>3
  <2>5. IsFold(w, g, s, m)
    BY <2>4 DEF IsFold
  <2> QED BY <2>5
<1> HIDE DEF Folds
<1>3. 0..n \subseteq Folds
  BY <1>1, <1>2, UpTo
<1>4. n \in Folds
  BY <1>3
<1> QED BY <1>4 DEF Folds

(* NumElements multiplies the extents from left to right.                  *)
LEMMA ProductsExist ==
    ASSUME NEW s \in Seq(Nat)
    PROVE  \E q : IsProducts(q, s) /\ NumElements(s) = q[Len(s)]
<1> DEFINE n == Len(s)
           g == CHOOSE h : IsFold(FALSE, h, s, n)
           q == [k \in 0..n |-> g[1..k]]
<1>1. n \in Nat /\ DOMAIN s = 1..n /\ \A k \in 1..n : s[k] \in Nat
  OBVIOUS
<1> HIDE DEF n
<1>2. IsFold(FALSE, g, s, n)
  <2>1. \E h : IsFold(FALSE, h, s, n)
    BY <1>1, FoldExists
  <2> QED BY <2>1
<1>3. NumElements(s) = g[1..n]
  BY <1>1 DEF NumElements, FoldLeft, MapThenFoldSet, IsFold, Times
<1> HIDE DEF g
<1>4. q[0] = 1
  <2>1. 1..0 = {} /\ 1..0 \in SUBSET (1..n)
    OBVIOUS
  <2>2. g[1..0] = 1
    BY <1>2, <2>1 DEF IsFold
  <2> QED BY <1>1, <2>2
<1>5. ASSUME NEW k \in 1..n PROVE q[k] = q[k - 1] * s[k]
  <2>1. k \in Nat /\ k \in 1..k /\ k \in 0..n /\ k - 1 \in 0..n
    BY <1>1
  <2>2. 1..k \in SUBSET (1..n) /\ 1..k # {}
    <3>1. n \in Nat
      BY <1>1
    <3>2. \A p \in 1..k : p \in 1..n
      BY <2>1, <3>1
    <3> QED BY <2>1, <3>2
  <2>3. (1..k) \ {k} = 1..(k - 1)
    BY <2>1
  <2>4. Max(1..k) = k
    BY <2>1, MaxIsBound
  <2>5. g[1..k] = g[1..(k - 1)] * s[k]
    BY <1>2, <2>2, <2>3, <2>4 DEF IsFold, Times
  <2> QED BY <2>1, <2>5
<1>6. ASSUME NEW k \in 0..n PROVE q[k] \in Nat
  <2> DEFINE T == {j \in 0..n : q[j] \in Nat}
  <2>1. 0 \in T
    BY <1>1, <1>4
  <2>2. \A j \in 1..n : j - 1 \in T => j \in T
    <3> HIDE DEF q
    <3> SUFFICES ASSUME NEW j \in 1..n, q[j - 1] \in Nat PROVE j \in 0..n /\ q[j] \in Nat
      OBVIOUS
    <3>1. q[j] = q[j - 1] * s[j] /\ s[j] \in Nat
      BY <1>1, <1>5
    <3>2. q[j - 1] * s[j] \in Nat
      BY <3>1
    <3>3. j \in 0..n
      BY <1>1
    <3> QED BY <3>1, <3>2, <3>3
  <2> HIDE DEF T
  <2>3. 0..n \subseteq T
    BY <1>1, <2>1, <2>2, UpTo
  <2>4. k \in T
    BY <2>3
  <2> QED BY <2>4 DEF T
<1>7. q \in [0..n -> Nat] /\ NumElements(s) = q[n]
  BY <1>1, <1>3, <1>6
<1> HIDE DEF q
<1>8. IsProducts(q, s)
  BY <1>4, <1>5, <1>7 DEF IsProducts, n
<1> QED BY <1>7, <1>8 DEF n

(* Partial products are determined by the extents multiplied.              *)
LEMMA ProductsAgree ==
    ASSUME NEW s \in Seq(Nat), NEW t \in Seq(Nat), NEW q, NEW r,
           IsProducts(q, s), IsProducts(r, t),
           NEW m \in 0..Len(s), m <= Len(t), \A k \in 1..m : s[k] = t[k]
    PROVE  q[m] = r[m]
<1> DEFINE T == {k \in 0..m : q[k] = r[k]}
<1>1. 0 \in T
  BY DEF IsProducts
<1>2. \A k \in 1..m : k - 1 \in T => k \in T
  <2> SUFFICES ASSUME NEW k \in 1..m, q[k - 1] = r[k - 1]
               PROVE  q[k] = r[k]
    OBVIOUS
  <2>1. k \in 1..Len(s) /\ k \in 1..Len(t)
    OBVIOUS
  <2>2. q[k] = q[k - 1] * s[k] /\ r[k] = r[k - 1] * t[k]
    BY <2>1 DEF IsProducts
  <2> QED BY <2>2
<1> HIDE DEF T
<1>3. m \in Nat
  OBVIOUS
<1>4. 0..m \subseteq T
  BY <1>1, <1>2, <1>3, UpTo
<1>5. m \in T
  BY <1>3, <1>4
<1> QED BY <1>5 DEF T

(* A scalar has one element.                                               *)
LEMMA NumElementsEmpty == NumElements(<< >>) = 1
<1>1. << >> \in Seq(Nat) /\ Len(<< >>) = 0
  OBVIOUS
<1> QED BY <1>1, ProductsExist DEF IsProducts

(* The element count of a shape is a number.                               *)
LEMMA NumElementsType ==
    ASSUME NEW s \in Seq(Nat)
    PROVE  NumElements(s) \in Nat
<1>1. PICK q : IsProducts(q, s) /\ NumElements(s) = q[Len(s)]
  BY ProductsExist
<1> QED BY <1>1 DEF IsProducts

(* Appending an extent multiplies the count.                               *)
LEMMA NumElementsAppend ==
    ASSUME NEW s \in Seq(Nat), NEW d \in Nat
    PROVE  NumElements(Append(s, d)) = NumElements(s) * d
<1> DEFINE t == Append(s, d)
           n == Len(s)
<1>1. /\ t \in Seq(Nat) /\ Len(t) = n + 1 /\ t[n + 1] = d
      /\ \A k \in 1..n : s[k] = t[k]
      /\ n \in Nat
  OBVIOUS
<1>2. n \in 0..Len(s) /\ n <= Len(t)
  BY <1>1
<1>3. PICK q : IsProducts(q, s) /\ NumElements(s) = q[n]
  BY ProductsExist
<1> HIDE DEF t, n
<1>4. PICK r : IsProducts(r, t) /\ NumElements(t) = r[n + 1]
  BY <1>1, ProductsExist
<1>5. q[n] = r[n]
  <2>1. t \in Seq(Nat) /\ IsProducts(q, s) /\ IsProducts(r, t)
    BY <1>1, <1>3, <1>4
  <2>2. \A k \in 1..n : s[k] = t[k]
    BY <1>1
  <2> QED BY <1>2, <2>1, <2>2, ProductsAgree
<1>6. r[n + 1] = r[n] * d
  <2>1. n + 1 \in 1..Len(t) /\ (n + 1) - 1 = n
    BY <1>1
  <2> QED BY <1>1, <1>4, <2>1 DEF IsProducts
<1> QED BY <1>3, <1>4, <1>5, <1>6 DEF t

(* Putting an extent in front multiplies the count.                        *)
LEMMA NumElementsCons ==
    ASSUME NEW s \in Seq(Nat), NEW d \in Nat
    PROVE  NumElements(<< d >> \o s) = d * NumElements(s)
<1> DEFINE t == << d >> \o s
           n == Len(s)
<1>1. /\ t \in Seq(Nat) /\ Len(t) = n + 1 /\ t[1] = d
      /\ \A k \in 1..n : t[k + 1] = s[k]
      /\ n \in Nat /\ \A k \in 1..n : s[k] \in Nat
  OBVIOUS
<1> HIDE DEF t, n
<1>2. PICK q : IsProducts(q, s) /\ NumElements(s) = q[n]
  BY ProductsExist DEF n
<1>3. PICK r : IsProducts(r, t) /\ NumElements(t) = r[n + 1]
  BY <1>1, ProductsExist
<1>4. /\ q[0] = 1 /\ \A k \in 0..n : q[k] \in Nat
      /\ \A k \in 1..n : q[k] = q[k - 1] * s[k]
      /\ r[0] = 1 /\ \A k \in 1..(n + 1) : r[k] = r[k - 1] * t[k]
  BY <1>1, <1>2, <1>3 DEF IsProducts, n
<1> DEFINE T == {k \in 0..n : r[k + 1] = d * q[k]}
<1>5. 0 \in T
  <2>1. r[1] = r[0] * t[1]
    <3>1. 1 \in 1..(n + 1) /\ 1 - 1 = 0
      BY <1>1
    <3> QED BY <1>4, <3>1
  <2> QED BY <1>1, <1>4, <2>1
<1>6. \A k \in 1..n : k - 1 \in T => k \in T
  <2> SUFFICES ASSUME NEW k \in 1..n, r[(k - 1) + 1] = d * q[k - 1]
               PROVE  r[k + 1] = d * q[k]
    OBVIOUS
  <2>1. k + 1 \in 1..(n + 1) /\ (k + 1) - 1 = k /\ (k - 1) + 1 = k /\ k - 1 \in 0..n
    BY <1>1
  <2>2. r[k + 1] = r[k] * s[k] /\ q[k] = q[k - 1] * s[k]
    BY <1>1, <1>4, <2>1
  <2>3. r[k] = d * q[k - 1] /\ q[k - 1] \in Nat /\ s[k] \in Nat
    BY <1>1, <1>4, <2>1
  <2>4. (d * q[k - 1]) * s[k] = d * (q[k - 1] * s[k])
    BY <2>3
  <2> QED BY <2>2, <2>3, <2>4
<1> HIDE DEF T
<1>7. 0..n \subseteq T
  BY <1>1, <1>5, <1>6, UpTo
<1>8. n \in T
  BY <1>1, <1>7
<1> QED BY <1>2, <1>3, <1>8 DEF T, t

(* No extent is 0, so no count is.                                         *)
LEMMA NumElementsPositive ==
    ASSUME NEW s \in Seq(Nat \ {0})
    PROVE  NumElements(s) \in Nat \ {0}
<1> DEFINE n == Len(s)
<1>1. /\ s \in Seq(Nat) /\ n \in Nat
      /\ \A k \in 1..n : s[k] \in Nat \ {0}
  OBVIOUS
<1>2. PICK q : IsProducts(q, s) /\ NumElements(s) = q[n]
  BY <1>1, ProductsExist
<1>3. /\ q[0] = 1 /\ \A k \in 1..n : q[k] = q[k - 1] * s[k]
  BY <1>2 DEF IsProducts
<1> DEFINE T == {k \in 0..n : q[k] \in Nat \ {0}}
<1> HIDE DEF n
<1>4. 0 \in T
  BY <1>1, <1>3
<1>5. \A k \in 1..n : k - 1 \in T => k \in T
  <2> SUFFICES ASSUME NEW k \in 1..n, q[k - 1] \in Nat \ {0}
               PROVE  k \in 0..n /\ q[k] \in Nat \ {0}
    OBVIOUS
  <2>1. q[k] = q[k - 1] * s[k] /\ s[k] \in Nat \ {0}
    BY <1>1, <1>3
  <2>2. q[k - 1] * s[k] \in Nat \ {0}
    BY <2>1
  <2>3. k \in 0..n
    BY <1>1
  <2> QED BY <2>1, <2>2, <2>3
<1> HIDE DEF T
<1>6. 0..n \subseteq T
  BY <1>1, <1>4, <1>5, UpTo
<1>7. n \in T
  BY <1>1, <1>6
<1> QED BY <1>2, <1>7 DEF T

(* The count of what is left of a shape from one extent on, and behind it. *)
LEMMA NumElementsSuffix ==
    ASSUME NEW s \in Seq(Nat), NEW i \in 1..Len(s)
    PROVE  NumElements(SubSeq(s, i, Len(s)))
             = s[i] * NumElements(SubSeq(s, i + 1, Len(s)))
<1> DEFINE t == SubSeq(s, i + 1, Len(s))
<1>1. t \in Seq(Nat) /\ s[i] \in Nat
  OBVIOUS
<1>2. SubSeq(s, i, Len(s)) = << s[i] >> \o t
  OBVIOUS
<1>3. NumElements(<< s[i] >> \o t) = s[i] * NumElements(t)
  <2> HIDE DEF t
  <2> QED BY <1>1, NumElementsCons
<1> QED BY <1>2, <1>3

(* Nothing is left behind the last extent.                                 *)
LEMMA NumElementsBehind ==
    ASSUME NEW s \in Seq(Nat)
    PROVE  NumElements(SubSeq(s, Len(s) + 1, Len(s))) = 1
<1>1. SubSeq(s, Len(s) + 1, Len(s)) = << >>
  OBVIOUS
<1> QED BY <1>1, NumElementsEmpty
-----------------------------------------------------------------------------
(* Products that fit into an int.                                          *)

(* An int holds the numbers below half of its values.                      *)
LEMMA FitsInt ==
    ASSUME NEW n \in Nat, n < IntModulus \div 2
    PROVE  ToInt(n) = n
<1> DEFINE h == IntModulus \div 2
<1>1. h \in Nat /\ IntModulus = h + h
  BY ModulusAssumption
<1> HIDE DEF h
<1>2. n + h \in Nat /\ h + h \in Nat \ {0} /\ n + h < h + h
  BY <1>1, ModulusAssumption DEF h
<1>3. \A a \in Nat, m \in Nat \ {0} : a < m => a % m = a
  OBVIOUS
<1>4. (n + h) % IntModulus = n + h
  BY <1>1, <1>2, <1>3
<1>5. (n + h) - h = n
  BY <1>1
<1> QED BY <1>4, <1>5 DEF ToInt, h

(* Partial products do not decrease where no extent is 0.                  *)
LEMMA ProductsGrow ==
    ASSUME NEW s \in Seq(Nat \ {0}), NEW q, IsProducts(q, s),
           NEW m \in 0..Len(s), NEW k \in 0..m
    PROVE  q[k] <= q[m]
<1> DEFINE T == {d \in 0..(m - k) : q[k] <= q[k + d]}
<1>1. /\ m - k \in Nat /\ k \in Nat /\ Len(s) \in Nat
      /\ \A p \in 0..Len(s) : q[p] \in Nat
      /\ \A p \in 1..Len(s) : q[p] = q[p - 1] * s[p] /\ s[p] \in Nat \ {0}
  BY DEF IsProducts
<1>2. 0 \in T
  <2>1. k + 0 = k /\ 0 \in 0..(m - k) /\ k \in 0..Len(s)
    BY <1>1
  <2>2. q[k] \in Nat
    BY <1>1, <2>1
  <2> QED BY <2>1, <2>2
<1>3. \A d \in 1..(m - k) : d - 1 \in T => d \in T
  <2> SUFFICES ASSUME NEW d \in 1..(m - k), q[k] <= q[k + (d - 1)]
               PROVE  d \in 0..(m - k) /\ q[k] <= q[k + d]
    OBVIOUS
  <2>1. /\ k + d \in 1..Len(s) /\ (k + d) - 1 = k + (d - 1) /\ k + (d - 1) \in 0..Len(s)
        /\ k \in 0..Len(s) /\ k + d \in 0..Len(s) /\ d \in 0..(m - k)
    BY <1>1
  <2>2. q[k + d] = q[k + (d - 1)] * s[k + d] /\ s[k + d] \in Nat \ {0}
    BY <1>1, <2>1
  <2>3. q[k] \in Nat /\ q[k + (d - 1)] \in Nat
    BY <1>1, <2>1
  <2>4. \A a \in Nat, b \in Nat \ {0} : a <= a * b
    OBVIOUS
  <2>5. q[k + (d - 1)] <= q[k + d]
    BY <2>2, <2>3, <2>4
  <2>6. q[k + d] \in Nat
    BY <1>1, <2>1
  <2> QED BY <2>1, <2>3, <2>5, <2>6
<1> HIDE DEF T
<1>4. 0..(m - k) \subseteq T
  BY <1>1, <1>2, <1>3, UpTo
<1>5. m - k \in T
  BY <1>1, <1>4
<1>6. k + (m - k) = m
  BY <1>1
<1> QED BY <1>5, <1>6 DEF T

(* The product accumulated in an int is the element count, as long as that *)
(* fits: none of the partial products exceeds it.                          *)
LEMMA IntProductFits ==
    ASSUME NEW s \in Seq(Nat \ {0}), NumElements(s) < IntModulus \div 2
    PROVE  IntProduct(s) = NumElements(s)
<1> DEFINE n == Len(s)
           g == CHOOSE h : IsFold(TRUE, h, s, n)
<1>1. n \in Nat /\ DOMAIN s = 1..n /\ s \in Seq(Nat)
  OBVIOUS
<1>2. PICK q : IsProducts(q, s) /\ NumElements(s) = q[n]
  BY <1>1, ProductsExist
<1>3. /\ q[0] = 1
      /\ \A k \in 0..n : q[k] \in Nat
      /\ \A k \in 1..n : q[k] = q[k - 1] * s[k]
  BY <1>2 DEF IsProducts
<1>4. \A k \in 0..n : q[k] <= q[n]
  BY <1>1, <1>2, ProductsGrow
<1> HIDE DEF n
<1>5. IsFold(TRUE, g, s, n)
  <2>1. \E h : IsFold(TRUE, h, s, n)
    BY <1>1, FoldExists
  <2> QED BY <2>1
<1>6. IntProduct(s) = g[1..n]
  BY <1>1 DEF IntProduct, FoldLeft, MapThenFoldSet, IsFold, Times
<1> HIDE DEF g
<1> DEFINE T == {k \in 0..n : g[1..k] = q[k]}
<1>7. 0 \in T
  <2>1. 1..0 = {} /\ 1..0 \in SUBSET (1..n)
    OBVIOUS
  <2>2. g[1..0] = 1
    BY <1>5, <2>1 DEF IsFold
  <2> QED BY <1>1, <1>3, <2>2
<1>8. \A k \in 1..n : k - 1 \in T => k \in T
  <2> SUFFICES ASSUME NEW k \in 1..n, g[1..(k - 1)] = q[k - 1]
               PROVE  k \in 0..n /\ g[1..k] = q[k]
    OBVIOUS
  <2>1. k \in Nat /\ k \in 1..k /\ k \in 0..n /\ n \in 0..n
    BY <1>1
  <2>2. 1..k \in SUBSET (1..n) /\ 1..k # {}
    <3>1. n \in Nat
      BY <1>1
    <3>2. \A p \in 1..k : p \in 1..n
      BY <2>1, <3>1
    <3> QED BY <2>1, <3>2
  <2>3. (1..k) \ {k} = 1..(k - 1)
    BY <2>1
  <2>4. Max(1..k) = k
    BY <2>1, MaxIsBound
  <2>5. g[1..k] = ToInt(g[1..(k - 1)] * s[k])
    BY <1>5, <2>2, <2>3, <2>4 DEF IsFold, Times
  <2>6. g[1..k] = ToInt(q[k])
    BY <1>3, <2>5
  <2>7. q[k] \in Nat /\ q[n] \in Nat /\ q[k] <= q[n] /\ q[n] < IntModulus \div 2
    BY <1>2, <1>3, <1>4, <2>1
  <2>8. IntModulus \div 2 \in Nat
    BY ModulusAssumption
  <2>9. q[k] < IntModulus \div 2
    BY <2>7, <2>8
  <2> QED BY <2>1, <2>6, <2>7, <2>9, FitsInt
<1> HIDE DEF T
<1>9. 0..n \subseteq T
  BY <1>1, <1>7, <1>8, UpTo
<1>10. n \in T
  BY <1>1, <1>9
<1> QED BY <1>2, <1>6, <1>10 DEF T

-----------------------------------------------------------------------------
(* Sequences.                                                              *)

IsSeq(s) == s \in Seq(Range(s))

(* A sequence over any set is one over its own elements.                   *)
LEMMA SeqIsSeq ==
    ASSUME NEW S, NEW s \in Seq(S)
    PROVE  IsSeq(s) /\ \A k \in 1..Len(s) : s[k] \in S
<1> DEFINE n == Len(s)
           R == Range(s)
<1>1. n \in Nat /\ DOMAIN s = 1..n /\ s = [k \in 1..n |-> s[k]] /\ \A k \in 1..n : s[k] \in S
  OBVIOUS
<1>2. \A k \in 1..n : s[k] \in R
  BY <1>1 DEF Range
<1> HIDE DEF n, R
<1>3. [k \in 1..n |-> s[k]] \in Seq(R)
  BY <1>1, <1>2, IsASeq
<1>4. s \in Seq(R)
  BY <1>1, <1>3
<1> QED BY <1>1, <1>4 DEF IsSeq, n, R

(* What the elements and the range of a sequence are.                      *)
LEMMA SeqFacts ==
    ASSUME NEW s, IsSeq(s)
    PROVE  /\ Len(s) \in Nat /\ DOMAIN s = 1..Len(s)
           /\ \A x : x \in Range(s) <=> \E k \in 1..Len(s) : s[k] = x
<1>1. s \in Seq(Range(s))
  BY DEF IsSeq
<1>2. Len(s) \in Nat /\ DOMAIN s = 1..Len(s)
  BY <1>1
<1> QED BY <1>2 DEF Range

(* Flattening keeps to the items of the parts, and ends as the last part   *)
(* does.                                                                   *)
IsFlat(f, ss, n) == f = [i \in 1..n |-> IF i = 1 THEN ss[i] ELSE f[i - 1] \o ss[i]]

(* The function FlattenSeq is defined by exists.                           *)
LEMMA FlatExists ==
    ASSUME NEW ss, NEW n \in Nat
    PROVE  \E f : IsFlat(f, ss, n)
<1> DEFINE T == {m \in 0..n : \E f : IsFlat(f, ss, m)}
<1>1. 0 \in T
  <2> DEFINE f == [i \in 1..0 |-> 0]
  <2>1. f = [i \in 1..0 |-> IF i = 1 THEN ss[i] ELSE f[i - 1] \o ss[i]]
    OBVIOUS
  <2> HIDE DEF f
  <2>2. IsFlat(f, ss, 0)
    BY <2>1 DEF IsFlat
  <2> QED BY <2>2
<1>2. ASSUME NEW m \in 1..n, m - 1 \in T PROVE m \in T
  <2>1. PICK f : IsFlat(f, ss, m - 1)
    BY <1>2
  <2> DEFINE g == [i \in 1..m |-> IF i < m THEN f[i] ELSE IF i = 1 THEN ss[i] ELSE f[i - 1] \o ss[i]]
  <2>2. ASSUME NEW i \in 1..m PROVE g[i] = IF i = 1 THEN ss[i] ELSE g[i - 1] \o ss[i]
    <3>1. CASE i = m
      <4>1. i # 1 => i - 1 \in 1..m /\ i - 1 < m
        BY <3>1
      <4> QED BY <3>1, <4>1
    <3>2. CASE i < m
      <4>1. i \in 1..(m - 1) /\ i # 1 => i - 1 \in 1..m /\ i - 1 < m
        BY <3>2
      <4>2. i \in 1..(m - 1)
        BY <3>2
      <4>3. f[i] = IF i = 1 THEN ss[i] ELSE f[i - 1] \o ss[i]
        BY <2>1, <4>2 DEF IsFlat
      <4>4. g[i] = f[i] /\ (i # 1 => g[i - 1] = f[i - 1])
        BY <3>2, <4>1, <4>2
      <4> HIDE DEF g
      <4> QED BY <4>3, <4>4
    <3> QED BY <3>1, <3>2
  <2>3. g = [i \in 1..m |-> g[i]]
    OBVIOUS
  <2> HIDE DEF g
  <2>4. g = [i \in 1..m |-> IF i = 1 THEN ss[i] ELSE g[i - 1] \o ss[i]]
    BY <2>2, <2>3
  <2>5. IsFlat(g, ss, m)
    BY <2>4 DEF IsFlat
  <2> QED BY <2>5
<1> HIDE DEF T
<1>3. 0..n \subseteq T
  BY <1>1, <1>2, UpTo
<1>4. n \in T
  BY <1>3
<1> QED BY <1>4 DEF T

(* Flattening takes elements from the parts alone, and ends with the last one. *)
LEMMA Flattened ==
    ASSUME NEW S, NEW ss \in Seq(Seq(S)), Len(ss) > 0
    PROVE  LET flat == FlattenSeq(ss)
           IN  /\ flat \in Seq(S)
               /\ \A k \in 1..Len(flat) : \E i \in 1..Len(ss) : \E j \in 1..Len(ss[i]) : flat[k] = ss[i][j]
               /\ Len(ss[Len(ss)]) > 0 =>
                      Len(flat) > 0 /\ flat[Len(flat)] = ss[Len(ss)][Len(ss[Len(ss)])]
<1> DEFINE n == Len(ss)
           f == CHOOSE h : IsFlat(h, ss, n)
           From(t) == \A k \in 1..Len(t) : \E i \in 1..n : \E j \in 1..Len(ss[i]) : t[k] = ss[i][j]
           Ends(t, i) == Len(ss[i]) > 0 => Len(t) > 0 /\ t[Len(t)] = ss[i][Len(ss[i])]
           Good(t, i) == t \in Seq(S) /\ From(t) /\ Ends(t, i)
<1>1. n \in Nat /\ n >= 1 /\ \A i \in 1..n : ss[i] \in Seq(S)
  OBVIOUS
<1>2. FlattenSeq(ss) = f[n]
  BY <1>1 DEF FlattenSeq, IsFlat
<1> HIDE DEF n
<1>3. IsFlat(f, ss, n)
  BY <1>1, FlatExists
<1> HIDE DEF f
<1>4. \A i \in 1..n : f[i] = IF i = 1 THEN ss[i] ELSE f[i - 1] \o ss[i]
  BY <1>3 DEF IsFlat
<1> DEFINE T == {i \in 0..n : i # 0 => Good(f[i], i)}
<1>5. 0 \in T
  BY <1>1
<1>6. \A i \in 1..n : i - 1 \in T => i \in T
  <2> SUFFICES ASSUME NEW i \in 1..n, i - 1 # 0 => Good(f[i - 1], i - 1)
               PROVE  i \in 0..n /\ Good(f[i], i)
    OBVIOUS
  <2>1. i \in 0..n /\ i # 0
    BY <1>1
  <2>2. ss[i] \in Seq(S)
    BY <1>1
  <2>3. CASE i = 1
    <3>1. f[i] = ss[i]
      BY <1>4, <2>3
    <3>2. Good(ss[i], i)
      BY <2>2
    <3> QED BY <2>1, <3>1, <3>2
  <2>4. CASE i # 1
    <3>1. i - 1 # 0 /\ f[i] = f[i - 1] \o ss[i]
      <4>1. i \in Int /\ i - 1 # 0
        BY <1>1, <2>4
      <4>2. f[i] = IF i = 1 THEN ss[i] ELSE f[i - 1] \o ss[i]
        BY <1>4
      <4> QED BY <2>4, <4>1, <4>2
    <3>2. f[i - 1] \in Seq(S) /\ From(f[i - 1])
      BY <3>1
    <3> DEFINE a == f[i - 1]
               b == ss[i]
    <3> HIDE DEF a, b
    <3>3. a \in Seq(S) /\ b \in Seq(S)
      BY <2>2, <3>2 DEF a, b
    <3>4. /\ a \o b \in Seq(S) /\ Len(a \o b) = Len(a) + Len(b)
          /\ Len(a) \in Nat /\ Len(b) \in Nat
          /\ \A k \in 1..(Len(a) + Len(b)) : (a \o b)[k] = IF k <= Len(a) THEN a[k] ELSE b[k - Len(a)]
      BY <3>3, ConcatProperties, LenProperties
    <3>5. ASSUME NEW k \in 1..Len(a \o b)
          PROVE  \E l \in 1..n : \E j \in 1..Len(ss[l]) : (a \o b)[k] = ss[l][j]
      <4>1. CASE k <= Len(a)
        <5>1. k \in 1..Len(a) /\ (a \o b)[k] = a[k]
          BY <3>4, <4>1
        <5>2. From(a)
          BY <3>2 DEF a
        <5>3. \E l \in 1..n : \E j \in 1..Len(ss[l]) : a[k] = ss[l][j]
          BY <5>1, <5>2
        <5> QED BY <5>1, <5>3
      <4>2. CASE ~ (k <= Len(a))
        <5>1. k - Len(a) \in 1..Len(b) /\ (a \o b)[k] = b[k - Len(a)]
          BY <3>4, <4>2
        <5>2. k - Len(a) \in 1..Len(ss[i]) /\ (a \o b)[k] = ss[i][k - Len(a)]
          BY <5>1 DEF b
        <5> QED BY <5>2
      <4> QED BY <4>1, <4>2
    <3>6. Len(b) > 0 => Len(a \o b) > 0 /\ (a \o b)[Len(a \o b)] = b[Len(b)]
      <4> SUFFICES ASSUME Len(b) > 0 PROVE Len(a \o b) > 0 /\ (a \o b)[Len(a \o b)] = b[Len(b)]
        OBVIOUS
      <4>1. Len(a) + Len(b) \in 1..(Len(a) + Len(b)) /\ ~ (Len(a) + Len(b) <= Len(a))
        BY <3>4
      <4>2. (Len(a) + Len(b)) - Len(a) = Len(b)
        BY <3>4
      <4> QED BY <3>4, <4>1, <4>2
    <3>7. f[i] = a \o b
      BY <3>1 DEF a, b
    <3>8. a \o b \in Seq(S) /\ From(a \o b) /\ Ends(a \o b, i)
      BY <3>4, <3>5, <3>6 DEF b
    <3>9. Good(f[i], i)
      <4> HIDE DEF From, Ends
      <4> QED BY <3>7, <3>8
    <3> QED BY <2>1, <3>9
  <2> QED BY <2>3, <2>4
<1> HIDE DEF T
<1>7. 0..n \subseteq T
  BY <1>1, <1>5, <1>6, UpTo
<1>8. n \in T /\ n # 0
  BY <1>1, <1>7
<1> HIDE DEF Good
<1>9. Good(f[n], n)
  BY <1>8 DEF T
<1> QED BY <1>2, <1>9 DEF Good, n

-----------------------------------------------------------------------------
(* Shapes and types.                                                       *)

(* Swapping the last two extents of a shape gives a shape.                 *)
LEMMA TransposeShapeType ==
    ASSUME NEW s \in Seq(Nat)
    PROVE  TransposeShape(s) \in Seq(Nat)
  BY DEF TransposeShape

(* The shape of a product of compatible operands is a shape.               *)
LEMMA MatmulShapeType ==
    ASSUME NEW l \in Seq(Nat), NEW r \in Seq(Nat), MatmulCompatible(l, r)
    PROVE  MatmulShape(l, r) \in Seq(Nat)
<1>1. Batch(l, r) \in Seq(Nat)
  BY DEF MatmulCompatible, MatmulRanks, Batch
<1>2. (IF Len(l) >= Len(r) THEN << l[Len(l) - 1] >> ELSE << >>) \in Seq(Nat)
  <2>1. Len(l) >= Len(r) => Len(l) >= 2
    BY DEF MatmulCompatible, MatmulRanks
  <2>2. Len(l) >= 2 => l[Len(l) - 1] \in Nat
    OBVIOUS
  <2> QED BY <2>1, <2>2
<1>3. (IF Len(l) <= Len(r) THEN << r[Len(r)] >> ELSE << >>) \in Seq(Nat)
  <2>1. Len(r) >= 1 => r[Len(r)] \in Nat
    OBVIOUS
  <2> QED BY <2>1 DEF MatmulCompatible, MatmulRanks
<1> QED BY <1>1, <1>2, <1>3 DEF MatmulShape

(* inferShapes() gives a type.                                             *)
LEMMA InferShapesType ==
    ASSUME NEW kind \in Kinds, NEW n \in Nat, ArityOK(kind, n),
           NEW in \in [1..n -> Type], NEW old \in Type
    PROVE  InferShapes(kind, in, old) \in Type
<1> SUFFICES ASSUME CanInfer(kind, in)
             PROVE  ResultShape(kind, in) \in Type
  BY DEF InferShapes
<1>1. CASE kind \in Elementwise \cup {"cast"}
  BY <1>1 DEF ArityOK, ResultShape, Elementwise
<1>2. CASE kind = "matrix_mul"
  <2>1. in[1] \in Seq(Nat) /\ in[2] \in Seq(Nat) /\ MatmulCompatible(in[1], in[2])
    BY <1>2 DEF ArityOK, CanInfer, Elementwise, IsRanked, Type, Shape
  <2> QED BY <1>2, <2>1, MatmulShapeType DEF ResultShape, Type, Shape
<1>3. CASE kind = "transpose"
  <2>1. in[1] \in Seq(Nat)
    BY <1>3 DEF ArityOK, CanInfer, Elementwise, IsRanked, Type, Shape
  <2> QED BY <1>3, <2>1, TransposeShapeType DEF ResultShape, Type, Shape
<1> QED BY <1>1, <1>2, <1>3 DEF CanInfer

-----------------------------------------------------------------------------
(* Functions in SSA form.                                                  *)

(* In a well formed body every operation has a kind and a built type, its  *)
(* operands are earlier values, and it was accepted by its builder.        *)
LEMMA WellFormedFacts ==
    ASSUME NEW p, WellFormed(p), NEW o \in DOMAIN p
    PROVE  /\ p[o] \in Operation
           /\ Len(p[o].args) \in Nat
           /\ DOMAIN p[o].args = 1..Len(p[o].args)
           /\ ArityOK(p[o].kind, Len(p[o].args))
           /\ \A k \in DOMAIN p[o].args :
                 p[o].args[k] \in DOMAIN p /\ p[o].args[k] # o
           /\ p[o].kind \in {"transpose", "cast"} => p[o].type = Unranked
<1>1. /\ p \in Seq(Operation)
      /\ MayFollow(SubSeq(p, 1, o - 1), p[o])
  BY DEF WellFormed
<1>2. /\ p[o] \in Operation
      /\ o \in 1..Len(p)
  BY <1>1
<1>3. p[o].args \in Seq(Nat)
  BY <1>2 DEF Operation
<1>4. Len(SubSeq(p, 1, o - 1)) = o - 1
  BY <1>1, <1>2
<1>5. \A k \in DOMAIN p[o].args : p[o].args[k] \in 1..(o - 1)
  BY <1>1, <1>4 DEF MayFollow
<1>6. \A k \in DOMAIN p[o].args : p[o].args[k] \in DOMAIN p /\ p[o].args[k] # o
  BY <1>1, <1>2, <1>5
<1>7. p[o].kind \in {"transpose", "cast"} => p[o].type = Unranked
  BY <1>1 DEF MayFollow, BuildType
<1> QED BY <1>1, <1>2, <1>3, <1>6, <1>7 DEF MayFollow

(* What typing a body in program order rests on: operations of a kind and  *)
(* a type, with their number of operands, each defined before its use.     *)
Dominated(p) ==
    /\ Len(p) \in Nat /\ DOMAIN p = 1..Len(p)
    /\ \A o \in DOMAIN p :
          /\ p[o].kind \in Kinds /\ p[o].args \in Seq(Nat) /\ p[o].type \in Type
          /\ ArityOK(p[o].kind, Len(p[o].args))
          /\ \A k \in DOMAIN p[o].args : p[o].args[k] \in 1..(o - 1)

LEMMA WellFormedIsDominated ==
    ASSUME NEW p, WellFormed(p)
    PROVE  Dominated(p)
<1>1. p \in Seq(Operation) /\ Len(p) \in Nat /\ DOMAIN p = 1..Len(p)
  BY DEF WellFormed
<1>2. ASSUME NEW o \in DOMAIN p
      PROVE  /\ p[o].kind \in Kinds /\ p[o].args \in Seq(Nat) /\ p[o].type \in Type
             /\ ArityOK(p[o].kind, Len(p[o].args))
             /\ \A k \in DOMAIN p[o].args : p[o].args[k] \in 1..(o - 1)
  <2>1. p[o] \in Operation /\ ArityOK(p[o].kind, Len(p[o].args))
    BY WellFormedFacts
  <2>2. MayFollow(SubSeq(p, 1, o - 1), p[o])
    BY DEF WellFormed
  <2>3. Len(SubSeq(p, 1, o - 1)) = o - 1
    BY <1>1
  <2>4. \A k \in DOMAIN p[o].args : p[o].args[k] \in 1..(o - 1)
    BY <2>2, <2>3 DEF MayFollow
  <2> QED BY <2>1, <2>4 DEF Operation
<1> QED BY <1>1, <1>2 DEF Dominated

(* The built types are types.                                              *)
LEMMA BuiltTypesType ==
    ASSUME NEW p, Dominated(p)
    PROVE  BuiltTypes(p) \in [DOMAIN p -> Type]
<1>1. \A o \in DOMAIN p : p[o].type \in Type
  BY DEF Dominated
<1> QED BY <1>1 DEF BuiltTypes

(* What inferShapes() gives to an operation of a typed body is a type.     *)
LEMMA InferredTypeType ==
    ASSUME NEW p, Dominated(p), NEW ty \in [DOMAIN p -> Type],
           NEW o \in DOMAIN p
    PROVE  InferredType(p, ty, o) \in Type
<1>1. /\ p[o].kind \in Kinds
      /\ Len(p[o].args) \in Nat
      /\ ArityOK(p[o].kind, Len(p[o].args))
  BY DEF Dominated
<1>2. OperandTypes(p, ty, o) \in [1..Len(p[o].args) -> Type]
  <2>1. \A k \in DOMAIN p[o].args : p[o].args[k] \in DOMAIN p
    BY DEF Dominated
  <2>2. DOMAIN p[o].args = 1..Len(p[o].args)
    BY DEF Dominated
  <2> QED BY <2>1, <2>2 DEF OperandTypes
<1>3. Unranked \in Type
  BY DEF Type
<1> QED BY <1>1, <1>2, <1>3, InferShapesType DEF InferredType

(* Two typings that agree on the operands of an operation see the same     *)
(* operands and infer the same type.                                       *)
LEMMA SameOperands ==
    ASSUME NEW p, NEW ty, NEW tz, NEW o,
           \A k \in DOMAIN p[o].args : ty[p[o].args[k]] = tz[p[o].args[k]]
    PROVE  /\ OperandTypes(p, ty, o) = OperandTypes(p, tz, o)
           /\ InferredType(p, ty, o) = InferredType(p, tz, o)
           /\ IsAllOperandsInferred(p, ty, o) <=> IsAllOperandsInferred(p, tz, o)
BY DEF OperandTypes, InferredType, IsAllOperandsInferred

(* What the typing equation asks of operation o.                           *)
EquationType(p, ty, o) ==
    IF /\ HasDynamicShapeReturn(p, BuiltTypes(p), o)
       /\ IsAllOperandsInferred(p, ty, o)
    THEN InferredType(p, ty, o)
    ELSE p[o].type

(* ty are the types of the first m operations, found in program order.     *)
IsInOrder(p, ty, m) == ty = [o \in 1..m |-> EquationType(p, ty, o)]

(* Visiting the operations in program order assigns every type.            *)
LEMMA InOrderExists ==
    ASSUME NEW p, Dominated(p)
    PROVE  \E ty : IsInOrder(p, ty, Len(p))
<1> DEFINE n == Len(p)
           Typed == {m \in 0..n : \E ty : IsInOrder(p, ty, m)}
<1>1. n \in Nat /\ DOMAIN p = 1..n
  BY DEF Dominated
<1> HIDE DEF n
<1>2. 0 \in Typed
  <2> DEFINE ty == [o \in 1..0 |-> Unranked]
  <2>1. ty = [o \in 1..0 |-> EquationType(p, ty, o)]
    <3>1. \A o \in 1..0 : FALSE
      OBVIOUS
    <3> QED BY <3>1
  <2>2. IsInOrder(p, ty, 0)
    BY <2>1 DEF IsInOrder
  <2> QED BY <1>1, <2>2
<1>3. ASSUME NEW m \in 1..n, m - 1 \in Typed PROVE m \in Typed
  <2>1. PICK h : IsInOrder(p, h, m - 1)
    BY <1>3
  <2> DEFINE ty == [o \in 1..m |-> IF o = m THEN EquationType(p, h, m) ELSE h[o]]
  <2>2. m \in Nat /\ m \in 1..m /\ m \in 0..n
    BY <1>1
  <2>3. ASSUME NEW o \in 1..m PROVE EquationType(p, ty, o) = EquationType(p, h, o)
    <3>1. o \in DOMAIN p
      BY <1>1
    <3>2. \A k \in DOMAIN p[o].args : ty[p[o].args[k]] = h[p[o].args[k]]
      <4> SUFFICES ASSUME NEW k \in DOMAIN p[o].args
                   PROVE  ty[p[o].args[k]] = h[p[o].args[k]]
        OBVIOUS
      <4>1. p[o].args[k] \in 1..(o - 1)
        BY <3>1 DEF Dominated
      <4>2. p[o].args[k] \in 1..m /\ p[o].args[k] # m
        BY <2>2, <4>1
      <4> QED BY <4>2
    <3> HIDE DEF ty
    <3> QED BY <3>2, SameOperands DEF EquationType
  <2>4. ASSUME NEW o \in 1..m PROVE ty[o] = EquationType(p, h, o)
    <3>1. CASE o = m
      BY <3>1
    <3>2. CASE o # m
      <4>1. o \in 1..(m - 1)
        BY <2>2, <3>2
      <4>2. h[o] = EquationType(p, h, o)
        BY <2>1, <4>1 DEF IsInOrder
      <4> QED BY <3>2, <4>2
    <3> QED BY <3>1, <3>2
  <2>5. ty = [o \in 1..m |-> ty[o]]
    OBVIOUS
  <2> HIDE DEF ty
  <2>6. ty = [o \in 1..m |-> EquationType(p, ty, o)]
    BY <2>3, <2>4, <2>5
  <2>7. IsInOrder(p, ty, m)
    BY <2>6 DEF IsInOrder
  <2> QED BY <2>2, <2>7
<1> HIDE DEF Typed
<1>4. 0..n \subseteq Typed
  BY <1>1, <1>2, <1>3, UpTo
<1>5. n \in Typed
  BY <1>1, <1>4
<1> QED BY <1>5 DEF Typed, n

(* They solve the typing equations, so the equations of every program in   *)
(* SSA form have a solution.                                               *)
LEMMA InOrderIsSolution ==
    ASSUME NEW p, Dominated(p)
    PROVE  /\ InOrderTypes(p) = [o \in DOMAIN p |-> EquationType(p, InOrderTypes(p), o)]
           /\ Solution(p, InOrderTypes(p))
<1>1. DOMAIN p = 1..Len(p)
  BY DEF Dominated
<1>2. \E ty : ty = [o \in DOMAIN p |-> EquationType(p, ty, o)]
  BY <1>1, InOrderExists DEF IsInOrder
<1>3. InOrderTypes(p) = CHOOSE ty : ty = [o \in DOMAIN p |-> EquationType(p, ty, o)]
  BY DEF InOrderTypes, EquationType, InferredType, OperandTypes, IsAllOperandsInferred
<1>4. InOrderTypes(p) = [o \in DOMAIN p |-> EquationType(p, InOrderTypes(p), o)]
  BY <1>2, <1>3
<1>5. ASSUME NEW o \in DOMAIN p
      PROVE  InOrderTypes(p)[o] = EquationType(p, InOrderTypes(p), o)
  BY <1>4
<1>6. Solution(p, InOrderTypes(p))
  BY <1>5 DEF Solution, TypeEquation, EquationType
<1> QED BY <1>4, <1>6
=============================================================================
