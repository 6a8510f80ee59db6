------------------------- MODULE ReshapeLoweringProofs -------------------------
(***************************************************************************)
(* Theorems about the two searches for an intermediate shape, for shapes   *)
(* of every rank and all extents: neither search loses an element, and a   *)
(* reshape that keeps the element count is never refused.                  *)
(*                                                                         *)
(* The first part is what the proofs need of shapes: counts of what is     *)
(* left of a shape and of what leads it, the refinement of one shape by    *)
(* another, and what computeReassociation makes of a refinement.           *)
(***************************************************************************)
EXTENDS ReshapeLowering, ToyDialectProofs, FiniteSetTheorems

-----------------------------------------------------------------------------
(* What is left of a shape.                                                *)

Positive == Nat \ {0}

(* The elements that the extents from k on make up.                        *)
Rest(s, k) == NumElements(SubSeq(s, k, Len(s)))

LEMMA RestType ==
    ASSUME NEW s \in Seq(Positive), NEW k \in 1..(Len(s) + 1)
    PROVE  Rest(s, k) \in Positive
<1>1. SubSeq(s, k, Len(s)) \in Seq(Nat \ {0})
  BY DEF Positive
<1> QED BY <1>1, NumElementsPositive DEF Rest, Positive

(* Moving past an extent divides the rest by it.                           *)
LEMMA RestStep ==
    ASSUME NEW s \in Seq(Positive), NEW k \in 1..Len(s)
    PROVE  Rest(s, k) = s[k] * Rest(s, k + 1)
<1>1. s \in Seq(Nat)
  BY DEF Positive
<1> QED BY <1>1, NumElementsSuffix DEF Rest

LEMMA RestOfAll ==
    ASSUME NEW s \in Seq(Positive)
    PROVE  Rest(s, 1) = NumElements(s)
<1>1. SubSeq(s, 1, Len(s)) = s
  OBVIOUS
<1> QED BY <1>1 DEF Rest

(* Multiplication of what is found, what is taken and what is left.        *)
LEMMA Regroup ==
    ASSUME NEW a \in Nat, NEW b \in Nat, NEW c \in Nat
    PROVE  (a * b) * c = a * (b * c)
OBVIOUS

(* A factor that both sides share can be dropped.                          *)
LEMMA Cancel ==
    ASSUME NEW a \in Positive, NEW b \in Nat, NEW c \in Nat, a * b = a * c
    PROVE  b = c
BY DEF Positive

LEMMA PositiveProduct ==
    ASSUME NEW a \in Positive, NEW b \in Positive
    PROVE  a * b \in Positive
BY DEF Positive

(* An extent that b divides is b times a positive quotient.                *)
LEMMA Quotient ==
    ASSUME NEW a \in Positive, NEW b \in Positive, a % b = 0
    PROVE  a \div b \in Positive /\ a = b * (a \div b)
<1>1. a = b * (a \div b) + (a % b)
  BY DEF Positive
<1>2. a \div b \in Nat
  BY DEF Positive
<1>3. a = b * (a \div b)
  BY <1>1, <1>2 DEF Positive
<1>4. a \div b # 0
  BY <1>3 DEF Positive
<1> QED BY <1>2, <1>3, <1>4 DEF Positive

(* The whole extent is taken: found times left stays what it was.          *)
LEMMA TakeWhole ==
    ASSUME NEW f \in Seq(Positive), NEW s \in Seq(Positive), NEW k \in 1..Len(s)
    PROVE  NumElements(Append(f, s[k])) * Rest(s, k + 1) = NumElements(f) * Rest(s, k)
<1>1. f \in Seq(Nat) /\ s[k] \in Nat
  BY DEF Positive
<1>2. NumElements(f) \in Nat
  BY <1>1, NumElementsType
<1>3. k + 1 \in 1..(Len(s) + 1)
  OBVIOUS
<1>4. Rest(s, k + 1) \in Nat
  BY <1>3, RestType DEF Positive
<1>5. NumElements(Append(f, s[k])) = NumElements(f) * s[k]
  BY <1>1, NumElementsAppend
<1>6. (NumElements(f) * s[k]) * Rest(s, k + 1) = NumElements(f) * (s[k] * Rest(s, k + 1))
  BY <1>1, <1>2, <1>4, Regroup
<1> QED BY <1>5, <1>6, RestStep

(* A divisor of the extent is split off.                                   *)
SplitOff(s, k, b) == [s EXCEPT ![k] = s[k] \div b]

LEMMA TakePart ==
    ASSUME NEW f \in Seq(Positive), NEW s \in Seq(Positive), NEW k \in 1..Len(s),
           NEW b \in Positive, s[k] % b = 0
    PROVE  /\ SplitOff(s, k, b) \in Seq(Positive) /\ Len(SplitOff(s, k, b)) = Len(s)
           /\ NumElements(Append(f, b)) * Rest(SplitOff(s, k, b), k)
                = NumElements(f) * Rest(s, k)
<1> DEFINE d == s[k] \div b
           t == SplitOff(s, k, b)
<1>1. t = [s EXCEPT ![k] = d]
  BY DEF SplitOff
<1> HIDE DEF t
<1>2. s[k] \in Positive
  OBVIOUS
<1>3. d \in Positive /\ s[k] = b * d
  BY <1>2, Quotient
<1> HIDE DEF d
<1>4. t \in Seq(Positive) /\ Len(t) = Len(s) /\ t[k] = d
  BY <1>1, <1>3
<1>5. SubSeq(t, k + 1, Len(t)) = SubSeq(s, k + 1, Len(s))
  <2>1. \A m \in (k + 1)..Len(s) : t[m] = s[m]
    BY <1>1
  <2> QED BY <1>4, <2>1
<1>6. Rest(t, k + 1) = Rest(s, k + 1)
  BY <1>5 DEF Rest
<1>7. Rest(t, k) = d * Rest(s, k + 1)
  BY <1>4, <1>6, RestStep
<1>8. Rest(s, k) = (b * d) * Rest(s, k + 1)
  BY <1>3, RestStep
<1>9. k + 1 \in 1..(Len(s) + 1)
  OBVIOUS
<1>10. Rest(s, k + 1) \in Nat /\ b \in Nat /\ d \in Nat
  BY <1>3, <1>9, RestType DEF Positive
<1>11. NumElements(f) \in Nat /\ NumElements(Append(f, b)) = NumElements(f) * b
  <2>1. f \in Seq(Nat)
    BY DEF Positive
  <2> QED BY <1>10, <2>1, NumElementsType, NumElementsAppend
<1>12. d * Rest(s, k + 1) \in Nat
  BY <1>10
<1>13. (NumElements(f) * b) * (d * Rest(s, k + 1))
         = NumElements(f) * (b * (d * Rest(s, k + 1)))
  BY <1>10, <1>11, <1>12, Regroup
<1>14. b * (d * Rest(s, k + 1)) = (b * d) * Rest(s, k + 1)
  BY <1>10, Regroup
<1>15. NumElements(Append(f, b)) * Rest(t, k) = NumElements(f) * Rest(s, k)
  BY <1>7, <1>8, <1>11, <1>13, <1>14
<1> QED BY <1>4, <1>15 DEF t

-----------------------------------------------------------------------------
(* Skipping extents 1.                                                     *)

LEMMA SkipUnitsFacts ==
    ASSUME NEW s \in Seq(Positive), NEW k \in 1..(Len(s) + 1)
    PROVE  /\ SkipUnits(s, k) \in k..(Len(s) + 1)
           /\ \A n \in k..(SkipUnits(s, k) - 1) : s[n] = 1
           /\ SkipUnits(s, k) \in 1..Len(s) => s[SkipUnits(s, k)] # 1
<1> DEFINE S == {n \in k..Len(s) : s[n] # 1} \cup {Len(s) + 1}
<1>1. S \in SUBSET Nat /\ S # {} /\ Len(s) \in Nat
  OBVIOUS
<1>2. SkipUnits(s, k) = Min(S)
  BY DEF SkipUnits
<1>3. SkipUnits(s, k) \in S /\ \A y \in S : SkipUnits(s, k) <= y
  <2> HIDE DEF S
  <2> QED BY <1>1, <1>2, MinOfNumbers
<1>4. /\ SkipUnits(s, k) \in k..(Len(s) + 1)
      /\ SkipUnits(s, k) \in 1..Len(s) => s[SkipUnits(s, k)] # 1
  BY <1>1, <1>3
<1>5. ASSUME NEW n \in k..(SkipUnits(s, k) - 1) PROVE s[n] = 1
  <2>1. n \in k..Len(s) /\ n < SkipUnits(s, k)
    BY <1>1, <1>4
  <2>2. n \notin S
    BY <1>1, <1>3, <1>4, <2>1
  <2> QED BY <2>1, <2>2
<1> QED BY <1>4, <1>5

(* Extents 1 do not change what is left.                                   *)
LEMMA RestSkipsUnits ==
    ASSUME NEW s \in Seq(Positive), NEW k \in 1..(Len(s) + 1)
    PROVE  Rest(s, SkipUnits(s, k)) = Rest(s, k)
<1> DEFINE m == SkipUnits(s, k) - k
           T == {d \in 0..m : Rest(s, k + d) = Rest(s, k)}
<1>1. /\ SkipUnits(s, k) \in k..(Len(s) + 1) /\ Len(s) \in Nat /\ k \in Nat
      /\ \A n \in k..(SkipUnits(s, k) - 1) : s[n] = 1
  BY SkipUnitsFacts
<1>2. m \in Nat /\ SkipUnits(s, k) = k + m /\ k + m <= Len(s) + 1
  BY <1>1
<1>3. \A n \in k..(k + m - 1) : s[n] = 1
  BY <1>1, <1>2
<1> HIDE DEF m
<1>4. 0 \in T
  BY <1>1, <1>2
<1>5. \A d \in 1..m : d - 1 \in T => d \in T
  <2> SUFFICES ASSUME NEW d \in 1..m, Rest(s, k + (d - 1)) = Rest(s, k)
               PROVE  d \in 0..m /\ Rest(s, k + d) = Rest(s, k)
    OBVIOUS
  <2>1. d \in 0..m /\ d \in Nat
    BY <1>2
  <2>2. /\ k + (d - 1) \in 1..Len(s) /\ k + (d - 1) \in k..(k + m - 1)
        /\ (k + (d - 1)) + 1 = k + d /\ k + d \in 1..(Len(s) + 1)
    BY <1>1, <1>2, <2>1
  <2>3. Rest(s, k + (d - 1)) = s[k + (d - 1)] * Rest(s, k + d)
    BY <2>2, RestStep
  <2>4. s[k + (d - 1)] = 1
    BY <1>3, <2>2
  <2>5. Rest(s, k + d) \in Nat
    BY <2>2, RestType DEF Positive
  <2> QED BY <2>1, <2>3, <2>4, <2>5
<1> HIDE DEF T
<1>6. 0..m \subseteq T
  BY <1>2, <1>4, <1>5, UpTo
<1>7. m \in T
  BY <1>2, <1>6
<1> QED BY <1>2, <1>7 DEF T

-----------------------------------------------------------------------------
(* What leads a shape.                                                     *)

(* The elements that the first k extents make up.                          *)
Leading(s, k) == NumElements(SubSeq(s, 1, k))

LEMMA LeadingZero ==
    ASSUME NEW s \in Seq(Positive)
    PROVE  Leading(s, 0) = 1
<1>1. SubSeq(s, 1, 0) = << >>
  OBVIOUS
<1> QED BY <1>1, NumElementsEmpty DEF Leading

LEMMA LeadingAll ==
    ASSUME NEW s \in Seq(Positive)
    PROVE  Leading(s, Len(s)) = NumElements(s)
<1>1. SubSeq(s, 1, Len(s)) = s
  OBVIOUS
<1> QED BY <1>1 DEF Leading

LEMMA LeadingType ==
    ASSUME NEW s \in Seq(Positive), NEW k \in 0..Len(s)
    PROVE  Leading(s, k) \in Positive
<1>1. SubSeq(s, 1, k) \in Seq(Nat \ {0})
  BY DEF Positive
<1> QED BY <1>1, NumElementsPositive DEF Leading, Positive

(* One more extent.                                                        *)
LEMMA LeadingStep ==
    ASSUME NEW s \in Seq(Positive), NEW k \in 1..Len(s)
    PROVE  Leading(s, k) = Leading(s, k - 1) * s[k]
<1>1. SubSeq(s, 1, k - 1) \in Seq(Nat) /\ s[k] \in Nat
  BY DEF Positive
<1>2. SubSeq(s, 1, k) = Append(SubSeq(s, 1, k - 1), s[k])
  OBVIOUS
<1> QED BY <1>1, <1>2, NumElementsAppend DEF Leading

(* Only the extents in question matter.                                    *)
LEMMA LeadingLocal ==
    ASSUME NEW s \in Seq(Positive), NEW t \in Seq(Positive),
           NEW n \in 0..Len(s), n <= Len(t), \A m \in 1..n : s[m] = t[m],
           NEW k \in 0..n
    PROVE  Leading(s, k) = Leading(t, k)
<1>1. SubSeq(s, 1, k) = SubSeq(t, 1, k)
  OBVIOUS
<1> QED BY <1>1 DEF Leading

(* The extents from a + 1 to b lead from one count to the other.           *)
LEMMA LeadingRange ==
    ASSUME NEW s \in Seq(Positive), NEW b \in 0..Len(s), NEW a \in 0..b
    PROVE  /\ SubSeq(s, a + 1, b) \in Seq(Positive)
           /\ NumElements(SubSeq(s, a + 1, b)) \in Positive
           /\ Leading(s, b) = Leading(s, a) * NumElements(SubSeq(s, a + 1, b))
<1> DEFINE T == {d \in 0..(b - a) :
                   Leading(s, a + d) = Leading(s, a) * NumElements(SubSeq(s, a + 1, a + d))}
<1>1. a \in Nat /\ b \in Nat /\ Len(s) \in Nat /\ b - a \in Nat /\ a \in 0..Len(s)
  OBVIOUS
<1>2. Leading(s, a) \in Positive
  BY <1>1, LeadingType
<1>3. 0 \in T
  <2>1. SubSeq(s, a + 1, a + 0) = << >>
    BY <1>1
  <2>2. NumElements(SubSeq(s, a + 1, a + 0)) = 1
    BY <2>1, NumElementsEmpty
  <2>3. Leading(s, a + 0) = Leading(s, a) /\ Leading(s, a) * 1 = Leading(s, a)
    BY <1>1, <1>2 DEF Positive
  <2> QED BY <1>1, <2>2, <2>3
<1>4. \A d \in 1..(b - a) : d - 1 \in T => d \in T
  <2> SUFFICES ASSUME NEW d \in 1..(b - a),
                      Leading(s, a + (d - 1))
                        = Leading(s, a) * NumElements(SubSeq(s, a + 1, a + (d - 1)))
               PROVE  d \in 0..(b - a)
                      /\ Leading(s, a + d)
                           = Leading(s, a) * NumElements(SubSeq(s, a + 1, a + d))
    OBVIOUS
  <2> DEFINE u == SubSeq(s, a + 1, a + (d - 1))
  <2>1. /\ d \in 0..(b - a) /\ a + d \in 1..Len(s) /\ (a + d) - 1 = a + (d - 1)
    BY <1>1
  <2>2. /\ SubSeq(s, a + 1, a + d) = Append(u, s[a + d])
        /\ u \in Seq(Nat) /\ s[a + d] \in Nat
    <3>1. SubSeq(s, a + 1, a + d) = Append(u, s[a + d])
      BY <1>1, <2>1
    <3>2. u \in Seq(Nat)
      BY <1>1, <2>1 DEF Positive
    <3>3. s[a + d] \in Nat
      BY <2>1 DEF Positive
    <3> QED BY <3>1, <3>2, <3>3
  <2> HIDE DEF u
  <2>3. NumElements(SubSeq(s, a + 1, a + d)) = NumElements(u) * s[a + d] /\ NumElements(u) \in Nat
    BY <2>2, NumElementsAppend, NumElementsType
  <2>4. Leading(s, a + d) = Leading(s, a + (d - 1)) * s[a + d]
    BY <2>1, LeadingStep
  <2>5. (Leading(s, a) * NumElements(u)) * s[a + d] = Leading(s, a) * (NumElements(u) * s[a + d])
    BY <1>2, <2>2, <2>3, Regroup DEF Positive
  <2> QED BY <2>1, <2>3, <2>4, <2>5 DEF u
<1> HIDE DEF T
<1>5. 0..(b - a) \subseteq T
  BY <1>1, <1>3, <1>4, UpTo
<1>6. b - a \in T /\ a + (b - a) = b
  BY <1>1, <1>5
<1>7. SubSeq(s, a + 1, b) \in Seq(Positive)
  OBVIOUS
<1>8. NumElements(SubSeq(s, a + 1, b)) \in Positive
  BY <1>7, NumElementsPositive DEF Positive
<1> QED BY <1>6, <1>7, <1>8 DEF T

(* More extents do not make fewer elements.                                *)
LEMMA LeadingGrows ==
    ASSUME NEW s \in Seq(Positive), NEW b \in 0..Len(s), NEW a \in 0..b
    PROVE  Leading(s, a) <= Leading(s, b)
<1>1. /\ Leading(s, b) = Leading(s, a) * NumElements(SubSeq(s, a + 1, b))
      /\ NumElements(SubSeq(s, a + 1, b)) \in Positive
  BY LeadingRange
<1>2. a \in 0..Len(s)
  OBVIOUS
<1>3. Leading(s, a) \in Positive
  BY <1>2, LeadingType
<1>4. \A x \in Positive, y \in Positive : x <= x * y
  BY DEF Positive
<1> QED BY <1>1, <1>3, <1>4

(* What leads and what is left make up all.                                *)
LEMMA LeadingAndRest ==
    ASSUME NEW s \in Seq(Positive), NEW k \in 0..Len(s)
    PROVE  Leading(s, k) * Rest(s, k + 1) = NumElements(s)
<1>1. Len(s) \in 0..Len(s) /\ k \in 0..Len(s)
  OBVIOUS
<1> QED BY <1>1, LeadingRange, LeadingAll DEF Rest

(* Shapes of the same rank are told apart by what leads them.              *)
LEMMA LeadingDetermines ==
    ASSUME NEW s \in Seq(Positive), NEW t \in Seq(Positive), Len(s) = Len(t),
           \A k \in 0..Len(s) : Leading(s, k) = Leading(t, k)
    PROVE  s = t
<1> SUFFICES ASSUME NEW k \in 1..Len(s) PROVE s[k] = t[k]
  OBVIOUS
<1>1. k - 1 \in 0..Len(s) /\ k \in 0..Len(s) /\ k \in 1..Len(t)
  OBVIOUS
<1>2. Leading(s, k) = Leading(s, k - 1) * s[k] /\ Leading(t, k) = Leading(t, k - 1) * t[k]
  BY <1>1, LeadingStep
<1>3. Leading(s, k - 1) \in Positive /\ s[k] \in Nat /\ t[k] \in Nat
  BY <1>1, LeadingType DEF Positive
<1>4. Leading(s, k) = Leading(t, k) /\ Leading(s, k - 1) = Leading(t, k - 1)
  BY <1>1
<1>5. Leading(s, k - 1) * s[k] = Leading(s, k - 1) * t[k]
  BY <1>2, <1>4
<1> QED BY <1>3, <1>5, Cancel

(* The shape of a scalar, padded: every count is 1.                        *)
LEMMA LeadingOfOne ==
    ASSUME NEW s \in Seq(Positive), NumElements(s) = 1, NEW k \in 0..Len(s)
    PROVE  Leading(s, k) = 1
<1>1. Len(s) \in 0..Len(s) /\ k \in 0..Len(s) /\ k \in 0..Len(s)
  OBVIOUS
<1>2. Leading(s, k) <= Leading(s, Len(s))
  BY <1>1, LeadingGrows
<1>3. Leading(s, k) \in Positive /\ Leading(s, Len(s)) = 1
  BY LeadingType, LeadingAll
<1> QED BY <1>2, <1>3 DEF Positive

-----------------------------------------------------------------------------
(* A shape refines another one.                                            *)

(* The first n extents of low are products of the first b extents of high: *)
(* c tells where the group of each of them ends.                           *)
IsCut(c, low, n, high, b) ==
    /\ c \in [0..n -> 0..b]
    /\ c[0] = 0
    /\ \A g \in 1..n : c[g - 1] < c[g]
    /\ \A g \in 0..n : Leading(high, c[g]) = Leading(low, g)

Covers(low, n, high, b) == \E c : IsCut(c, low, n, high, b)

(* The extents of low are products of those of high.                       *)
Refines(low, high) ==
    Covers(low, Len(low), high, Len(high)) /\ NumElements(low) = NumElements(high)

(* Every group has an extent, so there is no more of them than of extents. *)
LEMMA CutIsWide ==
    ASSUME NEW n \in Nat, NEW b \in Nat, NEW c, NEW low, NEW high,
           IsCut(c, low, n, high, b), NEW g \in 0..n
    PROVE  g <= c[g]
<1> DEFINE T == {k \in 0..n : k <= c[k]}
<1>1. /\ c[0] = 0 /\ \A k \in 0..n : c[k] \in Nat
      /\ \A k \in 1..n : c[k - 1] < c[k]
  BY DEF IsCut
<1>2. 0 \in T
  BY <1>1
<1>3. \A k \in 1..n : k - 1 \in T => k \in T
  <2> SUFFICES ASSUME NEW k \in 1..n, k - 1 <= c[k - 1] PROVE k \in 0..n /\ k <= c[k]
    OBVIOUS
  <2>1. k - 1 \in 0..n /\ k \in 0..n
    OBVIOUS
  <2>2. c[k - 1] < c[k] /\ c[k - 1] \in Nat /\ c[k] \in Nat
    BY <1>1, <2>1
  <2> QED BY <2>1, <2>2
<1> HIDE DEF T
<1>4. 0..n \subseteq T
  BY <1>2, <1>3, UpTo
<1>5. g \in T
  BY <1>4
<1> QED BY <1>5 DEF T

(* A cut stays one when more extents may be used, of a shape that agrees.  *)
LEMMA CutStays ==
    ASSUME NEW low, NEW n \in Nat, NEW high \in Seq(Positive), NEW b \in 0..Len(high),
           NEW wide \in Seq(Positive), NEW d \in b..Len(wide),
           \A k \in 1..b : high[k] = wide[k], Covers(low, n, high, b)
    PROVE  Covers(low, n, wide, d)
<1>1. PICK c : IsCut(c, low, n, high, b)
  BY DEF Covers
<1>2. c \in [0..n -> 0..d]
  BY <1>1 DEF IsCut
<1>3. ASSUME NEW g \in 0..n PROVE Leading(wide, c[g]) = Leading(low, g)
  <2>1. c[g] \in 0..b /\ b <= Len(wide)
    BY <1>1 DEF IsCut
  <2>2. Leading(high, c[g]) = Leading(wide, c[g])
    BY <2>1, LeadingLocal
  <2> QED BY <1>1, <2>2 DEF IsCut
<1>4. IsCut(c, low, n, wide, d)
  BY <1>1, <1>2, <1>3 DEF IsCut
<1> QED BY <1>4 DEF Covers

(* Only the covered part of low matters.                                   *)
LEMMA CutOfPrefix ==
    ASSUME NEW low \in Seq(Positive), NEW more \in Seq(Positive), NEW n \in 0..Len(low),
           n <= Len(more), \A k \in 1..n : low[k] = more[k],
           NEW high, NEW b \in Nat, Covers(low, n, high, b)
    PROVE  Covers(more, n, high, b)
<1>1. PICK c : IsCut(c, low, n, high, b)
  BY DEF Covers
<1>2. \A g \in 0..n : Leading(low, g) = Leading(more, g)
  BY LeadingLocal
<1>3. IsCut(c, more, n, high, b)
  BY <1>1, <1>2 DEF IsCut
<1> QED BY <1>3 DEF Covers

(* The next extent of low is complete when the counts agree again.  Its    *)
(* group has an extent, either because the bound has grown, or because the *)
(* count has.                                                              *)
LEMMA CutGrows ==
    ASSUME NEW low, NEW n \in Nat, NEW high, NEW b \in Nat, NEW d \in Nat,
           Covers(low, n, high, b), Leading(high, d) = Leading(low, n + 1),
           b <= d, b < d \/ Leading(low, n) # Leading(low, n + 1)
    PROVE  Covers(low, n + 1, high, d)
<1>1. PICK c : IsCut(c, low, n, high, b)
  BY DEF Covers
<1> DEFINE e == [g \in 0..(n + 1) |-> IF g = n + 1 THEN d ELSE c[g]]
<1>2. /\ \A g \in 0..n : c[g] \in 0..b
      /\ c[0] = 0 /\ \A g \in 1..n : c[g - 1] < c[g]
      /\ \A g \in 0..n : Leading(high, c[g]) = Leading(low, g)
  BY <1>1 DEF IsCut
<1>3. e \in [0..(n + 1) -> 0..d]
  <2> SUFFICES ASSUME NEW g \in 0..(n + 1) PROVE e[g] \in 0..d
    OBVIOUS
  <2>1. g = n + 1 \/ g \in 0..n
    OBVIOUS
  <2> QED BY <1>2, <2>1
<1>4. e[0] = 0
  BY <1>2
<1>5. c[n] < d
  <2>1. n \in 0..n
    OBVIOUS
  <2>2. c[n] \in 0..b /\ Leading(high, c[n]) = Leading(low, n)
    BY <1>2, <2>1
  <2>3. b < d \/ c[n] # d
    BY <2>2
  <2> QED BY <2>2, <2>3
<1>6. ASSUME NEW g \in 1..(n + 1) PROVE e[g - 1] < e[g]
  <2>1. g - 1 \in 0..n /\ g - 1 # n + 1 /\ g - 1 \in 0..(n + 1) /\ g \in 0..(n + 1)
    OBVIOUS
  <2>2. e[g - 1] = c[g - 1]
    BY <2>1
  <2>3. CASE g = n + 1
    <3>1. g - 1 = n /\ e[g] = d
      BY <2>3
    <3> HIDE DEF e
    <3> QED BY <1>5, <2>2, <3>1
  <2>4. CASE g \in 1..n
    <3>1. e[g] = c[g]
      BY <2>4
    <3> HIDE DEF e
    <3> QED BY <1>2, <2>2, <2>4, <3>1
  <2> QED BY <2>3, <2>4
<1>7. ASSUME NEW g \in 0..(n + 1) PROVE Leading(high, e[g]) = Leading(low, g)
  <2>1. CASE g = n + 1
    BY <2>1
  <2>2. CASE g \in 0..n
    BY <1>2, <2>2
  <2> QED BY <2>1, <2>2
<1> HIDE DEF e
<1>8. IsCut(e, low, n + 1, high, d)
  BY <1>3, <1>4, <1>6, <1>7 DEF IsCut
<1> QED BY <1>8 DEF Covers

(* Nothing of low is there to be covered.                                  *)
LEMMA CutStarts ==
    ASSUME NEW low \in Seq(Positive), NEW high \in Seq(Positive), NEW b \in Nat
    PROVE  Covers(low, 0, high, b)
<1> DEFINE c == [g \in 0..0 |-> 0]
<1>1. c \in [0..0 -> 0..b] /\ c[0] = 0 /\ \A g \in 0..0 : c[g] = 0 /\ g = 0
  OBVIOUS
<1> HIDE DEF c
<1>2. Leading(low, 0) = 1 /\ Leading(high, 0) = 1
  BY LeadingZero
<1>3. \A g \in 0..0 : Leading(high, c[g]) = Leading(low, g)
  BY <1>1, <1>2
<1>4. 1..0 = {}
  OBVIOUS
<1>5. IsCut(c, low, 0, high, b)
  BY <1>1, <1>3, <1>4 DEF IsCut
<1> QED BY <1>5 DEF Covers

(* Shapes of the same rank refine each other only if they are equal.       *)
LEMMA RefinesSameRank ==
    ASSUME NEW low \in Seq(Positive), NEW high \in Seq(Positive), Refines(low, high)
    PROVE  /\ Len(low) <= Len(high)
           /\ Len(low) = Len(high) => low = high
<1>1. PICK c : IsCut(c, low, Len(low), high, Len(high))
  BY DEF Refines, Covers
<1>2. Len(low) \in Nat /\ Len(high) \in Nat
  OBVIOUS
<1>3. \A g \in 0..Len(low) : g <= c[g]
  BY <1>1, <1>2, CutIsWide
<1>4. Len(low) <= Len(high)
  <2>1. Len(low) <= c[Len(low)]
    BY <1>2, <1>3
  <2>2. c[Len(low)] \in 0..Len(high)
    BY <1>1, <1>2 DEF IsCut
  <2> QED BY <1>2, <2>1, <2>2
<1>5. ASSUME Len(low) = Len(high) PROVE low = high
  <2> DEFINE n == Len(low)
             T == {k \in 0..n : c[n - k] = n - k}
  <2>1. /\ n \in Nat /\ \A g \in 0..n : c[g] \in 0..n /\ g <= c[g]
        /\ \A g \in 1..n : c[g - 1] < c[g]
        /\ \A g \in 0..n : Leading(high, c[g]) = Leading(low, g)
    BY <1>1, <1>2, <1>3, <1>5 DEF IsCut
  <2> HIDE DEF n
  <2>2. 0 \in T
    <3>1. n \in 0..n /\ n - 0 = n
      BY <2>1
    <3>2. c[n] \in 0..n /\ n <= c[n]
      BY <2>1, <3>1
    <3> QED BY <2>1, <3>1, <3>2
  <2>3. \A k \in 1..n : k - 1 \in T => k \in T
    <3> SUFFICES ASSUME NEW k \in 1..n, c[n - (k - 1)] = n - (k - 1)
                 PROVE  k \in 0..n /\ c[n - k] = n - k
      OBVIOUS
    <3>1. /\ n - (k - 1) \in 1..n /\ (n - (k - 1)) - 1 = n - k /\ n - k \in 0..n
          /\ k \in 0..n
      BY <2>1
    <3>2. c[n - k] < n - (k - 1) /\ c[n - k] \in 0..n /\ n - k <= c[n - k]
      BY <2>1, <3>1
    <3> QED BY <2>1, <3>1, <3>2
  <2> HIDE DEF T
  <2>4. 0..n \subseteq T
    BY <2>1, <2>2, <2>3, UpTo
  <2>5. ASSUME NEW g \in 0..n PROVE Leading(low, g) = Leading(high, g)
    <3>1. n - g \in 0..n /\ n - (n - g) = g
      BY <2>1
    <3>2. n - g \in T
      BY <2>4, <3>1
    <3>3. c[n - (n - g)] = n - (n - g)
      BY <3>2 DEF T
    <3>4. c[g] = g
      BY <3>1, <3>3
    <3> QED BY <2>1, <3>4
  <2> QED BY <1>5, <2>5, LeadingDetermines DEF n
<1> QED BY <1>4, <1>5

(* Scalars, however padded, refine each other.                             *)
LEMMA UnitsRefine ==
    ASSUME NEW low \in Seq(Positive), NEW high \in Seq(Positive),
           NumElements(low) = 1, NumElements(high) = 1, Len(low) <= Len(high)
    PROVE  Refines(low, high)
<1> DEFINE c == [g \in 0..Len(low) |-> g]
<1>1. c \in [0..Len(low) -> 0..Len(high)] /\ c[0] = 0
  OBVIOUS
<1>2. \A g \in 1..Len(low) : c[g - 1] < c[g]
  OBVIOUS
<1>3. ASSUME NEW g \in 0..Len(low) PROVE Leading(high, c[g]) = Leading(low, g)
  <2>1. c[g] = g /\ g \in 0..Len(high)
    OBVIOUS
  <2> HIDE DEF c
  <2> QED BY <2>1, LeadingOfOne
<1> HIDE DEF c
<1>4. IsCut(c, low, Len(low), high, Len(high))
  BY <1>1, <1>2, <1>3 DEF IsCut
<1> QED BY <1>4 DEF Covers, Refines

-----------------------------------------------------------------------------
(* computeReassociation finds a refinement where there is one.             *)

LEMMA CancelLeq ==
    ASSUME NEW a \in Positive, NEW b \in Nat, NEW c \in Nat, a * b <= a * c
    PROVE  b <= c
<1> SUFFICES ASSUME b > c PROVE FALSE
  OBVIOUS
<1>1. \E d \in Positive : b = c + d
  <2>1. b - c \in Positive /\ b = c + (b - c)
    BY DEF Positive
  <2> QED BY <2>1
<1>2. PICK d \in Positive : b = c + d
  BY <1>1
<1>3. a * b = a * c + a * d /\ a * d \in Positive /\ a * c \in Nat
  BY <1>2 DEF Positive
<1> QED BY <1>3 DEF Positive

(* The group that starts behind e and makes up m.                          *)
LEMMA GroupEndExact ==
    ASSUME NEW high \in Seq(Positive), NumElements(high) < IntModulus \div 2,
           NEW e \in Nat, NEW q \in (e + 1)..Len(high), NEW m \in Positive,
           Leading(high, q) = Leading(high, e) * m
    PROVE  /\ GroupEnd(high, e + 1, m) \in (e + 1)..q
           /\ Leading(high, GroupEnd(high, e + 1, m)) = Leading(high, e) * m
           /\ high[e + 1] <= m
<1> DEFINE P(x) == NumElements(SubSeq(high, e + 1, x))
           n == Len(high)
           end == GroupEnd(high, e + 1, m)
<1>1. n \in Nat /\ e \in 0..n /\ e + 1 \in 1..n /\ q \in 1..n
  OBVIOUS
<1>2. Leading(high, e) \in Positive
  BY <1>1, LeadingType
<1>3. ASSUME NEW x \in e..n
      PROVE  /\ SubSeq(high, e + 1, x) \in Seq(Positive) /\ P(x) \in Positive
             /\ Leading(high, x) = Leading(high, e) * P(x)
  <2>1. x \in 0..Len(high) /\ e \in 0..x
    BY <1>1
  <2> QED BY <2>1, LeadingRange
<1>4. ASSUME NEW x \in e..n PROVE IntProduct(SubSeq(high, e + 1, x)) = P(x)
  <2>1. x \in 0..n /\ n \in 0..Len(high) /\ x \in 0..n
    BY <1>1
  <2>2. Leading(high, x) <= NumElements(high)
    BY <2>1, LeadingGrows, LeadingAll
  <2>3. P(x) \in Positive /\ Leading(high, x) = Leading(high, e) * P(x)
        /\ SubSeq(high, e + 1, x) \in Seq(Nat \ {0})
    BY <1>3 DEF Positive
  <2>4. \A a \in Positive, b \in Positive : b <= a * b
    BY DEF Positive
  <2>5. P(x) <= Leading(high, x)
    BY <1>2, <2>3, <2>4
  <2>6. NumElements(high) \in Nat /\ Leading(high, x) \in Nat
    BY <2>1, LeadingType, NumElementsPositive DEF Positive
  <2>7. IntModulus \div 2 \in Nat
    BY ModulusAssumption
  <2>8. P(x) < IntModulus \div 2
    BY <2>2, <2>3, <2>5, <2>6, <2>7 DEF Positive
  <2> QED BY <2>3, <2>8, IntProductFits
<1>5. q \in e..n /\ P(q) = m
  <2>1. q \in e..n
    BY <1>1
  <2>2. P(q) \in Nat /\ Leading(high, e) * P(q) = Leading(high, e) * m
    BY <1>3, <2>1 DEF Positive
  <2> QED BY <1>2, <2>1, <2>2, Cancel DEF Positive
<1>6. ASSUME NEW x \in (e + 1)..q PROVE P(x) <= m
  <2>1. x \in e..n /\ q \in 0..Len(high) /\ x \in 0..q
    BY <1>1
  <2>2. Leading(high, x) <= Leading(high, q)
    BY <2>1, LeadingGrows
  <2>3. Leading(high, x) = Leading(high, e) * P(x) /\ P(x) \in Nat /\ m \in Nat
    BY <1>3, <2>1 DEF Positive
  <2> QED BY <1>2, <2>2, <2>3, CancelLeq
<1>7. P(e + 1) = high[e + 1] /\ e + 1 \in (e + 1)..q /\ e + 1 \in e..n
  <2>1. e + 1 \in e..n /\ e + 1 \in 1..Len(high) /\ (e + 1) - 1 = e
    BY <1>1
  <2>2. Leading(high, e + 1) = Leading(high, e) * high[e + 1]
    BY <2>1, LeadingStep
  <2>3. Leading(high, e + 1) = Leading(high, e) * P(e + 1) /\ P(e + 1) \in Nat
    BY <1>3, <2>1 DEF Positive
  <2>4. high[e + 1] \in Nat
    BY <2>1 DEF Positive
  <2> HIDE DEF P
  <2>5. P(e + 1) = high[e + 1]
    BY <1>2, <2>2, <2>3, <2>4, Cancel
  <2> QED BY <1>1, <2>1, <2>5
<1>8. end \in (e + 1)..q /\ P(end) = m
  <2>1. CASE m = high[e + 1]
    <3>1. end = e + 1
      BY <2>1 DEF GroupEnd
    <3> QED BY <1>7, <2>1, <3>1
  <2>2. CASE m # high[e + 1]
    <3> DEFINE S == {x \in (e + 1)..n : P(x) >= m} \cup {n}
    <3>1. end = Min(S)
      <4>1. end = Min({x \in (e + 1)..n : IntProduct(SubSeq(high, e + 1, x)) >= m} \cup {n})
        BY <2>2 DEF GroupEnd
      <4>2. {x \in (e + 1)..n : IntProduct(SubSeq(high, e + 1, x)) >= m}
              = {x \in (e + 1)..n : P(x) >= m}
        <5>1. \A x \in (e + 1)..n : IntProduct(SubSeq(high, e + 1, x)) = P(x)
          BY <1>1, <1>4
        <5> HIDE DEF P
        <5> QED BY <5>1
      <4> QED BY <4>1, <4>2
    <3>2. S \in SUBSET Nat /\ q \in S /\ \A x \in S : x \in (e + 1)..n /\ (x = n \/ P(x) >= m)
      <4>1. P(q) >= m
        BY <1>5 DEF Positive
      <4> HIDE DEF P
      <4> QED BY <1>1, <4>1
    <3>3. end \in S /\ \A y \in S : end <= y
      <4> HIDE DEF S, end
      <4> QED BY <3>1, <3>2, MinOfNumbers
    <3>4. end <= q /\ end \in (e + 1)..n /\ (end = n \/ P(end) >= m)
      BY <3>2, <3>3
    <3>5. end \in (e + 1)..q
      BY <1>1, <3>4
    <3>6. CASE end = n
      <4>1. end = q
        BY <1>1, <3>5, <3>6
      <4> QED BY <1>5, <3>5, <4>1
    <3>7. CASE P(end) >= m
      <4>1. P(end) <= m
        BY <1>6, <3>5
      <4>2. end \in e..n
        BY <1>1, <3>4
      <4>3. P(end) \in Nat /\ m \in Nat
        BY <1>3, <4>2 DEF Positive
      <4> QED BY <3>5, <3>7, <4>1, <4>3
    <3> QED BY <3>4, <3>6, <3>7
  <2> QED BY <2>1, <2>2
<1>9. Leading(high, end) = Leading(high, e) * m
  <2>1. end \in e..n
    BY <1>1, <1>8
  <2> HIDE DEF end
  <2>2. Leading(high, end) = Leading(high, e) * P(end)
    BY <1>3, <2>1
  <2> QED BY <1>8, <2>2
<1>10. high[e + 1] <= m
  BY <1>6, <1>7
<1> QED BY <1>8, <1>9, <1>10

(* The function computed by the loop over the first n groups exists.       *)
IsGroupEnds(f, behind, n) ==
    f = [g \in 0..n |-> IF g = 0 THEN 0 ELSE behind[f[g - 1]][g]]

LEMMA GroupEndsExist ==
    ASSUME NEW behind, NEW n \in Nat
    PROVE  \E f : IsGroupEnds(f, behind, n)
<1> DEFINE T == {m \in 0..n : \E f : IsGroupEnds(f, behind, m)}
<1>1. 0 \in T
  <2> DEFINE f == [g \in 0..0 |-> 0]
  <2>1. \A g \in 0..0 : g = 0
    OBVIOUS
  <2>2. f = [g \in 0..0 |-> IF g = 0 THEN 0 ELSE behind[f[g - 1]][g]]
    BY <2>1
  <2>3. IsGroupEnds(f, behind, 0)
    BY <2>2 DEF IsGroupEnds
  <2>4. 0 \in 0..n
    OBVIOUS
  <2> HIDE DEF f
  <2> QED BY <2>3, <2>4
<1>2. ASSUME NEW m \in 1..n, m - 1 \in T PROVE m \in T
  <2>1. PICK h : IsGroupEnds(h, behind, m - 1)
    BY <1>2
  <2> DEFINE f == [g \in 0..m |-> IF g = m THEN behind[h[m - 1]][m] ELSE h[g]]
  <2>2. ASSUME NEW g \in 0..m
        PROVE  f[g] = IF g = 0 THEN 0 ELSE behind[f[g - 1]][g]
    <3>1. CASE g = m
      <4>1. m - 1 \in 0..m /\ m - 1 # m /\ m # 0
        OBVIOUS
      <4>2. f[m - 1] = h[m - 1] /\ f[m] = behind[h[m - 1]][m]
        BY <4>1
      <4> HIDE DEF f
      <4> QED BY <3>1, <4>1, <4>2
    <3>2. CASE g # m
      <4>1. g \in 0..(m - 1)
        BY <3>2
      <4>2. h[g] = IF g = 0 THEN 0 ELSE behind[h[g - 1]][g]
        BY <2>1, <4>1 DEF IsGroupEnds
      <4>3. f[g] = h[g] /\ (g # 0 => f[g - 1] = h[g - 1])
        BY <3>2, <4>1
      <4> HIDE DEF f
      <4> QED BY <4>2, <4>3
    <3> QED BY <3>1, <3>2
  <2>3. f = [g \in 0..m |-> f[g]]
    OBVIOUS
  <2> HIDE DEF f
  <2>4. f = [g \in 0..m |-> IF g = 0 THEN 0 ELSE behind[f[g - 1]][g]]
    BY <2>2, <2>3
  <2>5. IsGroupEnds(f, behind, m)
    BY <2>4 DEF IsGroupEnds
  <2> QED BY <2>5
<1> HIDE DEF T
<1>3. 0..n \subseteq T
  BY <1>1, <1>2, UpTo
<1>4. n \in T
  BY <1>3
<1> QED BY <1>4 DEF T

LEMMA GroupEndsStep ==
    ASSUME NEW low \in Seq(Positive), NEW high \in Seq(Positive)
    PROVE  /\ GroupEnds(low, high) = [g \in 0..Len(low) |-> GroupEnds(low, high)[g]]
           /\ GroupEnds(low, high)[0] = 0
           /\ \A g \in 1..Len(low) :
                 GroupEnds(low, high)[g - 1] \in 0..(Len(high) - 1) =>
                   GroupEnds(low, high)[g]
                     = GroupEnd(high, GroupEnds(low, high)[g - 1] + 1, low[g])
<1> DEFINE behind == EndsBehind(low, high)
           end == CHOOSE f : f = [g \in 0..Len(low) |-> IF g = 0 THEN 0 ELSE behind[f[g - 1]][g]]
<1>1. GroupEnds(low, high) = end
  BY DEF GroupEnds
<1>2. Len(low) \in Nat /\ Len(high) \in Nat
  OBVIOUS
<1>3. ASSUME NEW e \in 0..(Len(high) - 1), NEW g \in 1..Len(low)
      PROVE  behind[e][g] = GroupEnd(high, e + 1, low[g])
  <2>1. e \in 0..Len(high) /\ e # Len(high)
    BY <1>2
  <2> QED BY <2>1 DEF EndsBehind
<1> HIDE DEF behind
<1>4. end = [g \in 0..Len(low) |-> IF g = 0 THEN 0 ELSE behind[end[g - 1]][g]]
  <2>1. PICK f : IsGroupEnds(f, behind, Len(low))
    BY <1>2, GroupEndsExist
  <2>2. f = [g \in 0..Len(low) |-> IF g = 0 THEN 0 ELSE behind[f[g - 1]][g]]
    BY <2>1 DEF IsGroupEnds
  <2> QED BY <2>2
<1> HIDE DEF end
<1>5. end = [g \in 0..Len(low) |-> end[g]] /\ end[0] = 0
  BY <1>2, <1>4
<1>6. ASSUME NEW g \in 1..Len(low), end[g - 1] \in 0..(Len(high) - 1)
      PROVE  end[g] = GroupEnd(high, end[g - 1] + 1, low[g])
  <2>1. g \in 0..Len(low) /\ g # 0
    BY <1>2
  <2>2. end[g] = behind[end[g - 1]][g]
    BY <1>4, <2>1
  <2> QED BY <1>3, <1>6, <2>2
<1> QED BY <1>1, <1>5, <1>6

(* The search for group ends finds a cut, no later than any other, and     *)
(* never meets an extent that is too large for its group.                  *)
LEMMA GreedyCut ==
    ASSUME NEW low \in Seq(Positive), NEW high \in Seq(Positive), Refines(low, high),
           NumElements(high) < IntModulus \div 2
    PROVE  /\ IsCut(GroupEnds(low, high), low, Len(low), high, Len(high))
           /\ \A g \in 1..Len(low) : high[GroupEnds(low, high)[g - 1] + 1] <= low[g]
<1> DEFINE n == Len(low)
           end == GroupEnds(low, high)
<1>1. PICK c : IsCut(c, low, n, high, Len(high))
  BY DEF Refines, Covers
<1>2. n \in Nat /\ Len(high) \in Nat
  OBVIOUS
<1>3. /\ \A g \in 0..n : c[g] \in 0..Len(high)
      /\ c[0] = 0 /\ \A g \in 1..n : c[g - 1] < c[g]
      /\ \A g \in 0..n : Leading(high, c[g]) = Leading(low, g)
  BY <1>1 DEF IsCut
<1>4. ASSUME NEW g \in 1..n, end[g - 1] \in 0..c[g - 1],
             Leading(high, end[g - 1]) = Leading(low, g - 1)
      PROVE  /\ end[g] \in (end[g - 1] + 1)..c[g]
             /\ Leading(high, end[g]) = Leading(low, g)
             /\ high[end[g - 1] + 1] <= low[g]
  <2>1. g \in 0..n /\ g - 1 \in 0..n
    BY <1>2
  <2>2. c[g - 1] < c[g] /\ c[g - 1] \in Nat /\ c[g] \in 0..Len(high)
    BY <1>3, <2>1
  <2>3. end[g - 1] \in Nat /\ end[g - 1] \in 0..(Len(high) - 1)
        /\ c[g] \in (end[g - 1] + 1)..Len(high)
    BY <1>2, <1>4, <2>2
  <2>4. end[g] = GroupEnd(high, end[g - 1] + 1, low[g])
    BY <2>3, GroupEndsStep
  <2>5. Leading(low, g) = Leading(low, g - 1) * low[g] /\ low[g] \in Positive
    BY LeadingStep
  <2>6. Leading(high, c[g]) = Leading(high, end[g - 1]) * low[g]
    BY <1>3, <1>4, <2>1, <2>5
  <2> HIDE DEF end
  <2>7. /\ GroupEnd(high, end[g - 1] + 1, low[g]) \in (end[g - 1] + 1)..c[g]
        /\ Leading(high, GroupEnd(high, end[g - 1] + 1, low[g])) = Leading(high, end[g - 1]) * low[g]
        /\ high[end[g - 1] + 1] <= low[g]
    BY <2>3, <2>5, <2>6, GroupEndExact
  <2> QED BY <1>4, <2>4, <2>5, <2>7
<1> DEFINE T == {g \in 0..n : end[g] \in 0..c[g] /\ Leading(high, end[g]) = Leading(low, g)}
<1>5. 0 \in T
  <2>1. end[0] = 0
    BY GroupEndsStep
  <2> QED BY <1>2, <1>3, <2>1, LeadingZero
<1>6. \A g \in 1..n : g - 1 \in T => g \in T
  <2> SUFFICES ASSUME NEW g \in 1..n, end[g - 1] \in 0..c[g - 1],
                      Leading(high, end[g - 1]) = Leading(low, g - 1)
               PROVE  g \in 0..n /\ end[g] \in 0..c[g] /\ Leading(high, end[g]) = Leading(low, g)
    OBVIOUS
  <2> HIDE DEF end
  <2>1. end[g] \in (end[g - 1] + 1)..c[g] /\ Leading(high, end[g]) = Leading(low, g)
    BY <1>4
  <2>2. g \in 0..n /\ g - 1 \in 0..n
    BY <1>2
  <2>3. c[g] \in Nat /\ c[g - 1] \in Nat
    BY <1>3, <2>2
  <2> QED BY <2>1, <2>2, <2>3
<1> HIDE DEF T
<1>7. 0..n \subseteq T
  BY <1>2, <1>5, <1>6, UpTo
<1>8. \A g \in 0..n : end[g] \in 0..c[g] /\ Leading(high, end[g]) = Leading(low, g)
  BY <1>7 DEF T
<1>9. ASSUME NEW g \in 1..n PROVE end[g - 1] < end[g] /\ high[end[g - 1] + 1] <= low[g]
  <2>1. g - 1 \in 0..n /\ g \in 0..n
    BY <1>2
  <2> HIDE DEF end
  <2>2. end[g - 1] \in 0..c[g - 1] /\ Leading(high, end[g - 1]) = Leading(low, g - 1)
    BY <1>8, <2>1
  <2>3. end[g] \in (end[g - 1] + 1)..c[g] /\ high[end[g - 1] + 1] <= low[g]
    BY <1>4, <2>2
  <2>4. c[g] \in Nat /\ c[g - 1] \in Nat
    BY <1>3, <2>1
  <2> QED BY <2>2, <2>3, <2>4
<1>10. end \in [0..n -> 0..Len(high)]
  <2>1. end = [g \in 0..n |-> end[g]]
    BY GroupEndsStep
  <2> HIDE DEF end
  <2>2. \A g \in 0..n : end[g] \in 0..Len(high)
    <3> SUFFICES ASSUME NEW g \in 0..n PROVE end[g] \in 0..Len(high)
      OBVIOUS
    <3>1. c[g] \in 0..Len(high) /\ end[g] \in 0..c[g]
      BY <1>3, <1>8
    <3> QED BY <1>2, <3>1
  <2> QED BY <2>1, <2>2
<1>11. end[0] = 0
  BY GroupEndsStep
<1> HIDE DEF end, n
<1>12. IsCut(end, low, n, high, Len(high))
  BY <1>8, <1>9, <1>10, <1>11 DEF IsCut
<1> QED BY <1>9, <1>12 DEF end, n

-----------------------------------------------------------------------------
(* A refinement is a reassociation that the tensor dialect accepts.        *)

(* The numbers from 1 to n.                                                *)
UpToSeq(n) == [k \in 1..n |-> k]

(* The positions of a group.                                               *)
Between(a, b) == [k \in 1..(b - a) |-> a + k]

LEMMA JoinGroups ==
    ASSUME NEW a \in Nat, NEW b \in Nat, a <= b
    PROVE  UpToSeq(a) \o Between(a, b) = UpToSeq(b)
<1> DEFINE s == UpToSeq(a)
           t == Between(a, b)
           u == UpToSeq(b)
<1>1. /\ s \in Seq(Nat) /\ Len(s) = a /\ t \in Seq(Nat) /\ Len(t) = b - a
      /\ u \in Seq(Nat) /\ Len(u) = b
  BY DEF UpToSeq, Between
<1>2. /\ \A k \in 1..a : s[k] = k
      /\ \A k \in 1..(b - a) : t[k] = a + k
      /\ \A k \in 1..b : u[k] = k
  BY DEF UpToSeq, Between
<1> HIDE DEF s, t, u
<1>3. /\ (s \o t) \in Seq(Nat) /\ Len(s \o t) = Len(s) + Len(t)
      /\ \A k \in 1..(Len(s) + Len(t)) :
            (s \o t)[k] = IF k <= Len(s) THEN s[k] ELSE t[k - Len(s)]
  BY <1>1, ConcatProperties
<1>4. Len(s \o t) = b /\ Len(s) + Len(t) = b
  BY <1>1, <1>3
<1>5. ASSUME NEW k \in 1..b PROVE (s \o t)[k] = u[k]
  <2>1. (s \o t)[k] = IF k <= a THEN s[k] ELSE t[k - a]
    BY <1>1, <1>3, <1>4
  <2>2. CASE k <= a
    <3>1. k \in 1..a
      BY <2>2
    <3> QED BY <1>2, <2>1, <2>2, <3>1
  <2>3. CASE ~ (k <= a)
    <3>1. k - a \in 1..(b - a) /\ a + (k - a) = k
      BY <2>3
    <3> QED BY <1>2, <2>1, <2>3, <3>1
  <2> QED BY <2>2, <2>3
<1>6. s \o t = u
  <2>1. Len(u) = b /\ u \in Seq(Nat)
    BY <1>1
  <2> QED BY <1>3, <1>4, <1>5, <2>1, SeqEqual
<1> QED BY <1>6 DEF s, t, u

(* The groups of a cut, one after the other, are all positions.            *)
LEMMA FlatGroups ==
    ASSUME NEW n \in Nat \ {0}, NEW e, NEW G, NEW b \in Nat,
           e \in [0..n -> 0..b], e[0] = 0, e[n] = b,
           \A g \in 1..n : e[g - 1] < e[g],
           G = [g \in 1..n |-> Between(e[g - 1], e[g])]
    PROVE  FlattenSeq(G) = UpToSeq(b)
<1> DEFINE h == [g \in 1..n |-> UpToSeq(e[g])]
           AreGroups(f) == f = [g \in 1..n |-> IF g = 1 THEN G[g] ELSE f[g - 1] \o G[g]]
           f0 == CHOOSE f : AreGroups(f)
<1>1. /\ \A g \in 0..n : e[g] \in Nat
      /\ \A g \in 1..n : G[g] = Between(e[g - 1], e[g])
      /\ Len(G) = n /\ 1 \in 1..n /\ n \in 1..n
  OBVIOUS
<1>2. ASSUME NEW g \in 1..n, g # 1 PROVE UpToSeq(e[g - 1]) \o G[g] = UpToSeq(e[g])
  <2>1. g \in 0..n /\ g - 1 \in 0..n
    BY <1>2
  <2>2. e[g - 1] \in Nat /\ e[g] \in Nat /\ e[g - 1] <= e[g]
    BY <1>1, <2>1
  <2> QED BY <1>1, <2>2, JoinGroups
<1>3. G[1] = UpToSeq(e[1])
  <2>1. 1 - 1 = 0 /\ G[1] = Between(e[1 - 1], e[1]) /\ e[1] \in Nat
    BY <1>1
  <2>2. G[1] = Between(0, e[1])
    BY <1>1, <2>1
  <2>3. Between(0, e[1]) = UpToSeq(e[1])
    <3>1. e[1] - 0 = e[1] /\ \A k \in 1..e[1] : 0 + k = k
      BY <2>1
    <3> QED BY <3>1 DEF Between, UpToSeq
  <2> QED BY <2>2, <2>3
<1>4. AreGroups(h)
  <2>1. ASSUME NEW g \in 1..n
        PROVE  h[g] = IF g = 1 THEN G[g] ELSE h[g - 1] \o G[g]
    <3>1. CASE g = 1
      BY <1>1, <1>3, <3>1
    <3>2. CASE g # 1
      <4>1. g - 1 \in 1..n
        BY <3>2
      <4>2. h[g] = UpToSeq(e[g]) /\ h[g - 1] = UpToSeq(e[g - 1])
        BY <4>1
      <4> HIDE DEF h
      <4> QED BY <1>2, <3>2, <4>2
    <3> QED BY <3>1, <3>2
  <2>2. h = [g \in 1..n |-> h[g]]
    OBVIOUS
  <2> HIDE DEF h
  <2>3. h = [g \in 1..n |-> IF g = 1 THEN G[g] ELSE h[g - 1] \o G[g]]
    BY <2>1, <2>2
  <2> QED BY <2>3
<1> HIDE DEF h
<1>5. FlattenSeq(G) = f0[n]
  BY <1>1 DEF FlattenSeq
<1>6. f0 = [g \in 1..n |-> IF g = 1 THEN G[g] ELSE f0[g - 1] \o G[g]]
  <2>1. AreGroups(f0)
    <3> HIDE DEF AreGroups
    <3> QED BY <1>4
  <2> QED BY <2>1
<1> HIDE DEF f0
<1> DEFINE T == {g \in 0..n : g # 0 => f0[g] = UpToSeq(e[g])}
<1>7. 0 \in T
  OBVIOUS
<1>8. \A g \in 1..n : g - 1 \in T => g \in T
  <2> SUFFICES ASSUME NEW g \in 1..n, g - 1 # 0 => f0[g - 1] = UpToSeq(e[g - 1])
               PROVE  g \in 0..n /\ f0[g] = UpToSeq(e[g])
    OBVIOUS
  <2>1. f0[g] = IF g = 1 THEN G[g] ELSE f0[g - 1] \o G[g]
    BY <1>6
  <2>2. CASE g = 1
    BY <1>3, <2>1, <2>2
  <2>3. CASE g # 1
    <3>1. g - 1 # 0 /\ g \in 0..n
      BY <2>3
    <3> QED BY <1>2, <2>1, <2>3, <3>1
  <2> QED BY <2>2, <2>3
<1> HIDE DEF T
<1>9. n \in Nat /\ 0..n \subseteq T
  BY <1>7, <1>8, UpTo
<1>10. n \in T /\ n # 0
  BY <1>9
<1>11. f0[n] = UpToSeq(e[n])
  BY <1>10 DEF T
<1> QED BY <1>5, <1>11

(* A cut whose last group takes what is left of the shape.                 *)
EndsOf(e, n) == [g \in 1..n |-> e[g]]

LEMMA GroupsOfCut ==
    ASSUME NEW n \in Nat, NEW e, NEW b \in Nat, e \in [0..n -> 0..b], e[0] = 0
    PROVE  Groups(EndsOf(e, n)) = [g \in 1..n |-> Between(e[g - 1], e[g])]
<1> DEFINE ends == EndsOf(e, n)
           first(g) == IF g = 1 THEN 1 ELSE ends[g - 1] + 1
<1>1. ASSUME NEW g \in 1..n
      PROVE  first(g) = e[g - 1] + 1 /\ ends[g] = e[g] /\ e[g] \in Nat /\ e[g - 1] \in Nat
  <2>1. g - 1 \in 0..n /\ g \in 0..n
    OBVIOUS
  <2>2. ends[g] = e[g] /\ e[g] \in Nat /\ e[g - 1] \in Nat
    BY <2>1 DEF EndsOf
  <2>3. CASE g = 1
    BY <2>2, <2>3
  <2>4. CASE g # 1
    <3>1. g - 1 \in 1..n
      BY <2>4
    <3> QED BY <2>2, <2>4, <3>1 DEF EndsOf
  <2> QED BY <2>2, <2>3, <2>4
<1>2. DOMAIN ends = 1..n
  BY DEF EndsOf
<1>3. Groups(ends) = [g \in 1..n |-> [k \in 1..(ends[g] - first(g) + 1) |-> first(g) + k - 1]]
  BY <1>2 DEF Groups
<1>4. ASSUME NEW g \in 1..n
      PROVE  [k \in 1..(ends[g] - first(g) + 1) |-> first(g) + k - 1] = Between(e[g - 1], e[g])
  <2>1. first(g) = e[g - 1] + 1 /\ ends[g] = e[g] /\ e[g] \in Nat /\ e[g - 1] \in Nat
    BY <1>1
  <2> HIDE DEF first, ends
  <2>2. ends[g] - first(g) + 1 = e[g] - e[g - 1]
    BY <2>1
  <2>3. \A k \in 1..(e[g] - e[g - 1]) : first(g) + k - 1 = e[g - 1] + k
    BY <2>1
  <2> QED BY <2>2, <2>3 DEF Between
<1> HIDE DEF first
<1>5. Groups(ends) = [g \in 1..n |-> Between(e[g - 1], e[g])]
  BY <1>3, <1>4
<1> QED BY <1>5

LEMMA CutIsValid ==
    ASSUME NEW low \in Seq(Positive), NEW high \in Seq(Positive),
           Len(low) < Len(high), Len(low) # 0,
           NEW e, IsCut(e, low, Len(low), high, Len(high)), e[Len(low)] = Len(high)
    PROVE  ValidReassociation(low, high, Groups(EndsOf(e, Len(low))))
<1> DEFINE n == Len(low)
           G == Groups(EndsOf(e, n))
<1>1. /\ n \in Nat \ {0} /\ Len(high) \in Nat /\ e \in [0..n -> 0..Len(high)] /\ e[0] = 0
      /\ \A g \in 1..n : e[g - 1] < e[g]
      /\ \A g \in 0..n : Leading(high, e[g]) = Leading(low, g)
  BY DEF IsCut
<1>2. G = [g \in 1..n |-> Between(e[g - 1], e[g])]
  BY <1>1, GroupsOfCut
<1> HIDE DEF G
<1>3. Len(G) = Len(low) /\ DOMAIN G = 1..n
  BY <1>1, <1>2
<1>4. ASSUME NEW g \in 1..n
      PROVE  /\ e[g - 1] \in 0..e[g] /\ e[g] \in 0..Len(high) /\ e[g - 1] < e[g]
             /\ g - 1 \in 0..n /\ g \in 0..n
  BY <1>1
<1>5. ASSUME NEW g \in 1..n PROVE G[g] # << >>
  <2>1. e[g] - e[g - 1] \in Nat \ {0}
    BY <1>4
  <2>2. 1 \in DOMAIN Between(e[g - 1], e[g])
    BY <2>1 DEF Between
  <2> QED BY <1>2, <2>2
<1>6. ASSUME NEW g \in 1..n
      PROVE  NumElements([k \in DOMAIN G[g] |-> high[G[g][k]]]) = low[g]
  <2> DEFINE a == e[g - 1]
             b == e[g]
  <2>1. a \in 0..b /\ b \in 0..Len(high) /\ a \in Nat /\ b \in Nat
    BY <1>4
  <2>2. G[g] = Between(a, b)
    BY <1>2
  <2> HIDE DEF a, b
  <2>3. [k \in DOMAIN G[g] |-> high[G[g][k]]] = SubSeq(high, a + 1, b)
    <3>1. [k \in DOMAIN G[g] |-> high[G[g][k]]] = [k \in 1..(b - a) |-> high[a + k]]
      BY <2>2 DEF Between
    <3>2. SubSeq(high, a + 1, b) = [k \in 1..(b - a) |-> high[a + k]]
      BY <2>1
    <3> QED BY <3>1, <3>2
  <2>4. /\ Leading(high, b) = Leading(high, a) * NumElements(SubSeq(high, a + 1, b))
        /\ NumElements(SubSeq(high, a + 1, b)) \in Nat
    BY <2>1, LeadingRange DEF Positive
  <2>5. Leading(high, b) = Leading(low, g) /\ Leading(high, a) = Leading(low, g - 1)
    BY <1>1, <1>4 DEF a, b
  <2>6. Leading(low, g) = Leading(low, g - 1) * low[g] /\ low[g] \in Nat
    BY LeadingStep DEF Positive
  <2>7. Leading(low, g - 1) \in Positive
    BY <1>4, LeadingType
  <2>8. Leading(low, g - 1) * NumElements(SubSeq(high, a + 1, b)) = Leading(low, g - 1) * low[g]
    BY <2>4, <2>5, <2>6
  <2>9. NumElements(SubSeq(high, a + 1, b)) = low[g]
    BY <2>4, <2>6, <2>7, <2>8, Cancel
  <2> QED BY <2>3, <2>9
<1>7. FlattenSeq(G) = UpToSeq(Len(high))
  BY <1>1, <1>2, FlatGroups
<1>8. UpToSeq(Len(high)) = [k \in DOMAIN high |-> k]
  BY DEF UpToSeq
<1>9. low # << >>
  OBVIOUS
<1>10. ValidReassociation(low, high, G)
  BY <1>3, <1>5, <1>6, <1>7, <1>8, <1>9 DEF ValidReassociation
<1> QED BY <1>10 DEF G

(* The end of the last group moved to the end of the shape.                *)
Filled(c, n, b) == [g \in 0..n |-> IF g = n THEN b ELSE c[g]]

LEMMA FilledCut ==
    ASSUME NEW low \in Seq(Positive), NEW high \in Seq(Positive),
           NumElements(low) = NumElements(high), Len(low) # 0,
           NEW c, IsCut(c, low, Len(low), high, Len(high))
    PROVE  /\ IsCut(Filled(c, Len(low), Len(high)), low, Len(low), high, Len(high))
           /\ Filled(c, Len(low), Len(high))[Len(low)] = Len(high)
<1> DEFINE n == Len(low)
           b == Len(high)
           e == Filled(c, n, b)
<1>1. /\ n \in Nat \ {0} /\ b \in Nat
      /\ \A g \in 0..n : c[g] \in 0..b
      /\ c[0] = 0 /\ \A g \in 1..n : c[g - 1] < c[g]
      /\ \A g \in 0..n : Leading(high, c[g]) = Leading(low, g)
  <2>1. n \in Nat \ {0} /\ b \in Nat
    OBVIOUS
  <2> HIDE DEF n, b
  <2>2. IsCut(c, low, n, high, b)
    BY DEF n, b
  <2> QED BY <2>1, <2>2 DEF IsCut
<1>2. Leading(high, b) = Leading(low, n)
  BY LeadingAll
<1> HIDE DEF n, b
<1>3. \A g \in 0..n : e[g] = IF g = n THEN b ELSE c[g]
  BY DEF Filled
<1>4. e \in [0..n -> 0..b]
  <2>1. \A g \in 0..n : (IF g = n THEN b ELSE c[g]) \in 0..b
    BY <1>1
  <2> QED BY <2>1 DEF Filled
<1>5. e[0] = 0 /\ e[n] = b
  BY <1>1, <1>3
<1> HIDE DEF e
<1>6. ASSUME NEW g \in 1..n PROVE e[g - 1] < e[g]
  <2>1. g \in 0..n /\ g - 1 \in 0..n /\ g - 1 # n
    BY <1>1
  <2>2. e[g - 1] = c[g - 1] /\ c[g - 1] < c[g] /\ c[g - 1] \in Nat /\ c[g] \in 0..b
    BY <1>1, <1>3, <2>1
  <2>3. e[g] = b \/ e[g] = c[g]
    BY <1>3, <2>1
  <2> QED BY <1>1, <2>2, <2>3
<1>7. \A g \in 0..n : Leading(high, e[g]) = Leading(low, g)
  BY <1>1, <1>2, <1>3
<1>8. IsCut(e, low, n, high, b)
  BY <1>4, <1>5, <1>6, <1>7 DEF IsCut
<1> QED BY <1>5, <1>8 DEF e, n, b

(* A refinement with more extents is one reassociation away.               *)
LEMMA RefinesIsDirect ==
    ASSUME NEW low \in Seq(Positive), NEW high \in Seq(Positive), Refines(low, high),
           Len(low) < Len(high)
    PROVE  \E ends \in [1..Len(low) -> 1..Len(high)] :
              ValidReassociation(low, high, Groups(ends))
<1>1. CASE Len(low) # 0
  <2>1. PICK c : IsCut(c, low, Len(low), high, Len(high))
    BY DEF Refines, Covers
  <2> DEFINE e == Filled(c, Len(low), Len(high))
  <2>2. IsCut(e, low, Len(low), high, Len(high)) /\ e[Len(low)] = Len(high)
    BY <1>1, <2>1, FilledCut DEF Refines
  <2> HIDE DEF e
  <2>3. ValidReassociation(low, high, Groups(EndsOf(e, Len(low))))
    BY <1>1, <2>2, CutIsValid
  <2>4. EndsOf(e, Len(low)) \in [1..Len(low) -> 1..Len(high)]
    <3>1. ASSUME NEW g \in 1..Len(low) PROVE e[g] \in 1..Len(high)
      <4>1. g \in 0..Len(low) /\ g - 1 \in 0..Len(low)
        OBVIOUS
      <4>2. e[g - 1] < e[g] /\ e \in [0..Len(low) -> 0..Len(high)]
        BY <2>2 DEF IsCut
      <4>3. e[g - 1] \in 0..Len(high) /\ e[g] \in 0..Len(high)
        BY <4>1, <4>2
      <4> QED BY <4>2, <4>3
    <3> QED BY <3>1 DEF EndsOf
  <2> QED BY <2>3, <2>4
<1>2. CASE Len(low) = 0
  <2> DEFINE ends == [g \in 1..0 |-> 1]
  <2>1. low = << >> /\ 1..Len(low) = {} /\ 1..0 = {}
    BY <1>2
  <2>2. ends \in [1..Len(low) -> 1..Len(high)]
    BY <2>1
  <2>3. Groups(ends) = << >>
    <3>1. DOMAIN ends = 1..0
      OBVIOUS
    <3> QED BY <2>1, <3>1 DEF Groups
  <2>4. ASSUME NEW k \in DOMAIN high PROVE high[k] = 1
    <3>1. NumElements(high) = 1
      BY <2>1, NumElementsEmpty DEF Refines
    <3>2. k \in 1..Len(high) /\ k - 1 \in 0..Len(high) /\ k \in 0..Len(high)
      OBVIOUS
    <3>3. Leading(high, k) = 1 /\ Leading(high, k - 1) = 1
      BY <3>1, <3>2, LeadingOfOne
    <3>4. Leading(high, k) = Leading(high, k - 1) * high[k] /\ high[k] \in Nat
      BY <3>2, LeadingStep DEF Positive
    <3> QED BY <3>3, <3>4
  <2>5. ValidReassociation(low, high, << >>)
    BY <2>1, <2>4 DEF ValidReassociation
  <2> QED BY <2>2, <2>3, <2>5
<1> QED BY <1>1, <1>2

(* Behind what makes up the count there are only extents 1.                *)
LEMMA UnitsBehind ==
    ASSUME NEW s \in Seq(Positive), NEW k \in 0..Len(s), Leading(s, k) = NumElements(s)
    PROVE  SkipUnits(s, k + 1) = Len(s) + 1
<1> DEFINE m == SkipUnits(s, k + 1)
<1>1. k + 1 \in 1..(Len(s) + 1) /\ Len(s) \in 0..Len(s)
  OBVIOUS
<1>2. m \in (k + 1)..(Len(s) + 1) /\ (m \in 1..Len(s) => s[m] # 1)
  BY <1>1, SkipUnitsFacts
<1> HIDE DEF m
<1>3. ASSUME m # Len(s) + 1 PROVE FALSE
  <2>1. m \in 1..Len(s) /\ m - 1 \in 0..Len(s) /\ m \in 0..Len(s) /\ k \in 0..(m - 1)
    BY <1>2, <1>3
  <2>2. Leading(s, m) = Leading(s, m - 1) * s[m] /\ s[m] \in Positive
    BY <2>1, LeadingStep
  <2>3. Leading(s, k) <= Leading(s, m - 1) /\ Leading(s, m) <= Leading(s, Len(s))
    BY <1>1, <2>1, LeadingGrows
  <2>4. Leading(s, Len(s)) = Leading(s, k)
    BY LeadingAll
  <2>5. Leading(s, m) \in Positive /\ Leading(s, m - 1) \in Positive /\ Leading(s, k) \in Positive
    BY <2>1, LeadingType
  <2>6. Leading(s, m - 1) * s[m] <= Leading(s, m - 1) * 1
    BY <2>2, <2>3, <2>4, <2>5 DEF Positive
  <2>7. s[m] <= 1
    BY <2>2, <2>5, <2>6, CancelLeq DEF Positive
  <2> QED BY <1>2, <2>1, <2>2, <2>7 DEF Positive
<1> QED BY <1>3 DEF m

(* computeReassociation does its work on a refinement: no fault, and the   *)
(* tensor dialect accepts what it returns.                                 *)
THEOREM ReassociationIsValid ==
    ASSUME NEW low \in Seq(Positive), NEW high \in Seq(Positive), Refines(low, high),
           Len(low) < Len(high), Len(low) # 0,
           NumElements(high) < IntModulus \div 2
    PROVE  /\ ~ ComputeReassociation(low, high).fault
           /\ ValidReassociation(low, high, ComputeReassociation(low, high).groups)
<1> DEFINE end  == GroupEnds(low, high)
           m    == Len(low)
           n    == Cardinality({g \in 1..Len(low) : end[g] > end[g - 1]})
           last == SkipUnits(high, end[n] + 1) - 1
<1>1. m \in Nat \ {0} /\ Len(high) \in Nat
  OBVIOUS
<1>2. IsCut(end, low, m, high, Len(high)) /\ \A g \in 1..m : high[end[g - 1] + 1] <= low[g]
  BY GreedyCut
<1> HIDE DEF end
<1>3. /\ \A g \in 0..m : end[g] \in 0..Len(high)
      /\ \A g \in 1..m : end[g - 1] < end[g]
      /\ Leading(high, end[m]) = Leading(low, m)
  <2>1. m \in 0..m
    BY <1>1
  <2> HIDE DEF m
  <2> QED BY <1>2, <2>1 DEF IsCut
<1>4. n = m
  <2>1. ASSUME NEW g \in 1..m PROVE end[g] > end[g - 1]
    <3>1. g \in 0..m /\ g - 1 \in 0..m
      BY <1>1
    <3>2. end[g] \in Nat /\ end[g - 1] \in Nat
      BY <1>3, <3>1
    <3> QED BY <1>3, <3>2
  <2>2. {g \in 1..Len(low) : end[g] > end[g - 1]} = 1..m
    BY <2>1
  <2>3. Cardinality(1..m) = m
    <3>1. 1 \in Int /\ m \in Int /\ ~ (1 > m) /\ m - 1 + 1 = m
      BY <1>1
    <3> QED BY <3>1, FS_Interval
  <2> QED BY <2>2, <2>3
<1>5. last = Len(high)
  <2>1. end[m] \in 0..Len(high)
    BY <1>1, <1>3
  <2>2. Leading(high, end[m]) = NumElements(high)
    BY <1>3, LeadingAll DEF Refines
  <2>3. SkipUnits(high, end[m] + 1) = Len(high) + 1
    BY <2>1, <2>2, UnitsBehind
  <2> QED BY <1>1, <1>4, <2>3
<1>6. ~ ComputeReassociation(low, high).fault
  <2>1. ComputeReassociation(low, high).fault
          = (\/ \E g \in 1..n : low[g] < high[end[g - 1] + 1]
             \/ n = 0 /\ last > 0)
    BY DEF ComputeReassociation, end
  <2>2. ASSUME NEW g \in 1..m PROVE ~ (low[g] < high[end[g - 1] + 1])
    <3>1. g \in 0..m /\ g - 1 \in 0..m
      BY <1>1
    <3>2. end[g - 1] + 1 \in 1..Len(high)
      <4>1. end[g - 1] < end[g] /\ end[g - 1] \in 0..Len(high) /\ end[g] \in 0..Len(high)
        BY <1>3, <3>1
      <4> QED BY <4>1
    <3>3. low[g] \in Positive /\ high[end[g - 1] + 1] \in Positive
      BY <3>2
    <3>4. low[g] \in Nat /\ high[end[g - 1] + 1] \in Nat
      BY <3>3 DEF Positive
    <3> QED BY <1>2, <3>4
  <2> HIDE DEF n, last
  <2> QED BY <1>1, <1>4, <2>1, <2>2
<1>7. ComputeReassociation(low, high).groups = Groups(EndsOf(Filled(end, m, Len(high)), m))
  <2>1. ComputeReassociation(low, high).groups
          = Groups([g \in 1..n |-> IF g = n THEN last ELSE end[g]])
    BY DEF ComputeReassociation, end
  <2> HIDE DEF n, last
  <2>2. [g \in 1..n |-> IF g = n THEN last ELSE end[g]] = EndsOf(Filled(end, m, Len(high)), m)
    <3>1. \A g \in 1..m : g \in 0..m
      BY <1>1
    <3> QED BY <1>4, <1>5, <3>1 DEF EndsOf, Filled
  <2> QED BY <2>1, <2>2
<1>8. /\ IsCut(Filled(end, m, Len(high)), low, m, high, Len(high))
      /\ Filled(end, m, Len(high))[m] = Len(high)
  BY <1>2, FilledCut DEF Refines
<1>9. ValidReassociation(low, high, Groups(EndsOf(Filled(end, m, Len(high)), m)))
  BY <1>8, CutIsValid
<1> QED BY <1>6, <1>7, <1>9

-----------------------------------------------------------------------------
(* The inductive invariant.  A search starts from a clean slate: that the  *)
(* second one does is what the first one leaves alone.                     *)

FreshAtMatch ==
    pc = "match" => i = 1 /\ j = 1 /\ iTemp = in /\ jTemp = out /\ shape = << >>

FreshProducts == pc \in {"match", "expand"} => iMux = 1 /\ jMux = 1

IInv ==
    /\ TypeOK
    /\ FreshAtMatch
    /\ FreshProducts
    /\ SearchesAreBalanced
    /\ SameCountIsLowered

(* SearchesAreBalanced in terms of Rest.                                   *)
LEMMA BalanceAsRest ==
    ASSUME TypeOK
    PROVE  SearchesAreBalanced <=>
             /\ pc = "expand" =>
                   /\ NumElements(shape) * Rest(iTemp, i) = NumElements(in)
                   /\ NumElements(shape) * Rest(jTemp, j) = NumElements(out)
             /\ pc = "collapse" =>
                   /\ NumElements(shape) * (iMux * Rest(in, i)) = NumElements(in)
                   /\ NumElements(shape) * (jMux * Rest(out, j)) = NumElements(out)
BY DEF TypeOK, SearchesAreBalanced, Rest, LastI, LastJ

(* A state that is in neither search owes nothing to the balance.          *)
LEMMA OutOfSearch ==
    ASSUME TypeOK, pc \notin {"match", "expand", "collapse", "match_failure"}
    PROVE  IInv
BY DEF IInv, FreshAtMatch, FreshProducts, SearchesAreBalanced, SameCountIsLowered

LEMMA InitInv == Init => IInv
<1> SUFFICES ASSUME Init PROVE IInv
  OBVIOUS
<1>1. in \in Seq(Nat \ {0}) /\ out \in Seq(Nat \ {0})
  BY ReshapesAssumption DEF Init
<1>2. TypeOK
  BY <1>1 DEF Init, TypeOK
<1> QED BY <1>2 DEF Init, IInv, FreshAtMatch, FreshProducts, SearchesAreBalanced,
        SameCountIsLowered

(* The start of the expand search.                                         *)
LEMMA NotDirectInv == IInv /\ NotDirect => IInv'
<1> SUFFICES ASSUME IInv, NotDirect PROVE IInv'
  OBVIOUS
<1>1. TypeOK'
  BY DEF IInv, NotDirect, search, TypeOK
<1>2. FreshAtMatch' /\ FreshProducts' /\ SameCountIsLowered'
  BY DEF IInv, NotDirect, search, FreshAtMatch, FreshProducts, SameCountIsLowered
<1>3. /\ shape' = << >> /\ i' = 1 /\ j' = 1 /\ iTemp' = in /\ jTemp' = out
      /\ in' = in /\ out' = out /\ pc' = "expand"
  BY DEF IInv, NotDirect, search, FreshAtMatch
<1>4. in \in Seq(Positive) /\ out \in Seq(Positive)
  BY DEF IInv, TypeOK, Positive
<1>5. /\ Rest(in, 1) = NumElements(in) /\ NumElements(in) \in Nat
      /\ Rest(out, 1) = NumElements(out) /\ NumElements(out) \in Nat
  BY <1>4, RestOfAll, NumElementsPositive DEF Positive
<1>6. /\ NumElements(shape') * Rest(iTemp', i') = NumElements(in')
      /\ NumElements(shape') * Rest(jTemp', j') = NumElements(out')
  BY <1>3, <1>5, NumElementsEmpty
<1>7. SearchesAreBalanced'
  BY <1>1, <1>3, <1>6 DEF SearchesAreBalanced, Rest, TypeOK
<1> QED BY <1>1, <1>2, <1>7 DEF IInv

(* The start of the collapse search.                                       *)
LEMMA StartCollapseInv == IInv /\ pc = "expand" /\ StartCollapse => IInv'
<1> SUFFICES ASSUME IInv, pc = "expand", StartCollapse PROVE IInv'
  OBVIOUS
<1>1. TypeOK'
  BY DEF IInv, StartCollapse, TypeOK
<1>2. FreshAtMatch' /\ FreshProducts' /\ SameCountIsLowered'
  BY DEF StartCollapse, FreshAtMatch, FreshProducts, SameCountIsLowered
<1>3. /\ shape' = << >> /\ i' = 1 /\ j' = 1 /\ iMux' = 1 /\ jMux' = 1
      /\ in' = in /\ out' = out /\ pc' = "collapse"
  BY DEF IInv, StartCollapse, FreshProducts
<1>4. in \in Seq(Positive) /\ out \in Seq(Positive)
  BY DEF IInv, TypeOK, Positive
<1>5. /\ Rest(in, 1) = NumElements(in) /\ NumElements(in) \in Nat
      /\ Rest(out, 1) = NumElements(out) /\ NumElements(out) \in Nat
  BY <1>4, RestOfAll, NumElementsPositive DEF Positive
<1>6. /\ NumElements(shape') * (iMux' * Rest(in', i')) = NumElements(in')
      /\ NumElements(shape') * (jMux' * Rest(out', j')) = NumElements(out')
  BY <1>3, <1>5, NumElementsEmpty
<1>7. SearchesAreBalanced'
  BY <1>3, <1>6 DEF SearchesAreBalanced, Rest, LastI, LastJ
<1> QED BY <1>1, <1>2, <1>7 DEF IInv

(* A step within the expand search keeps the invariant when it keeps the   *)
(* types and the balance.                                                  *)
LEMMA ExpandStepInv ==
    ASSUME IInv, InExpandLoop, TypeOK', UNCHANGED << in, out, pc, iMux, jMux >>,
           NumElements(shape') * Rest(iTemp', i') = NumElements(shape) * Rest(iTemp, i),
           NumElements(shape') * Rest(jTemp', j') = NumElements(shape) * Rest(jTemp, j)
    PROVE  IInv'
<1>1. pc = "expand" /\ FreshAtMatch' /\ FreshProducts' /\ SameCountIsLowered'
  BY DEF IInv, InExpandLoop, FreshAtMatch, FreshProducts, SameCountIsLowered
<1>2. /\ NumElements(shape) * Rest(iTemp, i) = NumElements(in)
      /\ NumElements(shape) * Rest(jTemp, j) = NumElements(out)
  BY <1>1, BalanceAsRest DEF IInv
<1>3. /\ NumElements(shape') * Rest(iTemp', i') = NumElements(in')
      /\ NumElements(shape') * Rest(jTemp', j') = NumElements(out')
  BY <1>2
<1>4. SearchesAreBalanced'
  BY <1>1, <1>3 DEF TypeOK, SearchesAreBalanced, Rest
<1> QED BY <1>1, <1>4 DEF IInv

(* What the steps of the expand search start from.                         *)
LEMMA InExpandFacts ==
    ASSUME IInv, InExpandLoop
    PROVE  /\ iTemp \in Seq(Positive) /\ jTemp \in Seq(Positive) /\ shape \in Seq(Positive)
           /\ i \in 1..Len(iTemp) /\ j \in 1..Len(jTemp)
           /\ iTemp[i] \in Positive /\ jTemp[j] \in Positive
<1>1. /\ iTemp \in Seq(Positive) /\ jTemp \in Seq(Positive) /\ shape \in Seq(Positive)
      /\ i \in 1..Len(iTemp) /\ j \in 1..Len(jTemp)
  BY DEF IInv, TypeOK, InExpandLoop, Positive
<1> QED BY <1>1

(* Both extents are taken.                                                 *)
LEMMA ExpandEqualInv == IInv /\ ExpandEqual => IInv'
<1> SUFFICES ASSUME IInv, ExpandEqual PROVE IInv'
  OBVIOUS
<1>1. InExpandLoop
  BY DEF ExpandEqual
<1>2. /\ iTemp \in Seq(Positive) /\ jTemp \in Seq(Positive) /\ shape \in Seq(Positive)
      /\ i \in 1..Len(iTemp) /\ j \in 1..Len(jTemp)
      /\ iTemp[i] \in Positive /\ jTemp[j] \in Positive
  BY <1>1, InExpandFacts
<1>3. TypeOK'
  BY <1>2 DEF IInv, TypeOK, ExpandEqual, InExpandLoop, Positive
<1>4. NumElements(shape') * Rest(iTemp', i') = NumElements(shape) * Rest(iTemp, i)
  BY <1>2, TakeWhole DEF ExpandEqual
<1>5. NumElements(shape') * Rest(jTemp', j') = NumElements(shape) * Rest(jTemp, j)
  <2>1. shape' = Append(shape, jTemp[j]) /\ jTemp' = jTemp /\ j' = j + 1
    BY DEF ExpandEqual
  <2> QED BY <1>2, <2>1, TakeWhole
<1> QED BY <1>1, <1>3, <1>4, <1>5, ExpandStepInv DEF ExpandEqual

(* The extent of the result is taken, and split off the operand's.         *)
LEMMA ExpandSplitInInv == IInv /\ ExpandSplitIn => IInv'
<1> SUFFICES ASSUME IInv, ExpandSplitIn PROVE IInv'
  OBVIOUS
<1>1. InExpandLoop
  BY DEF ExpandSplitIn
<1>2. /\ iTemp \in Seq(Positive) /\ jTemp \in Seq(Positive) /\ shape \in Seq(Positive)
      /\ i \in 1..Len(iTemp) /\ j \in 1..Len(jTemp)
      /\ iTemp[i] \in Positive /\ jTemp[j] \in Positive
  BY <1>1, InExpandFacts
<1>3. /\ iTemp' \in Seq(Positive) /\ Len(iTemp') = Len(iTemp)
      /\ NumElements(shape') * Rest(iTemp', i') = NumElements(shape) * Rest(iTemp, i)
  <2>1. /\ iTemp' = SplitOff(iTemp, i, jTemp[j]) /\ i' = i
        /\ shape' = Append(shape, jTemp[j])
    BY DEF ExpandSplitIn, SplitOff
  <2>2. iTemp[i] % jTemp[j] = 0
    BY DEF ExpandSplitIn
  <2> QED BY <1>2, <2>1, <2>2, TakePart
<1>4. NumElements(shape') * Rest(jTemp', j') = NumElements(shape) * Rest(jTemp, j)
  BY <1>2, TakeWhole DEF ExpandSplitIn
<1>5. TypeOK'
  BY <1>2, <1>3 DEF IInv, TypeOK, ExpandSplitIn, InExpandLoop, Positive
<1> QED BY <1>1, <1>3, <1>4, <1>5, ExpandStepInv DEF ExpandSplitIn

(* The other way round.                                                    *)
LEMMA ExpandSplitOutInv == IInv /\ ExpandSplitOut => IInv'
<1> SUFFICES ASSUME IInv, ExpandSplitOut PROVE IInv'
  OBVIOUS
<1>1. InExpandLoop
  BY DEF ExpandSplitOut
<1>2. /\ iTemp \in Seq(Positive) /\ jTemp \in Seq(Positive) /\ shape \in Seq(Positive)
      /\ i \in 1..Len(iTemp) /\ j \in 1..Len(jTemp)
      /\ iTemp[i] \in Positive /\ jTemp[j] \in Positive
  BY <1>1, InExpandFacts
<1>3. /\ jTemp' \in Seq(Positive) /\ Len(jTemp') = Len(jTemp)
      /\ NumElements(shape') * Rest(jTemp', j') = NumElements(shape) * Rest(jTemp, j)
  <2>1. /\ jTemp' = SplitOff(jTemp, j, iTemp[i]) /\ j' = j
        /\ shape' = Append(shape, iTemp[i])
    BY DEF ExpandSplitOut, SplitOff
  <2>2. jTemp[j] % iTemp[i] = 0
    BY DEF ExpandSplitOut
  <2> QED BY <1>2, <2>1, <2>2, TakePart
<1>4. NumElements(shape') * Rest(iTemp', i') = NumElements(shape) * Rest(iTemp, i)
  BY <1>2, TakeWhole DEF ExpandSplitOut
<1>5. TypeOK'
  BY <1>2, <1>3 DEF IInv, TypeOK, ExpandSplitOut, InExpandLoop, Positive
<1> QED BY <1>1, <1>3, <1>4, <1>5, ExpandStepInv DEF ExpandSplitOut

(* The intermediate shape is found.                                        *)
LEMMA ExpandFoundInv == IInv /\ ExpandFound => IInv'
<1> SUFFICES ASSUME IInv, ExpandFound PROVE IInv'
  OBVIOUS
<1>1. /\ EndI - i \in Nat /\ EndJ - j \in Nat
      /\ EndI = Len(in) + 1 /\ EndJ = Len(out) + 1
  BY DEF IInv, TypeOK, ExpandFound
<1>2. shape' \in Seq(Nat \ {0})
  <2> DEFINE u == [k \in 1..(EndI - i) |-> 1]
             v == [k \in 1..(EndJ - j) |-> 1]
  <2>1. u \in Seq(Nat \ {0}) /\ v \in Seq(Nat \ {0})
    BY <1>1
  <2>2. shape' = shape \o u \o v /\ shape \in Seq(Nat \ {0})
    BY DEF ExpandFound, IInv, TypeOK
  <2> HIDE DEF u, v
  <2> QED BY <2>1, <2>2
<1>3. TypeOK'
  <2>1. i' = Len(in) + 1 /\ j' = Len(out) + 1 /\ Len(in) \in Nat /\ Len(out) \in Nat
    BY <1>1 DEF IInv, TypeOK, ExpandFound
  <2> QED BY <1>2, <2>1 DEF IInv, TypeOK, ExpandFound
<1>4. pc' = "emit_expand"
  BY DEF ExpandFound
<1> QED BY <1>3, <1>4 DEF IInv, FreshAtMatch, FreshProducts, SearchesAreBalanced,
        SameCountIsLowered

(* One side of a collapse step: the product mux that is open and what is   *)
(* left of the side from k on become m and what is left from n on.         *)
Taken(s, k, mux, n, m) ==
    /\ n \in 1..(Len(s) + 1) /\ m \in Positive
    /\ m * Rest(s, n) = mux * Rest(s, k)

LEMMA TakeNext ==
    ASSUME NEW s \in Seq(Positive), NEW k \in 1..Len(s), NEW mux \in Positive
    PROVE  Taken(s, k, mux, k, mux) /\ Taken(s, k, mux, k + 1, mux * s[k])
<1>1. /\ k \in 1..(Len(s) + 1) /\ k + 1 \in 1..(Len(s) + 1)
      /\ s[k] \in Positive
  OBVIOUS
<1>2. Rest(s, k + 1) \in Nat /\ mux \in Nat /\ s[k] \in Nat
  BY <1>1, RestType DEF Positive
<1>3. (mux * s[k]) * Rest(s, k + 1) = mux * (s[k] * Rest(s, k + 1))
  BY <1>2, Regroup
<1>4. mux * s[k] \in Positive
  BY <1>1, PositiveProduct
<1> QED BY <1>1, <1>3, <1>4, RestStep DEF Taken

(* When the products meet at m, an extent m is found and both sides start  *)
(* anew behind the extents 1 that follow.                                  *)
LEMMA Meet ==
    ASSUME NEW f \in Seq(Positive), NEW s \in Seq(Positive), NEW k, NEW mux,
           NEW n, NEW m, Taken(s, k, mux, n, m)
    PROVE  NumElements(Append(f, m)) * (1 * Rest(s, SkipUnits(s, n)))
             = NumElements(f) * (mux * Rest(s, k))
<1>1. f \in Seq(Nat) /\ m \in Nat /\ n \in 1..(Len(s) + 1)
  BY DEF Taken, Positive
<1>2. NumElements(Append(f, m)) = NumElements(f) * m /\ NumElements(f) \in Nat
  BY <1>1, NumElementsAppend, NumElementsType
<1>3. Rest(s, SkipUnits(s, n)) = Rest(s, n) /\ Rest(s, n) \in Nat
  BY <1>1, RestSkipsUnits, RestType DEF Positive
<1>4. (NumElements(f) * m) * Rest(s, n) = NumElements(f) * (m * Rest(s, n))
  BY <1>1, <1>2, <1>3, Regroup
<1> QED BY <1>2, <1>3, <1>4 DEF Taken

(* One iteration of the collapse search.                                   *)
LEMMA CollapseStepInv == IInv /\ CollapseStep => IInv'
<1> SUFFICES ASSUME IInv, CollapseStep PROVE IInv'
  OBVIOUS
<1> DEFINE takeOut == iMux >= jMux
           mi == IF takeOut THEN iMux ELSE iMux * in[i]
           mj == IF takeOut THEN jMux * out[j] ELSE jMux
           ni == IF takeOut THEN i ELSE i + 1
           nj == IF takeOut THEN j + 1 ELSE j
<1>1. /\ in \in Seq(Positive) /\ out \in Seq(Positive) /\ shape \in Seq(Positive)
      /\ i \in 1..Len(in) /\ j \in 1..Len(out) /\ iMux \in Positive /\ jMux \in Positive
      /\ pc = "collapse" /\ pc' = "collapse" /\ in' = in /\ out' = out
      /\ iTemp' = iTemp /\ jTemp' = jTemp
  BY DEF IInv, TypeOK, CollapseStep, Positive
<1>2. IF mi = mj /\ mi # 1
      THEN /\ shape' = Append(shape, mi)
           /\ i' = SkipUnits(in, ni) /\ j' = SkipUnits(out, nj)
           /\ iMux' = 1 /\ jMux' = 1
      ELSE /\ i' = ni /\ j' = nj /\ iMux' = mi /\ jMux' = mj
           /\ shape' = shape
  BY DEF CollapseStep
<1>3. Taken(in, i, iMux, ni, mi)
  BY <1>1, TakeNext
<1>4. Taken(out, j, jMux, nj, mj)
  BY <1>1, TakeNext
<1> HIDE DEF mi, mj, ni, nj
<1>5. /\ NumElements(shape) * (iMux * Rest(in, i)) = NumElements(in)
      /\ NumElements(shape) * (jMux * Rest(out, j)) = NumElements(out)
  BY <1>1, BalanceAsRest DEF IInv
<1>6. FreshAtMatch' /\ FreshProducts' /\ SameCountIsLowered'
  BY <1>1 DEF FreshAtMatch, FreshProducts, SameCountIsLowered
<1>7. /\ shape' \in Seq(Positive) /\ iMux' \in Positive /\ jMux' \in Positive
      /\ i' \in 1..(Len(in) + 1) /\ j' \in 1..(Len(out) + 1)
  <2>1. /\ mi \in Positive /\ mj \in Positive
        /\ ni \in 1..(Len(in) + 1) /\ nj \in 1..(Len(out) + 1)
    BY <1>3, <1>4 DEF Taken
  <2>2. CASE mi = mj /\ mi # 1
    <3>1. SkipUnits(in, ni) \in ni..(Len(in) + 1) /\ SkipUnits(out, nj) \in nj..(Len(out) + 1)
      BY <1>1, <2>1, SkipUnitsFacts
    <3>2. SkipUnits(in, ni) \in 1..(Len(in) + 1) /\ SkipUnits(out, nj) \in 1..(Len(out) + 1)
      BY <1>1, <2>1, <3>1
    <3>3. 1 \in Positive
      BY DEF Positive
    <3>4. Append(shape, mi) \in Seq(Positive)
      BY <1>1, <2>1
    <3> QED BY <1>2, <2>2, <3>2, <3>3, <3>4
  <2>3. CASE ~ (mi = mj /\ mi # 1)
    BY <1>1, <1>2, <2>1, <2>3
  <2> QED BY <2>2, <2>3
<1>8. TypeOK'
  BY <1>1, <1>7 DEF IInv, TypeOK, Positive
<1>9. /\ NumElements(shape') * (iMux' * Rest(in, i')) = NumElements(shape) * (iMux * Rest(in, i))
      /\ NumElements(shape') * (jMux' * Rest(out, j')) = NumElements(shape) * (jMux * Rest(out, j))
  <2>1. CASE mi = mj /\ mi # 1
    <3>1. /\ shape' = Append(shape, mi) /\ shape' = Append(shape, mj)
          /\ i' = SkipUnits(in, ni) /\ j' = SkipUnits(out, nj)
          /\ iMux' = 1 /\ jMux' = 1
      BY <1>2, <2>1
    <3>2. NumElements(Append(shape, mi)) * (1 * Rest(in, SkipUnits(in, ni)))
            = NumElements(shape) * (iMux * Rest(in, i))
      BY <1>1, <1>3, Meet
    <3>3. NumElements(Append(shape, mj)) * (1 * Rest(out, SkipUnits(out, nj)))
            = NumElements(shape) * (jMux * Rest(out, j))
      BY <1>1, <1>4, Meet
    <3> QED BY <3>1, <3>2, <3>3
  <2>2. CASE ~ (mi = mj /\ mi # 1)
    BY <1>2, <1>3, <1>4, <2>2 DEF Taken
  <2> QED BY <2>1, <2>2
<1>10. SearchesAreBalanced'
  <2>1. /\ NumElements(shape') * (iMux' * Rest(in', i')) = NumElements(in')
        /\ NumElements(shape') * (jMux' * Rest(out', j')) = NumElements(out')
    BY <1>1, <1>5, <1>9
  <2> QED BY <1>1, <2>1 DEF SearchesAreBalanced, Rest, LastI, LastJ
<1> QED BY <1>6, <1>8, <1>10 DEF IInv

(* The open products with what is left are positive numbers.               *)
LEMMA LastTypes ==
    ASSUME TypeOK
    PROVE  LastI \in Positive /\ LastJ \in Positive
<1>1. /\ in \in Seq(Positive) /\ i \in 1..(Len(in) + 1) /\ iMux \in Positive
      /\ out \in Seq(Positive) /\ j \in 1..(Len(out) + 1) /\ jMux \in Positive
  BY DEF TypeOK, Positive
<1>2. Rest(in, i) \in Positive /\ Rest(out, j) \in Positive
  BY <1>1, RestType
<1>3. LastI = iMux * Rest(in, i) /\ LastJ = jMux * Rest(out, j)
  BY DEF LastI, LastJ, Rest
<1> QED BY <1>1, <1>2, <1>3, PositiveProduct

LEMMA CollapseFoundInv == IInv /\ CollapseFound => IInv'
<1> SUFFICES ASSUME IInv, CollapseFound PROVE IInv'
  OBVIOUS
<1>1. LastI \in Nat \ {0} /\ LastJ \in Nat \ {0}
  BY LastTypes DEF IInv, Positive
<1>2. TypeOK'
  <2>1. Append(shape, LastI) \in Seq(Nat \ {0}) /\ shape \in Seq(Nat \ {0})
    BY <1>1 DEF IInv, TypeOK
  <2>2. shape' \in Seq(Nat \ {0}) /\ iMux' \in Nat \ {0} /\ jMux' \in Nat \ {0}
    BY <1>1, <2>1 DEF CollapseFound
  <2>3. i' \in 1..(Len(in) + 1) /\ j' \in 1..(Len(out) + 1)
    BY DEF IInv, TypeOK, CollapseFound
  <2> QED BY <2>2, <2>3 DEF IInv, TypeOK, CollapseFound
<1>3. pc' = "emit_collapse"
  BY DEF CollapseFound
<1> QED BY <1>2, <1>3 DEF IInv, FreshAtMatch, FreshProducts, SearchesAreBalanced,
        SameCountIsLowered

(* The pattern refuses the reshape only when the counts differ: shape      *)
(* times what is left is either count, and shape is not empty.             *)
LEMMA CollapseMismatchInv == IInv /\ CollapseMismatch => IInv'
<1> SUFFICES ASSUME IInv, CollapseMismatch PROVE IInv'
  OBVIOUS
<1>1. TypeOK'
  BY DEF IInv, TypeOK, CollapseMismatch, search
<1>2. /\ NumElements(shape) * LastI = NumElements(in)
      /\ NumElements(shape) * LastJ = NumElements(out)
      /\ LastI # LastJ
  BY DEF IInv, SearchesAreBalanced, CollapseMismatch, AtCollapseEnd
<1>3. NumElements(shape) \in Positive
  BY NumElementsPositive DEF IInv, TypeOK, Positive
<1>4. LastI \in Nat /\ LastJ \in Nat
  BY LastTypes DEF IInv, Positive
<1>5. NumElements(in) # NumElements(out)
  BY <1>2, <1>3, <1>4, Cancel
<1>6. pc' = "match_failure" /\ in' = in /\ out' = out
  BY DEF CollapseMismatch
<1> QED BY <1>1, <1>5, <1>6 DEF IInv, FreshAtMatch, FreshProducts, SearchesAreBalanced,
        SameCountIsLowered

(* The other steps end the pattern or emit what was found.                 *)
LEMMA EndInv ==
    ASSUME IInv, UNCHANGED << in, out, search >>, pc' \in {"done", "undefined"}
    PROVE  IInv'
<1>1. TypeOK'
  BY DEF IInv, TypeOK, search
<1> QED BY <1>1 DEF IInv, FreshAtMatch, FreshProducts, SearchesAreBalanced, SameCountIsLowered

LEMMA StutterInv == IInv /\ UNCHANGED vars => IInv'
BY DEF IInv, TypeOK, FreshAtMatch, FreshProducts, SearchesAreBalanced, SameCountIsLowered,
       LastI, LastJ, vars, search

LEMMA NextInv == IInv /\ [Next]_vars => IInv'
<1> SUFFICES ASSUME IInv, [Next]_vars PROVE IInv'
  OBVIOUS
<1>1. CASE Forward \/ Direct
  BY <1>1, EndInv DEF Forward, Direct
<1>2. CASE EmitExpandCollapse
  BY <1>2, EndInv DEF EmitExpandCollapse
<1>3. CASE EmitCollapseExpand
  BY <1>3, EndInv DEF EmitCollapseExpand
<1>4. CASE ExpandGiveUp \/ ExpandFail
  BY <1>4, StartCollapseInv DEF ExpandGiveUp, ExpandFail, InExpandLoop, AtExpandEnd
<1> QED BY <1>1, <1>2, <1>3, <1>4, NotDirectInv, ExpandEqualInv, ExpandSplitInInv,
        ExpandSplitOutInv, ExpandFoundInv, CollapseStepInv, CollapseFoundInv,
        CollapseMismatchInv, StutterInv DEF Next

(* The inductive invariant holds of every reshape of static shapes.        *)
THEOREM Invariance == Spec => []IInv
BY InitInv, NextInv, PTL DEF Spec

(* The positions stay within the shapes, extents and products stay         *)
(* positive (TypeOK): no division by zero, no access behind the end.       *)
THEOREM TypeCorrect == Spec => []TypeOK
<1>1. IInv => TypeOK
  BY DEF IInv
<1> QED BY Invariance, <1>1, PTL

(* Neither search loses an element (SearchesAreBalanced).                  *)
THEOREM NoElementIsLost == Spec => []SearchesAreBalanced
<1>1. IInv => SearchesAreBalanced
  BY DEF IInv
<1> QED BY Invariance, <1>1, PTL

(* A reshape that keeps the count is never refused (SameCountIsLowered).   *)
THEOREM RefusedOnlyForCount == Spec => []SameCountIsLowered
<1>1. IInv => SameCountIsLowered
  BY DEF IInv
<1> QED BY Invariance, <1>1, PTL

-----------------------------------------------------------------------------
(* What is found refines both ends, or both ends refine it: the second     *)
(* inductive invariant, over the first.                                    *)

(* The extents behind position k have not been split yet.                  *)
Untouched(t, s, k) == \A m \in (k + 1)..Len(s) : t[m] = s[m]

(* The extents taken so far by the expand search are products of what it   *)
(* has found.                                                              *)
ExpandCovers ==
    pc = "expand" =>
       /\ Covers(in, i - 1, shape, Len(shape)) /\ Covers(out, j - 1, shape, Len(shape))
       /\ Untouched(iTemp, in, i) /\ Untouched(jTemp, out, j)

(* What the collapse search has found are products of the extents taken.   *)
CollapseCovers ==
    pc = "collapse" =>
       Covers(shape, Len(shape), in, i - 1) /\ Covers(shape, Len(shape), out, j - 1)

ShapeRefines ==
    /\ pc = "emit_expand" => Refines(in, shape) /\ Refines(out, shape)
    /\ pc = "emit_collapse" => Refines(shape, in) /\ Refines(shape, out)

(* A search only runs where no single operation does.                      *)
SearchIsNeeded ==
    pc \notin {"match", "done"} => in # out /\ DirectReassociations(in, out) = {}

NothingEmitted == pc = "match" => emitted = << >>

FoundInv ==
    /\ ProductsFit(<< in, out >>)
    /\ ExpandCovers
    /\ CollapseCovers
    /\ ShapeRefines
    /\ SearchIsNeeded
    /\ NothingEmitted
    /\ LoweringIsValid
    /\ NeverUndefined

-----------------------------------------------------------------------------
(* The expand search, seen from one of the two shapes.                     *)

(* What is found, times m, leads to where r is left: so does l.            *)
LEMMA CountsMeet ==
    ASSUME NEW f \in Positive, NEW m \in Positive, NEW r \in Positive, NEW l \in Positive,
           f * (m * r) = l * r
    PROVE  l = f * m
<1>1. f \in Nat /\ m \in Nat /\ r \in Nat /\ l \in Nat
  BY DEF Positive
<1>2. (f * m) * r = l * r
  BY <1>1, Regroup
<1>3. f * m \in Nat
  BY <1>1
<1>4. r * (f * m) = (f * m) * r /\ r * l = l * r
  BY <1>1, <1>3
<1>5. r * (f * m) = r * l
  BY <1>2, <1>4
<1> QED BY <1>1, <1>3, <1>5, Cancel

(* Taking what is left of extent k completes it.                           *)
LEMMA TakeCovers ==
    ASSUME NEW f \in Seq(Positive), NEW s \in Seq(Positive), NEW t \in Seq(Positive),
           Len(t) = Len(s), NEW k \in 1..Len(s), Untouched(t, s, k),
           NumElements(f) * Rest(t, k) = NumElements(s),
           Covers(s, k - 1, f, Len(f))
    PROVE  Covers(s, k, Append(f, t[k]), Len(Append(f, t[k])))
<1> DEFINE g == Append(f, t[k])
           n == Len(f)
<1>1. /\ n \in Nat /\ t[k] \in Positive /\ g \in Seq(Positive) /\ Len(g) = n + 1
      /\ \A m \in 1..n : f[m] = g[m]
  OBVIOUS
<1>2. NumElements(g) = NumElements(f) * t[k] /\ NumElements(f) \in Positive
  <2>1. f \in Seq(Nat) /\ f \in Seq(Nat \ {0}) /\ t[k] \in Nat
    BY <1>1 DEF Positive
  <2> QED BY <2>1, NumElementsAppend, NumElementsPositive DEF Positive
<1> HIDE DEF g
<1>3. Rest(t, k) = t[k] * Rest(t, k + 1) /\ Rest(t, k + 1) \in Positive
  <2>1. k \in 1..Len(t) /\ k + 1 \in 1..(Len(t) + 1)
    OBVIOUS
  <2> QED BY <2>1, RestStep, RestType
<1>4. Rest(t, k + 1) = Rest(s, k + 1)
  <2>1. SubSeq(t, k + 1, Len(t)) = SubSeq(s, k + 1, Len(s))
    BY DEF Untouched
  <2> QED BY <2>1 DEF Rest
<1>5. Leading(s, k) * Rest(s, k + 1) = NumElements(s) /\ Leading(s, k) \in Positive
  <2>1. k \in 0..Len(s)
    OBVIOUS
  <2> QED BY <2>1, LeadingAndRest, LeadingType
<1>6. Leading(s, k) = NumElements(f) * t[k]
  BY <1>1, <1>2, <1>3, <1>4, <1>5, CountsMeet
<1>7. Leading(g, n + 1) = Leading(s, k)
  BY <1>1, <1>2, <1>6, LeadingAll
<1>8. Covers(s, k - 1, g, n)
  <2>1. k - 1 \in Nat /\ n \in 0..Len(f) /\ n \in n..Len(g)
    BY <1>1
  <2> QED BY <1>1, <2>1, CutStays
<1>9. Covers(s, (k - 1) + 1, g, n + 1)
  <2>1. k - 1 \in Nat /\ n + 1 \in Nat /\ n <= n + 1 /\ n < n + 1 /\ (k - 1) + 1 = k
    BY <1>1
  <2>2. Leading(g, n + 1) = Leading(s, (k - 1) + 1)
    BY <1>7, <2>1
  <2> QED BY <1>1, <1>8, <2>1, <2>2, CutGrows
<1>10. (k - 1) + 1 = k
  OBVIOUS
<1> QED BY <1>1, <1>9, <1>10 DEF g

(* Taking part of it leaves the others complete.                           *)
LEMMA PartCovers ==
    ASSUME NEW f \in Seq(Positive), NEW s, NEW n \in Nat, NEW d \in Positive,
           Covers(s, n, f, Len(f))
    PROVE  Covers(s, n, Append(f, d), Len(Append(f, d)))
<1>1. /\ Append(f, d) \in Seq(Positive) /\ Len(f) \in 0..Len(f)
      /\ Len(Append(f, d)) \in Len(f)..Len(Append(f, d))
      /\ \A k \in 1..Len(f) : f[k] = Append(f, d)[k]
  OBVIOUS
<1> QED BY <1>1, CutStays

(* Extents 1.                                                              *)
Ones(n) == [k \in 1..n |-> 1]

LEMMA OnesStep ==
    ASSUME NEW f \in Seq(Positive), NEW d \in Nat \ {0}
    PROVE  /\ f \o Ones(d) = Append(f \o Ones(d - 1), 1)
           /\ f \o Ones(d - 1) \in Seq(Positive)
<1>1. /\ Ones(d) \in Seq(Positive) /\ Len(Ones(d)) = d /\ \A k \in 1..d : Ones(d)[k] = 1
      /\ Ones(d - 1) \in Seq(Positive) /\ Len(Ones(d - 1)) = d - 1
      /\ \A k \in 1..(d - 1) : Ones(d - 1)[k] = 1
  BY DEF Ones, Positive
<1>2. Ones(d) = Append(Ones(d - 1), 1)
  <2>1. 1 \in Positive
    BY DEF Positive
  <2>2. Append(Ones(d - 1), 1) \in Seq(Positive) /\ Len(Append(Ones(d - 1), 1)) = d
    BY <1>1, <2>1
  <2>3. \A k \in 1..d : Append(Ones(d - 1), 1)[k] = 1
    BY <1>1
  <2> QED BY <1>1, <2>2, <2>3, SeqEqual
<1>3. f \o Append(Ones(d - 1), 1) = Append(f \o Ones(d - 1), 1)
  BY <1>1
<1> QED BY <1>1, <1>2, <1>3

(* Extents 1 at the end of a shape are complete when as many are appended. *)
LEMMA UnitsCover ==
    ASSUME NEW f \in Seq(Positive), NEW s \in Seq(Positive), NEW t \in Seq(Positive),
           Len(t) = Len(s), NEW k \in 1..(Len(s) + 1), Untouched(t, s, k),
           NumElements(f) * Rest(t, k) = NumElements(s),
           Covers(s, k - 1, f, Len(f)), SkipUnits(t, k) = Len(s) + 1
    PROVE  LET g == f \o Ones(Len(s) + 1 - k) IN
           /\ g \in Seq(Positive)
           /\ Covers(s, Len(s), g, Len(g))
           /\ NumElements(g) = NumElements(s) /\ NumElements(f) = NumElements(s)
<1> DEFINE m == Len(s) + 1 - k
           h(d) == f \o Ones(d)
           T == {d \in 0..m : /\ h(d) \in Seq(Positive)
                              /\ Covers(s, (k - 1) + d, h(d), Len(h(d)))
                              /\ NumElements(h(d)) = NumElements(s)
                              /\ Rest(t, k + d) = 1}
<1>1. m \in Nat /\ k \in Nat /\ Len(s) \in Nat /\ k + m = Len(s) + 1 /\ (k - 1) + m = Len(s)
  OBVIOUS
<1>2. \A x \in k..Len(s) : t[x] = 1
  <2>1. \A x \in k..(SkipUnits(t, k) - 1) : t[x] = 1
    BY SkipUnitsFacts
  <2> QED BY <1>1, <2>1
<1>3. Rest(t, k) = 1
  <2>1. Rest(t, Len(t) + 1) = Rest(t, k)
    BY RestSkipsUnits
  <2>2. Rest(t, Len(t) + 1) = 1
    <3>1. t \in Seq(Nat)
      BY DEF Positive
    <3> QED BY <3>1, NumElementsBehind DEF Rest
  <2> QED BY <2>1, <2>2
<1>4. NumElements(f) = NumElements(s)
  <2>1. NumElements(f) \in Nat
    <3>1. f \in Seq(Nat)
      BY DEF Positive
    <3> QED BY <3>1, NumElementsType
  <2> QED BY <1>3, <2>1
<1> HIDE DEF m
<1>5. 0 \in T
  <2>1. f \o Ones(0) = f
    <3>1. Ones(0) = << >>
      BY DEF Ones
    <3> QED BY <3>1
  <2>2. (k - 1) + 0 = k - 1 /\ k + 0 = k /\ 0 \in 0..m
    BY <1>1
  <2> QED BY <1>3, <1>4, <2>1, <2>2
<1>6. \A d \in 1..m : d - 1 \in T => d \in T
  <2> SUFFICES ASSUME NEW d \in 1..m, d - 1 \in T PROVE d \in T
    OBVIOUS
  <2> DEFINE g == h(d - 1)
             p == k + (d - 1)
  <2>1. /\ g \in Seq(Positive) /\ Covers(s, (k - 1) + (d - 1), g, Len(g))
        /\ NumElements(g) = NumElements(s) /\ Rest(t, p) = 1
    OBVIOUS
  <2>2. /\ p \in 1..Len(s) /\ p \in k..Len(s) /\ (k - 1) + (d - 1) = p - 1
        /\ p + 1 = k + d /\ p = (k - 1) + d /\ d \in Nat \ {0} /\ d \in 0..m
    BY <1>1
  <2>3. h(d) = Append(g, 1)
    BY <2>2, OnesStep
  <2> HIDE DEF h, p, T
  <2>4. t[p] = 1
    BY <1>2, <2>2
  <2>5. Untouched(t, s, p)
    BY <1>1, <2>2 DEF Untouched
  <2>6. NumElements(g) * Rest(t, p) = NumElements(s)
    <3>1. NumElements(s) \in Nat
      <4>1. s \in Seq(Nat)
        BY DEF Positive
      <4> QED BY <4>1, NumElementsType
    <3> QED BY <2>1, <3>1
  <2> HIDE DEF g
  <2>7. Covers(s, p, Append(g, t[p]), Len(Append(g, t[p])))
    BY <2>1, <2>2, <2>5, <2>6, TakeCovers
  <2>8. NumElements(Append(g, 1)) = NumElements(g)
    <3>1. g \in Seq(Nat) /\ 1 \in Nat
      BY <2>1 DEF Positive
    <3>2. NumElements(Append(g, 1)) = NumElements(g) * 1 /\ NumElements(g) \in Nat
      BY <3>1, NumElementsAppend, NumElementsType
    <3> QED BY <3>2
  <2>9. Rest(t, p + 1) = 1
    <3>1. Rest(t, p) = t[p] * Rest(t, p + 1)
      BY <2>2, RestStep
    <3>2. p + 1 \in 1..(Len(t) + 1)
      BY <2>2
    <3>3. Rest(t, p + 1) \in Nat
      BY <3>2, RestType DEF Positive
    <3> QED BY <2>1, <2>4, <3>1, <3>3
  <2>10. h(d) \in Seq(Positive)
    <3>1. 1 \in Positive
      BY DEF Positive
    <3> QED BY <2>1, <2>3, <3>1
  <2> QED BY <2>1, <2>2, <2>3, <2>4, <2>7, <2>8, <2>9, <2>10 DEF T
<1> HIDE DEF T
<1>7. 0..m \subseteq T
  BY <1>1, <1>5, <1>6, UpTo
<1>8. m \in T
  BY <1>1, <1>7
<1> QED BY <1>1, <1>4, <1>8 DEF T, m

-----------------------------------------------------------------------------
(* The collapse search, seen from one of the two shapes.                   *)

(* Where the products meet at m, the new extent is complete.               *)
LEMMA MeetCovers ==
    ASSUME NEW f \in Seq(Positive), NEW s \in Seq(Positive), NEW k \in 1..(Len(s) + 1),
           NEW mux, NEW n, NEW m, Taken(s, k, mux, n, m), k <= n, m # 1,
           NumElements(f) * (mux * Rest(s, k)) = NumElements(s),
           Covers(f, Len(f), s, k - 1)
    PROVE  Covers(Append(f, m), Len(Append(f, m)), s, SkipUnits(s, n) - 1)
<1> DEFINE g == Append(f, m)
           l == Len(f)
           p == SkipUnits(s, n)
<1>1. /\ n \in 1..(Len(s) + 1) /\ m \in Positive /\ l \in Nat
      /\ m * Rest(s, n) = mux * Rest(s, k)
  BY DEF Taken
<1>2. /\ g \in Seq(Positive) /\ Len(g) = l + 1 /\ \A x \in 1..l : f[x] = g[x]
  BY <1>1
<1>3. NumElements(g) = NumElements(f) * m /\ NumElements(f) \in Positive
  <2>1. f \in Seq(Nat) /\ f \in Seq(Nat \ {0}) /\ m \in Nat
    BY <1>1 DEF Positive
  <2> QED BY <2>1, NumElementsAppend, NumElementsPositive DEF Positive
<1>4. p \in n..(Len(s) + 1)
  BY <1>1, SkipUnitsFacts
<1> HIDE DEF g, l, p
<1>5. /\ n - 1 \in 0..Len(s) /\ (n - 1) + 1 = n /\ k - 1 \in 0..Len(s) /\ k - 1 <= n - 1
      /\ k - 1 \in Nat /\ n - 1 \in Nat /\ p - 1 \in (n - 1)..Len(s)
  BY <1>1, <1>4
<1>6. Leading(s, n - 1) * Rest(s, n) = NumElements(s) /\ Leading(s, n - 1) \in Positive
      /\ Rest(s, n) \in Positive
  BY <1>1, <1>5, LeadingAndRest, LeadingType, RestType
<1>7. Leading(s, n - 1) = NumElements(f) * m
  BY <1>1, <1>3, <1>6, CountsMeet
<1>8. Leading(g, l + 1) = NumElements(f) * m /\ Leading(g, l) = NumElements(f)
  <2>1. Leading(g, l + 1) = NumElements(g)
    BY <1>2, LeadingAll
  <2>2. Leading(f, l) = NumElements(f)
    BY LeadingAll DEF l
  <2>3. Leading(f, l) = Leading(g, l)
    <3>1. l \in 0..Len(f) /\ l <= Len(g) /\ l \in 0..l
      BY <1>1, <1>2 DEF l
    <3> QED BY <1>2, <3>1, LeadingLocal
  <2> QED BY <1>3, <2>1, <2>2, <2>3
<1>9. NumElements(f) # NumElements(f) * m
  <2>1. \A a \in Positive : a * m = a * 1 => m = 1
    BY <1>1, Cancel DEF Positive
  <2>2. NumElements(f) * 1 = NumElements(f)
    BY <1>3 DEF Positive
  <2> QED BY <1>3, <2>1, <2>2
<1>10. Covers(g, l, s, k - 1)
  <2>1. l \in 0..Len(f) /\ l <= Len(g) /\ Covers(f, l, s, k - 1)
    BY <1>1, <1>2 DEF l
  <2> QED BY <1>2, <1>5, <2>1, CutOfPrefix
<1>11. Covers(g, l + 1, s, n - 1)
  BY <1>1, <1>5, <1>7, <1>8, <1>9, <1>10, CutGrows
<1>12. Covers(g, l + 1, s, p - 1)
  <2>1. l + 1 \in Nat /\ \A x \in 1..(n - 1) : s[x] = s[x]
    BY <1>1
  <2> QED BY <1>5, <1>11, <2>1, CutStays
<1> QED BY <1>2, <1>12 DEF g, p

(* Where they do not, nothing changes but how far one has looked.          *)
LEMMA LookCovers ==
    ASSUME NEW f \in Seq(Positive), NEW s \in Seq(Positive), NEW k \in 1..(Len(s) + 1),
           NEW n \in k..(Len(s) + 1), Covers(f, Len(f), s, k - 1)
    PROVE  Covers(f, Len(f), s, n - 1)
<1>1. k - 1 \in 0..Len(s) /\ n - 1 \in (k - 1)..Len(s) /\ \A x \in 1..(k - 1) : s[x] = s[x]
  OBVIOUS
<1>2. Len(f) \in Nat
  OBVIOUS
<1> QED BY <1>1, <1>2, CutStays

-----------------------------------------------------------------------------
(* Why an intermediate shape has more extents than both ends, or fewer     *)
(* than both: otherwise a single operation would do.                       *)

LEMMA DirectIfRefined ==
    ASSUME NEW low \in Seq(Positive), NEW high \in Seq(Positive), Refines(low, high)
    PROVE  \/ low = high
           \/ /\ Len(low) < Len(high)
              /\ DirectReassociations(low, high) # {} /\ DirectReassociations(high, low) # {}
<1>1. Len(low) <= Len(high) /\ (Len(low) = Len(high) => low = high)
  BY RefinesSameRank
<1>2. CASE Len(low) < Len(high)
  <2>1. PICK ends \in [1..Len(low) -> 1..Len(high)] :
                ValidReassociation(low, high, Groups(ends))
    BY <1>2, RefinesIsDirect
  <2>2. ~ (Len(high) < Len(low))
    BY <1>2
  <2>3. Groups(ends) \in DirectReassociations(low, high)
    BY <1>2, <2>1 DEF DirectReassociations
  <2>4. Groups(ends) \in DirectReassociations(high, low)
    BY <2>1, <2>2 DEF DirectReassociations
  <2> QED BY <1>2, <2>3, <2>4
<1>3. CASE Len(low) = Len(high)
  BY <1>1, <1>3
<1>4. Len(low) \in Nat /\ Len(high) \in Nat
  OBVIOUS
<1> QED BY <1>1, <1>2, <1>3, <1>4

(* Two shapes of one element are a single operation apart.                 *)
LEMMA ScalarsAreDirect ==
    ASSUME NEW a \in Seq(Positive), NEW b \in Seq(Positive), a # b,
           NumElements(a) = 1, NumElements(b) = 1
    PROVE  DirectReassociations(a, b) # {}
<1>1. Len(a) <= Len(b) \/ Len(b) <= Len(a)
  <2>1. Len(a) \in Nat /\ Len(b) \in Nat
    OBVIOUS
  <2> QED BY <2>1
<1> QED BY <1>1, UnitsRefine, DirectIfRefined

LEMMA ExpandedIsHigher ==
    ASSUME NEW a \in Seq(Positive), NEW b \in Seq(Positive), NEW s \in Seq(Positive),
           a # b, DirectReassociations(a, b) = {}, Refines(a, s), Refines(b, s)
    PROVE  Len(a) < Len(s) /\ Len(a) # 0 /\ Len(b) < Len(s) /\ Len(b) # 0
<1>1. a # s /\ b # s
  BY DirectIfRefined
<1>2. Len(a) < Len(s) /\ Len(b) < Len(s)
  BY <1>1, DirectIfRefined
<1>3. NumElements(a) = NumElements(b)
  BY DEF Refines
<1>4. Len(a) # 0 /\ Len(b) # 0
  <2>1. \A t \in Seq(Positive) : Len(t) = 0 => NumElements(t) = 1
    <3> SUFFICES ASSUME NEW t \in Seq(Positive), Len(t) = 0 PROVE NumElements(t) = 1
      OBVIOUS
    <3>1. t = << >>
      OBVIOUS
    <3> QED BY <3>1, NumElementsEmpty
  <2> QED BY <1>3, <2>1, ScalarsAreDirect
<1> QED BY <1>2, <1>4

LEMMA CollapsedIsLower ==
    ASSUME NEW a \in Seq(Positive), NEW b \in Seq(Positive), NEW s \in Seq(Positive),
           a # b, DirectReassociations(a, b) = {}, Refines(s, a), Refines(s, b)
    PROVE  Len(s) < Len(a) /\ Len(s) < Len(b) /\ Len(s) # 0
<1>1. a # s /\ b # s
  BY DirectIfRefined
<1>2. Len(s) < Len(a) /\ Len(s) < Len(b)
  BY <1>1, DirectIfRefined
<1>3. Len(s) # 0
  <2> SUFFICES ASSUME Len(s) = 0 PROVE FALSE
    OBVIOUS
  <2>1. s = << >>
    OBVIOUS
  <2>2. NumElements(a) = 1 /\ NumElements(b) = 1
    BY <2>1, NumElementsEmpty DEF Refines
  <2> QED BY <2>2, ScalarsAreDirect
<1> QED BY <1>2, <1>3

-----------------------------------------------------------------------------
(* The second invariant, step by step.                                     *)

(* While nothing is done, the two shapes are a search apart, and nothing   *)
(* else but what the search has found matters.                             *)
LEMMA SearchGoesOn ==
    ASSUME FoundInv, in' = in, out' = out,
           pc' \in {"expand", "emit_expand", "collapse", "emit_collapse", "match_failure"},
           in # out, DirectReassociations(in, out) = {},
           ExpandCovers', CollapseCovers', ShapeRefines'
    PROVE  FoundInv'
<1>1. ProductsFit(<< in, out >>)'
  BY DEF FoundInv
<1>2. SearchIsNeeded' /\ NothingEmitted' /\ LoweringIsValid' /\ NeverUndefined'
  BY DEF SearchIsNeeded, NothingEmitted, LoweringIsValid, NeverUndefined
<1> QED BY <1>1, <1>2 DEF FoundInv

(* The pattern ends with a valid lowering.                                 *)
LEMMA DoneFound ==
    ASSUME FoundInv, in' = in, out' = out, pc' = "done", LoweringIsValid'
    PROVE  FoundInv'
<1>1. ProductsFit(<< in, out >>)'
  BY DEF FoundInv
<1>2. /\ ExpandCovers' /\ CollapseCovers' /\ ShapeRefines'
      /\ SearchIsNeeded' /\ NothingEmitted' /\ NeverUndefined'
  BY DEF ExpandCovers, CollapseCovers, ShapeRefines, SearchIsNeeded, NothingEmitted, NeverUndefined
<1> QED BY <1>1, <1>2 DEF FoundInv

(* A lowering of two operations is valid when each is and they meet.       *)
LEMMA TwoOperations ==
    ASSUME NEW a, NEW b, emitted' = << a, b >>, ValidOp(a), ValidOp(b),
           a.to = b.from, a.from = in', b.to = out'
    PROVE  LoweringIsValid'
<1>1. /\ Len(emitted') = 2 /\ emitted'[1] = a /\ emitted'[2] = b
      /\ \A k \in 1..2 : k = 1 \/ k = 2
      /\ \A k \in 1..(2 - 1) : k = 1
  OBVIOUS
<1>2. \A k \in 1..2 : ValidOp(emitted'[k])
  BY <1>1
<1>3. \A k \in 1..(2 - 1) : emitted'[k].to = emitted'[k + 1].from
  BY <1>1
<1>4. \A k \in 1..2 : ValidOp(emitted[k])'
  BY <1>2 DEF ValidOp
<1> QED BY <1>1, <1>3, <1>4 DEF LoweringIsValid

(* What the counts are where a shape between in and out is known.          *)
LEMMA CountFits ==
    ASSUME FoundInv, NumElements(in) = NumElements(out)
    PROVE  NumElements(in) < IntModulus \div 2
BY DEF FoundInv, ProductsFit

LEMMA InitFound == (\A r \in Reshapes : ProductsFit(r)) /\ Init => FoundInv
<1> SUFFICES ASSUME \A r \in Reshapes : ProductsFit(r), Init PROVE FoundInv
  OBVIOUS
<1>1. ProductsFit(<< in, out >>)
  BY DEF Init, ProductsFit
<1> QED BY <1>1 DEF Init, FoundInv, ExpandCovers, CollapseCovers, ShapeRefines, SearchIsNeeded,
        NothingEmitted, LoweringIsValid, NeverUndefined

LEMMA ForwardFound == IInv /\ FoundInv /\ Forward => FoundInv'
<1> SUFFICES ASSUME FoundInv, Forward PROVE FoundInv'
  OBVIOUS
<1>1. /\ in' = in /\ out' = out /\ pc' = "done" /\ emitted' = << >> /\ in = out
  BY DEF Forward, FoundInv, NothingEmitted
<1>2. Len(<< >>) = 0 /\ 1..0 = {} /\ 1..(0 - 1) = {}
  OBVIOUS
<1>3. LoweringIsValid'
  BY <1>1, <1>2 DEF LoweringIsValid
<1> QED BY <1>1, <1>3, DoneFound

(* One operation: shapes of the same rank have no reassociation.           *)
LEMMA DirectFound == IInv /\ FoundInv /\ Direct => FoundInv'
<1> SUFFICES ASSUME IInv, FoundInv, Direct PROVE FoundInv'
  OBVIOUS
<1>1. PICK r \in DirectReassociations(in, out) :
          emitted' = << IF Len(in) > Len(out) THEN Collapse(in, out, r)
                                              ELSE Expand(in, out, r) >>
  BY DEF Direct
<1>2. in' = in /\ out' = out /\ pc' = "done"
  BY DEF Direct
<1>3. Len(in) \in Nat /\ Len(out) \in Nat
  BY DEF IInv, TypeOK
<1> DEFINE o == IF Len(in) > Len(out) THEN Collapse(in, out, r) ELSE Expand(in, out, r)
<1>4. ValidOp(o) /\ o.from = in /\ o.to = out
  <2>1. CASE Len(in) < Len(out)
    <3>1. ValidReassociation(in, out, r)
      BY <1>1, <2>1 DEF DirectReassociations
    <3>2. o = Expand(in, out, r)
      BY <1>3, <2>1
    <3> QED BY <3>1, <3>2 DEF ValidOp, Expand
  <2>2. CASE ~ (Len(in) < Len(out))
    <3>1. ValidReassociation(out, in, r)
      BY <1>1, <2>2 DEF DirectReassociations
    <3>2. o = Collapse(in, out, r)
      BY <1>3, <3>1 DEF ValidReassociation
    <3> QED BY <3>1, <3>2 DEF ValidOp, Collapse
  <2> QED BY <2>1, <2>2
<1>5. LoweringIsValid'
  <2>1. emitted' = << o >>
    BY <1>1
  <2> HIDE DEF o
  <2>2. Len(emitted') = 1 /\ emitted'[1] = o /\ 1..(1 - 1) = {} /\ \A k \in 1..1 : k = 1
    BY <2>1
  <2>3. \A k \in 1..1 : ValidOp(emitted[k])'
    BY <1>4, <2>2 DEF ValidOp
  <2> QED BY <1>2, <1>4, <2>2, <2>3 DEF LoweringIsValid
<1> QED BY <1>2, <1>5, DoneFound

LEMMA NotDirectFound == IInv /\ FoundInv /\ NotDirect => FoundInv'
<1> SUFFICES ASSUME IInv, FoundInv, NotDirect PROVE FoundInv'
  OBVIOUS
<1>1. /\ in' = in /\ out' = out /\ pc' = "expand" /\ shape' = << >> /\ i' = 1 /\ j' = 1
      /\ iTemp' = in /\ jTemp' = out /\ in # out /\ DirectReassociations(in, out) = {}
  BY DEF IInv, NotDirect, search, FreshAtMatch
<1>2. in \in Seq(Positive) /\ out \in Seq(Positive) /\ << >> \in Seq(Positive)
      /\ Len(<< >>) = 0 /\ 1 - 1 = 0
  BY DEF IInv, TypeOK, Positive
<1>3. Covers(in, 0, << >>, 0) /\ Covers(out, 0, << >>, 0)
  BY <1>2, CutStarts
<1>4. Untouched(in, in, 1) /\ Untouched(out, out, 1)
  BY DEF Untouched
<1>5. /\ Covers(in', i' - 1, shape', Len(shape')) /\ Covers(out', j' - 1, shape', Len(shape'))
      /\ Untouched(iTemp', in', i') /\ Untouched(jTemp', out', j')
  BY <1>1, <1>2, <1>3, <1>4
<1>6. ExpandCovers'
  BY <1>5 DEF ExpandCovers, Covers, IsCut, Leading, Untouched
<1>7. CollapseCovers' /\ ShapeRefines'
  BY <1>1 DEF CollapseCovers, ShapeRefines
<1> QED BY <1>1, <1>6, <1>7, SearchGoesOn

(* The steps within the expand search, seen from one side: the extent d is *)
(* found; m is the next extent to look at, u what is then left of each.    *)
Grown(s, u, m, f, d) ==
    /\ Covers(s, m - 1, Append(f, d), Len(Append(f, d)))
    /\ Untouched(u, s, m)

LEMMA GrownWhole ==
    ASSUME NEW f \in Seq(Positive), NEW s \in Seq(Positive), NEW t \in Seq(Positive),
           Len(t) = Len(s), NEW k \in 1..Len(s), Untouched(t, s, k),
           NumElements(f) * Rest(t, k) = NumElements(s),
           Covers(s, k - 1, f, Len(f))
    PROVE  Grown(s, t, k + 1, f, t[k])
<1>1. Covers(s, k, Append(f, t[k]), Len(Append(f, t[k])))
  BY TakeCovers
<1>2. (k + 1) - 1 = k
  OBVIOUS
<1>3. Untouched(t, s, k + 1)
  BY DEF Untouched
<1> QED BY <1>1, <1>2, <1>3 DEF Grown

LEMMA GrownPart ==
    ASSUME NEW f \in Seq(Positive), NEW s \in Seq(Positive), NEW t \in Seq(Positive),
           Len(t) = Len(s), NEW k \in 1..Len(s), Untouched(t, s, k),
           NEW d \in Positive, NEW q, Covers(s, k - 1, f, Len(f))
    PROVE  Grown(s, [t EXCEPT ![k] = q], k, f, d)
<1>1. k - 1 \in Nat
  OBVIOUS
<1>2. Covers(s, k - 1, Append(f, d), Len(Append(f, d)))
  BY <1>1, PartCovers
<1>3. \A m \in (k + 1)..Len(s) : m \in DOMAIN t /\ m # k
  OBVIOUS
<1>4. Untouched([t EXCEPT ![k] = q], s, k)
  BY <1>3 DEF Untouched
<1> QED BY <1>2, <1>4 DEF Grown

(* What the steps of the expand search start from.                         *)
LEMMA InExpandFound ==
    ASSUME IInv, FoundInv, pc = "expand"
    PROVE  /\ in \in Seq(Positive) /\ out \in Seq(Positive) /\ shape \in Seq(Positive)
           /\ iTemp \in Seq(Positive) /\ Len(iTemp) = Len(in) /\ i \in 1..(Len(in) + 1)
           /\ jTemp \in Seq(Positive) /\ Len(jTemp) = Len(out) /\ j \in 1..(Len(out) + 1)
           /\ NumElements(shape) * Rest(iTemp, i) = NumElements(in)
           /\ NumElements(shape) * Rest(jTemp, j) = NumElements(out)
           /\ Covers(in, i - 1, shape, Len(shape)) /\ Covers(out, j - 1, shape, Len(shape))
           /\ Untouched(iTemp, in, i) /\ Untouched(jTemp, out, j)
           /\ in # out /\ DirectReassociations(in, out) = {}
<1>1. /\ in \in Seq(Positive) /\ out \in Seq(Positive) /\ shape \in Seq(Positive)
      /\ iTemp \in Seq(Positive) /\ Len(iTemp) = Len(in) /\ i \in 1..(Len(in) + 1)
      /\ jTemp \in Seq(Positive) /\ Len(jTemp) = Len(out) /\ j \in 1..(Len(out) + 1)
  BY DEF IInv, TypeOK, Positive
<1>2. /\ NumElements(shape) * Rest(iTemp, i) = NumElements(in)
      /\ NumElements(shape) * Rest(jTemp, j) = NumElements(out)
  BY BalanceAsRest DEF IInv
<1>3. /\ Covers(in, i - 1, shape, Len(shape)) /\ Covers(out, j - 1, shape, Len(shape))
      /\ Untouched(iTemp, in, i) /\ Untouched(jTemp, out, j)
  BY DEF FoundInv, ExpandCovers
<1>4. in # out /\ DirectReassociations(in, out) = {}
  BY DEF FoundInv, SearchIsNeeded
<1> QED BY <1>1, <1>2, <1>3, <1>4

LEMMA ExpandStepFound ==
    ASSUME IInv, FoundInv, pc = "expand", in' = in, out' = out, pc' = pc,
           NEW d, shape' = Append(shape, d),
           Grown(in, iTemp', i', shape, d), Grown(out, jTemp', j', shape, d)
    PROVE  FoundInv'
<1>1. ExpandCovers'
  BY DEF Grown, ExpandCovers, Covers, IsCut, Leading, Untouched
<1>2. CollapseCovers' /\ ShapeRefines'
  BY DEF CollapseCovers, ShapeRefines
<1> QED BY <1>1, <1>2, InExpandFound, SearchGoesOn

LEMMA ExpandEqualFound == IInv /\ FoundInv /\ ExpandEqual => FoundInv'
<1> SUFFICES ASSUME IInv, FoundInv, ExpandEqual PROVE FoundInv'
  OBVIOUS
<1>1. /\ pc = "expand" /\ i <= Len(in) /\ j <= Len(out) /\ iTemp[i] = jTemp[j]
      /\ in' = in /\ out' = out /\ pc' = pc /\ shape' = Append(shape, iTemp[i])
      /\ iTemp' = iTemp /\ i' = i + 1 /\ jTemp' = jTemp /\ j' = j + 1
  BY DEF ExpandEqual, InExpandLoop
<1>2. i \in 1..Len(in) /\ j \in 1..Len(out)
  BY <1>1, InExpandFound
<1>3. Grown(in, iTemp, i + 1, shape, iTemp[i])
  BY <1>1, <1>2, InExpandFound, GrownWhole
<1>4. Grown(out, jTemp, j + 1, shape, jTemp[j])
  BY <1>1, <1>2, InExpandFound, GrownWhole
<1> QED BY <1>1, <1>3, <1>4, ExpandStepFound

LEMMA ExpandSplitInFound == IInv /\ FoundInv /\ ExpandSplitIn => FoundInv'
<1> SUFFICES ASSUME IInv, FoundInv, ExpandSplitIn PROVE FoundInv'
  OBVIOUS
<1> DEFINE q == iTemp[i] \div jTemp[j]
<1>1. /\ pc = "expand" /\ i <= Len(in) /\ j <= Len(out)
      /\ in' = in /\ out' = out /\ pc' = pc /\ shape' = Append(shape, jTemp[j])
      /\ iTemp' = [iTemp EXCEPT ![i] = q] /\ i' = i /\ jTemp' = jTemp /\ j' = j + 1
  BY DEF ExpandSplitIn, InExpandLoop
<1> HIDE DEF q
<1>2. i \in 1..Len(in) /\ j \in 1..Len(out)
  BY <1>1, InExpandFound
<1>3. jTemp[j] \in Positive
  BY <1>1, <1>2, InExpandFound
<1>4. Grown(in, [iTemp EXCEPT ![i] = q], i, shape, jTemp[j])
  BY <1>1, <1>2, <1>3, InExpandFound, GrownPart
<1>5. Grown(out, jTemp, j + 1, shape, jTemp[j])
  BY <1>1, <1>2, InExpandFound, GrownWhole
<1> QED BY <1>1, <1>4, <1>5, ExpandStepFound

LEMMA ExpandSplitOutFound == IInv /\ FoundInv /\ ExpandSplitOut => FoundInv'
<1> SUFFICES ASSUME IInv, FoundInv, ExpandSplitOut PROVE FoundInv'
  OBVIOUS
<1> DEFINE q == jTemp[j] \div iTemp[i]
<1>1. /\ pc = "expand" /\ i <= Len(in) /\ j <= Len(out)
      /\ in' = in /\ out' = out /\ pc' = pc /\ shape' = Append(shape, iTemp[i])
      /\ jTemp' = [jTemp EXCEPT ![j] = q] /\ j' = j /\ iTemp' = iTemp /\ i' = i + 1
  BY DEF ExpandSplitOut, InExpandLoop
<1> HIDE DEF q
<1>2. i \in 1..Len(in) /\ j \in 1..Len(out)
  BY <1>1, InExpandFound
<1>3. iTemp[i] \in Positive
  BY <1>1, <1>2, InExpandFound
<1>4. Grown(out, [jTemp EXCEPT ![j] = q], j, shape, iTemp[i])
  BY <1>1, <1>2, <1>3, InExpandFound, GrownPart
<1>5. Grown(in, iTemp, i + 1, shape, iTemp[i])
  BY <1>1, <1>2, InExpandFound, GrownWhole
<1> QED BY <1>1, <1>4, <1>5, ExpandStepFound

LEMMA StartCollapseFound == IInv /\ FoundInv /\ pc = "expand" /\ StartCollapse => FoundInv'
<1> SUFFICES ASSUME IInv, FoundInv, pc = "expand", StartCollapse PROVE FoundInv'
  OBVIOUS
<1>1. /\ in' = in /\ out' = out /\ pc' = "collapse" /\ shape' = << >> /\ i' = 1 /\ j' = 1
  BY DEF StartCollapse
<1>2. << >> \in Seq(Positive) /\ Len(<< >>) = 0 /\ 1 - 1 = 0
  OBVIOUS
<1>3. Covers(<< >>, 0, in, 0) /\ Covers(<< >>, 0, out, 0)
  BY <1>2, InExpandFound, CutStarts
<1>4. /\ Covers(shape', Len(shape'), in', i' - 1) /\ Covers(shape', Len(shape'), out', j' - 1)
  BY <1>1, <1>2, <1>3
<1>5. CollapseCovers'
  BY <1>4 DEF CollapseCovers, Covers, IsCut, Leading
<1>6. ExpandCovers' /\ ShapeRefines'
  BY <1>1 DEF ExpandCovers, ShapeRefines
<1> QED BY <1>1, <1>5, <1>6, InExpandFound, SearchGoesOn

(* One of the two shapes is used up where the loop ends, and a shape that  *)
(* is used up has no extents 1 left.                                       *)
LEMMA ExpandFoundFound == IInv /\ FoundInv /\ ExpandFound => FoundInv'
<1> SUFFICES ASSUME IInv, FoundInv, ExpandFound PROVE FoundInv'
  OBVIOUS
<1>1. /\ pc = "expand" /\ in' = in /\ out' = out /\ pc' = "emit_expand"
      /\ SkipUnits(iTemp, i) = Len(in) + 1 /\ SkipUnits(jTemp, j) = Len(out) + 1
      /\ ~ (i <= Len(in) /\ j <= Len(out))
      /\ shape' = shape \o Ones(SkipUnits(iTemp, i) - i) \o Ones(SkipUnits(jTemp, j) - j)
  BY DEF ExpandFound, AtExpandEnd, EndI, EndJ, Ones
<1> DEFINE a == Len(in) + 1 - i
           b == Len(out) + 1 - j
           fi == shape \o Ones(a)
           fj == shape \o Ones(b)
<1>2. /\ in \in Seq(Positive) /\ out \in Seq(Positive) /\ shape \in Seq(Positive)
      /\ i \in 1..(Len(in) + 1) /\ j \in 1..(Len(out) + 1)
  BY <1>1, InExpandFound
<1>3. shape' = shape \o Ones(a) \o Ones(b)
  <2>1. SkipUnits(iTemp, i) - i = a /\ SkipUnits(jTemp, j) - j = b
    BY <1>1, <1>2
  <2> HIDE DEF a, b
  <2> QED BY <1>1, <2>1
<1>4. a = 0 \/ b = 0
  BY <1>1, <1>2
<1>5. Ones(0) = << >>
  BY DEF Ones
<1>6. /\ fi \in Seq(Positive) /\ Covers(in, Len(in), fi, Len(fi))
      /\ NumElements(fi) = NumElements(in) /\ NumElements(shape) = NumElements(in)
  <2>1. /\ iTemp \in Seq(Positive) /\ Len(iTemp) = Len(in) /\ Untouched(iTemp, in, i)
        /\ NumElements(shape) * Rest(iTemp, i) = NumElements(in)
        /\ Covers(in, i - 1, shape, Len(shape)) /\ SkipUnits(iTemp, i) = Len(in) + 1
    BY <1>1, InExpandFound
  <2> QED BY <1>2, <2>1, UnitsCover
<1>7. /\ fj \in Seq(Positive) /\ Covers(out, Len(out), fj, Len(fj))
      /\ NumElements(fj) = NumElements(out) /\ NumElements(shape) = NumElements(out)
  <2>1. /\ jTemp \in Seq(Positive) /\ Len(jTemp) = Len(out) /\ Untouched(jTemp, out, j)
        /\ NumElements(shape) * Rest(jTemp, j) = NumElements(out)
        /\ Covers(out, j - 1, shape, Len(shape)) /\ SkipUnits(jTemp, j) = Len(out) + 1
    BY <1>1, InExpandFound
  <2> QED BY <1>2, <2>1, UnitsCover
<1>8. Refines(in, shape') /\ Refines(out, shape')
  <2>1. CASE b = 0
    <3>1. fj = shape /\ shape' = fi
      <4>1. fj = shape \o << >> /\ shape' = fi \o << >>
        BY <1>3, <1>5, <2>1
      <4> HIDE DEF fi, fj
      <4> QED BY <1>2, <1>6, <4>1
    <3>2. \A k \in 1..Len(shape) : shape[k] = fi[k]
      BY <1>2
    <3>3. Len(fi) \in Len(shape)..Len(fi) /\ Len(shape) \in 0..Len(shape) /\ Len(out) \in Nat
      BY <1>2, <1>6
    <3> HIDE DEF fi, fj
    <3>4. Covers(out, Len(out), fi, Len(fi))
      BY <1>2, <1>6, <1>7, <3>1, <3>2, <3>3, CutStays
    <3> QED BY <1>6, <1>7, <3>1, <3>4 DEF Refines
  <2>2. CASE a = 0
    <3>1. fi = shape /\ shape' = fj
      <4>1. fi = shape \o << >> /\ shape' = (shape \o << >>) \o Ones(b)
        BY <1>3, <1>5, <2>2
      <4>2. shape \o << >> = shape
        BY <1>2
      <4> QED BY <4>1, <4>2
    <3>2. \A k \in 1..Len(shape) : shape[k] = fj[k]
      BY <1>2
    <3>3. Len(fj) \in Len(shape)..Len(fj) /\ Len(shape) \in 0..Len(shape) /\ Len(in) \in Nat
      BY <1>2, <1>7
    <3> HIDE DEF fi, fj
    <3>4. Covers(in, Len(in), fj, Len(fj))
      BY <1>2, <1>6, <1>7, <3>1, <3>2, <3>3, CutStays
    <3> QED BY <1>6, <1>7, <3>1, <3>4 DEF Refines
  <2> QED BY <1>4, <2>1, <2>2
<1> HIDE DEF a, b, fi, fj
<1>9. ShapeRefines'
  BY <1>1, <1>8 DEF ShapeRefines, Refines, Covers, IsCut, Leading
<1>10. ExpandCovers' /\ CollapseCovers'
  BY <1>1 DEF ExpandCovers, CollapseCovers
<1> QED BY <1>1, <1>9, <1>10, InExpandFound, SearchGoesOn

(* Both reassociations exist, are found without a fault and are accepted.  *)
LEMMA EmitExpandCollapseFound == IInv /\ FoundInv /\ EmitExpandCollapse => FoundInv'
<1> SUFFICES ASSUME IInv, FoundInv, EmitExpandCollapse PROVE FoundInv'
  OBVIOUS
<1> DEFINE src == ComputeReassociation(in, shape)
           tgt == ComputeReassociation(out, shape)
<1>1. /\ in \in Seq(Positive) /\ out \in Seq(Positive) /\ shape \in Seq(Positive)
      /\ pc = "emit_expand" /\ in' = in /\ out' = out
  BY DEF IInv, TypeOK, EmitExpandCollapse, Positive
<1>2. in # out /\ DirectReassociations(in, out) = {} /\ Refines(in, shape) /\ Refines(out, shape)
  BY <1>1 DEF FoundInv, SearchIsNeeded, ShapeRefines
<1>3. Len(in) < Len(shape) /\ Len(in) # 0 /\ Len(out) < Len(shape) /\ Len(out) # 0
  BY <1>1, <1>2, ExpandedIsHigher
<1>4. NumElements(shape) < IntModulus \div 2
  BY <1>2, CountFits DEF Refines
<1>5. /\ ~ src.fault /\ ValidReassociation(in, shape, src.groups)
      /\ ~ tgt.fault /\ ValidReassociation(out, shape, tgt.groups)
  BY <1>1, <1>2, <1>3, <1>4, ReassociationIsValid
<1>6. /\ pc' = "done"
      /\ emitted' = << Expand(in, shape, src.groups), Collapse(shape, out, tgt.groups) >>
  BY <1>5 DEF EmitExpandCollapse
<1> HIDE DEF src, tgt
<1>7. LoweringIsValid'
  <2> DEFINE a == Expand(in, shape, src.groups)
             b == Collapse(shape, out, tgt.groups)
  <2>1. /\ a.op = "expand_shape" /\ a.from = in /\ a.to = shape /\ a.groups = src.groups
        /\ b.op = "collapse_shape" /\ b.from = shape /\ b.to = out /\ b.groups = tgt.groups
    BY DEF Expand, Collapse
  <2>2. ValidOp(a) /\ ValidOp(b)
    BY <1>5, <2>1 DEF ValidOp
  <2>3. emitted' = << a, b >>
    BY <1>6
  <2> HIDE DEF a, b
  <2> QED BY <1>1, <2>1, <2>2, <2>3, TwoOperations
<1> QED BY <1>1, <1>6, <1>7, DoneFound

(* What the steps of the collapse search start from.                       *)
LEMMA InCollapseFound ==
    ASSUME IInv, FoundInv, pc = "collapse"
    PROVE  /\ in \in Seq(Positive) /\ out \in Seq(Positive) /\ shape \in Seq(Positive)
           /\ i \in 1..(Len(in) + 1) /\ j \in 1..(Len(out) + 1)
           /\ iMux \in Positive /\ jMux \in Positive
           /\ NumElements(shape) * (iMux * Rest(in, i)) = NumElements(in)
           /\ NumElements(shape) * (jMux * Rest(out, j)) = NumElements(out)
           /\ Covers(shape, Len(shape), in, i - 1) /\ Covers(shape, Len(shape), out, j - 1)
           /\ in # out /\ DirectReassociations(in, out) = {}
<1>1. /\ in \in Seq(Positive) /\ out \in Seq(Positive) /\ shape \in Seq(Positive)
      /\ i \in 1..(Len(in) + 1) /\ j \in 1..(Len(out) + 1)
      /\ iMux \in Positive /\ jMux \in Positive
  BY DEF IInv, TypeOK, Positive
<1>2. /\ NumElements(shape) * (iMux * Rest(in, i)) = NumElements(in)
      /\ NumElements(shape) * (jMux * Rest(out, j)) = NumElements(out)
  BY BalanceAsRest DEF IInv
<1>3. Covers(shape, Len(shape), in, i - 1) /\ Covers(shape, Len(shape), out, j - 1)
  BY DEF FoundInv, CollapseCovers
<1>4. in # out /\ DirectReassociations(in, out) = {}
  BY DEF FoundInv, SearchIsNeeded
<1> QED BY <1>1, <1>2, <1>3, <1>4

LEMMA CollapseStepFound == IInv /\ FoundInv /\ CollapseStep => FoundInv'
<1> SUFFICES ASSUME IInv, FoundInv, CollapseStep PROVE FoundInv'
  OBVIOUS
<1> DEFINE takeOut == iMux >= jMux
           mi == IF takeOut THEN iMux ELSE iMux * in[i]
           mj == IF takeOut THEN jMux * out[j] ELSE jMux
           ni == IF takeOut THEN i ELSE i + 1
           nj == IF takeOut THEN j + 1 ELSE j
<1>1. pc = "collapse" /\ pc' = "collapse" /\ in' = in /\ out' = out
      /\ i <= Len(in) /\ j <= Len(out)
  BY DEF CollapseStep
<1>2. IF mi = mj /\ mi # 1
      THEN shape' = Append(shape, mi) /\ i' = SkipUnits(in, ni) /\ j' = SkipUnits(out, nj)
      ELSE shape' = shape /\ i' = ni /\ j' = nj
  BY DEF CollapseStep
<1>3. i \in 1..Len(in) /\ j \in 1..Len(out)
  BY <1>1, InCollapseFound
<1>4. Taken(in, i, iMux, ni, mi) /\ i <= ni /\ ni \in i..(Len(in) + 1)
  BY <1>1, <1>3, InCollapseFound, TakeNext
<1>5. Taken(out, j, jMux, nj, mj) /\ j <= nj /\ nj \in j..(Len(out) + 1)
  BY <1>1, <1>3, InCollapseFound, TakeNext
<1> HIDE DEF mi, mj, ni, nj
<1>6. /\ Covers(shape', Len(shape'), in, i' - 1) /\ Covers(shape', Len(shape'), out, j' - 1)
  <2>1. CASE mi = mj /\ mi # 1
    <3>1. Covers(Append(shape, mi), Len(Append(shape, mi)), in, SkipUnits(in, ni) - 1)
      BY <1>1, <1>4, <2>1, InCollapseFound, MeetCovers
    <3>2. Covers(Append(shape, mj), Len(Append(shape, mj)), out, SkipUnits(out, nj) - 1)
      BY <1>1, <1>5, <2>1, InCollapseFound, MeetCovers
    <3> QED BY <1>2, <2>1, <3>1, <3>2
  <2>2. CASE ~ (mi = mj /\ mi # 1)
    <3>1. Covers(shape, Len(shape), in, ni - 1)
      BY <1>1, <1>4, InCollapseFound, LookCovers
    <3>2. Covers(shape, Len(shape), out, nj - 1)
      BY <1>1, <1>5, InCollapseFound, LookCovers
    <3> QED BY <1>2, <2>2, <3>1, <3>2
  <2> QED BY <2>1, <2>2
<1>7. CollapseCovers'
  BY <1>1, <1>6 DEF CollapseCovers, Covers, IsCut, Leading
<1>8. ExpandCovers' /\ ShapeRefines'
  BY <1>1 DEF ExpandCovers, ShapeRefines
<1> QED BY <1>1, <1>7, <1>8, InCollapseFound, SearchGoesOn

(* What is left joins the last extent of the common shape.  Where nothing  *)
(* but extents 1 is left there is none to add.                             *)
LEMMA LastCovers ==
    ASSUME NEW f \in Seq(Positive), NEW s \in Seq(Positive), NEW k \in 1..(Len(s) + 1),
           NEW mux \in Positive, NEW last, last = mux * Rest(s, k), NEW g,
           g = IF last # 1 THEN Append(f, last) ELSE f,
           NumElements(f) * last = NumElements(s),
           Covers(f, Len(f), s, k - 1)
    PROVE  Refines(g, s)
<1>1. Rest(s, k) \in Positive /\ last \in Positive
  BY RestType, PositiveProduct
<1>2. Rest(s, Len(s) + 1) = 1
  <2>1. s \in Seq(Nat)
    BY DEF Positive
  <2> QED BY <2>1, NumElementsBehind DEF Rest
<1>3. NumElements(f) \in Nat
  <2>1. f \in Seq(Nat)
    BY DEF Positive
  <2> QED BY <2>1, NumElementsType
<1>4. CASE last # 1
  <2>1. Taken(s, k, mux, Len(s) + 1, last)
    <3>1. Len(s) + 1 \in 1..(Len(s) + 1) /\ last * 1 = last
      BY <1>1 DEF Positive
    <3> QED BY <1>1, <1>2, <3>1 DEF Taken
  <2>2. NumElements(f) * (mux * Rest(s, k)) = NumElements(s) /\ k <= Len(s) + 1
    OBVIOUS
  <2>3. Covers(Append(f, last), Len(Append(f, last)), s, SkipUnits(s, Len(s) + 1) - 1)
    BY <1>4, <2>1, <2>2, MeetCovers
  <2>4. SkipUnits(s, Len(s) + 1) - 1 = Len(s)
    <3>1. Len(s) + 1 \in 1..(Len(s) + 1) /\ Len(s) \in Nat
      OBVIOUS
    <3>2. SkipUnits(s, Len(s) + 1) \in (Len(s) + 1)..(Len(s) + 1)
      BY <3>1, SkipUnitsFacts
    <3> QED BY <3>1, <3>2
  <2>5. NumElements(Append(f, last)) = NumElements(f) * last
    <3>1. f \in Seq(Nat) /\ last \in Nat
      BY <1>1 DEF Positive
    <3> QED BY <3>1, NumElementsAppend
  <2> QED BY <1>4, <2>3, <2>4, <2>5 DEF Refines
<1>5. CASE last = 1
  <2>1. Len(s) + 1 \in k..(Len(s) + 1) /\ (Len(s) + 1) - 1 = Len(s)
    OBVIOUS
  <2>2. Covers(f, Len(f), s, Len(s))
    BY <2>1, LookCovers
  <2> QED BY <1>3, <1>5, <2>2 DEF Refines
<1> QED BY <1>4, <1>5

LEMMA RefinesBoth ==
    ASSUME pc' = "emit_collapse", in' = in, out' = out,
           Refines(shape', in), Refines(shape', out)
    PROVE  ShapeRefines'
<1>1. Refines(shape', in') /\ Refines(shape', out')
  OBVIOUS
<1>2. Refines(shape, in)' /\ Refines(shape, out)'
  BY <1>1 DEF Refines, Covers, IsCut, Leading
<1>3. pc' # "emit_expand"
  OBVIOUS
<1> QED BY <1>2, <1>3 DEF ShapeRefines

LEMMA CollapseFoundFound == IInv /\ FoundInv /\ CollapseFound => FoundInv'
<1> SUFFICES ASSUME IInv, FoundInv, CollapseFound PROVE FoundInv'
  OBVIOUS
<1>1. /\ pc = "collapse" /\ in' = in /\ out' = out /\ pc' = "emit_collapse" /\ LastI = LastJ
      /\ shape' = IF LastI # 1 THEN Append(shape, LastI) ELSE shape
  BY DEF CollapseFound, AtCollapseEnd
<1>2. LastI = iMux * Rest(in, i) /\ LastJ = jMux * Rest(out, j)
  BY DEF LastI, LastJ, Rest
<1>3. Refines(shape', in)
  BY <1>1, <1>2, InCollapseFound, LastCovers
<1>4. Refines(shape', out)
  BY <1>1, <1>2, InCollapseFound, LastCovers
<1>5. ShapeRefines'
  BY <1>1, <1>3, <1>4, RefinesBoth
<1>6. ExpandCovers' /\ CollapseCovers'
  BY <1>1 DEF ExpandCovers, CollapseCovers
<1> QED BY <1>1, <1>5, <1>6, InCollapseFound, SearchGoesOn

LEMMA CollapseMismatchFound == IInv /\ FoundInv /\ CollapseMismatch => FoundInv'
<1> SUFFICES ASSUME IInv, FoundInv, CollapseMismatch PROVE FoundInv'
  OBVIOUS
<1>1. pc = "collapse" /\ in' = in /\ out' = out /\ pc' = "match_failure"
  BY DEF CollapseMismatch, AtCollapseEnd
<1>2. ExpandCovers' /\ CollapseCovers' /\ ShapeRefines'
  BY <1>1 DEF ExpandCovers, CollapseCovers, ShapeRefines
<1> QED BY <1>1, <1>2, InCollapseFound, SearchGoesOn

LEMMA EmitCollapseExpandFound == IInv /\ FoundInv /\ EmitCollapseExpand => FoundInv'
<1> SUFFICES ASSUME IInv, FoundInv, EmitCollapseExpand PROVE FoundInv'
  OBVIOUS
<1> DEFINE src == ComputeReassociation(shape, in)
           tgt == ComputeReassociation(shape, out)
<1>1. /\ in \in Seq(Positive) /\ out \in Seq(Positive) /\ shape \in Seq(Positive)
      /\ pc = "emit_collapse" /\ in' = in /\ out' = out
  BY DEF IInv, TypeOK, EmitCollapseExpand, Positive
<1>2. in # out /\ DirectReassociations(in, out) = {} /\ Refines(shape, in) /\ Refines(shape, out)
  BY <1>1 DEF FoundInv, SearchIsNeeded, ShapeRefines
<1>3. Len(shape) < Len(in) /\ Len(shape) < Len(out) /\ Len(shape) # 0
  BY <1>1, <1>2, CollapsedIsLower
<1>4. NumElements(in) < IntModulus \div 2 /\ NumElements(out) < IntModulus \div 2
  BY <1>2, CountFits DEF Refines
<1>5. /\ ~ src.fault /\ ValidReassociation(shape, in, src.groups)
      /\ ~ tgt.fault /\ ValidReassociation(shape, out, tgt.groups)
  BY <1>1, <1>2, <1>3, <1>4, ReassociationIsValid
<1>6. /\ pc' = "done"
      /\ emitted' = << Collapse(in, shape, src.groups), Expand(shape, out, tgt.groups) >>
  BY <1>5 DEF EmitCollapseExpand
<1> HIDE DEF src, tgt
<1>7. LoweringIsValid'
  <2> DEFINE a == Collapse(in, shape, src.groups)
             b == Expand(shape, out, tgt.groups)
  <2>1. /\ a.op = "collapse_shape" /\ a.from = in /\ a.to = shape /\ a.groups = src.groups
        /\ b.op = "expand_shape" /\ b.from = shape /\ b.to = out /\ b.groups = tgt.groups
    BY DEF Expand, Collapse
  <2>2. ValidOp(a) /\ ValidOp(b)
    BY <1>5, <2>1 DEF ValidOp
  <2>3. emitted' = << a, b >>
    BY <1>6
  <2> HIDE DEF a, b
  <2> QED BY <1>1, <2>1, <2>2, <2>3, TwoOperations
<1> QED BY <1>1, <1>6, <1>7, DoneFound

LEMMA StutterFound == FoundInv /\ UNCHANGED vars => FoundInv'
<1> SUFFICES ASSUME FoundInv, UNCHANGED vars PROVE FoundInv'
  OBVIOUS
<1>1. /\ in' = in /\ out' = out /\ pc' = pc /\ i' = i /\ j' = j /\ iTemp' = iTemp
      /\ jTemp' = jTemp /\ shape' = shape /\ emitted' = emitted
  BY DEF vars, search
<1>2. ExpandCovers'
  BY <1>1 DEF FoundInv, ExpandCovers, Covers, IsCut, Leading, Untouched
<1>3. CollapseCovers'
  BY <1>1 DEF FoundInv, CollapseCovers, Covers, IsCut, Leading
<1>4. ShapeRefines'
  BY <1>1 DEF FoundInv, ShapeRefines, Refines, Covers, IsCut, Leading
<1>5. LoweringIsValid'
  BY <1>1 DEF FoundInv, LoweringIsValid, ValidOp
<1>6. ProductsFit(<< in, out >>)' /\ SearchIsNeeded' /\ NothingEmitted' /\ NeverUndefined'
  BY <1>1 DEF FoundInv, SearchIsNeeded, NothingEmitted, NeverUndefined
<1> QED BY <1>2, <1>3, <1>4, <1>5, <1>6 DEF FoundInv

LEMMA NextFound == IInv /\ FoundInv /\ [Next]_vars => FoundInv'
<1> SUFFICES ASSUME IInv, FoundInv, [Next]_vars PROVE FoundInv'
  OBVIOUS
<1>1. CASE ExpandGiveUp \/ ExpandFail
  BY <1>1, StartCollapseFound DEF ExpandGiveUp, ExpandFail, InExpandLoop, AtExpandEnd
<1> QED BY <1>1, ForwardFound, DirectFound, NotDirectFound, ExpandEqualFound,
        ExpandSplitInFound, ExpandSplitOutFound, ExpandFoundFound, EmitExpandCollapseFound,
        CollapseStepFound, CollapseMismatchFound, CollapseFoundFound, EmitCollapseExpandFound,
        StutterFound DEF Next

(* Both invariants hold wherever the counts that agree fit an int.         *)
THEOREM FoundInvariance ==
    ASSUME \A r \in Reshapes : ProductsFit(r)
    PROVE  Spec => []FoundInv
<1>1. Init => FoundInv
  BY InitFound
<1>2. IInv /\ FoundInv /\ [Next]_vars => FoundInv'
  BY NextFound
<1> QED BY <1>1, <1>2, Invariance, PTL DEF Spec

(* Whatever replaces the reshape leads from its operand shape to its       *)
(* result shape, and the tensor dialect accepts every operation of it      *)
(* (LoweringIsValid): for shapes of every rank whose count, where it       *)
(* agrees, fits the int computeReassociation multiplies in.                *)
THEOREM LoweringCorrect ==
    ASSUME \A r \in Reshapes : ProductsFit(r)
    PROVE  Spec => []LoweringIsValid
<1>1. FoundInv => LoweringIsValid
  BY DEF FoundInv
<1> QED BY FoundInvariance, <1>1, PTL

(* computeReassociation reaches neither llvm_unreachable nor the back of   *)
(* an empty vector (NeverUndefined), under the same condition.             *)
THEOREM UnreachableIsUnreached ==
    ASSUME \A r \in Reshapes : ProductsFit(r)
    PROVE  Spec => []NeverUndefined
<1>1. FoundInv => NeverUndefined
  BY DEF FoundInv
<1> QED BY FoundInvariance, <1>1, PTL
=============================================================================
