------------------------------- MODULE Inliner -------------------------------
(***************************************************************************)
(* Inlining a toy.generic_call, as ToyInlinerInterface directs it.         *)
(***************************************************************************)
EXTENDS Canonicalize

(* The block arguments; they come first.                                   *)
Formals(f) == {v \in DOMAIN f : f[v].kind = "arg"}

(* inlineCall gives up when the numbers of arguments differ (external).    *)
Inlinable(p, o, f) == p[o].kind = "generic_call" /\ Len(p[o].args) = Cardinality(Formals(f))

(* Every formal is unranked: an actual that is not needs a conversion.     *)
NeedsCast(p, o, k) == IsRanked(p[p[o].args[k]].type)

(* The body p with the call o replaced by casts of the actuals             *)
(* (materializeCallConversion) and the operations of f; what f returns     *)
(* takes the place of the result of the call (handleTerminator).           *)
InlineCall(p, o, f) ==
    LET n     == Cardinality(Formals(f))
        args  == p[o].args
        cast  == FlattenSeq([k \in 1..n |-> IF NeedsCast(p, o, k) THEN << k >> ELSE << >>])
        casts == [c \in DOMAIN cast |-> Op("cast", << args[cast[c]] >>, Unranked)]
        first == o + Len(cast)             \* where the first operation of f goes
        NewName(v) ==
            CASE v > n                            -> first + (v - n) - 1
              [] v \in 1..n /\ NeedsCast(p, o, v) -> o - 1 + CHOOSE c \in DOMAIN cast : cast[c] = v
              [] OTHER                            -> args[v]
        body  == SubSeq(RenameUses(f, NewName), n + 1, Len(f) - 1)
        more  == Len(casts) + Len(body) - 1
        rest  == RenameUses(p, LAMBDA a : IF a = o THEN NewName(Last(f).args[1])
                                  ELSE IF a > o THEN a + more ELSE a)
    IN  SubSeq(p, 1, o - 1) \o casts \o body \o SubSeq(rest, o + 1, Len(p))
=============================================================================
