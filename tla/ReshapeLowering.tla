---------------------------- MODULE ReshapeLowering ----------------------------
(***************************************************************************)
(* ReshapeOpLowering of the linalg pass: one toy.reshape from shape in to  *)
(* shape out becomes nothing, one tensor.collapse_shape or expand_shape,   *)
(* an expand followed by a collapse, or a collapse followed by an expand.  *)
(* The two searches for an intermediate shape (getExpandUnionPoint and     *)
(* getCollapseUnionPoint) are stepped through one loop iteration at a      *)
(* time; indices count from 1.                                             *)
(*                                                                         *)
(* A reassociation lists, for every extent of the shape of lower rank, the *)
(* positions of the extents of the other shape that make it up.            *)
(***************************************************************************)
EXTENDS ToyDialect

CONSTANT Reshapes     \* << in, out >>: static shapes, no extent is 0

ASSUME ReshapesAssumption ==
    \A r \in Reshapes : r[1] \in Seq(Nat \ {0}) /\ r[2] \in Seq(Nat \ {0})

(* No product overflows an int while a reshape between equal counts is     *)
(* lowered: they do not exceed the count.                                  *)
ProductsFit(r) ==
    NumElements(r[1]) = NumElements(r[2]) => NumElements(r[1]) < IntModulus \div 2

VARIABLES
    in, out,        \* the operand and the result shape
    pc,             \* the search that is running, or how the pattern ended
    i, j,           \* positions in the two shapes
    iTemp, jTemp,   \* expand search: what is left of each extent
    iMux, jMux,     \* collapse search: products since the last common point
    shape,          \* the intermediate shape found so far
    emitted         \* the operations that replace the reshape

search == << i, j, iTemp, jTemp, iMux, jMux, shape >>
vars == << in, out, pc, search, emitted >>

-----------------------------------------------------------------------------
(* Faulty: skips the first extent without looking at it.                   *)
FaultySkipUnits(s, k) == Min({n \in (k + 1)..Len(s) : s[n] # 1} \cup {Len(s) + 2})

(* The first position from k on whose extent is not 1.                     *)
SkipUnits(s, k) == Min({n \in k..Len(s) : s[n] # 1} \cup {Len(s) + 1})

(* The last position of the group that makes up n, from position k on.     *)
GroupEnd(high, k, n) ==
    IF n = high[k] THEN k
    ELSE Min({m \in k..Len(high) : IntProduct(SubSeq(high, k, m)) >= n}
             \cup {Len(high)})

(* The groups that end at the given positions.                             *)
Groups(ends) ==
    [g \in DOMAIN ends |->
        LET first == IF g = 1 THEN 1 ELSE ends[g - 1] + 1
        IN  [k \in 1..(ends[g] - first + 1) |-> first + k - 1]]

(* Where the group of each extent of the low shape ends, behind a group    *)
(* that ends at e: nothing is added once the high shape is used up.        *)
EndsBehind(low, high) ==
    [e \in 0..Len(high) |-> [g \in 1..Len(low) |->
        IF e = Len(high) THEN e ELSE GroupEnd(high, e + 1, low[g])]]

(* The loop of computeReassociation: where the groups end.                 *)
GroupEnds(low, high) ==
    LET behind == EndsBehind(low, high)
        end[g \in 0..Len(low)] == IF g = 0 THEN 0 ELSE behind[end[g - 1]][g]
    IN  end

(* Faulty: the extents 1 at the end of the high shape join no group.       *)
FaultyComputeReassociation(low, high) ==
    LET end == GroupEnds(low, high)
        n   == Cardinality({g \in 1..Len(low) : end[g] > end[g - 1]})
    IN  [fault  |-> \E g \in 1..n : low[g] < high[end[g - 1] + 1],
         groups |-> Groups([g \in 1..n |-> end[g]])]

(* computeReassociation.  The extents 1 left over join the last group.     *)
(* fault stands for llvm_unreachable, met when an extent of the low shape  *)
(* is smaller than the next one of the high shape, and for ret.back() of   *)
(* an empty vector.                                                        *)
ComputeReassociation(low, high) ==
    LET end  == GroupEnds(low, high)
        n    == Cardinality({g \in 1..Len(low) : end[g] > end[g - 1]})
        last == SkipUnits(high, end[n] + 1) - 1
    IN  [fault  |-> \/ \E g \in 1..n : low[g] < high[end[g - 1] + 1]
                    \/ n = 0 /\ last > 0,
         groups |-> Groups([g \in 1..n |-> IF g = n THEN last ELSE end[g]])]

-----------------------------------------------------------------------------
(* What the tensor dialect demands of expand_shape and collapse_shape: the *)
(* ranks differ, the groups are contiguous and cover the higher shape, and *)
(* the extents of a group multiply to the extent they are folded into.     *)
ValidReassociation(low, high, groups) ==
    /\ Len(low) < Len(high)
    /\ Len(groups) = Len(low)
    /\ \A g \in DOMAIN groups : groups[g] # << >>
    /\ \A g \in DOMAIN groups :
          NumElements([k \in DOMAIN groups[g] |-> high[groups[g][k]]]) = low[g]
    /\ IF low = << >> THEN \A k \in DOMAIN high : high[k] = 1
                      ELSE FlattenSeq(groups) = [k \in DOMAIN high |-> k]

(* getReassociationIndicesForReshape (MLIR): the groups that fold the      *)
(* shape of higher rank into the other one, if there are any.              *)
DirectReassociations(a, b) ==
    LET low  == IF Len(a) < Len(b) THEN a ELSE b
        high == IF Len(a) < Len(b) THEN b ELSE a
    IN  {g \in {Groups(ends) : ends \in [1..Len(low) -> 1..Len(high)]} :
            ValidReassociation(low, high, g)}

Expand(from, to, r)   == [op |-> "expand_shape", from |-> from, to |-> to, groups |-> r]
Collapse(from, to, r) == [op |-> "collapse_shape", from |-> from, to |-> to, groups |-> r]

-----------------------------------------------------------------------------
(* The verifier has accepted the reshape.                                  *)
Init ==
    /\ \E r \in Reshapes :
          /\ Verifies("reshape", << r[1] >>, r[2])
          /\ in = r[1] /\ out = r[2]
    /\ pc = "match"
    /\ i = 1 /\ j = 1 /\ iTemp = in /\ jTemp = out
    /\ iMux = 1 /\ jMux = 1 /\ shape = << >>
    /\ emitted = << >>

(* Identical types: the operand replaces the reshape.                      *)
Forward ==
    /\ pc = "match" /\ in = out
    /\ pc' = "done"
    /\ UNCHANGED << in, out, search, emitted >>

(* One collapse or one expand is enough.                                   *)
Direct ==
    /\ pc = "match" /\ in # out
    /\ \E r \in DirectReassociations(in, out) :
          emitted' = << IF Len(in) > Len(out) THEN Collapse(in, out, r)
                                              ELSE Expand(in, out, r) >>
    /\ pc' = "done"
    /\ UNCHANGED << in, out, search >>

NotDirect ==
    /\ pc = "match" /\ in # out /\ DirectReassociations(in, out) = {}
    /\ pc' = "expand"
    /\ UNCHANGED << in, out, search, emitted >>

(* getExpandUnionPoint, the loop: split off the smaller extent where it    *)
(* divides the larger one.                                                 *)
InExpandLoop == pc = "expand" /\ i <= Len(in) /\ j <= Len(out)

ExpandEqual ==
    /\ InExpandLoop /\ iTemp[i] = jTemp[j]
    /\ shape' = Append(shape, iTemp[i])
    /\ i' = i + 1 /\ j' = j + 1
    /\ UNCHANGED << in, out, pc, iTemp, jTemp, iMux, jMux, emitted >>

ExpandSplitIn ==
    /\ InExpandLoop /\ iTemp[i] > jTemp[j] /\ iTemp[i] % jTemp[j] = 0
    /\ shape' = Append(shape, jTemp[j])
    /\ iTemp' = [iTemp EXCEPT ![i] = @ \div jTemp[j]]
    /\ j' = j + 1
    /\ UNCHANGED << in, out, pc, i, jTemp, iMux, jMux, emitted >>

ExpandSplitOut ==
    /\ InExpandLoop /\ iTemp[i] < jTemp[j] /\ jTemp[j] % iTemp[i] = 0
    /\ shape' = Append(shape, iTemp[i])
    /\ jTemp' = [jTemp EXCEPT ![j] = @ \div iTemp[i]]
    /\ i' = i + 1
    /\ UNCHANGED << in, out, pc, j, iTemp, iMux, jMux, emitted >>

(* Faulty: the expand search is tried again.                               *)
FaultyStartCollapse ==
    /\ i' = 1 /\ j' = 1 /\ shape' = << >> /\ iTemp' = in /\ jTemp' = out
    /\ UNCHANGED << in, out, pc, iMux, jMux, emitted >>

(* No common refinement: start the other search from the beginning.        *)
StartCollapse ==
    /\ pc' = "collapse"
    /\ i' = 1 /\ j' = 1 /\ shape' = << >>
    /\ UNCHANGED << in, out, iTemp, jTemp, iMux, jMux, emitted >>

ExpandGiveUp ==
    /\ InExpandLoop
    /\ iTemp[i] % jTemp[j] # 0 /\ jTemp[j] % iTemp[i] # 0
    /\ StartCollapse

(* One shape is used up.  Extents 1 left in the other are kept; anything   *)
(* else left means there is no union point.                                *)
AtExpandEnd == pc = "expand" /\ ~ (i <= Len(in) /\ j <= Len(out))
EndI == SkipUnits(iTemp, i)
EndJ == SkipUnits(jTemp, j)

ExpandFail ==
    /\ AtExpandEnd /\ (EndI # Len(in) + 1 \/ EndJ # Len(out) + 1)
    /\ StartCollapse

(* The intermediate shape is found.                                        *)
ExpandFound ==
    /\ AtExpandEnd /\ EndI = Len(in) + 1 /\ EndJ = Len(out) + 1
    /\ i' = EndI /\ j' = EndJ
    /\ shape' = shape \o [k \in 1..(EndI - i) |-> 1] \o [k \in 1..(EndJ - j) |-> 1]
    /\ pc' = "emit_expand"
    /\ UNCHANGED << in, out, iTemp, jTemp, iMux, jMux, emitted >>

(* Faulty: the reassociation is computed with its two shapes swapped.      *)
FaultyEmitExpandCollapse ==
    /\ pc = "emit_expand"
    /\ LET src == ComputeReassociation(shape, in)
           tgt == ComputeReassociation(out, shape)
       IN  IF src.fault \/ tgt.fault
           THEN pc' = "undefined" /\ UNCHANGED emitted
           ELSE /\ pc' = "done"
                /\ emitted' = << Expand(in, shape, src.groups),
                                 Collapse(shape, out, tgt.groups) >>
    /\ UNCHANGED << in, out, search >>

(* Compute both reassociations and emit the pair of operations.            *)
EmitExpandCollapse ==
    /\ pc = "emit_expand"
    /\ LET src == ComputeReassociation(in, shape)
           tgt == ComputeReassociation(out, shape)
       IN  IF src.fault \/ tgt.fault
           THEN pc' = "undefined" /\ UNCHANGED emitted
           ELSE /\ pc' = "done"
                /\ emitted' = << Expand(in, shape, src.groups),
                                 Collapse(shape, out, tgt.groups) >>
    /\ UNCHANGED << in, out, search >>

-----------------------------------------------------------------------------
(* Faulty: the products are not reset where they meet.                     *)
FaultyCollapseStep ==
    /\ pc = "collapse" /\ i <= Len(in) /\ j <= Len(out)
    /\ LET takeOut == iMux >= jMux
           mi == IF takeOut THEN iMux ELSE iMux * in[i]
           mj == IF takeOut THEN jMux * out[j] ELSE jMux
       IN  /\ i' = (IF takeOut THEN i ELSE i + 1) /\ j' = (IF takeOut THEN j + 1 ELSE j)
           /\ iMux' = mi /\ jMux' = mj
           /\ shape' = IF mi = mj /\ mi # 1 THEN Append(shape, mi) ELSE shape
    /\ UNCHANGED << in, out, pc, iTemp, jTemp, emitted >>

(* getCollapseUnionPoint, the loop: the side that is behind takes its next *)
(* extent; where the products meet, an extent of the common shape is       *)
(* complete, the extents 1 that follow are swallowed, the products reset.  *)
CollapseStep ==
    /\ pc = "collapse" /\ i <= Len(in) /\ j <= Len(out)
    /\ LET takeOut == iMux >= jMux
           mi == IF takeOut THEN iMux ELSE iMux * in[i]
           mj == IF takeOut THEN jMux * out[j] ELSE jMux
           ni == IF takeOut THEN i ELSE i + 1
           nj == IF takeOut THEN j + 1 ELSE j
       IN  IF mi = mj /\ mi # 1
           THEN /\ shape' = Append(shape, mi)
                /\ i' = SkipUnits(in, ni) /\ j' = SkipUnits(out, nj)
                /\ iMux' = 1 /\ jMux' = 1
           ELSE /\ i' = ni /\ j' = nj /\ iMux' = mi /\ jMux' = mj
                /\ UNCHANGED shape
    /\ UNCHANGED << in, out, pc, iTemp, jTemp, emitted >>

(* Faulty: what is left of the operand shape is dropped.                   *)
FaultyLastI == iMux

(* The loop is over: what is left of either shape joins the open product.  *)
AtCollapseEnd == pc = "collapse" /\ ~ (i <= Len(in) /\ j <= Len(out))
LastI == iMux * NumElements(SubSeq(in, i, Len(in)))
LastJ == jMux * NumElements(SubSeq(out, j, Len(out)))

(* "The total number of output and input elements does not match."         *)
CollapseMismatch ==
    /\ AtCollapseEnd /\ LastI # LastJ
    /\ pc' = "match_failure"
    /\ UNCHANGED << in, out, search, emitted >>

CollapseFound ==
    /\ AtCollapseEnd /\ LastI = LastJ
    /\ shape' = IF LastI # 1 THEN Append(shape, LastI) ELSE shape
    /\ i' = Len(in) + 1 /\ j' = Len(out) + 1 /\ iMux' = LastI /\ jMux' = LastJ
    /\ pc' = "emit_collapse"
    /\ UNCHANGED << in, out, iTemp, jTemp, emitted >>

EmitCollapseExpand ==
    /\ pc = "emit_collapse"
    /\ LET src == ComputeReassociation(shape, in)
           tgt == ComputeReassociation(shape, out)
       IN  IF src.fault \/ tgt.fault
           THEN pc' = "undefined" /\ UNCHANGED emitted
           ELSE /\ pc' = "done"
                /\ emitted' = << Collapse(in, shape, src.groups),
                                 Expand(shape, out, tgt.groups) >>
    /\ UNCHANGED << in, out, search >>

Next ==
    \/ Forward \/ Direct \/ NotDirect
    \/ ExpandEqual \/ ExpandSplitIn \/ ExpandSplitOut \/ ExpandGiveUp
    \/ ExpandFail \/ ExpandFound \/ EmitExpandCollapse
    \/ CollapseStep \/ CollapseMismatch \/ CollapseFound \/ EmitCollapseExpand

Spec == Init /\ [][Next]_vars /\ WF_vars(Next)

Ended == pc \in {"done", "match_failure", "undefined"}

-----------------------------------------------------------------------------
(* The positions stay within the shapes (or just behind them), and every   *)
(* extent and product is a positive number.                                *)
TypeOK ==
    /\ in \in Seq(Nat \ {0}) /\ out \in Seq(Nat \ {0})
    /\ pc \in {"match", "expand", "emit_expand", "collapse", "emit_collapse",
              "done", "match_failure", "undefined"}
    /\ i \in 1..(Len(in) + 1) /\ j \in 1..(Len(out) + 1)
    /\ iTemp \in Seq(Nat \ {0}) /\ Len(iTemp) = Len(in)
    /\ jTemp \in Seq(Nat \ {0}) /\ Len(jTemp) = Len(out)
    /\ iMux \in Nat \ {0} /\ jMux \in Nat \ {0}
    /\ shape \in Seq(Nat \ {0})

(* While a search runs, the shape found so far times what is left of       *)
(* either side is the whole tensor: a split or an open product of the      *)
(* expand or the collapse search loses no element.                         *)
SearchesAreBalanced ==
    /\ pc = "expand" =>
          /\ NumElements(shape) * NumElements(SubSeq(iTemp, i, Len(in))) = NumElements(in)
          /\ NumElements(shape) * NumElements(SubSeq(jTemp, j, Len(out))) = NumElements(out)
    /\ pc = "collapse" =>
          /\ NumElements(shape) * LastI = NumElements(in)
          /\ NumElements(shape) * LastJ = NumElements(out)

(* The operations emitted lead from the operand shape to the result shape, *)
(* and the tensor dialect accepts each of them: no extent is lost, merged  *)
(* with a stranger or folded to the wrong size.                            *)
ValidOp(o) ==
    IF o.op = "expand_shape" THEN ValidReassociation(o.from, o.to, o.groups)
                             ELSE ValidReassociation(o.to, o.from, o.groups)

LoweringIsValid ==
    pc = "done" =>
        LET n == Len(emitted) IN
        /\ \A k \in 1..n : ValidOp(emitted[k])
        /\ \A k \in 1..(n - 1) : emitted[k].to = emitted[k + 1].from
        /\ IF n = 0 THEN in = out ELSE emitted[1].from = in /\ emitted[n].to = out

(* Neither llvm_unreachable ("cannot be here") nor ret.back() of an empty  *)
(* vector is reached.                                                      *)
NeverUndefined == pc # "undefined"

(* A reshape between shapes of the same count is always lowered: one of    *)
(* the searches finds an intermediate shape.  With LoweringIsValid, what   *)
(* the verifier's overflow lets through is refused here, never lowered.    *)
SameCountIsLowered == pc = "match_failure" => NumElements(in) # NumElements(out)

(* Both searches end.                                                      *)
Terminates == <>Ended

(* The verifier accepts a static reshape only between shapes of the same   *)
(* element count.                                                          *)
VerifiedSameCount == NumElements(in) = NumElements(out)
=============================================================================
