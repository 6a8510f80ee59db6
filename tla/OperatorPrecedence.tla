-------------------------- MODULE OperatorPrecedence --------------------------
(***************************************************************************)
(* parseBinOpRHS, on an expression whose operands all parse: frames are    *)
(* its recursive calls, with the exprPrec they were given and the tree     *)
(* they have so far.  A tree is named by the position of the operator at   *)
(* its root, 0 being a single operand, and node holds its two subtrees.    *)
(***************************************************************************)
EXTENDS Integers, Sequences, SequencesExt, FiniteSets

CONSTANT MaxOperators    \* bound on the operators of the expression
ASSUME MaxOperatorsAssumption == MaxOperators \in Nat

VARIABLES
    ops,       \* the operators of the expression, in the order of the input
    pos,       \* how many of them have been consumed
    frames,
    node,      \* the operators merged so far, with their subtrees
    result     \* the frames have all returned

vars == << ops, pos, frames, node, result >>

(* getTokPrecedence                                                        *)
Precedence ==
    [op \in {"+", "-", "*", "/", "@"} |->
        IF op \in {"+", "-"} THEN 20 ELSE IF op \in {"*", "/"} THEN 40 ELSE 50]

(* Faulty: 0 for what is no operator.                                      *)
FaultyPrecedenceAt(k) == IF k \in DOMAIN ops THEN Precedence[ops[k]] ELSE 0

(* Whatever follows the expression has the precedence -1.                  *)
PrecedenceAt(k) == IF k \in DOMAIN ops THEN Precedence[ops[k]] ELSE -1

Top == Last(frames)

(* parseExpression calls parseBinOpRHS(0, lhs).                            *)
Init ==
    /\ ops \in UNION {[1..n -> DOMAIN Precedence] : n \in 0..MaxOperators}
    /\ pos = 0
    /\ frames = << [exprPrec |-> 0, lhs |-> 0, op |-> 0] >>
    /\ node = << >>
    /\ result = FALSE

(* Faulty: only the end of the expression ends a call.                     *)
FaultyLeaves == ~ result /\ pos = Len(ops)

(* The loop of the innermost call takes the next operator, or leaves it.   *)
Takes  == ~ result /\ PrecedenceAt(pos + 1) >= Top.exprPrec
Leaves == ~ result /\ PrecedenceAt(pos + 1) < Top.exprPrec
NextBindsTighter == PrecedenceAt(pos + 1) < PrecedenceAt(pos + 2)

Merged(op, lhs, rhs) == Append(node, [op |-> op, left |-> lhs, right |-> rhs])

(* The operator after the next operand does not bind tighter: merge.       *)
Merge ==
    /\ Takes /\ ~ NextBindsTighter
    /\ pos' = pos + 1
    /\ node' = Merged(pos + 1, Top.lhs, 0)
    /\ frames' = [frames EXCEPT ![Len(frames)].lhs = pos + 1]
    /\ UNCHANGED << ops, result >>

(* Faulty: operators of the same precedence are left to the inner call.    *)
FaultyInnerPrec(tokPrec) == tokPrec

(* The inner call takes what binds tighter than this operator.             *)
InnerPrec(tokPrec) == tokPrec + 1

(* It does: the operand becomes the lhs of an inner call.                  *)
Descend ==
    /\ Takes /\ NextBindsTighter
    /\ pos' = pos + 1
    /\ frames' = Append([frames EXCEPT ![Len(frames)].op = pos + 1],
                        [exprPrec |-> InnerPrec(PrecedenceAt(pos + 1)), lhs |-> 0, op |-> 0])
    /\ UNCHANGED << ops, node, result >>

(* Faulty: the inner tree takes the place of the merged one.               *)
FaultyResume(frame, rhs) == [frame EXCEPT !.lhs = rhs, !.op = 0]

(* The call goes on with the merged tree.                                  *)
Resume(frame, rhs) == [frame EXCEPT !.lhs = frame.op, !.op = 0]

(* The innermost call returns its tree, which the call around it merges.   *)
Return ==
    /\ Leaves
    /\ IF Len(frames) = 1
       THEN result' = TRUE /\ UNCHANGED << frames, node >>
       ELSE LET outer == Front(frames) IN
            /\ node' = Merged(Last(outer).op, Last(outer).lhs, Top.lhs)
            /\ frames' = Append(Front(outer), Resume(Last(outer), Top.lhs))
            /\ UNCHANGED result
    /\ UNCHANGED << ops, pos >>

Next == Merge \/ Descend \/ Return

Spec == Init /\ [][Next]_vars /\ WF_vars(Next)

-----------------------------------------------------------------------------
(* Trees and frames name operators that have been consumed.                *)
Consumed == 0..pos
TypeOK ==
    /\ ops \in Seq(DOMAIN Precedence)
    /\ pos \in 0..Len(ops)
    /\ frames # << >>
    /\ frames \in Seq([exprPrec : Nat, lhs : Consumed, op : Consumed])
    /\ node \in Seq([op : Consumed \ {0}, left : Consumed, right : Consumed])
    /\ result \in BOOLEAN

(* Operators that bind tighter are further down, and those that bind       *)
(* equally associate to the left, whatever surrounds them.                 *)
PrecedenceRespected ==
    \A k \in DOMAIN node :
        LET n == node[k] IN
        /\ n.left # 0 => n.left < n.op /\ PrecedenceAt(n.left) >= PrecedenceAt(n.op)
        /\ n.right # 0 => n.right > n.op /\ PrecedenceAt(n.right) > PrecedenceAt(n.op)

(* The result is one tree with every operator of the expression in it, and *)
(* no operand is lost: each operator but the root has one place.           *)
ResultIsWhole ==
    result =>
        /\ {node[k].op : k \in DOMAIN node} = DOMAIN ops /\ Len(node) = Len(ops)
        /\ \A o \in DOMAIN ops :
              Cardinality({k \in DOMAIN node : node[k].left = o})
                + Cardinality({k \in DOMAIN node : node[k].right = o})
              = IF o = Top.lhs THEN 0 ELSE 1

(* The parse of every expression returns.                                  *)
Terminates == <>result
=============================================================================
