----------------------- MODULE OperatorPrecedenceProofs -----------------------
(***************************************************************************)
(* Theorems about OperatorPrecedence, for expressions of every length.     *)
(***************************************************************************)
EXTENDS OperatorPrecedence, FiniteSetTheorems, TLAPS

(* A frame whose tree is not empty has only merged what it may take.       *)
TreesBelongToFrames ==
    \A d \in DOMAIN frames :
        frames[d].lhs # 0 => PrecedenceAt(frames[d].lhs) >= frames[d].exprPrec

(* A call that waits has an operator in hand: its own tree is before it    *)
(* and binds at least as tight, and the inner call takes what comes behind *)
(* it and binds tighter.                                                   *)
CallsAreNested ==
    \A d \in 1..(Len(frames) - 1) :
        LET f == frames[d]
            g == frames[d + 1]
        IN  /\ f.op # 0 /\ PrecedenceAt(f.op) >= f.exprPrec
            /\ f.lhs # 0 => f.lhs < f.op /\ PrecedenceAt(f.lhs) >= PrecedenceAt(f.op)
            /\ g.exprPrec = PrecedenceAt(f.op) + 1
            /\ g.lhs # 0 => g.lhs > f.op
            /\ g.op # 0 => g.op > f.op

(* What comes next does not bind tighter than the tree it would extend.    *)
NextExtendsTop == Top.lhs # 0 => PrecedenceAt(Top.lhs) >= PrecedenceAt(pos + 1)

IInv ==
    /\ TypeOK /\ PrecedenceRespected
    /\ TreesBelongToFrames /\ CallsAreNested /\ NextExtendsTop

IsMerged(o) == \E k \in DOMAIN node : node[k].op = o
IsInHand(o) == \E d \in DOMAIN frames : frames[d].op = o
IsChild(o)  == \E k \in DOMAIN node : node[k].left = o \/ node[k].right = o
IsTree(o)   == \E d \in DOMAIN frames : frames[d].lhs = o

(* Only calls that wait have an operator in hand, each one of its own, and *)
(* the outermost call takes whatever is an operator.                       *)
HandsDiffer ==
    /\ Top.op = 0 /\ frames[1].exprPrec = 0
    /\ \A d, e \in 1..(Len(frames) - 1) : frames[d].op = frames[e].op => d = e

(* An operator that has been consumed is in hand or merged, and not both.  *)
NoneIsDropped ==
    /\ Len(node) + Len(frames) = pos + 1
    /\ \A o \in 1..pos : IsMerged(o) <=> ~ IsInHand(o)

(* No tree is the operand of two others, or of one and held by a call.     *)
PlacesDiffer ==
    /\ \A k, l \in DOMAIN node :
          /\ node[k].left # 0 => node[k].left # node[l].right
          /\ node[k].left # 0 /\ node[k].left = node[l].left => k = l
          /\ node[k].right # 0 /\ node[k].right = node[l].right => k = l
    /\ \A d \in DOMAIN frames : frames[d].lhs # 0 => ~ IsChild(frames[d].lhs)
    /\ \A d, e \in DOMAIN frames : frames[d].lhs # 0 /\ frames[d].lhs = frames[e].lhs => d = e

(* What has been merged, and nothing else, is an operand or held.          *)
TreesAreKept == \A o \in 1..pos : IsMerged(o) <=> IsChild(o) \/ IsTree(o)

(* The last call leaves the loop behind the last operator.                 *)
ResultIsLast == result => Len(frames) = 1 /\ pos = Len(ops)

WholeInv == HandsDiffer /\ NoneIsDropped /\ PlacesDiffer /\ TreesAreKept /\ ResultIsLast

Frame == [exprPrec : Nat, lhs : Consumed, op : Consumed]
Node  == [op : Consumed \ {0}, left : Consumed, right : Consumed]

-----------------------------------------------------------------------------
(* Only an operator has a precedence of 0 or more.                         *)
LEMMA PrecedenceFacts ==
    ASSUME TypeOK, NEW k \in Int
    PROVE  /\ PrecedenceAt(k) \in Int
           /\ PrecedenceAt(k) >= 0 => k \in 1..Len(ops)
<1>1. CASE k \in 1..Len(ops)
  <2>1. ops[k] \in DOMAIN Precedence
    BY <1>1 DEF TypeOK
  <2>2. Precedence[ops[k]] \in Int
    BY <2>1 DEF Precedence
  <2> QED BY <1>1, <2>2 DEF PrecedenceAt, TypeOK
<1>2. CASE k \notin 1..Len(ops)
  BY <1>2 DEF PrecedenceAt, TypeOK
<1> QED BY <1>1, <1>2

(* What the invariant says of the innermost call.                          *)
LEMMA TopFacts ==
    ASSUME IInv
    PROVE  /\ Len(frames) \in Nat \ {0} /\ Top = frames[Len(frames)]
           /\ Top \in Frame /\ pos \in Nat
           /\ Top.lhs # 0 => PrecedenceAt(Top.lhs) >= Top.exprPrec
<1>1. frames \in Seq(Frame) /\ frames # << >> /\ pos \in Nat
  BY DEF IInv, TypeOK, Frame
<1>2. Len(frames) \in Nat \ {0} /\ Top = frames[Len(frames)] /\ Top \in Frame
  BY <1>1 DEF Top, Last
<1> QED BY <1>1, <1>2 DEF IInv, TreesBelongToFrames

(* An operator that is taken is one of the expression.                     *)
LEMMA TakenIsOperator ==
    ASSUME IInv, Takes
    PROVE  pos + 1 \in 1..Len(ops)
<1>1. PrecedenceAt(pos + 1) >= 0
  <2>1. PrecedenceAt(pos + 1) >= Top.exprPrec /\ Top.exprPrec \in Nat
    BY TopFacts DEF Takes, Frame
  <2>2. TypeOK /\ pos + 1 \in Int
    BY TopFacts DEF IInv
  <2>3. PrecedenceAt(pos + 1) \in Int
    BY <2>2, PrecedenceFacts
  <2> QED BY <2>1, <2>3
<1>2. TypeOK /\ pos + 1 \in Int
  BY TopFacts DEF IInv
<1> QED BY <1>1, <1>2, PrecedenceFacts

-----------------------------------------------------------------------------
(* parseExpression starts with one call, an empty tree and precedence 0.   *)
LEMMA InitInv == Init => IInv
<1> SUFFICES ASSUME Init PROVE IInv
  OBVIOUS
<1>1. ops \in Seq(DOMAIN Precedence)
  BY DEF Init
<1>2. /\ pos = 0 /\ node = << >>
      /\ frames = << [exprPrec |-> 0, lhs |-> 0, op |-> 0] >>
      /\ result \in BOOLEAN
  BY DEF Init
<1>3. TypeOK
  BY <1>1, <1>2 DEF TypeOK, Consumed
<1>4. PrecedenceRespected
  BY <1>2 DEF PrecedenceRespected
<1>5. TreesBelongToFrames /\ CallsAreNested /\ NextExtendsTop
  BY <1>2 DEF TreesBelongToFrames, CallsAreNested, NextExtendsTop, Top, Last
<1> QED BY <1>3, <1>4, <1>5 DEF IInv

(* Appending a node that keeps the order keeps PrecedenceRespected.        *)
LEMMA NodeAppended ==
    ASSUME IInv, ops' = ops, pos' \in Nat, pos <= pos',
           NEW n \in [op : 1..pos', left : 0..pos', right : 0..pos'],
           node' = Append(node, n),
           n.left # 0 => n.left < n.op /\ PrecedenceAt(n.left) >= PrecedenceAt(n.op),
           n.right # 0 => n.right > n.op /\ PrecedenceAt(n.right) > PrecedenceAt(n.op)
    PROVE  node' \in Seq(Node') /\ PrecedenceRespected'
<1>1. node \in Seq(Node) /\ pos \in Nat
  BY DEF IInv, TypeOK, Node
<1>2. node \in Seq(Node')
  <2>1. Node \subseteq Node'
    BY <1>1 DEF Node, Consumed
  <2> QED BY <1>1, <2>1
<1>3. n \in Node'
  BY DEF Node, Consumed
<1>4. node' \in Seq(Node')
  BY <1>2, <1>3
<1>5. /\ Len(node') = Len(node) + 1 /\ Len(node) \in Nat
      /\ \A k \in 1..Len(node) : node'[k] = node[k]
      /\ node'[Len(node) + 1] = n
  BY <1>2
<1>6. \A k : PrecedenceAt(k)' = PrecedenceAt(k)
  BY DEF PrecedenceAt
<1>7. PrecedenceRespected'
  <2> SUFFICES ASSUME NEW k \in 1..Len(node')
               PROVE  LET m == node'[k] IN
                      /\ m.left # 0 => m.left < m.op /\ PrecedenceAt(m.left) >= PrecedenceAt(m.op)
                      /\ m.right # 0 => m.right > m.op /\ PrecedenceAt(m.right) > PrecedenceAt(m.op)
    BY <1>4 DEF PrecedenceRespected, PrecedenceAt
  <2>1. CASE k \in 1..Len(node)
    BY <1>1, <1>5, <2>1 DEF IInv, PrecedenceRespected
  <2>2. CASE k = Len(node) + 1
    BY <1>5, <2>2
  <2> QED BY <1>5, <2>1, <2>2
<1> QED BY <1>4, <1>7

(* What the three actions share: the operators stay, and the invariant of  *)
(* the frames says nothing but numbers.                                    *)
LEMMA Common ==
    ASSUME IInv, Next
    PROVE  /\ ops' = ops /\ ops \in Seq(DOMAIN Precedence)
           /\ \A k : PrecedenceAt(k)' = PrecedenceAt(k)
           /\ \A k \in Int : PrecedenceAt(k) \in Int
           /\ frames \in Seq(Frame)
           /\ pos \in 0..Len(ops) /\ Len(ops) \in Nat
<1>1. ops' = ops
  BY DEF Next, Merge, Descend, Return
<1>2. \A k : PrecedenceAt(k)' = PrecedenceAt(k)
  BY <1>1 DEF PrecedenceAt
<1>3. \A k \in Int : PrecedenceAt(k) \in Int
  BY PrecedenceFacts DEF IInv
<1> QED BY <1>1, <1>2, <1>3 DEF IInv, TypeOK, Frame

(* The frames after a merge in the loop.                                   *)
LEMMA MergeFrames ==
    ASSUME IInv, Merge
    PROVE  LET n == Len(frames)
               top == [exprPrec |-> Top.exprPrec, lhs |-> pos + 1, op |-> Top.op]
           IN  /\ n \in Nat \ {0} /\ Top = frames[n] /\ Top \in Frame
               /\ pos \in Nat /\ pos' = pos + 1 /\ pos + 1 \in 1..Len(ops)
               /\ Len(frames') = n /\ frames'[n] = top
               /\ \A d \in 1..(n - 1) : frames'[d] = frames[d]
               /\ DOMAIN frames' = 1..n /\ DOMAIN frames = 1..n
               /\ \A d \in 1..n : frames[d] \in Frame
               /\ frames' \in Seq(Frame \cup {top})
<1> DEFINE n == Len(frames)
           top == [exprPrec |-> Top.exprPrec, lhs |-> pos + 1, op |-> Top.op]
<1>1. /\ ops' = ops /\ ops \in Seq(DOMAIN Precedence)
      /\ \A k : PrecedenceAt(k)' = PrecedenceAt(k)
      /\ \A k \in Int : PrecedenceAt(k) \in Int
      /\ frames \in Seq(Frame)
  BY Common DEF Next
<1>2. /\ n \in Nat \ {0} /\ Top = frames[n] /\ Top \in Frame
      /\ pos \in Nat /\ pos' = pos + 1 /\ pos + 1 \in 1..Len(ops)
  BY TopFacts, TakenIsOperator DEF Merge
<1>3. /\ Len(frames') = n /\ frames'[n] = top
      /\ \A d \in 1..(n - 1) : frames'[d] = frames[d]
      /\ DOMAIN frames' = 1..n /\ DOMAIN frames = 1..n
      /\ \A d \in 1..n : frames[d] \in Frame
      /\ frames' \in Seq(Frame \cup {top})
  <2>1. [frames[n] EXCEPT !.lhs = pos + 1] = top
    BY <1>2 DEF Frame
  <2>2. frames' = [frames EXCEPT ![n] = [frames[n] EXCEPT !.lhs = pos + 1]]
    BY DEF Merge
  <2>3. frames' = [frames EXCEPT ![n] = top]
    BY <2>1, <2>2
  <2>4. frames' \in Seq(Frame \cup {top})
    BY <1>1, <1>2, <2>3
  <2> QED BY <1>1, <1>2, <2>3, <2>4
<1> QED BY <1>2, <1>3

(* Merging in the loop keeps the invariant.                                *)
LEMMA MergeInv ==
    ASSUME IInv, Merge
    PROVE  IInv'
<1> DEFINE n == Len(frames)
           top == [exprPrec |-> Top.exprPrec, lhs |-> pos + 1, op |-> Top.op]
<1>1. /\ ops' = ops /\ ops \in Seq(DOMAIN Precedence)
      /\ \A k : PrecedenceAt(k)' = PrecedenceAt(k)
      /\ \A k \in Int : PrecedenceAt(k) \in Int
      /\ frames \in Seq(Frame)
  BY Common DEF Next
<1>2. /\ n \in Nat \ {0} /\ Top = frames[n] /\ Top \in Frame
      /\ pos \in Nat /\ pos' = pos + 1 /\ pos + 1 \in 1..Len(ops)
  BY MergeFrames
<1>3. /\ Len(frames') = n /\ frames'[n] = top
      /\ \A d \in 1..(n - 1) : frames'[d] = frames[d]
      /\ DOMAIN frames' = 1..n /\ DOMAIN frames = 1..n
      /\ \A d \in 1..n : frames[d] \in Frame
      /\ frames' \in Seq(Frame \cup {top})
  BY MergeFrames
<1>4. /\ PrecedenceAt(pos + 1) >= Top.exprPrec
      /\ PrecedenceAt(pos + 2) <= PrecedenceAt(pos + 1)
      /\ Top.lhs # 0 => PrecedenceAt(Top.lhs) >= PrecedenceAt(pos + 1)
  <2>1. PrecedenceAt(pos + 1) \in Int /\ PrecedenceAt(pos + 2) \in Int
    BY <1>1, <1>2
  <2> QED BY <2>1 DEF Merge, Takes, NextBindsTighter, IInv, NextExtendsTop
<1>5. (node \in Seq(Node))' /\ PrecedenceRespected'
  <2> DEFINE new == [op |-> pos + 1, left |-> Top.lhs, right |-> 0]
  <2>1. new \in [op : 1..pos', left : 0..pos', right : 0..pos']
    BY <1>2 DEF Frame, Consumed
  <2>2. Top.lhs # 0 => Top.lhs < pos + 1
    BY <1>2 DEF Frame, Consumed
  <2>3. node' = Append(node, new)
    BY DEF Merge, Merged
  <2> HIDE DEF new
  <2>4. /\ new.left # 0 => new.left < new.op /\ PrecedenceAt(new.left) >= PrecedenceAt(new.op)
        /\ new.right # 0 => new.right > new.op /\ PrecedenceAt(new.right) > PrecedenceAt(new.op)
    BY <1>4, <2>2 DEF new
  <2>5. IInv /\ pos' \in Nat /\ pos <= pos'
    BY <1>2
  <2>6. node' \in Seq(Node') /\ PrecedenceRespected'
    BY <1>1, <2>1, <2>3, <2>4, <2>5, NodeAppended
  <2> QED BY <2>6
<1>6. TypeOK'
  <2>1. top \in Frame'
    BY <1>2 DEF Frame, Consumed
  <2>2. Frame \subseteq Frame'
    BY <1>2 DEF Frame, Consumed
  <2>4. frames' \in Seq(Frame') /\ frames' # << >>
    <3>1. frames' \in Seq(Frame \cup {top}) /\ Frame \cup {top} \subseteq Frame'
      BY <1>3, <2>1, <2>2
    <3> QED BY <1>2, <1>3, <3>1
  <2>5. result' \in BOOLEAN
    BY DEF Merge, IInv, TypeOK
  <2> QED BY <1>1, <1>2, <1>5, <2>4, <2>5 DEF TypeOK, Frame, Node
<1>7. TreesBelongToFrames'
  <2> SUFFICES ASSUME NEW d \in 1..n
               PROVE  frames'[d].lhs # 0 => PrecedenceAt(frames'[d].lhs) >= frames'[d].exprPrec
    BY <1>1, <1>3 DEF TreesBelongToFrames, PrecedenceAt
  <2>1. CASE d = n
    BY <1>3, <1>4, <2>1
  <2>2. CASE d # n
    <3>0. n \in Nat
      BY <1>2
    <3>1. d \in 1..(n - 1)
      BY <2>2, <3>0
    <3>2. frames'[d] = frames[d] /\ d \in DOMAIN frames
      BY <1>3, <3>1
    <3> QED BY <3>1, <3>2 DEF IInv, TreesBelongToFrames
  <2> QED BY <2>1, <2>2
<1>8. CallsAreNested'
  <2> SUFFICES ASSUME NEW d \in 1..(n - 1)
               PROVE  LET f == frames'[d]
                          g == frames'[d + 1]
                      IN  /\ f.op # 0 /\ PrecedenceAt(f.op) >= f.exprPrec
                          /\ f.lhs # 0 => f.lhs < f.op /\ PrecedenceAt(f.lhs) >= PrecedenceAt(f.op)
                          /\ g.exprPrec = PrecedenceAt(f.op) + 1
                          /\ g.lhs # 0 => g.lhs > f.op
                          /\ g.op # 0 => g.op > f.op
    BY <1>1, <1>3 DEF CallsAreNested, PrecedenceAt
  <2>1. d \in 1..n /\ frames'[d] = frames[d] /\ frames[d] \in Frame
    <3>1. d \in 1..n
      BY <1>2
    <3>2. frames'[d] = frames[d]
      BY <1>3
    <3>3. frames[d] \in Frame
      BY <1>3, <3>1
    <3> QED BY <3>1, <3>2, <3>3
  <2>2. CASE d + 1 = n
    <3>1. /\ frames'[d + 1] = top /\ frames[d + 1] = Top
          /\ frames[d].op \in 0..pos /\ pos \in Nat
      BY <1>2, <1>3, <2>1, <2>2 DEF Frame, Consumed
    <3>2. pos + 1 > frames[d].op
      BY <3>1
    <3> QED BY <2>1, <3>1, <3>2 DEF IInv, CallsAreNested
  <2>3. CASE d + 1 # n
    <3>1. frames'[d + 1] = frames[d + 1]
      <4>1. d + 1 \in 1..(n - 1)
        BY <1>2, <2>3
      <4> QED BY <1>3, <4>1
    <3> QED BY <2>1, <3>1 DEF IInv, CallsAreNested
  <2> QED BY <2>2, <2>3
<1>9. NextExtendsTop'
  BY <1>1, <1>2, <1>3, <1>4 DEF NextExtendsTop, Top, Last, PrecedenceAt
<1> QED BY <1>5, <1>6, <1>7, <1>8, <1>9 DEF IInv

(* The frames when an inner call begins.                                   *)
LEMMA DescendFrames ==
    ASSUME IInv, Descend
    PROVE  LET n == Len(frames)
               waiting == [exprPrec |-> Top.exprPrec, lhs |-> Top.lhs, op |-> pos + 1]
               inner == [exprPrec |-> PrecedenceAt(pos + 1) + 1, lhs |-> 0, op |-> 0]
           IN  /\ n \in Nat \ {0} /\ Top = frames[n] /\ Top \in Frame
               /\ pos \in Nat /\ pos' = pos + 1 /\ pos + 1 \in 1..Len(ops)
               /\ Len(frames') = n + 1 /\ frames'[n] = waiting /\ frames'[n + 1] = inner
               /\ \A d \in 1..(n - 1) : frames'[d] = frames[d]
               /\ DOMAIN frames' = 1..(n + 1) /\ DOMAIN frames = 1..n
               /\ \A d \in 1..n : frames[d] \in Frame
               /\ frames' \in Seq(Frame \cup {waiting, inner})
<1> DEFINE n == Len(frames)
           waiting == [exprPrec |-> Top.exprPrec, lhs |-> Top.lhs, op |-> pos + 1]
           inner == [exprPrec |-> PrecedenceAt(pos + 1) + 1, lhs |-> 0, op |-> 0]
<1>1. /\ ops' = ops /\ ops \in Seq(DOMAIN Precedence)
      /\ \A k : PrecedenceAt(k)' = PrecedenceAt(k)
      /\ \A k \in Int : PrecedenceAt(k) \in Int
      /\ frames \in Seq(Frame)
  BY Common DEF Next
<1>2. /\ n \in Nat \ {0} /\ Top = frames[n] /\ Top \in Frame
      /\ pos \in Nat /\ pos' = pos + 1 /\ pos + 1 \in 1..Len(ops)
  BY TopFacts, TakenIsOperator DEF Descend
<1>3. /\ Len(frames') = n + 1 /\ frames'[n] = waiting /\ frames'[n + 1] = inner
      /\ \A d \in 1..(n - 1) : frames'[d] = frames[d]
      /\ DOMAIN frames' = 1..(n + 1) /\ DOMAIN frames = 1..n
      /\ \A d \in 1..n : frames[d] \in Frame
      /\ frames' \in Seq(Frame \cup {waiting, inner})
  <2>1. [frames[n] EXCEPT !.op = pos + 1] = waiting
    BY <1>2 DEF Frame
  <2> DEFINE fs == [frames EXCEPT ![n] = waiting]
  <2>2. [frames EXCEPT ![n].op = pos + 1] = fs
    BY <2>1
  <2>3. frames' = Append(fs, inner)
    BY <2>2 DEF Descend, InnerPrec
  <2>4. /\ fs \in Seq(Frame \cup {waiting, inner}) /\ Len(fs) = n
        /\ fs[n] = waiting /\ \A d \in 1..(n - 1) : fs[d] = frames[d]
    BY <1>1, <1>2
  <2>5. n \in Nat /\ DOMAIN frames = 1..n /\ \A d \in 1..n : frames[d] \in Frame
    BY <1>1, <1>2
  <2> HIDE DEF fs, inner, waiting, n
  <2>6. /\ Len(frames') = n + 1 /\ frames'[n + 1] = inner
        /\ \A d \in 1..n : frames'[d] = fs[d]
        /\ frames' \in Seq(Frame \cup {waiting, inner})
    BY <2>3, <2>4, <2>5
  <2>7. DOMAIN frames' = 1..(n + 1)
    BY <2>6
  <2>8. n \in 1..n /\ \A d \in 1..(n - 1) : d \in 1..n
    BY <1>2
  <2> QED BY <2>4, <2>5, <2>6, <2>7, <2>8
<1> QED BY <1>2, <1>3

(* Leaving the operand to an inner call keeps the invariant.               *)
LEMMA DescendInv ==
    ASSUME IInv, Descend
    PROVE  IInv'
<1> DEFINE n == Len(frames)
           waiting == [exprPrec |-> Top.exprPrec, lhs |-> Top.lhs, op |-> pos + 1]
           inner == [exprPrec |-> PrecedenceAt(pos + 1) + 1, lhs |-> 0, op |-> 0]
<1>1. /\ ops' = ops /\ ops \in Seq(DOMAIN Precedence)
      /\ \A k : PrecedenceAt(k)' = PrecedenceAt(k)
      /\ \A k \in Int : PrecedenceAt(k) \in Int
      /\ frames \in Seq(Frame)
  BY Common DEF Next
<1>2. /\ n \in Nat \ {0} /\ Top = frames[n] /\ Top \in Frame
      /\ pos \in Nat /\ pos' = pos + 1 /\ pos + 1 \in 1..Len(ops)
  BY DescendFrames
<1>3. /\ Len(frames') = n + 1 /\ frames'[n] = waiting /\ frames'[n + 1] = inner
      /\ \A d \in 1..(n - 1) : frames'[d] = frames[d]
      /\ DOMAIN frames' = 1..(n + 1) /\ DOMAIN frames = 1..n
      /\ \A d \in 1..n : frames[d] \in Frame
      /\ frames' \in Seq(Frame \cup {waiting, inner})
  BY DescendFrames
<1>4. /\ PrecedenceAt(pos + 1) >= Top.exprPrec
      /\ Top.lhs # 0 => PrecedenceAt(Top.lhs) >= Top.exprPrec
      /\ Top.lhs # 0 => PrecedenceAt(Top.lhs) >= PrecedenceAt(pos + 1)
      /\ PrecedenceAt(pos + 1) \in Nat
  <2>1. PrecedenceAt(pos + 1) \in Int
    BY <1>1, <1>2
  <2>2. PrecedenceAt(pos + 1) >= Top.exprPrec
    BY DEF Descend, Takes
  <2>3. Top.exprPrec \in Nat
    BY <1>2 DEF Frame
  <2> QED BY <2>1, <2>2, <2>3, TopFacts DEF IInv, NextExtendsTop
<1>5. TypeOK' /\ PrecedenceRespected'
  <2>1. Frame \cup {waiting, inner} \subseteq Frame' /\ Node \subseteq Node'
    <3>1. Top.exprPrec \in Nat /\ Top.lhs \in 0..pos
      BY <1>2 DEF Frame, Consumed
    <3>2. waiting \in Frame' /\ inner \in Frame'
      BY <1>2, <1>4, <3>1 DEF Frame, Consumed
    <3>3. Frame \subseteq Frame'
      BY <1>2 DEF Frame, Consumed
    <3>4. Node \subseteq Node'
      BY <1>2 DEF Node, Consumed
    <3> QED BY <3>2, <3>3, <3>4
  <2>2. frames' \in Seq(Frame') /\ frames' # << >>
    BY <1>2, <1>3, <2>1
  <2>3. node \in Seq(Node) /\ node' = node /\ result' \in BOOLEAN
    BY DEF Descend, IInv, TypeOK, Node
  <2>4. node' \in Seq(Node')
    BY <2>1, <2>3
  <2>5. TypeOK'
    BY <1>1, <1>2, <2>2, <2>3, <2>4 DEF TypeOK, Frame, Node
  <2>6. PrecedenceRespected'
    BY <1>1, <2>3 DEF IInv, PrecedenceRespected, PrecedenceAt
  <2> QED BY <2>5, <2>6
<1>6. TreesBelongToFrames'
  <2> SUFFICES ASSUME NEW d \in 1..(n + 1)
               PROVE  frames'[d].lhs # 0 => PrecedenceAt(frames'[d].lhs) >= frames'[d].exprPrec
    BY <1>1, <1>3 DEF TreesBelongToFrames, PrecedenceAt
  <2>1. CASE d = n
    BY <1>3, <1>4, <2>1
  <2>2. CASE d = n + 1
    BY <1>3, <2>2
  <2>3. CASE d # n /\ d # n + 1
    <3>0. n \in Nat
      BY <1>2
    <3>1. d \in 1..(n - 1) /\ d \in DOMAIN frames
      BY <1>3, <2>3, <3>0
    <3>2. frames'[d] = frames[d]
      BY <1>3, <3>1
    <3> QED BY <3>1, <3>2 DEF IInv, TreesBelongToFrames
  <2> QED BY <2>1, <2>2, <2>3
<1>7. CallsAreNested'
  <2> SUFFICES ASSUME NEW d \in 1..n
               PROVE  LET f == frames'[d]
                          g == frames'[d + 1]
                      IN  /\ f.op # 0 /\ PrecedenceAt(f.op) >= f.exprPrec
                          /\ f.lhs # 0 => f.lhs < f.op /\ PrecedenceAt(f.lhs) >= PrecedenceAt(f.op)
                          /\ g.exprPrec = PrecedenceAt(f.op) + 1
                          /\ g.lhs # 0 => g.lhs > f.op
                          /\ g.op # 0 => g.op > f.op
    BY <1>1, <1>2, <1>3 DEF CallsAreNested, PrecedenceAt
  <2>0. n \in Nat
    BY <1>2
  <2>1. CASE d = n
    BY <1>2, <1>3, <1>4, <2>1 DEF Frame, Consumed
  <2>2. CASE d # n
    <3>1. d \in 1..(n - 1)
      BY <2>0, <2>2
    <3>2. frames'[d] = frames[d] /\ frames[d] \in Frame
      BY <1>3, <3>1
    <3>3. CASE d + 1 = n
      <4>1. /\ frames'[d + 1] = waiting /\ frames[d + 1] = Top
            /\ frames[d].op \in 0..pos
        BY <1>2, <1>3, <3>2, <3>3 DEF Frame, Consumed
      <4>2. pos + 1 > frames[d].op
        BY <1>2, <4>1
      <4> QED BY <3>1, <3>2, <4>1, <4>2 DEF IInv, CallsAreNested
    <3>4. CASE d + 1 # n
      <4>1. frames'[d + 1] = frames[d + 1]
        <5>1. d + 1 \in 1..(n - 1)
          BY <2>0, <3>1, <3>4
        <5> QED BY <1>3, <5>1
      <4> QED BY <3>1, <3>2, <4>1 DEF IInv, CallsAreNested
    <3> QED BY <3>3, <3>4
  <2> QED BY <2>1, <2>2
<1>8. NextExtendsTop'
  <2>1. Top'.lhs = 0
    BY <1>3 DEF Top, Last
  <2> QED BY <2>1 DEF NextExtendsTop
<1> QED BY <1>5, <1>6, <1>7, <1>8 DEF IInv

(* The call that resumes keeps its precedence.                             *)
LEMMA ResumedFrame ==
    ASSUME NEW frame \in Frame, NEW rhs
    PROVE  Resume(frame, rhs) = [exprPrec |-> frame.exprPrec, lhs |-> frame.op, op |-> 0]
<1> DEFINE e == frame.exprPrec
           o == frame.op
<1>1. frame = [exprPrec |-> e, lhs |-> frame.lhs, op |-> o]
  BY DEF Frame
<1> DEFINE merging == [frame EXCEPT !.lhs = o]
<1>2. merging = [exprPrec |-> e, lhs |-> o, op |-> o]
  BY <1>1
<1>3. Resume(frame, rhs) = [merging EXCEPT !.op = 0]
  BY DEF Resume
<1> HIDE DEF merging, e, o
<1>4. [merging EXCEPT !.op = 0] = [exprPrec |-> e, lhs |-> o, op |-> 0]
  BY <1>2
<1> QED BY <1>3, <1>4 DEF e, o

(* The frames when an inner call returns.                                  *)
LEMMA ReturnFrames ==
    ASSUME IInv, Return, Len(frames) # 1
    PROVE  LET n == Len(frames)
               f == frames[n - 1]
               g == frames[n]
               merged == [exprPrec |-> f.exprPrec, lhs |-> f.op, op |-> 0]
           IN  /\ n \in Nat \ {0, 1} /\ n - 1 \in 1..n /\ n - 1 \in 1..(n - 1)
               /\ Top = g /\ g \in Frame /\ f \in Frame
               /\ pos \in Nat /\ pos' = pos
               /\ Len(frames') = n - 1 /\ frames'[n - 1] = merged
               /\ \A d \in 1..(n - 2) : frames'[d] = frames[d]
               /\ DOMAIN frames' = 1..(n - 1) /\ DOMAIN frames = 1..n
               /\ \A d \in 1..n : frames[d] \in Frame
               /\ frames' \in Seq(Frame \cup {merged})
               /\ node' = Append(node, [op |-> f.op, left |-> f.lhs, right |-> g.lhs])
               /\ result' = result
<1> DEFINE n == Len(frames)
           f == frames[n - 1]
           g == frames[n]
           merged == [exprPrec |-> f.exprPrec, lhs |-> f.op, op |-> 0]
<1>1. /\ ops' = ops /\ ops \in Seq(DOMAIN Precedence)
      /\ \A k : PrecedenceAt(k)' = PrecedenceAt(k)
      /\ \A k \in Int : PrecedenceAt(k) \in Int
      /\ frames \in Seq(Frame)
  BY Common DEF Next
<1>2. /\ n \in Nat \ {0, 1} /\ n - 1 \in 1..n /\ n - 1 \in 1..(n - 1)
      /\ Top = g /\ g \in Frame /\ f \in Frame
      /\ pos \in Nat /\ pos' = pos
  <2>1. n \in Nat \ {0, 1} /\ Top = g /\ g \in Frame /\ pos \in Nat
    BY TopFacts
  <2>2. n - 1 \in 1..n /\ n - 1 \in 1..(n - 1)
    <3>1. n \in Nat /\ n # 0 /\ n # 1
      BY <2>1
    <3> HIDE DEF n
    <3> QED BY <3>1
  <2>3. f \in Frame
    BY <1>1, <2>2
  <2>4. pos' = pos
    BY DEF Return
  <2> QED BY <2>1, <2>2, <2>3, <2>4
<1>3. /\ Len(frames') = n - 1 /\ frames'[n - 1] = merged
      /\ \A d \in 1..(n - 2) : frames'[d] = frames[d]
      /\ DOMAIN frames' = 1..(n - 1) /\ DOMAIN frames = 1..n
      /\ \A d \in 1..n : frames[d] \in Frame
      /\ frames' \in Seq(Frame \cup {merged})
      /\ node' = Append(node, [op |-> f.op, left |-> f.lhs, right |-> g.lhs])
      /\ result' = result
  <2> DEFINE outer == Front(frames)
  <2>1. /\ outer \in Seq(Frame) /\ Len(outer) = n - 1
        /\ \A d \in 1..(n - 1) : outer[d] = frames[d]
    BY <1>1, <1>2 DEF Front
  <2>2. Last(outer) = f
    BY <1>2, <2>1 DEF Last
  <2>3. /\ frames' = Append(Front(outer), Resume(Last(outer), Top.lhs))
        /\ node' = Append(node, [op |-> Last(outer).op, left |-> Last(outer).lhs, right |-> Top.lhs])
        /\ result' = result
    BY DEF Return, Merged
  <2>4. Resume(f, g.lhs) = merged
    BY <1>2, ResumedFrame
  <2> DEFINE rest == Front(outer)
  <2>5. frames' = Append(rest, merged)
    BY <1>2, <2>2, <2>3, <2>4
  <2> HIDE DEF outer
  <2>6. /\ rest \in Seq(Frame) /\ Len(rest) = n - 2
        /\ \A d \in 1..(n - 2) : rest[d] = frames[d]
    BY <1>2, <2>1 DEF Front
  <2>7. /\ n \in Nat \ {0, 1} /\ DOMAIN frames = 1..n
        /\ \A d \in 1..n : frames[d] \in Frame
    BY <1>1, <1>2
  <2>8. node' = Append(node, [op |-> f.op, left |-> f.lhs, right |-> g.lhs])
    BY <1>2, <2>2, <2>3
  <2> HIDE DEF rest, merged, n
  <2>9. /\ Len(frames') = n - 1 /\ frames'[n - 1] = merged
        /\ \A d \in 1..(n - 2) : frames'[d] = frames[d]
        /\ frames' \in Seq(Frame \cup {merged})
    BY <2>5, <2>6, <2>7
  <2>10. DOMAIN frames' = 1..(n - 1)
    BY <2>9
  <2> QED BY <2>3, <2>7, <2>8, <2>9, <2>10
<1> QED BY <1>2, <1>3

(* The merge in the caller, when an inner call returns, keeps it.          *)
LEMMA ReturnInv ==
    ASSUME IInv, Return, Len(frames) # 1
    PROVE  IInv'
<1> DEFINE n == Len(frames)
           f == frames[n - 1]
           g == frames[n]
           merged == [exprPrec |-> f.exprPrec, lhs |-> f.op, op |-> 0]
<1>1. /\ ops' = ops /\ ops \in Seq(DOMAIN Precedence)
      /\ \A k : PrecedenceAt(k)' = PrecedenceAt(k)
      /\ \A k \in Int : PrecedenceAt(k) \in Int
      /\ frames \in Seq(Frame)
  BY Common DEF Next
<1>2. /\ n \in Nat \ {0, 1} /\ n - 1 \in 1..n /\ n - 1 \in 1..(n - 1)
      /\ Top = g /\ g \in Frame /\ f \in Frame
      /\ pos \in Nat /\ pos' = pos
  BY ReturnFrames
<1>3. /\ Len(frames') = n - 1 /\ frames'[n - 1] = merged
      /\ \A d \in 1..(n - 2) : frames'[d] = frames[d]
      /\ DOMAIN frames' = 1..(n - 1) /\ DOMAIN frames = 1..n
      /\ \A d \in 1..n : frames[d] \in Frame
      /\ frames' \in Seq(Frame \cup {merged})
      /\ node' = Append(node, [op |-> f.op, left |-> f.lhs, right |-> g.lhs])
      /\ result' = result
  BY ReturnFrames
<1>4. /\ f.op # 0 /\ PrecedenceAt(f.op) >= f.exprPrec
      /\ f.lhs # 0 => f.lhs < f.op /\ PrecedenceAt(f.lhs) >= PrecedenceAt(f.op)
      /\ g.exprPrec = PrecedenceAt(f.op) + 1
      /\ g.lhs # 0 => g.lhs > f.op
      /\ g.lhs # 0 => PrecedenceAt(g.lhs) >= g.exprPrec
      /\ PrecedenceAt(pos + 1) < g.exprPrec
  <2>1. (n - 1) + 1 = n
    BY <1>2
  <2>2. /\ f.op # 0 /\ PrecedenceAt(f.op) >= f.exprPrec
        /\ f.lhs # 0 => f.lhs < f.op /\ PrecedenceAt(f.lhs) >= PrecedenceAt(f.op)
        /\ g.exprPrec = PrecedenceAt(f.op) + 1
        /\ g.lhs # 0 => g.lhs > f.op
    BY <1>2, <2>1 DEF IInv, CallsAreNested
  <2>3. PrecedenceAt(pos + 1) < g.exprPrec
    BY <1>2 DEF Return, Leaves
  <2> QED BY <1>2, <2>2, <2>3, TopFacts
<1>5. node' \in Seq(Node') /\ PrecedenceRespected'
  <2> DEFINE new == [op |-> f.op, left |-> f.lhs, right |-> g.lhs]
  <2>1. /\ f.op \in 0..pos /\ f.lhs \in 0..pos /\ g.lhs \in 0..pos
        /\ f.exprPrec \in Nat /\ g.exprPrec \in Nat
    BY <1>2 DEF Frame, Consumed
  <2>2. f.op \in 1..pos'
    BY <1>2, <1>4, <2>1
  <2>3. new \in [op : 1..pos', left : 0..pos', right : 0..pos']
    BY <1>2, <2>1, <2>2
  <2>4. PrecedenceAt(f.op) \in Int /\ PrecedenceAt(g.lhs) \in Int
    <3>1. f.op \in Int /\ g.lhs \in Int
      BY <1>2, <2>1
    <3> QED BY <1>1, <3>1
  <2>5. g.lhs # 0 => g.lhs > f.op /\ PrecedenceAt(g.lhs) > PrecedenceAt(f.op)
    BY <1>4, <2>1, <2>4
  <2>6. node' = Append(node, new)
    BY <1>3
  <2>7. /\ new.op = f.op /\ new.left = f.lhs /\ new.right = g.lhs
        /\ IInv /\ pos' \in Nat /\ pos <= pos'
    BY <1>2
  <2> HIDE DEF new
  <2>8. /\ new.left # 0 => new.left < new.op /\ PrecedenceAt(new.left) >= PrecedenceAt(new.op)
        /\ new.right # 0 => new.right > new.op /\ PrecedenceAt(new.right) > PrecedenceAt(new.op)
    BY <1>4, <2>5, <2>7
  <2> QED BY <1>1, <2>3, <2>6, <2>7, <2>8, NodeAppended
<1>6. TypeOK'
  <2>1. Frame \cup {merged} \subseteq Frame'
    <3>1. f.exprPrec \in Nat /\ f.op \in 0..pos
      BY <1>2 DEF Frame, Consumed
    <3>2. merged \in Frame'
      BY <1>2, <3>1 DEF Frame, Consumed
    <3>3. Frame \subseteq Frame'
      BY <1>2 DEF Frame, Consumed
    <3> QED BY <3>2, <3>3
  <2>2. frames' \in Seq(Frame') /\ frames' # << >>
    BY <1>2, <1>3, <2>1
  <2>3. pos \in 0..Len(ops) /\ result \in BOOLEAN
    BY DEF IInv, TypeOK
  <2> QED BY <1>1, <1>2, <1>3, <1>5, <2>2, <2>3 DEF TypeOK, Frame, Node
<1>7. TreesBelongToFrames'
  <2> SUFFICES ASSUME NEW d \in 1..(n - 1)
               PROVE  frames'[d].lhs # 0 => PrecedenceAt(frames'[d].lhs) >= frames'[d].exprPrec
    BY <1>1, <1>3 DEF TreesBelongToFrames, PrecedenceAt
  <2>1. CASE d = n - 1
    BY <1>3, <1>4, <2>1
  <2>2. CASE d # n - 1
    <3>0. n \in Nat
      BY <1>2
    <3>1. d \in 1..(n - 2) /\ d \in 1..n
      BY <2>2, <3>0
    <3>2. frames'[d] = frames[d] /\ d \in DOMAIN frames
      BY <1>3, <3>1
    <3> QED BY <3>2 DEF IInv, TreesBelongToFrames
  <2> QED BY <2>1, <2>2
<1>8. CallsAreNested'
  <2> SUFFICES ASSUME NEW d \in 1..(n - 2)
               PROVE  LET e == frames'[d]
                          h == frames'[d + 1]
                      IN  /\ e.op # 0 /\ PrecedenceAt(e.op) >= e.exprPrec
                          /\ e.lhs # 0 => e.lhs < e.op /\ PrecedenceAt(e.lhs) >= PrecedenceAt(e.op)
                          /\ h.exprPrec = PrecedenceAt(e.op) + 1
                          /\ h.lhs # 0 => h.lhs > e.op
                          /\ h.op # 0 => h.op > e.op
    <3>1. (n - 1) - 1 = n - 2
      BY <1>2
    <3> QED BY <1>1, <1>3, <3>1 DEF CallsAreNested, PrecedenceAt
  <2>0. n \in Nat
    BY <1>2
  <2>1. d \in 1..(n - 1)
    BY <2>0
  <2>2. frames'[d] = frames[d]
    BY <1>3
  <2>3. CASE d + 1 = n - 1
    <3>1. frames'[d + 1] = merged /\ frames[d + 1] = f
      BY <1>3, <2>3
    <3> QED BY <1>4, <2>1, <2>2, <3>1 DEF IInv, CallsAreNested
  <2>4. CASE d + 1 # n - 1
    <3>1. d + 1 \in 1..(n - 2)
      BY <2>0, <2>4
    <3>2. frames'[d + 1] = frames[d + 1]
      BY <1>3, <3>1
    <3> QED BY <2>1, <2>2, <3>2 DEF IInv, CallsAreNested
  <2> QED BY <2>3, <2>4
<1>9. NextExtendsTop'
  <2>1. Top' = merged
    BY <1>3 DEF Top, Last
  <2>2. f.op \in Int /\ pos + 1 \in Int
    BY <1>2 DEF Frame, Consumed
  <2>3. PrecedenceAt(f.op) >= PrecedenceAt(pos + 1)
    <3>1. PrecedenceAt(f.op) \in Int /\ PrecedenceAt(pos + 1) \in Int
      BY <1>1, <2>2
    <3> QED BY <1>4, <3>1
  <2>4. (Top.lhs)' = f.op /\ pos' = pos
    BY <1>2, <2>1
  <2> QED BY <1>1, <2>3, <2>4 DEF NextExtendsTop, PrecedenceAt
<1> QED BY <1>5, <1>6, <1>7, <1>8, <1>9 DEF IInv

-----------------------------------------------------------------------------
(* A step that leaves the frames and the nodes alone keeps the invariant.  *)
LEMMA StutterInv ==
    ASSUME IInv, UNCHANGED << ops, pos, frames, node >>, result' \in BOOLEAN
    PROVE  IInv'
<1>1. TypeOK'
  BY DEF IInv, TypeOK, Consumed
<1>2. PrecedenceRespected' /\ NextExtendsTop'
  BY DEF IInv, PrecedenceRespected, NextExtendsTop, Top, PrecedenceAt
<1>3. TreesBelongToFrames' /\ CallsAreNested'
  BY DEF IInv, TreesBelongToFrames, CallsAreNested, PrecedenceAt
<1> QED BY <1>1, <1>2, <1>3 DEF IInv

(* Every step of parseBinOpRHS keeps the invariant.                        *)
LEMMA NextInv == IInv /\ [Next]_vars => IInv'
<1> SUFFICES ASSUME IInv, [Next]_vars PROVE IInv'
  OBVIOUS
<1>1. CASE Merge
  BY <1>1, MergeInv
<1>2. CASE Descend
  BY <1>2, DescendInv
<1>3. CASE Return
  <2>1. CASE Len(frames) = 1
    BY <1>3, <2>1, StutterInv DEF Return
  <2>2. CASE Len(frames) # 1
    BY <1>3, <2>2, ReturnInv
  <2> QED BY <2>1, <2>2
<1>4. CASE UNCHANGED vars
  <2>1. UNCHANGED << ops, pos, frames, node >> /\ result' \in BOOLEAN
    BY <1>4 DEF vars, IInv, TypeOK
  <2> QED BY <2>1, StutterInv
<1> QED BY <1>1, <1>2, <1>3, <1>4 DEF Next

(* parseBinOpRHS only names operators it has consumed, and its frames and  *)
(* trees are well typed, for expressions of any length.                    *)
THEOREM TypeCorrect == Spec => []TypeOK
<1>1. IInv => TypeOK
  BY DEF IInv
<1> QED BY <1>1, InitInv, NextInv, PTL DEF Spec

(* The tree parseBinOpRHS builds respects the precedence of the operators  *)
(* and associates those of equal precedence to the left, for expressions   *)
(* of any length.                                                          *)
THEOREM TreesRespectPrecedence == Spec => []PrecedenceRespected
<1>1. IInv => PrecedenceRespected
  BY DEF IInv
<1> QED BY <1>1, InitInv, NextInv, PTL DEF Spec

-----------------------------------------------------------------------------
(* What parseExpression starts with has nothing to lose.                   *)
LEMMA InitWhole == Init => WholeInv
<1> SUFFICES ASSUME Init PROVE WholeInv
  OBVIOUS
<1>1. /\ pos = 0 /\ node = << >> /\ result = FALSE
      /\ frames = << [exprPrec |-> 0, lhs |-> 0, op |-> 0] >>
  BY DEF Init
<1>2. HandsDiffer /\ NoneIsDropped
  BY <1>1 DEF HandsDiffer, NoneIsDropped, Top, Last
<1>3. PlacesDiffer /\ TreesAreKept /\ ResultIsLast
  BY <1>1 DEF PlacesDiffer, TreesAreKept, ResultIsLast
<1> QED BY <1>2, <1>3 DEF WholeInv

(* Trees are operands and held by calls only where the types allow.        *)
LEMMA NodeFacts ==
    ASSUME IInv
    PROVE  /\ DOMAIN node = 1..Len(node) /\ Len(node) \in Nat
           /\ \A k \in DOMAIN node : /\ node[k].op \in 1..pos
                                     /\ node[k].left \in 0..pos /\ node[k].right \in 0..pos
           /\ DOMAIN frames = 1..Len(frames)
           /\ \A d \in DOMAIN frames : frames[d].lhs \in 0..pos /\ frames[d].op \in 0..pos
           /\ pos \in Nat
<1>1. node \in Seq(Node) /\ frames \in Seq(Frame) /\ pos \in Nat
  BY DEF IInv, TypeOK, Node, Frame
<1>2. \A n \in Node : n.op \in 1..pos /\ n.left \in 0..pos /\ n.right \in 0..pos
  BY <1>1 DEF Node, Consumed
<1>3. \A f \in Frame : f.lhs \in 0..pos /\ f.op \in 0..pos
  BY DEF Frame, Consumed
<1>4. DOMAIN node = 1..Len(node) /\ Len(node) \in Nat /\ \A k \in DOMAIN node : node[k] \in Node
  BY <1>1
<1>5. DOMAIN frames = 1..Len(frames) /\ \A d \in DOMAIN frames : frames[d] \in Frame
  BY <1>1
<1> QED BY <1>1, <1>2, <1>3, <1>4, <1>5

(* A merge of the operator o, of the trees left and right that calls hold, *)
(* after which the call m holds the merged tree and no call the others.    *)
Merges(o, left, right, m) ==
    /\ DOMAIN node' = 1..(Len(node) + 1) /\ DOMAIN node = 1..Len(node) /\ Len(node) \in Nat
    /\ \A k \in 1..Len(node) : node'[k] = node[k]
    /\ LET n == node'[Len(node) + 1] IN n.op = o /\ n.left = left /\ n.right = right
    /\ o # 0 /\ ~ IsChild(o) /\ ~ IsTree(o)
    /\ left # 0 => IsTree(left) /\ left # right
    /\ right # 0 => IsTree(right)
    /\ m \in DOMAIN frames' /\ frames'[m].lhs = o
    /\ \A d \in DOMAIN frames' \ {m} :
          /\ d \in DOMAIN frames /\ frames'[d].lhs = frames[d].lhs
          /\ frames[d].lhs # 0 => frames[d].lhs \notin {left, right}
    /\ \A d \in DOMAIN frames :
          d \in DOMAIN frames' \ {m} \/ frames[d].lhs \in {0, left, right}

(* A merge gives no tree a second place and loses none.                    *)
LEMMA MergeKeepsTrees ==
    ASSUME NEW o, NEW left, NEW right, NEW m, Merges(o, left, right, m), PlacesDiffer
    PROVE  /\ PlacesDiffer'
           /\ \A q : IsMerged(q)' <=> IsMerged(q) \/ q = o
           /\ \A q : q # 0 => (IsChild(q)' \/ IsTree(q)' <=> IsChild(q) \/ IsTree(q) \/ q = o)
<1> DEFINE N == Len(node)
<1>1. /\ DOMAIN node' = 1..(N + 1) /\ DOMAIN node = 1..N /\ N \in Nat
      /\ \A k \in 1..N : node'[k] = node[k]
      /\ node'[N + 1].op = o /\ node'[N + 1].left = left /\ node'[N + 1].right = right
  BY DEF Merges
<1>2. /\ o # 0 /\ ~ IsChild(o) /\ ~ IsTree(o)
      /\ left # 0 => IsTree(left) /\ left # right
      /\ right # 0 => IsTree(right)
  BY DEF Merges
<1>3. /\ m \in DOMAIN frames' /\ frames'[m].lhs = o
      /\ \A d \in DOMAIN frames' \ {m} :
            /\ d \in DOMAIN frames /\ frames'[d].lhs = frames[d].lhs
            /\ frames[d].lhs # 0 => frames[d].lhs \notin {left, right}
      /\ \A d \in DOMAIN frames :
            d \in DOMAIN frames' \ {m} \/ frames[d].lhs \in {0, left, right}
  BY DEF Merges
<1> HIDE DEF N
<1>4. \A k : k \in 1..(N + 1) <=> k \in 1..N \/ k = N + 1
  BY <1>1
<1>5. /\ left # 0 => ~ IsChild(left)
      /\ right # 0 => ~ IsChild(right)
  BY <1>2 DEF PlacesDiffer, IsTree
<1>6. \A q : IsMerged(q)' <=> IsMerged(q) \/ q = o
  <2> SUFFICES ASSUME NEW q PROVE IsMerged(q)' <=> IsMerged(q) \/ q = o
    OBVIOUS
  <2>1. IsMerged(q)' <=> (\E k \in 1..N : node'[k].op = q) \/ node'[N + 1].op = q
    BY <1>1, <1>4 DEF IsMerged
  <2>2. (\E k \in 1..N : node'[k].op = q) <=> IsMerged(q)
    BY <1>1 DEF IsMerged
  <2> QED BY <1>1, <2>1, <2>2
<1>7. \A q : IsChild(q)' <=> IsChild(q) \/ q = left \/ q = right
  <2> SUFFICES ASSUME NEW q PROVE IsChild(q)' <=> IsChild(q) \/ q = left \/ q = right
    OBVIOUS
  <2>1. IsChild(q)' <=> \/ \E k \in 1..N : node'[k].left = q \/ node'[k].right = q
                        \/ node'[N + 1].left = q \/ node'[N + 1].right = q
    BY <1>1, <1>4 DEF IsChild
  <2>2. (\E k \in 1..N : node'[k].left = q \/ node'[k].right = q) <=> IsChild(q)
    BY <1>1 DEF IsChild
  <2> QED BY <1>1, <2>1, <2>2
<1>8. \A q : q # 0 => (IsTree(q)' <=> q = o \/ (IsTree(q) /\ q \notin {left, right}))
  <2> SUFFICES ASSUME NEW q, q # 0
               PROVE  IsTree(q)' <=> q = o \/ (IsTree(q) /\ q \notin {left, right})
    OBVIOUS
  <2>1. IsTree(q)' => q = o \/ (IsTree(q) /\ q \notin {left, right})
    BY <1>3 DEF IsTree
  <2>2. q = o => IsTree(q)'
    BY <1>3 DEF IsTree
  <2>3. IsTree(q) /\ q \notin {left, right} => IsTree(q)'
    BY <1>3 DEF IsTree
  <2> QED BY <2>1, <2>2, <2>3
<1>9. \A q : q # 0 => (IsChild(q)' \/ IsTree(q)' <=> IsChild(q) \/ IsTree(q) \/ q = o)
  BY <1>2, <1>7, <1>8
<1>10. \A k, l \in DOMAIN node' :
          /\ node'[k].left # 0 => node'[k].left # node'[l].right
          /\ node'[k].left # 0 /\ node'[k].left = node'[l].left => k = l
          /\ node'[k].right # 0 /\ node'[k].right = node'[l].right => k = l
  <2> SUFFICES ASSUME NEW k \in 1..(N + 1), NEW l \in 1..(N + 1)
               PROVE  /\ node'[k].left # 0 => node'[k].left # node'[l].right
                      /\ node'[k].left # 0 /\ node'[k].left = node'[l].left => k = l
                      /\ node'[k].right # 0 /\ node'[k].right = node'[l].right => k = l
    BY <1>1
  <2>1. CASE k \in 1..N /\ l \in 1..N
    <3>1. node'[k] = node[k] /\ node'[l] = node[l] /\ k \in DOMAIN node /\ l \in DOMAIN node
      BY <1>1, <2>1
    <3> QED BY <3>1 DEF PlacesDiffer
  <2>2. CASE k \in 1..N /\ l = N + 1
    <3>1. IsChild(node'[k].left) /\ IsChild(node'[k].right)
      BY <1>1, <2>2 DEF IsChild
    <3> QED BY <1>1, <1>5, <2>2, <3>1
  <2>3. CASE k = N + 1 /\ l \in 1..N
    <3>1. IsChild(node'[l].left) /\ IsChild(node'[l].right)
      BY <1>1, <2>3 DEF IsChild
    <3> QED BY <1>1, <1>5, <2>3, <3>1
  <2>4. CASE k = N + 1 /\ l = N + 1
    BY <1>1, <1>2, <2>4
  <2> QED BY <1>4, <2>1, <2>2, <2>3, <2>4
<1>11. \A d \in DOMAIN frames' : frames'[d].lhs # 0 =>
          \A k \in DOMAIN node' :
              node'[k].left # frames'[d].lhs /\ node'[k].right # frames'[d].lhs
  <2> SUFFICES ASSUME NEW d \in DOMAIN frames', frames'[d].lhs # 0
               PROVE  \A k \in DOMAIN node' :
                          node'[k].left # frames'[d].lhs /\ node'[k].right # frames'[d].lhs
    OBVIOUS
  <2> DEFINE q == frames[d].lhs
  <2>1. CASE d = m
    <3>1. o # left /\ o # right
      BY <1>2
    <3>2. \A k \in DOMAIN node' : node'[k].left # o /\ node'[k].right # o
      BY <1>2, <1>7, <3>1 DEF IsChild
    <3> QED BY <1>3, <2>1, <3>2
  <2>2. CASE d # m
    <3>1. /\ d \in DOMAIN frames /\ frames'[d].lhs = q /\ q # 0 /\ q \notin {left, right}
      BY <1>3, <2>2
    <3>2. ~ IsChild(q)
      BY <3>1 DEF PlacesDiffer
    <3>3. \A k \in DOMAIN node' : node'[k].left # q /\ node'[k].right # q
      BY <1>7, <3>1, <3>2 DEF IsChild
    <3> QED BY <3>1, <3>3
  <2> QED BY <2>1, <2>2
<1>12. \A d, e \in DOMAIN frames' : frames'[d].lhs # 0 /\ frames'[d].lhs = frames'[e].lhs => d = e
  <2> SUFFICES ASSUME NEW d \in DOMAIN frames', NEW e \in DOMAIN frames',
                      frames'[d].lhs # 0, frames'[d].lhs = frames'[e].lhs, d # e
               PROVE  FALSE
    OBVIOUS
  <2>1. CASE d = m
    <3>1. e \in DOMAIN frames /\ frames[e].lhs = o
      BY <1>3, <2>1
    <3> QED BY <1>2, <3>1 DEF IsTree
  <2>2. CASE e = m
    <3>1. d \in DOMAIN frames /\ frames[d].lhs = o
      BY <1>3, <2>2
    <3> QED BY <1>2, <3>1 DEF IsTree
  <2>3. CASE d # m /\ e # m
    BY <1>3, <2>3 DEF PlacesDiffer
  <2> QED BY <2>1, <2>2, <2>3
<1>13. PlacesDiffer'
  BY <1>10, <1>11, <1>12 DEF PlacesDiffer, IsChild
<1> QED BY <1>6, <1>9, <1>13

(* A merge in the loop drops no operator and no operand.                   *)
LEMMA MergeWhole ==
    ASSUME IInv, WholeInv, Merge
    PROVE  WholeInv'
<1> DEFINE n == Len(frames)
           o == pos + 1
           left == Top.lhs
<1>1. /\ n \in Nat \ {0} /\ Top = frames[n] /\ pos \in Nat /\ pos' = pos + 1
      /\ Len(frames') = n /\ frames'[n].lhs = o /\ frames'[n].op = Top.op
      /\ frames'[n].exprPrec = Top.exprPrec
      /\ \A d \in 1..(n - 1) : frames'[d] = frames[d]
      /\ DOMAIN frames' = 1..n
  BY MergeFrames
<1>2. /\ DOMAIN node = 1..Len(node) /\ Len(node) \in Nat
      /\ \A k \in DOMAIN node : /\ node[k].op \in 1..pos
                                /\ node[k].left \in 0..pos /\ node[k].right \in 0..pos
      /\ DOMAIN frames = 1..n
      /\ \A d \in DOMAIN frames : frames[d].lhs \in 0..pos /\ frames[d].op \in 0..pos
  BY NodeFacts
<1>3. HandsDiffer /\ NoneIsDropped /\ PlacesDiffer /\ TreesAreKept /\ ResultIsLast
  BY DEF WholeInv
<1>4. /\ DOMAIN node' = 1..(Len(node) + 1) /\ Len(node') = Len(node) + 1
      /\ \A k \in 1..Len(node) : node'[k] = node[k]
      /\ LET new == node'[Len(node) + 1] IN new.op = o /\ new.left = left /\ new.right = 0
  <2>1. node' = Append(node, [op |-> o, left |-> left, right |-> 0])
    BY DEF Merge, Merged
  <2>2. node \in Seq(Node)
    BY DEF IInv, TypeOK, Node
  <2> QED BY <2>1, <2>2
<1> HIDE DEF n, o, left
<1>5. Merges(o, left, 0, n)
  <2>1. o # 0 /\ ~ IsChild(o) /\ ~ IsTree(o)
    BY <1>1, <1>2 DEF o, IsChild, IsTree
  <2>2. left # 0 => IsTree(left)
    BY <1>1, <1>2 DEF left, IsTree
  <2>3. n \in DOMAIN frames' /\ frames'[n].lhs = o
    BY <1>1
  <2>4. \A d \in DOMAIN frames' \ {n} :
           /\ d \in DOMAIN frames /\ frames'[d].lhs = frames[d].lhs
           /\ frames[d].lhs # 0 => frames[d].lhs \notin {left, 0}
    <3> SUFFICES ASSUME NEW d \in DOMAIN frames' \ {n}
                 PROVE  /\ d \in DOMAIN frames /\ frames'[d].lhs = frames[d].lhs
                        /\ frames[d].lhs # 0 => frames[d].lhs # left
      OBVIOUS
    <3>1. d \in 1..(n - 1) /\ d \in DOMAIN frames /\ n \in DOMAIN frames
      BY <1>1, <1>2
    <3> QED BY <1>1, <1>3, <3>1 DEF left, PlacesDiffer
  <2>5. \A d \in DOMAIN frames : d \in DOMAIN frames' \ {n} \/ frames[d].lhs \in {0, left, 0}
    BY <1>1, <1>2 DEF left
  <2> QED BY <1>2, <1>4, <2>1, <2>2, <2>3, <2>4, <2>5 DEF Merges
<1>6. /\ PlacesDiffer'
      /\ \A q : IsMerged(q)' <=> IsMerged(q) \/ q = o
      /\ \A q : q # 0 => (IsChild(q)' \/ IsTree(q)' <=> IsChild(q) \/ IsTree(q) \/ q = o)
  BY <1>3, <1>5, MergeKeepsTrees
<1>7. \A d \in DOMAIN frames : frames'[d].op = frames[d].op /\ frames'[d].exprPrec = frames[d].exprPrec
  BY <1>1, <1>2
<1>8. HandsDiffer'
  <2>1. (Top.op)' = frames'[n].op
    BY <1>1 DEF Top, Last
  <2>2. Top.op = 0 /\ frames[1].exprPrec = 0
    BY <1>3 DEF HandsDiffer
  <2>3. frames'[1].exprPrec = 0
    BY <1>1, <1>2, <1>7, <2>2
  <2>4. \A d, e \in 1..(n - 1) : frames'[d].op = frames'[e].op => d = e
    BY <1>1, <1>3 DEF HandsDiffer, n
  <2> QED BY <1>1, <2>1, <2>2, <2>3, <2>4 DEF HandsDiffer
<1>9. NoneIsDropped'
  <2>1. Len(node) + n = pos + 1
    BY <1>3 DEF NoneIsDropped, n
  <2>2. Len(node') + Len(frames') = pos' + 1
    <3>1. /\ Len(node) \in Nat /\ n \in Nat /\ pos \in Nat
          /\ Len(node') = Len(node) + 1 /\ Len(frames') = n /\ pos' = pos + 1
      BY <1>1, <1>2, <1>4
    <3> QED BY <2>1, <3>1
  <2>3. \A q : IsInHand(q)' <=> IsInHand(q)
    BY <1>1, <1>2, <1>7 DEF IsInHand
  <2>4. ~ IsInHand(o)
    BY <1>1, <1>2 DEF IsInHand, o
  <2>5. \A q \in 1..pos' : q \in 1..pos \/ q = o
    BY <1>1 DEF o
  <2>6. \A q \in 1..pos' : IsMerged(q)' <=> ~ IsInHand(q)'
    BY <1>3, <1>6, <2>3, <2>4, <2>5 DEF NoneIsDropped
  <2> QED BY <2>2, <2>6 DEF NoneIsDropped
<1>10. TreesAreKept'
  <2>1. \A q \in 1..pos' : (q \in 1..pos \/ q = o) /\ q # 0
    BY <1>1 DEF o
  <2>2. \A q \in 1..pos' : IsMerged(q)' <=> IsChild(q)' \/ IsTree(q)'
    BY <1>3, <1>6, <2>1 DEF TreesAreKept
  <2> QED BY <2>2 DEF TreesAreKept
<1>11. ResultIsLast'
  BY DEF Merge, Takes, ResultIsLast
<1> QED BY <1>6, <1>8, <1>9, <1>10, <1>11 DEF WholeInv

(* Taking an operator in hand drops none either.                           *)
LEMMA DescendWhole ==
    ASSUME IInv, WholeInv, Descend
    PROVE  WholeInv'
<1> DEFINE n == Len(frames)
           o == pos + 1
<1>1. /\ n \in Nat \ {0} /\ Top = frames[n] /\ pos \in Nat /\ pos' = pos + 1
      /\ Len(frames') = n + 1
      /\ frames'[n].lhs = Top.lhs /\ frames'[n].op = o /\ frames'[n].exprPrec = Top.exprPrec
      /\ frames'[n + 1].lhs = 0 /\ frames'[n + 1].op = 0
      /\ \A d \in 1..(n - 1) : frames'[d] = frames[d]
      /\ DOMAIN frames' = 1..(n + 1)
  BY DescendFrames
<1>2. /\ DOMAIN node = 1..Len(node) /\ Len(node) \in Nat
      /\ \A k \in DOMAIN node : /\ node[k].op \in 1..pos
                                /\ node[k].left \in 0..pos /\ node[k].right \in 0..pos
      /\ DOMAIN frames = 1..n
      /\ \A d \in DOMAIN frames : frames[d].lhs \in 0..pos /\ frames[d].op \in 0..pos
  BY NodeFacts
<1>3. HandsDiffer /\ NoneIsDropped /\ PlacesDiffer /\ TreesAreKept /\ ResultIsLast
  BY DEF WholeInv
<1>4. node' = node /\ ~ result' /\ Top.op = 0
  BY <1>3 DEF Descend, Takes, HandsDiffer
<1> HIDE DEF n, o
<1>5. \A d \in DOMAIN frames : frames'[d].lhs = frames[d].lhs
  BY <1>1, <1>2
<1>6. \A d : d \in DOMAIN frames' <=> d \in DOMAIN frames \/ d = n + 1
  BY <1>1, <1>2
<1>7. /\ \A q : IsMerged(q)' <=> IsMerged(q)
      /\ \A q : IsChild(q)' <=> IsChild(q)
      /\ \A q : q # 0 => (IsTree(q)' <=> IsTree(q))
  BY <1>1, <1>4, <1>5, <1>6 DEF IsMerged, IsChild, IsTree
<1>8. /\ ~ IsMerged(o) /\ ~ IsChild(o) /\ ~ IsTree(o) /\ ~ IsInHand(o)
      /\ \A q \in 1..pos' : (q \in 1..pos \/ q = o) /\ q # 0
  BY <1>1, <1>2 DEF o, IsMerged, IsChild, IsTree, IsInHand
<1>9. HandsDiffer'
  <2>1. (Top.op)' = 0
    BY <1>1 DEF Top, Last
  <2>2. frames'[1].exprPrec = 0
    <3>1. frames[1].exprPrec = 0
      BY <1>3 DEF HandsDiffer
    <3>2. CASE n = 1
      BY <1>1, <3>1, <3>2
    <3>3. CASE n # 1
      BY <1>1, <3>1, <3>3
    <3> QED BY <3>2, <3>3
  <2>3. \A d, e \in 1..n : frames'[d].op = frames'[e].op => d = e
    <3> SUFFICES ASSUME NEW d \in 1..n, NEW e \in 1..n, frames'[d].op = frames'[e].op
                 PROVE  d = e
      OBVIOUS
    <3>1. \A c \in 1..n : c # n => c \in 1..(n - 1) /\ frames'[c].op = frames[c].op
                                   /\ frames[c].op # o
      <4> SUFFICES ASSUME NEW c \in 1..n, c # n
                   PROVE  c \in 1..(n - 1) /\ frames'[c].op = frames[c].op /\ frames[c].op # o
        OBVIOUS
      <4>1. c \in 1..(n - 1)
        BY <1>1
      <4>2. c \in DOMAIN frames
        BY <1>2
      <4>3. frames[c].op # o
        BY <1>8, <4>2 DEF IsInHand
      <4> QED BY <1>1, <4>1, <4>3
    <3>2. \A c, b \in 1..(n - 1) : frames[c].op = frames[b].op => c = b
      BY <1>3 DEF HandsDiffer, n
    <3> QED BY <1>1, <3>1, <3>2
  <2>4. (n + 1) - 1 = n
    BY <1>1
  <2> QED BY <1>1, <2>1, <2>2, <2>3, <2>4 DEF HandsDiffer
<1>10. NoneIsDropped'
  <2>1. Len(node) + n = pos + 1
    BY <1>3 DEF NoneIsDropped, n
  <2>2. Len(node') + Len(frames') = pos' + 1
    <3>1. /\ Len(node) \in Nat /\ n \in Nat /\ pos \in Nat
          /\ Len(node') = Len(node) /\ Len(frames') = n + 1 /\ pos' = pos + 1
      BY <1>1, <1>2, <1>4
    <3> QED BY <2>1, <3>1
  <2>3. \A q : q # 0 => (IsInHand(q)' <=> IsInHand(q) \/ q = o)
    <3>1. n \in DOMAIN frames /\ frames[n].op = 0
      BY <1>1, <1>2, <1>4
    <3>2. \A d \in DOMAIN frames : d # n => frames'[d].op = frames[d].op
      BY <1>1, <1>2
    <3> QED BY <1>1, <1>6, <3>1, <3>2 DEF IsInHand
  <2>4. \A q \in 1..pos' : IsMerged(q)' <=> ~ IsInHand(q)'
    BY <1>3, <1>7, <1>8, <2>3 DEF NoneIsDropped
  <2> QED BY <2>2, <2>4 DEF NoneIsDropped
<1>11. PlacesDiffer'
  <2>1. \A k, l \in DOMAIN node' :
           /\ node'[k].left # 0 => node'[k].left # node'[l].right
           /\ node'[k].left # 0 /\ node'[k].left = node'[l].left => k = l
           /\ node'[k].right # 0 /\ node'[k].right = node'[l].right => k = l
    BY <1>3, <1>4 DEF PlacesDiffer
  <2>2. \A d \in DOMAIN frames' : frames'[d].lhs # 0 =>
           \A k \in DOMAIN node' :
               node'[k].left # frames'[d].lhs /\ node'[k].right # frames'[d].lhs
    BY <1>1, <1>3, <1>4, <1>5, <1>6 DEF PlacesDiffer, IsChild
  <2>3. \A d, e \in DOMAIN frames' : frames'[d].lhs # 0 /\ frames'[d].lhs = frames'[e].lhs => d = e
    BY <1>1, <1>3, <1>5, <1>6 DEF PlacesDiffer
  <2> QED BY <2>1, <2>2, <2>3 DEF PlacesDiffer, IsChild
<1>12. TreesAreKept'
  <2>1. \A q \in 1..pos' : IsMerged(q)' <=> IsChild(q)' \/ IsTree(q)'
    BY <1>3, <1>7, <1>8 DEF TreesAreKept
  <2> QED BY <2>1 DEF TreesAreKept
<1>13. ResultIsLast'
  BY <1>4 DEF ResultIsLast
<1> QED BY <1>9, <1>10, <1>11, <1>12, <1>13 DEF WholeInv

(* Nor does the merge in the caller, which takes the operator out of hand. *)
LEMMA ReturnWhole ==
    ASSUME IInv, WholeInv, Return, Len(frames) # 1
    PROVE  WholeInv'
<1> DEFINE n == Len(frames)
           f == frames[n - 1]
           o == f.op
           left == f.lhs
           right == frames[n].lhs
<1>1. /\ n \in Nat \ {0, 1} /\ Top = frames[n] /\ pos \in Nat /\ pos' = pos
      /\ Len(frames') = n - 1 /\ frames'[n - 1].lhs = o /\ frames'[n - 1].op = 0
      /\ frames'[n - 1].exprPrec = f.exprPrec
      /\ \A d \in 1..(n - 2) : frames'[d] = frames[d]
      /\ DOMAIN frames' = 1..(n - 1) /\ n - 1 \in 1..n /\ n - 1 \in 1..(n - 1)
      /\ node' = Append(node, [op |-> o, left |-> left, right |-> right])
  BY ReturnFrames
<1>2. /\ DOMAIN node = 1..Len(node) /\ Len(node) \in Nat
      /\ \A k \in DOMAIN node : /\ node[k].op \in 1..pos
                                /\ node[k].left \in 0..pos /\ node[k].right \in 0..pos
      /\ DOMAIN frames = 1..n
      /\ \A d \in DOMAIN frames : frames[d].lhs \in 0..pos /\ frames[d].op \in 0..pos
  BY NodeFacts
<1>3. HandsDiffer /\ NoneIsDropped /\ PlacesDiffer /\ TreesAreKept /\ ResultIsLast
  BY DEF WholeInv
<1>4. /\ DOMAIN node' = 1..(Len(node) + 1) /\ Len(node') = Len(node) + 1
      /\ \A k \in 1..Len(node) : node'[k] = node[k]
      /\ LET new == node'[Len(node) + 1] IN new.op = o /\ new.left = left /\ new.right = right
  <2>1. node \in Seq(Node)
    BY DEF IInv, TypeOK, Node
  <2> HIDE DEF o, left, right
  <2> QED BY <1>1, <2>1
<1>5. /\ o \in 1..pos /\ IsInHand(o) /\ ~ IsMerged(o) /\ ~ IsChild(o) /\ ~ IsTree(o)
      /\ Top.op = 0 /\ frames[n].op = 0
  <2>1. o # 0
    <3>1. n - 1 \in 1..(n - 1)
      BY <1>1
    <3> QED BY <3>1 DEF IInv, CallsAreNested
  <2>2. o \in 1..pos /\ IsInHand(o)
    <3>1. n - 1 \in DOMAIN frames /\ frames[n - 1].op = o
      BY <1>1, <1>2
    <3>2. o \in 0..pos
      BY <1>2, <3>1
    <3> HIDE DEF n, f, o
    <3> QED BY <1>1, <2>1, <3>1, <3>2 DEF IsInHand
  <2>3. ~ IsMerged(o)
    BY <1>3, <2>2 DEF NoneIsDropped
  <2>4. ~ IsChild(o) /\ ~ IsTree(o)
    BY <1>3, <2>2, <2>3 DEF TreesAreKept
  <2>5. Top.op = 0
    BY <1>3 DEF HandsDiffer
  <2> QED BY <1>1, <2>2, <2>3, <2>4, <2>5
<1>6. /\ n \in DOMAIN frames /\ n - 1 \in DOMAIN frames
      /\ \A d \in DOMAIN frames : d = n \/ d = n - 1 \/ d \in 1..(n - 2)
      /\ \A d \in 1..(n - 2) : d \in 1..(n - 1) /\ d \in DOMAIN frames /\ d # n /\ d # n - 1
      /\ \A d \in DOMAIN frames' : d = n - 1 \/ d \in 1..(n - 2)
      /\ n # n - 1
  BY <1>1, <1>2
<1>7. frames[n - 1].op = o /\ frames[n - 1].lhs = left /\ frames[n].lhs = right
  OBVIOUS
<1> HIDE DEF n, f, o, left, right
<1>8. Merges(o, left, right, n - 1)
  <2>1. left # 0 => IsTree(left) /\ left # right
    BY <1>3, <1>6, <1>7 DEF IsTree, PlacesDiffer
  <2>2. right # 0 => IsTree(right)
    BY <1>6, <1>7 DEF IsTree
  <2>3. n - 1 \in DOMAIN frames' /\ frames'[n - 1].lhs = o /\ o # 0
    BY <1>1, <1>5
  <2>4. \A d \in DOMAIN frames' \ {n - 1} :
           /\ d \in DOMAIN frames /\ frames'[d].lhs = frames[d].lhs
           /\ frames[d].lhs # 0 => frames[d].lhs \notin {left, right}
    <3> SUFFICES ASSUME NEW d \in DOMAIN frames' \ {n - 1}
                 PROVE  /\ d \in DOMAIN frames /\ frames'[d].lhs = frames[d].lhs
                        /\ frames[d].lhs # 0 => frames[d].lhs # left /\ frames[d].lhs # right
      OBVIOUS
    <3>1. d \in 1..(n - 2) /\ d \in DOMAIN frames /\ d # n /\ d # n - 1
      BY <1>6
    <3> QED BY <1>1, <1>3, <1>6, <1>7, <3>1 DEF PlacesDiffer
  <2>5. \A d \in DOMAIN frames : d \in DOMAIN frames' \ {n - 1} \/ frames[d].lhs \in {0, left, right}
    BY <1>1, <1>6, <1>7
  <2> QED BY <1>2, <1>4, <1>5, <2>1, <2>2, <2>3, <2>4, <2>5 DEF Merges
<1>9. /\ PlacesDiffer'
      /\ \A q : IsMerged(q)' <=> IsMerged(q) \/ q = o
      /\ \A q : q # 0 => (IsChild(q)' \/ IsTree(q)' <=> IsChild(q) \/ IsTree(q) \/ q = o)
  BY <1>3, <1>8, MergeKeepsTrees
<1>10. \A d, e \in 1..(n - 1) : frames[d].op = frames[e].op => d = e
  BY <1>3 DEF HandsDiffer, n
<1>11. HandsDiffer'
  <2>1. (Top.op)' = 0
    BY <1>1 DEF Top, Last
  <2>2. frames'[1].exprPrec = 0
    <3>1. frames[1].exprPrec = 0
      BY <1>3 DEF HandsDiffer
    <3>2. CASE n = 2
      BY <1>1, <3>1, <3>2 DEF f
    <3>3. CASE n # 2
      BY <1>1, <3>1, <3>3
    <3> QED BY <3>2, <3>3
  <2>3. \A d, e \in 1..(n - 2) : frames'[d].op = frames'[e].op => d = e
    BY <1>1, <1>6, <1>10
  <2>4. (n - 1) - 1 = n - 2
    BY <1>1
  <2> QED BY <1>1, <2>1, <2>2, <2>3, <2>4 DEF HandsDiffer
<1>12. NoneIsDropped'
  <2>1. Len(node) + n = pos + 1
    BY <1>3 DEF NoneIsDropped, n
  <2>2. Len(node') + Len(frames') = pos' + 1
    <3>1. /\ Len(node) \in Nat /\ n \in Nat /\ pos \in Nat
          /\ Len(node') = Len(node) + 1 /\ Len(frames') = n - 1 /\ pos' = pos
      BY <1>1, <1>2, <1>4
    <3> QED BY <2>1, <3>1
  <2>3. \A q : q # 0 => (IsInHand(q)' <=> IsInHand(q) /\ q # o)
    <3> SUFFICES ASSUME NEW q, q # 0
                 PROVE  IsInHand(q)' <=> IsInHand(q) /\ q # o
      OBVIOUS
    <3>1. IsInHand(q)' => IsInHand(q) /\ q # o
      <4> SUFFICES ASSUME NEW d \in DOMAIN frames', frames'[d].op = q
                   PROVE  IsInHand(q) /\ q # o
        BY DEF IsInHand
      <4>1. d \in 1..(n - 2) /\ frames[d].op = q /\ d \in DOMAIN frames /\ d \in 1..(n - 1) /\ d # n - 1
        BY <1>1, <1>6
      <4> QED BY <1>1, <1>7, <1>10, <4>1 DEF IsInHand
    <3>2. IsInHand(q) /\ q # o => IsInHand(q)'
      <4> SUFFICES ASSUME NEW d \in DOMAIN frames, frames[d].op = q, q # o
                   PROVE  IsInHand(q)'
        BY DEF IsInHand
      <4>1. d \in 1..(n - 2)
        BY <1>5, <1>6, <1>7
      <4>2. d \in DOMAIN frames' /\ frames'[d].op = q
        BY <1>1, <1>6, <4>1
      <4> QED BY <4>2 DEF IsInHand
    <3> QED BY <3>1, <3>2
  <2>4. \A q \in 1..pos : q # 0
    BY <1>1
  <2>5. \A q \in 1..pos' : IsMerged(q)' <=> ~ IsInHand(q)'
    BY <1>1, <1>3, <1>9, <2>3, <2>4 DEF NoneIsDropped
  <2> QED BY <2>2, <2>5 DEF NoneIsDropped
<1>13. TreesAreKept'
  <2>1. \A q \in 1..pos : q # 0
    BY <1>1
  <2>2. \A q \in 1..pos' : IsMerged(q)' <=> IsChild(q)' \/ IsTree(q)'
    BY <1>1, <1>3, <1>9, <2>1 DEF TreesAreKept
  <2> QED BY <2>2 DEF TreesAreKept
<1>14. ResultIsLast'
  <2>1. result' = result /\ ~ result
    BY DEF Return, Leaves
  <2> QED BY <2>1 DEF ResultIsLast
<1> QED BY <1>9, <1>11, <1>12, <1>13, <1>14 DEF WholeInv

(* The outermost call only ends behind the last operator: the others have  *)
(* a precedence that its loop takes.                                       *)
LEMMA LastReturnWhole ==
    ASSUME IInv, WholeInv, Return, Len(frames) = 1
    PROVE  WholeInv'
<1>1. ops' = ops /\ pos' = pos /\ frames' = frames /\ node' = node
  BY DEF Return
<1>2. pos = Len(ops)
  <2>1. PrecedenceAt(pos + 1) < 0
    <3>1. Top = frames[1] /\ frames[1].exprPrec = 0
      BY TopFacts DEF WholeInv, HandsDiffer
    <3> QED BY <3>1 DEF Return, Leaves
  <2>2. ops \in Seq(DOMAIN Precedence) /\ pos \in 0..Len(ops)
    BY DEF IInv, TypeOK
  <2>3. CASE pos + 1 \in 1..Len(ops)
    <3>1. ops[pos + 1] \in DOMAIN Precedence
      BY <2>2, <2>3
    <3>2. PrecedenceAt(pos + 1) = Precedence[ops[pos + 1]]
      BY <2>2, <2>3 DEF PrecedenceAt
    <3>3. Precedence[ops[pos + 1]] \in Nat
      BY <3>1 DEF Precedence
    <3>4. PrecedenceAt(pos + 1) \in Nat
      BY <3>2, <3>3
    <3> QED BY <2>1, <3>4
  <2> QED BY <2>2, <2>3
<1>3. ResultIsLast'
  BY <1>1, <1>2 DEF ResultIsLast
<1>4. HandsDiffer'
  <2>1. Top' = Top
    BY <1>1 DEF Top, Last
  <2>2. (Top.op)' = 0
    BY <2>1 DEF WholeInv, HandsDiffer
  <2>3. /\ frames[1].exprPrec = 0
        /\ \A d, e \in 1..(Len(frames) - 1) : frames[d].op = frames[e].op => d = e
    BY DEF WholeInv, HandsDiffer
  <2>4. /\ frames'[1].exprPrec = 0
        /\ \A d, e \in 1..(Len(frames') - 1) : frames'[d].op = frames'[e].op => d = e
    BY <1>1, <2>3
  <2> QED BY <2>2, <2>4 DEF HandsDiffer
<1>5. NoneIsDropped'
  BY <1>1 DEF WholeInv, NoneIsDropped, IsMerged, IsInHand
<1>6. PlacesDiffer' /\ TreesAreKept'
  BY <1>1 DEF WholeInv, PlacesDiffer, TreesAreKept, IsMerged, IsChild, IsTree
<1> QED BY <1>3, <1>4, <1>5, <1>6 DEF WholeInv

(* Every step of parseBinOpRHS keeps all operators and operands.           *)
LEMMA NextWhole == IInv /\ WholeInv /\ [Next]_vars => WholeInv'
<1> SUFFICES ASSUME IInv, WholeInv, [Next]_vars PROVE WholeInv'
  OBVIOUS
<1>1. CASE Merge
  BY <1>1, MergeWhole
<1>2. CASE Descend
  BY <1>2, DescendWhole
<1>3. CASE Return
  BY <1>3, ReturnWhole, LastReturnWhole
<1>4. CASE UNCHANGED vars
  BY <1>4 DEF vars, Last, WholeInv, HandsDiffer, NoneIsDropped, PlacesDiffer, TreesAreKept,
              ResultIsLast, Top, IsMerged, IsInHand, IsChild, IsTree
<1> QED BY <1>1, <1>2, <1>3, <1>4 DEF Next

(* When the last call has returned, its tree is the expression.            *)
LEMMA WholeAtTheEnd ==
    ASSUME IInv, WholeInv, result
    PROVE  ResultIsWhole
<1>1. HandsDiffer /\ NoneIsDropped /\ PlacesDiffer /\ TreesAreKept /\ ResultIsLast
  BY DEF WholeInv
<1>2. /\ DOMAIN node = 1..Len(node) /\ Len(node) \in Nat
      /\ \A k \in DOMAIN node : node[k].op \in 1..pos
      /\ DOMAIN frames = 1..Len(frames) /\ pos \in Nat
  BY NodeFacts
<1>3. /\ Len(frames) = 1 /\ pos = Len(ops) /\ DOMAIN frames = {1}
      /\ Top = frames[1] /\ Top.op = 0
  <2>1. Len(frames) = 1 /\ pos = Len(ops)
    BY <1>1 DEF ResultIsLast
  <2>2. DOMAIN frames = {1}
    BY <1>2, <2>1
  <2> QED BY <1>1, <2>1, <2>2, TopFacts DEF HandsDiffer
<1>4. DOMAIN ops = 1..pos
  BY <1>3 DEF IInv, TypeOK
<1>5. \A o \in 1..pos : IsMerged(o)
  <2>1. \A o \in 1..pos : ~ IsInHand(o)
    BY <1>2, <1>3 DEF IsInHand
  <2> QED BY <1>1, <2>1 DEF NoneIsDropped
<1>6. {node[k].op : k \in DOMAIN node} = DOMAIN ops
  BY <1>2, <1>4, <1>5 DEF IsMerged
<1>7. Len(node) = Len(ops)
  <2>1. Len(node) + 1 = pos + 1
    BY <1>1, <1>3 DEF NoneIsDropped
  <2>2. Len(node) \in Nat /\ pos \in Nat
    BY <1>2
  <2>3. Len(node) = pos
    BY <2>1, <2>2
  <2> QED BY <1>3, <2>3
<1>8. ASSUME NEW o \in DOMAIN ops
      PROVE  Cardinality({k \in DOMAIN node : node[k].left = o})
               + Cardinality({k \in DOMAIN node : node[k].right = o})
             = IF o = Top.lhs THEN 0 ELSE 1
  <2> DEFINE Left == {k \in DOMAIN node : node[k].left = o}
             Right == {k \in DOMAIN node : node[k].right = o}
  <2> SUFFICES Cardinality(Left) + Cardinality(Right) = IF o = Top.lhs THEN 0 ELSE 1
    OBVIOUS
  <2> HIDE DEF Left, Right
  <2>1. o # 0 /\ (IsChild(o) \/ o = Top.lhs)
    BY <1>1, <1>2, <1>3, <1>4, <1>5, <1>8 DEF TreesAreKept, IsTree
  <2>2. CASE o = Top.lhs
    <3>1. ~ IsChild(o)
      BY <1>1, <1>3, <2>1, <2>2 DEF PlacesDiffer
    <3>2. Left = {} /\ Right = {}
      BY <3>1 DEF IsChild, Left, Right
    <3> QED BY <2>2, <3>2, FS_EmptySet
  <2>3. CASE o # Top.lhs
    <3>1. PICK k \in DOMAIN node : node[k].left = o \/ node[k].right = o
      BY <2>1, <2>3 DEF IsChild
    <3>2. Cardinality({k}) = 1 /\ Cardinality({}) = 0
      BY FS_Singleton, FS_EmptySet
    <3>3. CASE node[k].left = o
      <4>1. Left = {k} /\ Right = {}
        BY <1>1, <2>1, <3>1, <3>3 DEF PlacesDiffer, Left, Right
      <4> QED BY <2>3, <3>2, <4>1
    <3>4. CASE node[k].right = o
      <4>1. Right = {k} /\ Left = {}
        BY <1>1, <2>1, <3>1, <3>4 DEF PlacesDiffer, Left, Right
      <4> QED BY <2>3, <3>2, <4>1
    <3> QED BY <3>1, <3>3, <3>4
  <2> QED BY <2>2, <2>3
<1> QED BY <1>6, <1>7, <1>8 DEF ResultIsWhole

(* The tree parseBinOpRHS returns has every operator of the expression in  *)
(* it, each as the operand of one other, but the root: none is lost and    *)
(* none occurs twice, for expressions of any length.                       *)
THEOREM NothingIsLost == Spec => []ResultIsWhole
<1>1. IInv /\ WholeInv => ResultIsWhole
  BY WholeAtTheEnd DEF ResultIsWhole
<1> QED BY <1>1, InitInv, NextInv, InitWhole, NextWhole, PTL DEF Spec
=============================================================================
