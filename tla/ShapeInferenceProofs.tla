------------------------- MODULE ShapeInferenceProofs -------------------------
(***************************************************************************)
(* Theorems about ShapeInference, for every set of programs, every number  *)
(* of operations and every shape; and that the pass implements its         *)
(* contract: whatever the order in which the worklist is visited, it ends  *)
(* with the types that program order gives, or fails, and which of the two *)
(* depends on the program alone.                                           *)
(***************************************************************************)
EXTENDS ShapeInference, ToyDialectProofs

-----------------------------------------------------------------------------
(* The inductive invariant.  SettledTypes alone is not inductive: that the *)
(* type of an operand cannot change any more follows from what is waiting  *)
(* being unranked.                                                         *)

(* The types that inference may not touch.                                 *)
Fixed(o) == ~ HasDynamicShapeReturn(prog, BuiltTypes(prog), o)

WaitingIsUnranked == \A o \in worklist : type[o] = Unranked

WaitingIsDynamic == \A o \in worklist : ~ Fixed(o)

FixedIsBuilt == \A o \in Ops : Fixed(o) => type[o] = prog[o].type

SettledIsInferred ==
    \A o \in Ops \ worklist : ~ Fixed(o) =>
        /\ IsAllOperandsInferred(prog, type, o)
        /\ type[o] = InferredType(prog, type, o)

DoneMeansEmpty == status \in {"inferred", "verified", "rejected"} => worklist = {}

IInv ==
    /\ TypeOK
    /\ WaitingIsUnranked
    /\ WaitingIsDynamic
    /\ FixedIsBuilt
    /\ SettledIsInferred
    /\ DoneMeansEmpty

(* Collecting the worklist establishes the invariant.                      *)
LEMMA InitInv == Init => IInv
<1> SUFFICES ASSUME Init PROVE IInv
  OBVIOUS
<1>1. WellFormed(prog)
  BY ProgramsAssumption DEF Init
<1>2. TypeOK
  BY <1>1, WellFormedIsDominated, BuiltTypesType DEF Init, TypeOK, Ops, HasDynamicShapeReturn, Statuses
<1>3. WaitingIsUnranked /\ WaitingIsDynamic
  BY DEF Init, WaitingIsUnranked, WaitingIsDynamic, Fixed, HasDynamicShapeReturn
<1>4. FixedIsBuilt
  BY DEF Init, FixedIsBuilt, Ops, BuiltTypes
<1>5. SettledIsInferred
  BY DEF Init, SettledIsInferred, Ops, Fixed
<1>6. DoneMeansEmpty
  BY DEF Init, DoneMeansEmpty
<1> QED BY <1>2, <1>3, <1>4, <1>5, <1>6 DEF IInv

(* inferShapes() on a ready operation keeps the invariant.                 *)
LEMMA InferInv ==
    ASSUME IInv, NEW o \in worklist, Infer(o)
    PROVE  IInv'
<1> USE DEF IInv
<1>1. /\ o \in Ops /\ type[o] = Unranked /\ ~ Fixed(o)
      /\ WellFormed(prog) /\ type \in [Ops -> Type]
      /\ status = "running" /\ prog' = prog /\ status' = status
      /\ worklist' = worklist \ {o}
      /\ IsAllOperandsInferred(prog, type, o)
  BY DEF TypeOK, WaitingIsUnranked, WaitingIsDynamic, Infer, Ready
<1>2. type' = [type EXCEPT ![o] = InferredType(prog, type, o)]
  BY <1>1 DEF Infer, InferredType
<1>3. InferredType(prog, type, o) \in Type
  BY <1>1, WellFormedIsDominated, InferredTypeType DEF Ops
<1>4. type' \in [Ops -> Type]
  BY <1>1, <1>2, <1>3
<1>5. TypeOK'
  BY <1>1, <1>4 DEF TypeOK, Ops
<1>6. WaitingIsUnranked' /\ WaitingIsDynamic'
  BY <1>1, <1>2 DEF WaitingIsUnranked, WaitingIsDynamic, Fixed, TypeOK
<1>7. FixedIsBuilt'
  BY <1>1, <1>2 DEF FixedIsBuilt, Fixed, Ops
\* An operation with ranked operands does not have o, which was unranked, among them.
<1>8. ASSUME NEW q \in Ops, IsAllOperandsInferred(prog, type, q)
      PROVE  /\ IsAllOperandsInferred(prog, type', q)
             /\ InferredType(prog, type', q) = InferredType(prog, type, q)
  <2>1. \A k \in DOMAIN prog[q].args :
            prog[q].args[k] \in Ops /\ prog[q].args[k] # o
    BY <1>1, <1>8, WellFormedFacts DEF IsAllOperandsInferred, IsRanked, Ops
  <2>2. \A k \in DOMAIN prog[q].args :
            type'[prog[q].args[k]] = type[prog[q].args[k]]
    BY <1>1, <1>2, <2>1
  <2> QED BY <1>8, <2>2, SameOperands
<1>9. SettledIsInferred'
  <2> SUFFICES ASSUME NEW q \in Ops \ worklist', ~ Fixed(q)
               PROVE  /\ IsAllOperandsInferred(prog, type', q)
                      /\ type'[q] = InferredType(prog, type', q)
    BY <1>1 DEF SettledIsInferred, Fixed, Ops
  <2>1. CASE q = o
    BY <1>1, <1>2, <1>8, <2>1
  <2>2. CASE q # o
    <3>1. q \in Ops \ worklist
      BY <1>1, <2>2
    <3>2. IsAllOperandsInferred(prog, type, q) /\ type[q] = InferredType(prog, type, q)
      BY <3>1 DEF SettledIsInferred
    <3> QED BY <1>1, <1>2, <1>8, <2>2, <3>2
  <2> QED BY <2>1, <2>2
<1>10. DoneMeansEmpty'
  BY <1>1 DEF DoneMeansEmpty
<1> QED BY <1>5, <1>6, <1>7, <1>9, <1>10

(* The other steps only move the status.                                   *)
LEMMA StatusInv ==
    ASSUME IInv, UNCHANGED << prog, type, worklist >>,
           status' \in Statuses,
           status' \in {"inferred", "verified", "rejected"} => worklist = {}
    PROVE  IInv'
<1>1. TypeOK'
  BY DEF IInv, TypeOK, Ops
<1>2. WaitingIsUnranked' /\ WaitingIsDynamic' /\ FixedIsBuilt'
  BY DEF IInv, WaitingIsUnranked, WaitingIsDynamic, FixedIsBuilt, Fixed, Ops
<1>3. SettledIsInferred'
  BY DEF IInv, SettledIsInferred, Fixed, Ops
<1>4. DoneMeansEmpty'
  BY DEF DoneMeansEmpty
<1> QED BY <1>1, <1>2, <1>3, <1>4 DEF IInv

(* Every step keeps the invariant.                                         *)
LEMMA NextInv == IInv /\ [Next]_vars => IInv'
<1> SUFFICES ASSUME IInv, [Next]_vars PROVE IInv'
  OBVIOUS
<1>1. ASSUME NEW o \in worklist, Infer(o) PROVE IInv'
  BY <1>1, InferInv
<1>2. ASSUME NEW o \in worklist, NoInterface(o) PROVE IInv'
  BY <1>2, StatusInv DEF NoInterface, Statuses
<1>3. CASE Finish
  BY <1>3, StatusInv DEF Finish, Statuses
<1>4. CASE Verify
  BY <1>4, StatusInv DEF Verify, Statuses, IInv, DoneMeansEmpty
<1>5. CASE UNCHANGED vars
  BY <1>5, StatusInv DEF vars, IInv, TypeOK, DoneMeansEmpty
<1> QED BY <1>1, <1>2, <1>3, <1>4, <1>5 DEF Next

(* The inductive invariant holds of every run of the pass, over any set of *)
(* well formed functions.                                                  *)
THEOREM Invariance == Spec => []IInv
BY InitInv, NextInv, PTL DEF Spec

(* Types stay types and the worklist holds operations (TypeOK).            *)
THEOREM TypeCorrect == Spec => []TypeOK
<1>1. IInv => TypeOK
  BY DEF IInv
<1> QED BY Invariance, <1>1, PTL

(* Off the worklist the typing equations hold at every moment, whatever    *)
(* the order in which the set of pointers yields the operations.           *)
THEOREM TypesSettle == Spec => []SettledTypes
<1>1. ASSUME IInv PROVE SettledTypes
  <2> SUFFICES ASSUME NEW o \in Ops \ worklist
               PROVE  TypeEquation(prog, type, o)
    BY DEF SettledTypes
  <2>1. CASE Fixed(o)
    BY <1>1, <2>1 DEF IInv, FixedIsBuilt, TypeEquation, Fixed
  <2>2. CASE ~ Fixed(o)
    BY <1>1, <2>2 DEF IInv, SettledIsInferred, TypeEquation, Fixed
  <2> QED BY <2>1, <2>2
<1> QED BY Invariance, <1>1, PTL

-----------------------------------------------------------------------------
(* The typing equations determine the result: whatever solution one takes, *)
(* the pass never settles on anything else.                                *)

LEMMA InitAgrees ==
    ASSUME Init, NEW ref, Solution(prog, ref)
    PROVE  AgreesWith(ref)
<1>1. ASSUME NEW o \in Ops \ worklist PROVE type[o] = ref[o]
  <2>1. o \in DOMAIN prog /\ Fixed(o)
    BY <1>1 DEF Init, Ops, Fixed
  <2>2. type[o] = prog[o].type
    BY <2>1 DEF Init, BuiltTypes
  <2>3. ref[o] = prog[o].type
    BY <2>1 DEF Solution, TypeEquation, Fixed
  <2> QED BY <2>2, <2>3
<1> QED BY <1>1 DEF AgreesWith

LEMMA NextAgrees ==
    ASSUME IInv, [Next]_vars, NEW ref, Solution(prog, ref), AgreesWith(ref)
    PROVE  AgreesWith(ref)'
<1>1. ASSUME NEW o \in worklist, Infer(o) PROVE AgreesWith(ref)'
  <2>1. /\ o \in Ops /\ ~ Fixed(o) /\ WellFormed(prog)
        /\ type \in [Ops -> Type] /\ type[o] = Unranked
        /\ prog' = prog /\ worklist' = worklist \ {o}
        /\ IsAllOperandsInferred(prog, type, o)
    BY <1>1 DEF IInv, TypeOK, WaitingIsDynamic, WaitingIsUnranked, Infer, Ready
  <2>2. type' = [type EXCEPT ![o] = InferredType(prog, type, o)]
    BY <1>1, <2>1 DEF Infer, InferredType
  <2>3. \A k \in DOMAIN prog[o].args : type[prog[o].args[k]] = ref[prog[o].args[k]]
    <3> SUFFICES ASSUME NEW k \in DOMAIN prog[o].args
                 PROVE  type[prog[o].args[k]] = ref[prog[o].args[k]]
      OBVIOUS
    <3>1. prog[o].args[k] \in Ops
      BY <2>1, WellFormedFacts DEF Ops
    <3>2. prog[o].args[k] \notin worklist
      BY <2>1 DEF IInv, WaitingIsUnranked, IsAllOperandsInferred, IsRanked
    <3> QED BY <3>1, <3>2 DEF AgreesWith
  <2>4. /\ InferredType(prog, type, o) = InferredType(prog, ref, o)
        /\ IsAllOperandsInferred(prog, ref, o)
    BY <2>1, <2>3, SameOperands
  <2>5. ref[o] = InferredType(prog, ref, o)
    BY <2>1, <2>4 DEF Solution, TypeEquation, Fixed, Ops
  <2> QED BY <2>1, <2>2, <2>4, <2>5 DEF AgreesWith, Ops
<1>2. CASE UNCHANGED << prog, type, worklist >>
  BY <1>2 DEF AgreesWith, Ops
<1> QED BY <1>1, <1>2 DEF Next, NoInterface, Finish, Verify, vars

(* Order independence.  Take any assignment of types that solves the       *)
(* typing equations of every program it is asked about: in every order the *)
(* worklist may be visited, the pass only ever settles on its types.       *)
THEOREM OrderIndependence ==
    ASSUME NEW sol, \A p \in Programs : Solution(p, sol[p])
    PROVE  Spec => [](prog \in Programs /\ AgreesWith(sol[prog]))
<1> DEFINE Agrees == prog \in Programs /\ AgreesWith(sol[prog])
<1>1. Init => Agrees
  BY InitAgrees DEF Init
<1>2. IInv /\ Agrees /\ [Next]_vars => Agrees'
  <2> SUFFICES ASSUME IInv, Agrees, [Next]_vars PROVE Agrees'
    OBVIOUS
  <2>1. prog' = prog
    BY DEF Next, Infer, NoInterface, Finish, Verify, vars
  <2>2. \A ref : Solution(prog, ref) /\ AgreesWith(ref) => AgreesWith(ref)'
    BY NextAgrees
  <2>3. AgreesWith(sol[prog])'
    BY <2>1, <2>2 DEF AgreesWith, Ops
  <2> QED BY <2>1, <2>3
<1> QED BY <1>1, <1>2, Invariance, PTL DEF Spec

(* When the pass succeeds its types are a solution of the equations: every *)
(* operation it was to infer was visited, with ranked operands.            *)
THEOREM SuccessIsSolution == Spec => [](Succeeded => Solution(prog, type))
<1>1. ASSUME IInv, SettledTypes, Succeeded PROVE Solution(prog, type)
  BY <1>1 DEF IInv, DoneMeansEmpty, SettledTypes, Solution, Ops, Succeeded
<1> QED BY <1>1, Invariance, TypesSettle, PTL

-----------------------------------------------------------------------------
(* The verifier never lets an ill typed operation through, although a      *)
(* transpose has no verifier: its type can only come from inferShapes().   *)

LEMMA VerifiedTypes ==
    ASSUME IInv, worklist = {}, NEW o \in Ops,
           IsAllOperandsInferred(prog, type, o), IsRanked(type[o]),
           Verifies(prog[o].kind, OperandTypes(prog, type, o), type[o])
    PROVE  WellTypedOp(prog[o].kind, OperandTypes(prog, type, o), type[o])
<1> DEFINE in == OperandTypes(prog, type, o)
<1>1. WellFormed(prog) /\ o \in DOMAIN prog
  BY DEF IInv, TypeOK, Ops
<1>2. DOMAIN in = DOMAIN prog[o].args
  BY DEF OperandTypes
<1>3. \A k \in DOMAIN in : IsRanked(in[k])
  BY DEF OperandTypes, IsAllOperandsInferred
<1>4. CASE prog[o].kind \in Elementwise \cup {"cast"}
  <2>1. \A k \in DOMAIN in : in[k] = type[o]
    BY <1>3, <1>4 DEF Verifies, CompatibleTypes, IsRanked
  <2> QED BY <1>4, <2>1 DEF WellTypedOp, Elementwise
<1>5. CASE prog[o].kind = "matrix_mul"
  <2>1. DOMAIN in = 1..2
    BY <1>1, <1>2, <1>5, WellFormedFacts DEF ArityOK
  <2>2. IsRanked(in[1]) /\ IsRanked(in[2])
    BY <1>3, <2>1
  <2> QED BY <1>5, <2>2 DEF Verifies, WellTypedOp, Elementwise
<1>6. CASE prog[o].kind = "transpose"
  <2>1. ~ Fixed(o)
    BY <1>1, <1>6, WellFormedFacts DEF Fixed, HasDynamicShapeReturn, BuiltTypes, Sinks
  <2>2. type[o] = InferShapes("transpose", in, Unranked)
    BY <1>6, <2>1 DEF IInv, SettledIsInferred, InferredType
  <2>3. type[o] = TransposeShape(in[1])
    BY <2>2 DEF InferShapes, ResultShape, IsRanked
  <2> QED BY <1>6, <2>3 DEF WellTypedOp, Elementwise
<1>7. CASE prog[o].kind \notin Elementwise \cup {"cast", "matrix_mul", "transpose"}
  BY <1>7 DEF WellTypedOp
<1> QED BY <1>4, <1>5, <1>6, <1>7

(* What Verify leaves behind, next to IInv.                                *)
VerifiedAll ==
    status = "verified" => \A o \in Ops :
        Verifies(prog[o].kind, OperandTypes(prog, type, o), type[o])

LEMMA VerifiedAllInv == VerifiedAll /\ [Next]_vars => VerifiedAll'
<1> SUFFICES ASSUME VerifiedAll, [Next]_vars PROVE VerifiedAll'
  OBVIOUS
<1>1. CASE Verify
  BY <1>1 DEF Verify, VerifiedAll, Ops
<1>2. CASE UNCHANGED vars
  BY <1>2 DEF vars, VerifiedAll, Ops
<1>3. CASE status' # "verified"
  BY <1>3 DEF VerifiedAll
<1> QED BY <1>1, <1>2, <1>3 DEF Next, Infer, NoInterface, Finish

(* A function the verifier lets through is well typed wherever shapes are  *)
(* known (VerifiedIsWellTyped).                                            *)
THEOREM VerifiedSound == Spec => []VerifiedIsWellTyped
<1>1. Init => VerifiedAll
  BY DEF Init, VerifiedAll
<1>2. ASSUME IInv, VerifiedAll PROVE VerifiedIsWellTyped
  BY <1>2, VerifiedTypes DEF VerifiedIsWellTyped, VerifiedAll, WellTyped, Ops, IInv,
     DoneMeansEmpty
<1> QED BY <1>1, <1>2, VerifiedAllInv, Invariance, PTL DEF Spec

-----------------------------------------------------------------------------
(* The types found in program order.                                       *)

(* In every order of visits the pass only ever settles on the types that   *)
(* program order gives: they are the solution OrderIndependence asks for.  *)
THEOREM SettlesOnInOrderTypes == Spec => [](AgreesWith(InOrderTypes(prog)))
<1> DEFINE Agrees == AgreesWith(InOrderTypes(prog))
<1>1. Init => Agrees
  BY ProgramsAssumption, WellFormedIsDominated, InOrderIsSolution, InitAgrees DEF Init
<1>2. IInv /\ Agrees /\ [Next]_vars => Agrees'
  <2> SUFFICES ASSUME IInv, Agrees, [Next]_vars PROVE Agrees'
    OBVIOUS
  <2>1. prog' = prog
    BY DEF Next, Infer, NoInterface, Finish, Verify, vars
  <2>2. \A ref : Solution(prog, ref) /\ AgreesWith(ref) => AgreesWith(ref)'
    BY NextAgrees
  <2>3. Solution(prog, InOrderTypes(prog))
    BY WellFormedIsDominated, InOrderIsSolution DEF IInv, TypeOK
  <2> QED BY <2>1, <2>2, <2>3 DEF AgreesWith, Ops
<1> QED BY <1>1, <1>2, Invariance, PTL DEF Spec

-----------------------------------------------------------------------------
(* The pass fails for a cause upstream (FailureHasCause): operations never *)
(* wait for each other, since the first one still waiting has no operand   *)
(* that waits.                                                             *)

LEMMA FinishHasCause ==
    ASSUME IInv, Finish, worklist # {}
    PROVE  \E o \in worklist : \E k \in DOMAIN prog[o].args :
              prog[o].args[k] \notin worklist /\ ~ IsRanked(type[prog[o].args[k]])
<1>1. /\ WellFormed(prog) /\ worklist \subseteq DOMAIN prog
      /\ Ready = {}
  BY DEF IInv, TypeOK, Ops, Finish
<1>2. worklist \in SUBSET Nat
  <2>1. DOMAIN prog = 1..Len(prog) /\ Len(prog) \in Nat
    BY <1>1 DEF WellFormed
  <2> QED BY <1>1, <2>1
<1>3. PICK o \in worklist : \A q \in worklist : o <= q
  BY <1>2, LeastNumber
<1>4. PICK k \in DOMAIN prog[o].args : ~ IsRanked(type[prog[o].args[k]])
  BY <1>1, <1>3 DEF Ready, IsAllOperandsInferred
<1>5. prog[o].args[k] \in 1..(o - 1) /\ o \in Nat
  BY <1>1, <1>2, <1>3, <1>4, WellFormedIsDominated DEF Dominated
<1>6. prog[o].args[k] \notin worklist
  BY <1>3, <1>5
<1> QED BY <1>3, <1>4, <1>6

THEOREM FailsForACause == Spec => []FailureHasCause
<1>1. Init => FailureHasCause
  BY DEF Init, FailureHasCause
<1>2. IInv /\ FailureHasCause /\ [Next]_vars => FailureHasCause'
  <2> SUFFICES ASSUME IInv, FailureHasCause, [Next]_vars PROVE FailureHasCause'
    OBVIOUS
  <2>1. ASSUME NEW o \in worklist, Infer(o) PROVE FailureHasCause'
    BY <2>1 DEF Infer, FailureHasCause
  <2>2. ASSUME NEW o \in worklist, NoInterface(o) PROVE FailureHasCause'
    BY <2>2 DEF NoInterface, FailureHasCause, Ready
  <2>3. CASE Finish
    <3>1. CASE worklist = {}
      BY <2>3, <3>1 DEF Finish, FailureHasCause
    <3>2. CASE worklist # {}
      BY <2>3, <3>2, FinishHasCause DEF Finish, FailureHasCause
    <3> QED BY <3>1, <3>2
  <2>4. CASE Verify
    BY <2>4 DEF Verify, FailureHasCause
  <2>5. CASE UNCHANGED vars
    BY <2>5 DEF vars, FailureHasCause, Ready
  <2> QED BY <2>1, <2>2, <2>3, <2>4, <2>5 DEF Next
<1> QED BY <1>1, <1>2, Invariance, PTL DEF Spec

-----------------------------------------------------------------------------
(* Success or failure depends on the program alone.                        *)

(* InferenceContract!Inferable, in the terms of the pass.                  *)
CanSucceed(p) ==
    \A o \in DOMAIN p : HasDynamicShapeReturn(p, BuiltTypes(p), o) =>
        /\ HasShapeInference(p[o].kind)
        /\ IsAllOperandsInferred(p, InOrderTypes(p), o)

(* The contract speaks of the same programs and types as the pass.         *)
LEMMA SameContract ==
    ASSUME NEW p
    PROVE  /\ Contract!WellFormed(p) <=> WellFormed(p)
           /\ Contract!BuiltTypes(p) = BuiltTypes(p)
           /\ Contract!InOrderTypes(p) = InOrderTypes(p)
           /\ Contract!Inferable(p) <=> CanSucceed(p)
<1>1. Contract!WellFormed(p) <=> WellFormed(p)
  BY DEF Contract!WellFormed, Contract!MayFollow, Contract!Operation,
         Contract!ArityOK, Contract!BuildType, Contract!Verifies, Contract!Kinds,
         Contract!Elementwise, Contract!Sinks, Contract!Type, Contract!Shape,
         Contract!IsRanked, Contract!CanInfer, Contract!ResultShape,
         Contract!MatmulShape, Contract!MatmulCompatible, Contract!MatmulRanks,
         Contract!Batch, Contract!Contracted, Contract!TransposeShape,
         Contract!CompatibleTypes, Contract!IntProduct, Contract!ToInt,
         Contract!FoldLeft, Contract!MapThenFoldSet, Contract!Max,
         WellFormed, MayFollow, Operation, ArityOK, BuildType, Verifies, Kinds,
         Elementwise, Sinks, Type, Shape, IsRanked, CanInfer, ResultShape,
         MatmulShape, MatmulCompatible, MatmulRanks, Batch, Contracted,
         TransposeShape, CompatibleTypes, IntProduct, ToInt, FoldLeft,
         MapThenFoldSet, Max
<1>2. Contract!BuiltTypes(p) = BuiltTypes(p)
  BY DEF Contract!BuiltTypes, BuiltTypes
<1>3. Contract!InOrderTypes(p) = InOrderTypes(p)
  BY DEF Contract!InOrderTypes, Contract!HasDynamicShapeReturn, Contract!BuiltTypes,
         Contract!InferShapes, Contract!IsRanked, Contract!CanInfer,
         Contract!ResultShape, Contract!MatmulShape, Contract!MatmulCompatible,
         Contract!MatmulRanks, Contract!Batch, Contract!Contracted,
         Contract!TransposeShape, Contract!Elementwise, Contract!Sinks,
         InOrderTypes, HasDynamicShapeReturn, BuiltTypes, InferShapes, IsRanked,
         CanInfer, ResultShape, MatmulShape, MatmulCompatible, MatmulRanks,
         Batch, Contracted, TransposeShape, Elementwise, Sinks
<1>4. Contract!Inferable(p) <=> CanSucceed(p)
  BY <1>2, <1>3
     DEF Contract!Inferable, Contract!HasDynamicShapeReturn, Contract!HasShapeInference,
         Contract!IsAllOperandsInferred, Contract!IsRanked, Contract!Elementwise,
         Contract!Sinks, CanSucceed, HasDynamicShapeReturn, HasShapeInference,
         IsAllOperandsInferred, IsRanked, Elementwise, Sinks
<1> QED BY <1>1, <1>2, <1>3, <1>4

(* What was visited implements the interface: next to IInv.                *)
VisitedHasInterface ==
    \A o \in Ops \ worklist : ~ Fixed(o) => HasShapeInference(prog[o].kind)

LEMMA VisitedHasInterfaceInv == VisitedHasInterface /\ [Next]_vars => VisitedHasInterface'
<1> SUFFICES ASSUME VisitedHasInterface, [Next]_vars PROVE VisitedHasInterface'
  OBVIOUS
<1>1. ASSUME NEW o \in worklist, Infer(o) PROVE VisitedHasInterface'
  BY <1>1 DEF Infer, VisitedHasInterface, Ops, Fixed
<1>2. CASE UNCHANGED << prog, worklist >>
  BY <1>2 DEF VisitedHasInterface, Ops, Fixed
<1> QED BY <1>1, <1>2 DEF Next, NoInterface, Finish, Verify, vars

(* Everything the steps of the contract are derived from.                  *)
CInv == IInv /\ VisitedHasInterface /\ AgreesWith(InOrderTypes(prog))

(* With nothing left to visit, the program is one that can succeed and its *)
(* types are those of program order.                                       *)
LEMMA SuccessIsInferable ==
    ASSUME CInv, worklist = {}
    PROVE  CanSucceed(prog) /\ type = InOrderTypes(prog)
<1>1. WellFormed(prog) /\ type \in [Ops -> Type]
  BY DEF CInv, IInv, TypeOK
<1>2. \A o \in Ops : type[o] = InOrderTypes(prog)[o]
  BY DEF CInv, AgreesWith
<1>3. type = InOrderTypes(prog)
  <2>1. InOrderTypes(prog) = [o \in Ops |-> InOrderTypes(prog)[o]]
    BY <1>1, WellFormedIsDominated, InOrderIsSolution DEF Ops
  <2> QED BY <1>1, <1>2, <2>1
<1>4. ASSUME NEW o \in Ops, HasDynamicShapeReturn(prog, BuiltTypes(prog), o)
      PROVE  /\ HasShapeInference(prog[o].kind)
             /\ IsAllOperandsInferred(prog, type, o)
  BY <1>4 DEF CInv, IInv, SettledIsInferred, VisitedHasInterface, Fixed
<1> QED BY <1>3, <1>4 DEF CanSucceed, Ops

(* An unranked operand that has settled is unranked in program order too.  *)
LEMMA CauseIsNotInferable ==
    ASSUME CInv, NEW o \in worklist, NEW k \in DOMAIN prog[o].args,
           prog[o].args[k] \notin worklist, ~ IsRanked(type[prog[o].args[k]])
    PROVE  ~ CanSucceed(prog)
<1>1. o \in Ops /\ WellFormed(prog) /\ HasDynamicShapeReturn(prog, BuiltTypes(prog), o)
  BY DEF CInv, IInv, TypeOK, WaitingIsDynamic, Fixed
<1>2. prog[o].args[k] \in Ops
  BY <1>1, WellFormedFacts DEF Ops
<1>3. type[prog[o].args[k]] = InOrderTypes(prog)[prog[o].args[k]]
  BY <1>2 DEF CInv, AgreesWith
<1>4. ~ IsAllOperandsInferred(prog, InOrderTypes(prog), o)
  BY <1>3 DEF IsAllOperandsInferred
<1> QED BY <1>1, <1>4 DEF CanSucceed, Ops

(* Every step of the pass is a step of the contract or changes nothing the *)
(* contract speaks of.                                                     *)
LEMMA StepImplementsContract ==
    CInv /\ [Next]_vars => [Contract!Next]_(Contract!cvars)
<1> SUFFICES ASSUME CInv, [Next]_vars PROVE [Contract!Next]_(Contract!cvars)
  OBVIOUS
<1> USE DEF Contract!Next, Contract!Succeed, Contract!Fail, Contract!cvars
<1>1. ASSUME NEW o \in worklist, Infer(o) PROVE UNCHANGED Contract!cvars
  BY <1>1 DEF Infer
<1>2. ASSUME NEW o \in worklist, NoInterface(o) PROVE Contract!Fail
  <2>1. ~ CanSucceed(prog)
    BY <1>2 DEF NoInterface, CanSucceed, CInv, IInv, TypeOK, WaitingIsDynamic, Fixed, Ops
  <2> QED BY <1>2, <2>1, SameContract DEF NoInterface
<1>3. CASE Finish /\ worklist = {}
  <2>1. CanSucceed(prog) /\ type = InOrderTypes(prog)
    BY <1>3, SuccessIsInferable
  <2>2. Contract!Succeed
    BY <1>3, <2>1, SameContract DEF Finish
  <2> QED BY <2>2
<1>4. CASE Finish /\ worklist # {}
  <2>1. ~ CanSucceed(prog)
    BY <1>4, FinishHasCause, CauseIsNotInferable DEF CInv
  <2>2. Contract!Fail
    BY <1>4, <2>1, SameContract DEF Finish
  <2> QED BY <2>2
<1>5. CASE Verify
  BY <1>5 DEF Verify
<1>6. CASE UNCHANGED vars
  BY <1>6 DEF vars
<1> QED BY <1>1, <1>2, <1>3, <1>4, <1>5, <1>6 DEF Next

(* The pass implements the safety part of its contract: the types appear   *)
(* at once, they are those of program order, and the pass succeeds exactly *)
(* on the programs in which program order can type everything.             *)
THEOREM ImplementsContractSafety ==
    Spec => Contract!Init /\ [][Contract!Next]_(Contract!cvars)
<1>1. Init => Contract!Init
  BY ProgramsAssumption, SameContract DEF Init, Contract!Init
<1>2. Init => VisitedHasInterface
  BY DEF Init, VisitedHasInterface, Ops, Fixed
<1>3. CInv <=> IInv /\ VisitedHasInterface /\ AgreesWith(InOrderTypes(prog))
  BY DEF CInv
<1> QED BY <1>1, <1>2, <1>3, VisitedHasInterfaceInv, Invariance, SettlesOnInOrderTypes,
           StepImplementsContract, PTL DEF Spec
=============================================================================
