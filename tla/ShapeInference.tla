---------------------------- MODULE ShapeInference ----------------------------
(***************************************************************************)
(* ShapeInferencePass on one function.  The pass collects the operations   *)
(* whose result is unranked, then repeatedly takes one whose operands are  *)
(* all ranked, calls its inferShapes() and drops it from the worklist.     *)
(* The worklist is a SmallPtrSet, walked in the order of the addresses of  *)
(* the operations: which ready operation find_if returns is arbitrary.     *)
(* When the pass succeeds the pass manager runs the verifier.              *)
(***************************************************************************)
EXTENDS ToyFunction

CONSTANT Programs          \* the bodies the pass may be given

ASSUME ProgramsAssumption == \A p \in Programs : WellFormed(p)

VARIABLES
    prog,        \* the operations of the function
    type,        \* the current result type of each
    worklist,    \* the operations still to be inferred
    status       \* where the pass, and the verifier behind it, stand

vars == << prog, type, worklist, status >>

Ops == DOMAIN prog

(* Collect the worklist (the walk over the function).                      *)
Init ==
    /\ prog \in Programs
    /\ type = BuiltTypes(prog)
    /\ worklist = {o \in DOMAIN prog : HasDynamicShapeReturn(prog, type, o)}
    /\ status = "running"

(* What find_if may return.                                                *)
Ready == {o \in worklist : IsAllOperandsInferred(prog, type, o)}

(* Faulty: an operation stays listed when inferShapes() returned early.     *)
FaultyInfer(o) ==
    /\ status = "running" /\ o \in Ready
    /\ HasShapeInference(prog[o].kind)
    /\ LET t == InferShapes(prog[o].kind, OperandTypes(prog, type, o), type[o])
       IN  /\ type' = [type EXCEPT ![o] = t]
           /\ worklist' = IF IsRanked(t) THEN worklist \ {o} ELSE worklist
    /\ UNCHANGED << prog, status >>

(* inferShapes() is called and the operation leaves the worklist, whether  *)
(* or not it was given a type.                                             *)
Infer(o) ==
    /\ status = "running" /\ o \in Ready
    /\ HasShapeInference(prog[o].kind)
    /\ type' = [type EXCEPT ![o] =
                    InferShapes(prog[o].kind, OperandTypes(prog, type, o), type[o])]
    /\ worklist' = worklist \ {o}
    /\ UNCHANGED << prog, status >>

(* "unable to infer shape of operation without shape inference interface". *)
NoInterface(o) ==
    /\ status = "running" /\ o \in Ready
    /\ ~ HasShapeInference(prog[o].kind)
    /\ status' = "failed"
    /\ UNCHANGED << prog, type, worklist >>

(* Faulty: the loop gives up at the first operation that is not ready.     *)
FaultyEarlyFinish ==
    /\ status = "running" /\ (Ready # worklist \/ worklist = {})
    /\ status' = IF worklist = {} THEN "inferred" ELSE "failed"
    /\ UNCHANGED << prog, type, worklist >>

(* Faulty: the test for a non-empty worklist behind the loop is missing.   *)
FaultyFinish ==
    /\ status = "running" /\ Ready = {}
    /\ status' = "inferred"
    /\ UNCHANGED << prog, type, worklist >>

(* The loop ends: worklist empty, or nothing in it is ready.               *)
Finish ==
    /\ status = "running" /\ Ready = {}
    /\ status' = IF worklist = {} THEN "inferred" ELSE "failed"
    /\ UNCHANGED << prog, type, worklist >>

(* The verifier the pass manager runs on the function after the pass.      *)
Verify ==
    /\ status = "inferred"
    /\ status' = IF \A o \in Ops :
                      Verifies(prog[o].kind, OperandTypes(prog, type, o), type[o])
                 THEN "verified" ELSE "rejected"
    /\ UNCHANGED << prog, type, worklist >>

Next ==
    \/ \E o \in worklist : Infer(o) \/ NoInterface(o)
    \/ Finish
    \/ Verify

Spec == Init /\ [][Next]_vars /\ WF_vars(Next)

Statuses == {"running", "inferred", "failed", "verified", "rejected"}

-----------------------------------------------------------------------------
(* Types are types, and the worklist holds operations of the function.     *)
TypeOK ==
    /\ WellFormed(prog)
    /\ type \in [Ops -> Type]
    /\ worklist \subseteq {o \in Ops : prog[o].kind \notin Sinks \cup {"arg"}}
    /\ status \in Statuses

(* Off the worklist the typing equations hold at every moment: no order of *)
(* visits infers a type from an operand whose own type still changes.      *)
SettledTypes == \A o \in Ops \ worklist : TypeEquation(prog, type, o)

(* ref agrees with the pass on everything the pass has settled.            *)
AgreesWith(ref) == \A o \in Ops \ worklist : type[o] = ref[o]

(* The pass itself succeeded.                                              *)
Succeeded == status \in {"inferred", "verified", "rejected"}

(* A function the verifier lets through is well typed wherever shapes are  *)
(* known, the operations without a verifier of their own included.         *)
VerifiedIsWellTyped == status = "verified" => WellTyped(prog, type)

(* The pass gives up only for a cause upstream: an operation waits for a   *)
(* value that is off the worklist and unranked, or one that was reached    *)
(* cannot infer.  It never fails because operations wait for each other.   *)
FailureHasCause ==
    status = "failed" =>
        \E o \in worklist :
            \/ o \in Ready /\ ~ HasShapeInference(prog[o].kind)
            \/ \E k \in DOMAIN prog[o].args :
                  prog[o].args[k] \notin worklist /\ ~ IsRanked(type[prog[o].args[k]])

(* The pass comes to an end.                                               *)
Terminates == <>(status \in {"failed", "verified", "rejected"})

(* The pass implements its contract: the types appear all at once when it  *)
(* succeeds, and a failed run promises nothing about them.                 *)
Contract == INSTANCE InferenceContract WITH
    types   <- IF status \in {"running", "failed"} THEN BuiltTypes(prog) ELSE type,
    outcome <- CASE status = "running" -> "pending"
                 [] status = "failed"  -> "failed"
                 [] OTHER              -> "inferred"
ImplementsContract == Contract!Spec

(* The interface says "Infer and set the output shape for the current      *)
(* operation": after a successful pass every operation has one.            *)
InferredIsRanked ==
    status = "verified" =>
        \A o \in Ops : prog[o].kind \notin Sinks \cup {"arg"} => IsRanked(type[o])
=============================================================================
