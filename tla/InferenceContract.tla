-------------------------- MODULE InferenceContract --------------------------
(***************************************************************************)
(* What shape inference promises of one function, without its worklist:    *)
(* in a single step it either replaces every type by the solution of the   *)
(* typing equations or reports failure, and which of the two depends only  *)
(* on the program.                                                         *)
(***************************************************************************)
EXTENDS ToyFunction

VARIABLES prog, types, outcome
cvars == << prog, types, outcome >>

(* Each operation left to infer can be: it implements the interface, and   *)
(* its operands have types by the time their own operations are visited.   *)
Inferable(p) ==
    \A o \in DOMAIN p : HasDynamicShapeReturn(p, BuiltTypes(p), o) =>
        /\ HasShapeInference(p[o].kind)
        /\ IsAllOperandsInferred(p, InOrderTypes(p), o)

Init ==
    /\ WellFormed(prog)
    /\ types = BuiltTypes(prog)
    /\ outcome = "pending"

Succeed ==
    /\ outcome = "pending" /\ Inferable(prog)
    /\ types' = InOrderTypes(prog)
    /\ outcome' = "inferred"
    /\ UNCHANGED prog

Fail ==
    /\ outcome = "pending" /\ ~ Inferable(prog)
    /\ outcome' = "failed"
    /\ UNCHANGED << prog, types >>

Next == Succeed \/ Fail

Spec == Init /\ [][Next]_cvars /\ WF_cvars(Next)
=============================================================================
