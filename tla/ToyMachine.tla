------------------------------ MODULE ToyMachine ------------------------------
(***************************************************************************)
(* What compiling and running a main function promises: if it is one the   *)
(* target can express, the meaning of every toy.print is printed, in       *)
(* program order; otherwise it is refused, and nothing is printed.         *)
(***************************************************************************)
EXTENDS Naturals, Sequences

VARIABLES
    promised,      \* what the prints of the program mean
    compilable,    \* whether the target can express the program
    out,           \* what has been printed
    outcome
mvars == << promised, compilable, out, outcome >>

Init == out = << >> /\ outcome = "running"

Refuse ==
    /\ outcome = "running" /\ ~ compilable
    /\ outcome' = "refused"
    /\ UNCHANGED << promised, compilable, out >>

PrintNext ==
    /\ outcome = "running" /\ compilable /\ Len(out) < Len(promised)
    /\ out' = Append(out, promised[Len(out) + 1])
    /\ UNCHANGED << promised, compilable, outcome >>

Halt ==
    /\ outcome = "running" /\ compilable /\ out = promised
    /\ outcome' = "done"
    /\ UNCHANGED << promised, compilable, out >>

Next == Refuse \/ PrintNext \/ Halt

Spec == Init /\ [][Next]_mvars
=============================================================================
