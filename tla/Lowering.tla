------------------------------- MODULE Lowering -------------------------------
(***************************************************************************)
(* From a main function in the toy dialect to what it prints: the affine   *)
(* pass and the LLVM pass, or the linalg pass, each converting one         *)
(* operation after the other in program order, the verifier behind them,   *)
(* and then the code they produced, run item by item.                      *)
(*                                                                         *)
(* A conversion keeps the old block until it is through: patterns see code *)
(* in which converted and unconverted operations are mixed, and operands   *)
(* through the map value.                                                  *)
(***************************************************************************)
EXTENDS AffineLowering, LinalgLowering, LLVMLowering

CONSTANT Programs     \* main functions the lowering may be given

(* Bodies in SSA form, as the passes before leave them: one return, at the *)
(* end.                                                                    *)
ASSUME ProgramsAssumption ==
    \A p \in Programs :
        /\ p \in Seq(Range(p)) /\ p # << >>
        /\ \A o \in DOMAIN p :
              /\ p[o].kind = "return" <=> o = Len(p)
              /\ p[o].kind \in Kinds /\ p[o].args \in Seq(DOMAIN p) /\ p[o].type \in Type
              /\ \A k \in DOMAIN p[o].args : p[p[o].args[k]].kind \notin Sinks
              /\ p[o].kind = "constant" => IsRanked(p[o].type)
        /\ Verified(p)

VARIABLES
    prog,      \* the function being converted
    target,    \* the dialect it is lowered to
    pc,        \* the stage
    next,      \* the operation to convert, or the item to look at
    code,      \* the function as far as it is converted
    value,     \* the buffer that stands for each converted value
    decls,     \* symbols added to the module
    mem,       \* live buffers
    output,    \* what each print has printed
    promised   \* history: what each print of the source means
vars == << prog, target, pc, next, code, value, decls, mem, output, promised >>

Matches(o) == IF target = "affine" THEN AffineMatches(prog, o) ELSE LinalgMatches(prog, o)
Aborts(o)  == target = "affine" /\ AffineAborts(prog, o)
LoweredCodeOf(o) ==
    LET args == [k \in DOMAIN prog[o].args |-> value[prog[o].args[k]]]
    IN  IF target = "affine" THEN AffineLowered(prog, o, args, code)
                             ELSE LinalgLowered(prog, o, args, code)
VerifiesAfter(o) ==
    IF target = "affine" THEN AffineVerifiesAfter(prog, o) ELSE LinalgVerifiesAfter(prog, o)

(* The declaration a print of the linalg path calls.                       *)
LucidPrint(s) == << "lucid_print", Len(s) >>

Init ==
    /\ prog \in Programs /\ target \in {"affine", "linalg"}
    /\ pc = "function" /\ next = 1
    /\ code = [o \in DOMAIN prog |-> Toy(o)]
    /\ promised = [k \in DOMAIN Prints(prog) |-> Layout(Meaning(prog)[Prints(prog)[k]])]
    /\ value = << >> /\ decls = << >> /\ mem = << >> /\ output = << >>

(* FuncOpLowering: main must have no inputs and no results.                *)
LowerFunction ==
    /\ pc = "function"
    /\ pc' = IF \E o \in DOMAIN prog : \/ prog[o].kind = "arg"
                                       \/ prog[o].kind = "return" /\ prog[o].args # << >>
             THEN "refused" ELSE "convert"
    /\ UNCHANGED << prog, target, promised, next, code, value, decls, mem, output >>

Converting == pc = "convert" /\ next \in DOMAIN prog

(* A cast between equal types folds before any pattern is tried (external).*)
FoldsAway(o) == prog[o].kind = "cast" /\ prog[o].type = prog[prog[o].args[1]].type

FoldCast ==
    /\ Converting /\ FoldsAway(next)
    /\ value' = Append(value, value[prog[next].args[1]])
    /\ code' = ReplaceOp(code, next, << >>)
    /\ next' = next + 1
    /\ UNCHANGED << prog, target, promised, pc, decls, mem, output >>

ConvertOp ==
    /\ Converting /\ ~ Aborts(next) /\ Matches(next)
    /\ code' = LoweredCodeOf(next)
    /\ value' = Append(value, IF target = "affine" /\ prog[next].kind = "reshape"
                               THEN value[prog[next].args[1]] ELSE next)
    /\ decls' = IF prog[next].kind = "print" /\ target = "linalg"
                THEN GetOrInsert(decls, LucidPrint(prog[prog[next].args[1]].type)) ELSE decls
    /\ next' = next + 1
    /\ UNCHANGED << prog, target, promised, pc, mem, output >>

(* Faulty: an operation nobody has a pattern for is not noticed.           *)
FaultyRejectOp ==
    /\ Converting /\ ~ Aborts(next) /\ ~ Matches(next) /\ ~ FoldsAway(next)
    /\ prog[next].kind # "generic_call"
    /\ pc' = "refused"
    /\ UNCHANGED << prog, target, promised, next, code, value, decls, mem, output >>

(* No pattern, or none that matches: the conversion fails.                 *)
RejectOp ==
    /\ Converting /\ ~ Aborts(next) /\ ~ Matches(next) /\ ~ FoldsAway(next)
    /\ pc' = "refused"
    /\ UNCHANGED << prog, target, promised, next, code, value, decls, mem, output >>

AbortOp ==
    /\ Converting /\ Aborts(next)
    /\ pc' = "aborted"
    /\ UNCHANGED << prog, target, promised, next, code, value, decls, mem, output >>

(* The pass manager verifies what the pass produced.                       *)
Verify ==
    /\ pc = "convert" /\ next > Len(prog)
    /\ pc' = IF \A o \in DOMAIN prog : VerifiesAfter(o)
             THEN (IF target = "affine" THEN "llvm" ELSE "run") ELSE "refused"
    /\ next' = 1
    /\ UNCHANGED << prog, target, promised, code, value, decls, mem, output >>

(* The LLVM pass, one print after the other.                               *)
LowerPrint ==
    /\ pc = "llvm" /\ next \in DOMAIN code /\ code[next].op = "print"
    /\ code' = PrintfOpLowering(code, next)
    /\ decls' = PrintfSymbols(decls)
    /\ next' = next + 1
    /\ UNCHANGED << prog, target, promised, pc, value, mem, output >>

(* Faulty: goes on behind the last item.                                   *)
FaultyKeepItem ==
    /\ pc = "llvm"
    /\ IF next <= Len(code) + 1
       THEN /\ next \in DOMAIN code => code[next].op # "print"
            /\ next' = next + 1 /\ pc' = pc
       ELSE next' = 1 /\ pc' = "run"
    /\ UNCHANGED << prog, target, promised, code, value, decls, mem, output >>

(* Nothing to do for an item that prints nothing; then the code runs.      *)
KeepItem ==
    /\ pc = "llvm"
    /\ IF next \in DOMAIN code
       THEN code[next].op # "print" /\ next' = next + 1 /\ pc' = pc
       ELSE next' = 1 /\ pc' = "run"
    /\ UNCHANGED << prog, target, promised, code, value, decls, mem, output >>

(* One item of the function runs.                                          *)
Run ==
    /\ pc = "run"
    /\ LET item == code[next]
       IN  IF Faults(mem, item)
           THEN pc' = "fault" /\ UNCHANGED << next, mem, output >>
           ELSE /\ mem' = Exec(mem, item)
                /\ output' = CASE item.op = "printf" -> Append(output, PrintedBy(mem[item.buf], item.loops))
                               [] item.op = "print"  -> Append(output, Layout(mem[item.buf]))
                               [] OTHER -> output
                /\ pc' = IF item.op = "return" THEN "done" ELSE pc
                /\ next' = next + 1
    /\ UNCHANGED << prog, target, promised, code, value, decls >>

Next ==
    \/ LowerFunction
    \/ FoldCast \/ ConvertOp \/ RejectOp \/ AbortOp
    \/ Verify
    \/ LowerPrint \/ KeepItem
    \/ Run

Spec == Init /\ [][Next]_vars /\ WF_vars(Next)

-----------------------------------------------------------------------------
(* A stage stays inside what it walks over, the function while operations  *)
(* are converted, the code afterwards; every converted value and every     *)
(* buffer belongs to an operation of the function.                         *)
TypeOK ==
    /\ Verified(prog) /\ target \in {"affine", "linalg"}
    /\ pc \in {"function", "convert", "llvm", "run", "done", "refused", "aborted", "fault"}
    /\ next \in 1..(Len(IF pc \in {"llvm", "run", "done", "fault"} THEN code ELSE prog) + 1)
    /\ DOMAIN mem \subseteq DOMAIN prog
    /\ \A v \in Range(value) : v \in DOMAIN prog

(* Compiling and running main is what ToyMachine promises: it is refused   *)
(* exactly when it cannot be lowered, and otherwise prints what its source *)
(* means, whatever buffers and loops it was turned into.                   *)
Machine == INSTANCE ToyMachine WITH
    compilable <- IF target = "affine" THEN AffineLowers(prog) ELSE LinalgLowers(prog),
    out        <- output,
    outcome    <- CASE pc = "done" -> "done"
                 [] pc \in {"refused", "aborted"} -> "refused"
                 [] OTHER -> "running"
ImplementsToyMachine == Machine!Spec

(* The compiler and the code it produces come to an end.                   *)
Terminates == <>(pc \in {"done", "refused", "aborted"})

(* No code that was produced reads a buffer before it is allocated or      *)
(* filled, or uses or frees one that is freed already; on the affine path  *)
(* everything allocated has been freed by the return.                      *)
MemoryIsSafe ==
    /\ pc # "fault"
    /\ pc = "done" /\ target = "affine" => mem = << >>

(* When the code runs, each print finds the symbols it uses in the module, *)
(* and no symbol is there twice, however many prints asked for it.         *)
SymbolsOnce ==
    pc = "run" =>
        /\ IsInjective(decls)
        /\ \A k \in DOMAIN code :
              /\ code[k].op = "print" => LucidPrint(code[k].shape) \in Range(decls)
              /\ code[k].op = "printf" => {"printf", "frmt_spec", "nl"} \subseteq Range(decls)
=============================================================================
