-------------------------------- MODULE Driver --------------------------------
(***************************************************************************)
(* What lucid-toy does for its options: the steps of main() and the passes *)
(* of MLIRLowerProcess, in order.  A step is << name, function >>; steps   *)
(* that concern the module are for "main".                                 *)
(***************************************************************************)
EXTENDS Integers, Sequences, SequencesExt

(* enum Action, in the order of its declaration.                           *)
Actions == << "none", "ast", "toy", "linalg", "affine", "LLVM", "llvm-ir" >>
Emits == Range(Actions)
Options == [emit : Emits, opt : BOOLEAN, run : {"native", "jit"}]

AtLeast(o, emit) ==
    LET Number(e) == CHOOSE n \in DOMAIN Actions : Actions[n] = e
    IN  Number(o.emit) >= Number(emit)

NeedLLVM(o) == o.emit \in {"none", "llvm-ir"}

If(c, steps) == IF c THEN steps ELSE << >>
ForAll(steps) == [k \in DOMAIN steps |-> << steps[k], "callee" >>] \o [k \in DOMAIN steps |-> << steps[k], "main" >>]
Module(name) == << << name, "main" >> >>

(* The inliner: callees first, each function made canonical before it is   *)
(* inlined, and again once something has been inlined into it (external).  *)
InlinerSteps == ForAll(<< "canonicalize" >>) \o Module("inline") \o Module("canonicalize")

(* Faulty: the canonicalizer is asked for by -opt alone.                   *)
FaultyNeedCanonicalizer(o) == o.opt

NeedCanonicalizer(o) == o.opt \/ NeedLLVM(o) \/ AtLeast(o, "affine")

(* Faulty: the comparison excludes the level it names.                     *)
FaultyLowersToLLVM(o) == NeedLLVM(o) \/ AtLeast(o, "llvm-ir")

LowersToLLVM(o) == NeedLLVM(o) \/ AtLeast(o, "LLVM")

(* The pass manager of MLIRLowerProcess.  The passes over func.func behind *)
(* the affine lowering change what it produced, not what it means.         *)
Passes(o) ==
    InlinerSteps
      \o ForAll(<< "infer" >> \o If(NeedCanonicalizer(o), << "canonicalize", "cse" >>))
      \o If(o.emit = "linalg", Module("linalg"))
      \o If(NeedLLVM(o) \/ AtLeast(o, "affine"), Module("affine"))
      \o If(LowersToLLVM(o), Module("llvm"))

(* main(), parseInputFile(), lowerTollvm(), runJit() and compileNative().  *)
Steps(o) ==
    Module("parse")
      \o (IF o.emit = "ast" THEN Module("ast")
          ELSE Module("mlirgen") \o Passes(o)
               \o (IF o.emit \notin {"none", "llvm-ir"} THEN Module("dump")
                   ELSE Module("translate")
                        \o (IF o.emit = "llvm-ir" THEN Module("dump")
                            ELSE Module(o.run))))

(* What the help text says each option gives: << what, in which form >>.   *)
Requested(o) ==
    CASE o.emit = "ast"     -> << "dump", "ast" >>
      [] o.emit = "LLVM"    -> << "dump", "llvm" >>
      [] o.emit = "llvm-ir" -> << "dump", "ir" >>
      [] o.emit = "none"    -> << o.run, "ir" >>
      [] OTHER              -> << "dump", o.emit >>
=============================================================================
