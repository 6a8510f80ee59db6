------------------------------- MODULE Pipeline -------------------------------
(***************************************************************************)
(* lucid-toy from the command line to its exit code: main() and the passes *)
(* over a module of main and at most one function it calls.  The rewrites  *)
(* of a pass happen one at a time and in any order; the verifier runs      *)
(* behind every pass.  What lies outside the repository (the file, the     *)
(* translation to LLVM IR, the JIT, the linker) may fail at any time.      *)
(***************************************************************************)
EXTENDS Inliner, Driver

CONSTANT Inputs       \* pairs of options and a module the code generator accepted

(* The code generator is through with a module of this kind: its bodies    *)
(* are well formed and end with their return, and a call in main is typed  *)
(* with what the other function returns, which calls nobody.               *)
Bare(p) == [o \in DOMAIN p |-> [kind |-> p[o].kind, args |-> p[o].args, type |-> p[o].type]]

IsBody(p) ==
    /\ p # << >> /\ p \in Seq([kind : Kinds, args : Seq(Nat), type : Type, data : STRING])
    /\ WellFormed(Bare(p))
    /\ \A o \in DOMAIN p : p[o].kind = "return" <=> o = Len(p)

IsModule(m) ==
    /\ DOMAIN m \in {{"main"}, {"callee", "main"}}
    /\ \A g \in DOMAIN m : IsBody(m[g])
    /\ \A o \in DOMAIN m.main : m.main[o].kind = "generic_call" =>
          /\ "callee" \in DOMAIN m /\ Last(m.callee).args # << >>
          /\ m.main[o].type = m.callee[Last(m.callee).args[1]].type
    /\ "callee" \in DOMAIN m => \A o \in DOMAIN m.callee : m.callee[o].kind # "generic_call"

ASSUME InputsAssumption ==
    \A i \in Inputs : i = << i[1], i[2] >> /\ i[1] \in Options /\ IsModule(i[2])

VARIABLES
    options,
    mod,       \* the body of each function of the module
    todo,      \* the steps left
    form,      \* what the program is at the moment: source, ast, or a dialect
    exit,      \* "running", "abort", or an exit code
    output,    \* what was handed to the user
    promised   \* history: what the source prints
vars == << options, mod, todo, form, exit, output, promised >>

-----------------------------------------------------------------------------
(* What running the module prints, the prints of the callee included.      *)
Executed(m) ==
    LET f         == IF "callee" \in DOMAIN m THEN m.callee ELSE << >>
        InCallee(in) == Values(f, in, NoCall)
        Fits(in)  == f # << >> /\ Len(in) = Cardinality(Formals(f))
        Call(in)  == IF Fits(in) THEN InCallee(in)[Last(f).args[1]] ELSE None
        value     == Values(m.main, << >>, Call)
        PrintedAt(p, vs) == [k \in DOMAIN Prints(p) |-> vs[p[Prints(p)[k]].args[1]]]
        Step(o)   ==
            LET op == m.main[o]
                in == [k \in DOMAIN op.args |-> value[op.args[k]]]
            IN  CASE op.kind = "print" -> in
                  [] op.kind = "generic_call" /\ Fits(in) -> PrintedAt(f, InCallee(in))
                  [] OTHER -> << >>
    IN  FlattenSeq([o \in DOMAIN m.main |-> Step(o)])

-----------------------------------------------------------------------------
Init ==
    /\ \E i \in Inputs : options = i[1] /\ mod = i[2]
    /\ todo = Steps(options)
    /\ form = "source" /\ exit = "running" /\ output = << >>
    /\ promised = Executed(mod)

(* The next step is this one, for function fn.                             *)
Doing(name) == exit = "running" /\ Head(todo)[1] = name
fn   == Head(todo)[2]
Body == mod[fn]

VerifiesBody(p) ==
    \A o \in DOMAIN p : Verifies(p[o].kind, OperandTypes(p, BuiltTypes(p), o), p[o].type)

(* Steps for a function that is gone are skipped.                          *)
Remaining(steps, m) == FlattenSeq([k \in DOMAIN steps |-> If(steps[k][2] \in DOMAIN m, << steps[k] >>)])

(* Faulty: the verifier is turned off.                                     *)
FaultyEndPass(m) ==
    /\ mod' = m
    /\ todo' = Remaining(Tail(todo), m)
    /\ UNCHANGED << options, form, exit, output, promised >>

(* The pass is through and leaves module m: the verifier has a look.       *)
EndPass(m) ==
    /\ mod' = m
    /\ todo' = Remaining(Tail(todo), m)
    /\ exit' = IF \A g \in DOMAIN m : VerifiesBody(m[g]) THEN exit ELSE "1"
    /\ UNCHANGED << options, form, output, promised >>

Stop(code) == exit' = code /\ UNCHANGED << options, mod, todo, form, output, promised >>

-----------------------------------------------------------------------------
(* Outside the repository: success leads to the next form of the program.  *)
External == {"parse", "mlirgen", "translate"}
FormAfter == [parse |-> "ast", mlirgen |-> "toy", translate |-> "ir"]

Succeed ==
    /\ \E name \in External :
          Doing(name) /\ (name = "translate" => form = "llvm") /\ form' = FormAfter[name]
    /\ todo' = Remaining(Tail(todo), mod)
    /\ UNCHANGED << options, mod, exit, output, promised >>

(* "AST generation failed", "MLIR generation failed", "llvm lowering       *)
(* failed"; the JIT and the native compiler return -1 instead.             *)
Fail ==
    \/ \E name \in External : Doing(name) /\ Stop("1")
    \/ \E name \in {"jit", "native"} : Doing(name) /\ Stop("-1")

(* The dump, the run or the executable that ends main().                   *)
Deliver ==
    /\ \E name \in {"ast", "dump", "jit", "native"} :
          /\ Doing(name)
          /\ output' = << IF name = "ast" THEN "dump" ELSE name, form >>
    /\ exit' = "0"
    /\ UNCHANGED << options, mod, todo, form, promised >>

-----------------------------------------------------------------------------
(* The canonicalizer erases what is dead before it looks at patterns.      *)
Rewrite(Pattern(_, _)) ==
    /\ Doing("canonicalize")
    /\ \E o \in DOMAIN Body : /\ ~ Dead(Body, o)
                             /\ \E p \in Pattern(Body, o) : mod' = [mod EXCEPT ![fn] = p]
    /\ UNCHANGED << options, todo, form, exit, output, promised >>

EraseDeadCode ==
    /\ Doing("canonicalize") \/ Doing("cse")
    /\ \E o \in DOMAIN Body : \E p \in EraseDead(Body, o) : mod' = [mod EXCEPT ![fn] = p]
    /\ UNCHANGED << options, todo, form, exit, output, promised >>

AbortFold ==
    /\ Doing("canonicalize")
    /\ \E o \in DOMAIN Body : ~ Dead(Body, o) /\ FoldAborts(Body, o)
    /\ Stop("abort")

EndCanonicalize == Doing("canonicalize") /\ IsCanonical(Body) /\ EndPass(mod)

Merge ==
    /\ Doing("cse")
    /\ \E o \in DOMAIN Body : \E p \in MergeDuplicate(Body, o) : mod' = [mod EXCEPT ![fn] = p]
    /\ UNCHANGED << options, todo, form, exit, output, promised >>

EndCSE ==
    /\ Doing("cse")
    /\ \A o \in DOMAIN Body : MergeDuplicate(Body, o) = {} /\ ~ Dead(Body, o)
    /\ EndPass(mod)

-----------------------------------------------------------------------------
Calls == {o \in DOMAIN mod.main : mod.main[o].kind = "generic_call"}

Inline ==
    /\ Doing("inline")
    /\ \E o \in Calls :
          /\ Inlinable(mod.main, o, mod.callee)
          /\ mod' = [mod EXCEPT !.main = InlineCall(@, o, mod.callee)]
    /\ UNCHANGED << options, todo, form, exit, output, promised >>

(* A private function nobody calls any more is erased (external).          *)
EndInline ==
    /\ Doing("inline")
    /\ \A o \in Calls : ~ Inlinable(mod.main, o, mod.callee)
    /\ EndPass(IF Calls = {} THEN [main |-> mod.main] ELSE mod)

(* Shape inference keeps to its contract: ShapeInferenceProofs.            *)
Inference == INSTANCE InferenceContract WITH
    prog <- Body, types <- BuiltTypes(Body), outcome <- "pending"

Infer ==
    /\ Doing("infer")
    /\ IF Inference!Inferable(Body)
       THEN LET types == InOrderTypes(Body)
            IN  EndPass([mod EXCEPT ![fn] = [o \in DOMAIN @ |-> [@[o] EXCEPT !.type = types[o]]]])
       ELSE Stop("1")

-----------------------------------------------------------------------------
(* The lowerings: Lowering shows when they succeed and that the program    *)
(* then prints the same.  Only main may be left.                           *)
Lowers(target) ==
    CASE target = "linalg" -> form = "toy" /\ DOMAIN mod = {"main"} /\ LinalgLowers(mod.main)
      [] target = "affine" -> form = "toy" /\ DOMAIN mod = {"main"} /\ AffineLowers(mod.main)
      [] target = "llvm"   -> form = "affine"

Lower ==
    /\ \E target \in {"linalg", "affine", "llvm"} : Doing(target) /\ Lowers(target) /\ form' = target
    /\ todo' = Tail(todo)
    /\ UNCHANGED << options, mod, exit, output, promised >>

(* An error, or on the affine path one of the assertions.                  *)
FailToLower ==
    \/ \E target \in {"linalg", "affine", "llvm"} : Doing(target) /\ ~ Lowers(target) /\ Stop("1")
    \/ Doing("affine") /\ ~ Lowers("affine") /\ Stop("abort")

Next ==
    \/ Succeed \/ Fail \/ Deliver
    \/ EraseDeadCode \/ AbortFold
    \/ Rewrite(FoldCast)
    \/ Rewrite(TransposeTranspose) \/ Rewrite(TansposeVector2Reshape)
    \/ Rewrite(ReshapeReshape) \/ Rewrite(RedundantReshape) \/ Rewrite(FoldReshapeConstant)
    \/ Rewrite(PromoteVectorMatrix) \/ Rewrite(PromoteMatrixVector)
    \/ EndCanonicalize
    \/ Inline \/ EndInline
    \/ Infer
    \/ Merge \/ EndCSE
    \/ Lower \/ FailToLower

Spec == Init /\ [][Next]_vars /\ WF_vars(Next)

-----------------------------------------------------------------------------
(* Every body stays in SSA form: as many operands as declared, each one    *)
(* defined before its use, and one return, at the end.                     *)
InSSAForm(p) ==
    \A o \in DOMAIN p :
        /\ ArityOK(p[o].kind, Len(p[o].args))
        /\ \A k \in DOMAIN p[o].args : p[o].args[k] \in 1..(o - 1) /\ p[p[o].args[k]].kind \notin Sinks
        /\ p[o].kind = "return" <=> o = Len(p)

(* No rewrite and no inlining breaks the SSA form of a body, and main()    *)
(* ends with an exit code before it runs out of steps.                     *)
TypeOK ==
    /\ options \in Options
    /\ \A g \in DOMAIN mod : InSSAForm(mod[g])
    /\ exit \in {"running", "abort", "0", "1", "-1"}
    /\ exit = "running" => todo # << >>

(* Whatever was inlined, rewritten and merged, in whatever order: main     *)
(* prints as often as the source does, and the same numbers wherever both  *)
(* have a meaning.  (Only the shape may change: a transposed vector is a   *)
(* column, a product with a vector a matrix.)                              *)
MeaningPreserved ==
    form = "toy" =>
        LET now == Executed(mod)
        IN  /\ DOMAIN now = DOMAIN promised
            /\ \A k \in DOMAIN now :
                  promised[k] # None /\ now[k] # None => now[k].elems = promised[k].elems

(* What shape inference takes for granted of a function, WellFormed, holds *)
(* when the inliner and its canonicalizer are through with it.             *)
InferenceGetsWellFormed == Doing("infer") => WellFormed(Bare(Body))

(* What Lowering assumes of main holds when the lowering starts, although  *)
(* nothing verifies a transpose: the rewrites that change a type in place  *)
(* leave its users alone.                                                  *)
LoweringGetsVerified == Doing("linalg") \/ Doing("affine") => Verified(mod.main)

(* No product with a vector reaches the affine pass, whose loops need both *)
(* operands of one rank, whatever options were given.                      *)
VectorsArePromoted ==
    Doing("affine") => \A o \in DOMAIN mod.main :
        mod.main[o].kind = "matrix_mul" => \A k \in {1, 2} : ~ IsVector(mod.main, o, k)

(* Exit code 0 means that the user got what the options ask for, in the    *)
(* dialect they name; after a failure nothing has been delivered.          *)
OutputAsRequested ==
    /\ exit = "0" => output = Requested(options)
    /\ exit # "0" => output = << >>

(* The rewrites do not undo each other for ever.                           *)
Terminates == <>(exit # "running")
=============================================================================
