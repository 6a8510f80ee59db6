# Formal models of the Toy compiler of LucidNPU

This directory holds TLA+ modules that model the compiler under
`src/frontend/toy`, the TLC configurations that check them on small instances,
and proofs that TLAPS checks for every value of the constants. Paths below are
relative to `src/frontend/toy` unless they start with `src/`.

1. [Inventory](#1-inventory)
2. [Plan](#2-plan)
3. [The modules and the code](#3-the-modules-and-the-code)
4. [Runs, bounds and what they show](#4-runs-bounds-and-what-they-show)
5. [Fairness](#5-fairness)
6. [Proofs](#6-proofs)
7. [Disagreements found](#7-disagreements-found)
8. [What is not modelled](#8-what-is-not-modelled)

## 1. Inventory

`lucid-toy` is a batch compiler: it reads one file, runs a fixed chain of
stages over it and prints the result of the stage `-emit` asks for. Nothing
runs concurrently and nothing is persisted, so there are no crashes to recover
from and no messages to lose. What is hard is of another kind: recursive
descent with two different meanings of "null", partially built functions that
a later verifier has to tell from finished ones, a worklist in pointer order,
rewrite patterns that change types under their users, and index arithmetic over
shapes.

```
 text -> Lexer -> Parser -> AST -> MLIRGen -> inliner (canonicalizes on its way)
      -> ShapeInference -> canonicalize + CSE -> Linalg or Affine lowering
      -> LLVM lowering -> LLVM IR -> JIT or native executable
```

| component | state it keeps | operations | talks to |
|---|---|---|---|
| Lexer (`include/Lexer.h`) | current token, one character of look-ahead, line buffer, line and column | `getNextToken`, `consume`, `getId`, `getValue`, `getTok`, `getNextChar`, `readNextLine` | called by the parser; each call overwrites the token |
| Parser (`include/Parser.h`, `include/AST.h`) | the C++ call stack, the arena | one function per production, `parseError` | pulls tokens from the lexer, hands a `ModuleAST` to MLIRGen |
| AST dumper and visitor | none | printing | reads the AST |
| MLIRGen (`lib/MLIRGen.cpp`) | module under construction, scoped symbol table, `FunctionDecl` | one `mlirGen` per AST node, `declare`, `mlir::verify` | reads the AST, builds toy operations |
| Toy dialect (`td/DialectAndOps.td`, `lib/ToyDialect.cpp`) | none of its own; result types live in the operations | builders, `inferShapes`, `verify`, `areCastCompatible` | called by MLIRGen, the passes and the pass manager |
| Inliner interface (`include/ToyInlineInterface.hpp`) | none | legality, argument and result remapping, `materializeCallConversion` | called by MLIR's inliner |
| Canonicalization (`lib/CustomizedCanonicalize.cpp`, `td/CustomizedCanonicalize.td`) | the function being rewritten | seven patterns and folds | called by MLIR's greedy driver |
| Shape inference (`lib/ShapeInferencePass.cpp`) | worklist of operations, result types | `runOnOperation` | calls `inferShapes` of each operation |
| Linalg lowering (`lib/LinAlgLoweringPass.cpp`) | the function being converted | one conversion pattern per operation; reshape has a search of its own | partial conversion driver |
| Affine lowering (`lib/AffineLoweringPass.cpp`) | the function being converted | one pattern per operation, `insertAllocAndDealloc` | partial conversion driver |
| LLVM lowering (`lib/LLVMLoweringPass.cpp`) | the module being converted | print loops, `printf` declaration | full conversion driver |
| Driver (`lucid-toy.cpp`) | options | choosing passes, error codes | all of the above |
| `src/compiler`, `src/runtime`, other frontends | - | placeholders | - |

What makes each correct, and what is hard about it:

* **Lexer.** Every character is consumed once; the look-ahead survives the end
  of a line and of the file; a comment ends with its line.
* **Parser.** It accepts exactly the language of its grammar comments, reports
  exactly the inputs outside it, always ends, never trips the lexer's
  assertions, and builds an AST without holes. Hard: `nullptr` means "reported"
  in most functions but "nothing here, and nothing said" in `parsePrimary`
  before `;` and `}`; an optional that holds a null pointer is engaged.
* **Operator precedence.** The tree does not depend on how the recursion and
  the loop of `parseBinOpRHS` share the work.
* **MLIRGen.** A failing statement abandons its function half built and the
  walk goes on with the next one. Correctness rests on the verifier: it must
  reject everything an abandoned function can look like. Names are scoped by
  function; calls are typed with what the callee returned.
* **Toy dialect and shape inference.** Types are computed once, from final
  operand types, in any visiting order; success means the typing equations are
  solved; what the verifier accepts is well typed even where an operation has
  no verifier.
* **Reshape lowering.** Two cursors split and fuse extents; the remainders must
  balance, extents of 1 must neither be lost nor invented, and each reshape
  between equal counts must find a chain of `expand_shape` and `collapse_shape` that the
  tensor dialect accepts.
* **Canonicalization.** The rewriting must end, keep the meaning and leave the
  types of users consistent.
* **Lowerings.** Every operation is converted exactly once; buffers are
  allocated before and freed after every use.

`PROJECT.json` lists the hazards at their lines under `hazards`.

## 2. Plan

The order was: what gives programs their types, the search that is easiest to
get wrong, the frontend, then the path from a typed program to what it prints
and the driver that composes the stages.

1. `ToyDialect`, `ToyFunction`: types, operations, bodies in SSA form;
   `ToyDialectProofs`.
2. `ShapeInference` with the abstract `InferenceContract`; `ShapeInferenceProofs`.
3. `ReshapeLowering`; `ReshapeLoweringProofs`.
4. `MLIRGen`; `MLIRGenProofs`.
5. `Parser` against `ToyGrammar`; `OperatorPrecedence`, `OperatorPrecedenceProofs`.
6. `ToyTensors` (what operations compute), `LoweredCode`, `AffineLowering`,
   `LinalgLowering`, `LLVMLowering`, composed by `Lowering`, which implements
   the abstract `ToyMachine`; `LoweringProofs`.
7. `Canonicalize`, `Inliner`, `Driver`, composed with the inference contract by
   `Pipeline`; `PipelineProofs`.
8. `Lexer` over `SourceText`, which implements `TokenStream`; `LexerProofs`.

How the modules hang together (`->`: EXTENDS, `=>`: INSTANCE):

```
 ToyDialect <- ToyFunction <- ShapeInference => InferenceContract
                           <- ToyTensors <- LoweredCode <- AffineLowering, LinalgLowering,
                                                           LLVMLowering <- Lowering => ToyMachine
                                         <- Canonicalize <- Inliner <- Pipeline => InferenceContract
                                                            Driver  <-/
 SourceText <- Lexer => TokenStream       ToyGrammar <- Parser       OperatorPrecedence
 ToyDialect <- ReshapeLowering            ToyFunction <- MLIRGen
```

What is assumed between the parts and where it is shown: `ShapeInference` takes
bodies that are `WellFormed`, which `MLIRGen` shows of what code generation
accepts (`AcceptedIsWellFormed`) and `Pipeline` of what the inliner leaves
(`InferenceGetsWellFormed`); `Lowering` takes bodies that are `Verified`, which
`Pipeline` shows when a lowering starts (`LoweringGetsVerified`); these three are
proved, not only checked. `Pipeline`
takes shape inference by its contract, which `ShapeInference` implements (proved
for its safety part, section 6), and
the lowerings by the conditions `AffineLowers` and `LinalgLowers`, which
`Lowering` shows to be exactly when they succeed; `LinalgLowering` takes a
reshape as one view, which `ReshapeLowering` shows it to be.

Left:

* Proofs: the stack discipline of `Parser`; what the code of `Lowering` prints
  (`ImplementsToyMachine`); that `Lexer` implements `TokenStream`.
* The element counts of a reassociation group in an `int` of 64 values or less.

## 3. The modules and the code

`PROJECT.json` maps each definition to its lines. In short:

**`ToyDialect`.** A type is `Unranked` or a sequence of extents (`f64` is the
only element type and the language cannot write a dynamic extent).
`MatmulCompatible` and `MatmulShape` are the two halves of
`inferMatmulResultType`, `InferShapes` is the family of `inferShapes` methods
with their early returns, `Verifies` is the traits together with the `verify`
methods. The reshape verifier accumulates in an `int`; `ToInt` keeps that
width, with `IntModulus` standing for 2^32.

**`ToyFunction`.** A function body as a sequence of operations: entry `o`
defines value `o`, operands are earlier values, block arguments come first.
`WellFormed` says what the builders and the verifier leave behind; it is the
precondition of the passes. `Solution` is the reference for inference: the
typing equations, which do not mention any order.

**`ShapeInference`.** `prog`, `type` and `worklist` are the function, the
result types and `opWorklist`; `status` is where the pass and the verifier
after it stand. `Init` is the walk that fills the worklist; `Infer(o)` is one
iteration of the loop for *any* ready `o`, because a `SmallPtrSet` is iterated
in address order; `NoInterface` is the early `signalPassFailure`; `Finish` is
the loop exit with its test for a non-empty worklist; `Verify` is the pass
manager's verifier. `InferenceContract` is the pass without a worklist: one
step that installs the in-order solution, or one that fails.

**`ReshapeLowering`.** One reshape. `i`, `j`, `iTemp`, `jTemp`, `iMux`, `jMux`
and `shape` are the locals of `getExpandUnionPoint` and
`getCollapseUnionPoint`; each action is one branch of one loop iteration, and
`pc` tells the loops apart. `ComputeReassociation` is the helper of that name
(`GroupEnds` is its loop, as a function of the extent of the lower shape),
with `fault` for its `llvm_unreachable` and for `back()` of an empty vector.
`ValidReassociation` states what the tensor dialect's verifiers ask (external).

**`MLIRGen`.** `module`, `declared` and `symtab` are the module operation,
`FunctionDecl` and `m_symbolTable`. The recursion of `mlirGen(expr)` is the
stack `frames`; 0 is a null `mlir::Value`. The AST is not built first: each
step chooses the node that is visited, so every AST within the bounds occurs,
including those with the null initializers and null return expressions the
parser can leave. `Forms` names the statements and compound expressions a run
chooses from. `Abandon` is the early `return` out of a function. `pc =
"undefined"` stands for the dereference of a null or past-the-end pointer.

**`Parser`, `ToyGrammar`.** `stack` is the C++ call stack, a frame being the
point its call goes on at; `pc` is the point that runs, `val` what the last
call returned. A token is chosen when it is read, so `read` is the input so
far and `tok` is `curTok`. `Demands` collects the points that only test for one
token. `holes` remembers that a null expression was stored in the AST.
`ToyGrammar!IsModule` is the grammar of the comments in `Parser.h`, written
declaratively as derivability of an interval of tokens; it shares nothing with
the descent. Where the comments are silent or too narrow for the test programs
(empty statements, functions without parameters, blocks), it says what the
code accepts; for the commas of a type it follows the code as well, and the
difference from the comment is a finding of its own.

**`OperatorPrecedence`.** `frames` are the activations of `parseBinOpRHS` with
their `exprPrec` and tree; `node` holds the merged operators. `Merge` and
`Descend` are the two ways an iteration ends, `Return` the exit of the loop and
the merge in the caller.

**`ToyTensors`, `ToyMachine`.** What the operations of the dialect compute, on
tensors of symbolic numbers: two programs print the same if they print equal
terms, and a sum of products is the list of its products. `ToyMachine` is what
compiling and running `main` promises: the meaning of each print in program
order, or a refusal if (and only if) the target cannot express the program.

**`Lowering`, `AffineLowering`, `LinalgLowering`, `LLVMLowering`, `LoweredCode`.**
`code` is the block of `main` while it is converted, a sequence in which
`Toy(o)` stands for an operation not converted yet; `value` is the rewriter's
map from old values to new ones. Each pattern is an operator of its pass's
module that turns `code` into the code after it; `ConvertOp` applies the one of
the next operation. `InsertAllocAndDealloc` works on the code as it is at that
moment, as `front()` and `back()` do. A loop nest is one item: its bounds, the
buffers it loads from and how each index is made from the induction variables,
which is where the patterns differ. `RejectOp` is a pattern that fails, or none
that matches, or one that succeeded and replaced nothing; `AbortOp` a failed
`llvm::cast`. Then `LowerPrint` is the LLVM pass, with its symbols in `decls`,
and `Run` executes the result item by item: `mem` holds the live buffers, an
element nothing has been stored in is `Undef`, and `Faults` says which items
then go wrong.

**`Canonicalize`, `Inliner`, `Driver`, `Pipeline`.** A rewrite is an operator
that gives the set of bodies it can make of one at an operation, so that
`Pipeline` can apply them in any order. The external part (folding of casts,
erasure of dead code, CSE, which step the inliner takes when) is MLIR's and
marked so. `Driver!Steps` is the list of stages `main()` and
`MLIRLowerProcess()` put together from the options; `todo` is what is left of
it. `Infer` uses the in-order types of the inference contract; `EndPass` is the
end of a pass with the verifier behind it. Parsing, translation, JIT and linker
may fail whenever they run (`Fail`). `promised` is a history variable: what the
source prints. `InputsAssumption` says what modules the code generator hands over:
`main` and at most one function it calls, `WellFormed`, each with its one return
at its end, a call typed with what the callee returns when it is generated.

**`Lexer`, `TokenStream`.** `first` and `last` delimit `curLineBuffer`,
`current` is the pointer of `LexerBuffer`; position 0 is the literal `"\n"` the
buffer starts with, and everything from `end` on is NUL. One action is one call
of `getNextChar()` together with the branch of `getTok()` that makes it, or one
turn of the loop of `readNextLine()` (`ScanLine`, `EndLine`). `TokenStream`
tells the tokens of a text without a cursor: where a token starts and how far it
goes is said by quantifiers over positions, its line and column by counting
newlines.

## 4. Runs, bounds and what they show

| run | bounds | shows |
|---|---|---|
| `shape_inference` | all well formed bodies of 3 operations (9 kinds, 4 shapes of rank 0 to 2) and of 4 operations (6 kinds, 2 shapes) | `SettledTypes`, `VerifiedIsWellTyped`, `FailureHasCause`, `Terminates`, `ImplementsContract` |
| `inferred_is_ranked` | the same | violation: inference may succeed without a type |
| `reshape_lowering` | the verified pairs of shapes of rank up to 3 over {1,2,3,4,6,8}, an `int` of 128 values | balance of both searches, validity, no fault, termination; equal counts are lowered, others are refused |
| `reshape_count` | the same | violation: counts that differ pass the verifier |
| `mlirgen` | ASTs of up to 7 nodes: up to 2 functions (equal names included), expressions of depth 2 | `AcceptedIsWellFormed`, `SymbolsInScope`, `CallsGoBackwards` |
| `mlirgen_errors` | one function, expression statements only (`Forms`) | violation: the statement in error is dropped, and the module returned after an error |
| `parser` | every input of up to 10 tokens of any kind; bodies of up to 9 tokens after `def id() {`; 7 more after `var id =`; literals of literals, 9 more after `var id = [[num` | stack discipline, `AcceptedIsGrammatical`, `SentencesAreAccepted`, `Terminates` |
| `parser_null` | the same | violation: a module is returned after a parse error |
| `lowering` | all verified `main`s of two literals (7 pairs of shapes of rank 0 to 3) and one or two more operations of any kind, transposes typed wrongly included, and a literal with five reshapes behind it; both targets | the code prints what the source means or the program is refused; no fault, no leak (`MemoryIsSafe`), no duplicate symbol; termination |
| `pipeline` | two literals (3 pairs of shapes of rank 1 and 2) and two more operations, or a call of one of 7 functions of one or two arguments and one more operation; options to affine without and linalg with and without `-opt`; all 28 options for a `main` that prints a literal | meaning, preconditions of the stages, promotion, output and exit code, termination |
| `lexer` | every file of up to 4 characters out of 11 classes | order of reading, tokens and locations, termination |
| `operator_precedence` | every sequence of up to 6 of the 5 operators | precedence, associativity, completeness, termination |

Why the bounds are enough to be interesting. A dependency chain, a diamond and
a value that can never be inferred all fit in 4 operations, which is what order
dependence needs. The matrix product is checked for ranks up to 2 by TLC and
for all ranks by the proofs. In `reshape_lowering`, 1, 2, 3, 4, 6 and 8
give extents that divide each other, share a factor, or do neither, and units
at either end; rank 3 against rank 3 has both searches pass through every
branch. An `int` of 128 values is wide enough for all shapes of less than 64
elements and narrow enough that the verifier also lets pairs of different
counts through (64 and 192, say), which the searches then have to refuse; pairs
of equal counts from 64 on are left out, since the group products of the
lowering are an `int` too and would overflow.
Seven nodes hold a function that returns its parameter and another that calls
it, a repeated function name, or three statements of one function; two
functions suffice for a leaked scope and for recursion. Nine tokens hold a
declaration with a type, or two statements and a block end; expressions are
recursive through a single function, so each production nested in one other is
covered, which is where errors are handed up. Literals have a family of their own, since the
shortest nested one of two elements, `[[1],[1]]`, takes nine tokens; the family holds it,
a number among literals (which fails a cast) and literals of different dims. Three precedence levels over six
operators nest `parseBinOpRHS` as deep as it can go and come back more than
once.

In `lowering` two further operations chain any two patterns, and two literals
with equal, transposed and mixed ranks hold every form of a product; extents 2
and 3 tell rows from columns, extents 1 are in. Values used twice, unused or
printed out of order all occur, as do programs each pass must refuse. In
`pipeline` every pattern and every pair of patterns that feed each other occurs
(each action fires); a program of two operations on literals of rank 1 and 2
already has vectors on either side of a product, chains of transposes and
reshapes, and the promotion of an operand whose user has been typed. The callees
return an argument, a literal, a computed or a reshaped value, print, use their
arguments in either order, and are called with the wrong number of arguments as
well. What the passes do depends on `-emit` only through the list of passes, so
the big programs run under the options with different lists up to the affine
lowering. Four characters are enough for each of the lexer's states to meet each
class of character, a refill and the end of the file.

Deadlock is not checked (`CHECK_DEADLOCK FALSE`): every component ends.

`AcceptedIsGrammatical` and `SentencesAreAccepted` together say that the parser
decides the language: an input that is accepted without a message (and without
a hole in the AST) is a sentence, and no sentence is complained about, fails an
assertion or a cast, or loses an expression. When the parser stops before the
end of the input, the rest has not been read; the property then completes what
was read - a continuation that the last token calls for, then everything that
closes it - and no completion may be a sentence.

Each property of a passing run has a mutant in `PROJECT.json`: a plausible
slip in the code (`Faulty...` in the modules) with which the same run fails.

## 5. Fairness

`WF_vars(Next)`: the program is sequential, and while it has a step to take it
takes one. No step is favoured over another; in particular termination of the
shape inference is shown for every visiting order, termination of the parser
and of the lexer for every input, and termination of the canonicalizer for every
order of rewrites: the patterns reach a fixed point whatever the driver picks
next, without its limit on the number of rounds. (For that, a round in which
`TansposeVector2Reshape` only reports success is left out; the driver gives up on
such rounds by its limit.) `MLIRGen` has no liveness property and states no fairness.

## 6. Proofs

`ShapeInferenceProofs` proves, for every set `Programs` of well formed bodies,
of any length, over shapes of any rank:

| theorem | says |
|---|---|
| `TypeCorrect` | `Spec => []TypeOK` |
| `TypesSettle` | `Spec => []SettledTypes`: off the worklist, the typing equations hold at every moment of every order |
| `OrderIndependence` | whatever solution of the equations one has for a program, the pass agrees with it on all it has settled; the visiting order cannot change a type |
| `SuccessIsSolution` | when the pass succeeds, its types solve the equations |
| `VerifiedSound` | `Spec => []VerifiedIsWellTyped`: what the verifier accepts is well typed, `transpose` included, which has no verifier |

Assumptions: `UnrankedAssumption` (the unranked type is no shape),
`ModulusAssumption` (an `int` has an even number of values),
`ProgramsAssumption` (the pass is given bodies the earlier stages build). TLC
evaluates them in the runs.

The inductive invariant is `IInv`. `SettledTypes` is not inductive: it says
what an operation off the worklist looks like, but for a step to preserve it
one must know that inferring `o` cannot change the operands of something
settled. So `IInv` adds that what waits is still unranked
(`WaitingIsUnranked`) and had no type to begin with (`WaitingIsDynamic`), that
what was never listed keeps the type it was built with (`FixedIsBuilt`), that
a settled operation was inferred from operands that are ranked, hence not
waiting, hence final, and that the worklist is empty once the pass has
succeeded. The proof has one step per action; `InferInv` carries the weight and
rests on `SameOperands` (equal operand types infer equal types) and on the
lemmas that matrix product, transpose and `InferShapes` return types.
`OrderIndependence` is a second invariant over the first. `VerifiedSound` adds
that `status = "verified"` remembers that every operation verified.

The same module relates the pass to its contract, with the same assumptions and
`NoTypeAssumption` (what the contract reports for no result is no type):

| theorem | says |
|---|---|
| `SettlesOnInOrderTypes` | whatever the order, the types of the pass are those computed in program order, as far as it has settled them; and these are a `Solution` |
| `FailsForACause` | `Spec => []FailureHasCause`: the pass fails only on an operation without the interface, or one the in-order types leave without a type |
| `ImplementsContractSafety` | every initial state of the pass is one of its contract, and every step is the single step of the contract or a stutter |

`TypesInOrder` is defined by recursion over the body, so the first thing to know
is that it exists (`InOrderIsSolution`). The prover cannot instantiate the
induction theorems of the library; the proofs take the least operation at which
a claim fails instead (`LeastNumber` and `UpTo` of `ToyDialectProofs`). The
refinement rests on two facts about the end of the pass: if the worklist is
empty, the pass agrees with the in-order types everywhere, and if it is not,
nothing is ready, and the least operation that waits has no type in order either.

`ToyDialectProofs` holds what the other proofs need about numbers and products:
the least number of a set, what holds up to a number, that `MaxIsBound` and the
folds behind `NumElements` are what they should be, and how element counts
behave under concatenation and for suffixes (`NumElementsAppend`,
`NumElementsSuffix`).

`ReshapeLoweringProofs` proves, for shapes of any rank and extents:

| theorem | says |
|---|---|
| `TypeCorrect` | `Spec => []TypeOK` |
| `NoElementIsLost` | `Spec => []SearchesAreBalanced`: what the groups hold balances what has been consumed, at every moment |
| `RefusedOnlyForCount` | `Spec => []SameCountIsLowered`: only a reshape between different counts is refused |
| `LoweringCorrect` | `Spec => []LoweringIsValid`: what replaces the reshape leads from one shape to the other in operations the tensor dialect accepts |
| `UnreachableIsUnreached` | `Spec => []NeverUndefined`: `computeReassociation` meets neither its `llvm_unreachable` nor an empty vector |

Assumption: `ReshapesAssumption` (extents are positive). The balance is a product
over a suffix of each shape, and a step moves one factor from one side to the
other. `SameCountIsLowered` follows from it where the collapse search ends: the
shape found so far, times what is left of either side, is either count, so the
test that refuses can only tell different counts apart.

The last two theorems carry a hypothesis of their own, that all of `Reshapes`
satisfy `ProductsFit`: where the counts agree, they are below 2^31.
`computeReassociation` multiplies the extents of a group in an `int`, and a group
can be as large as the tensor; the code checks this nowhere, so beyond it the
theorems would be false (it is among the hazards). The run takes
its pairs under the same condition.

Their invariant is `FoundInv`, over `IInv`. Its notion is that of a cut: `c` cuts
shape `high` along `low` (`IsCut`) if every extent of `low` is the product of a
nonempty interval of extents of `high`, and `c` says where the interval ends;
`Refines` adds that the counts agree. While the expand search runs, the extents
it has passed in either shape are cut into the shape found (`ExpandCovers`), and
what it has not reached is not split yet; while the collapse search runs, the
shape found is cut into what it has passed of either (`CollapseCovers`). So what
the first one finds refines both ends, and both ends refine what the second one
finds (`ShapeRefines`). That there really are two operations to emit, with ranks
that differ, is `SearchIsNeeded`: if the shape found had the rank of one of the
ends it would be that end (`RefinesSameRank`), and a single operation would have
been enough (`RefinesIsDirect`).

The theory of cuts comes first in the module, with a theorem of its own:

| theorem | says |
|---|---|
| `ReassociationIsValid` | if `high` refines `low`, `computeReassociation` returns groups the tensor dialect accepts, without a fault |

The loop of `computeReassociation` is greedy and knows of no cut. `GreedyCut` shows that it finds one
nevertheless: a group ends as soon as its product reaches the extent, and since a
cut exists, it is reached exactly, no later than where that cut ends
(`GroupEndExact`); no product overflows on the way. The groups may end too
early only by extents of 1, and those at the very end are what the last loop of
the function adds (`UnitsBehind`, `FilledCut`).

`MLIRGenProofs` proves, for every AST:

| theorem | says |
|---|---|
| `TypeCorrect` | `Spec => []TypeOK` |
| `SymbolsStayInScope` | `Spec => []SymbolsInScope`: a name denotes a value of the function under construction that exists |
| `NoRecursion` | `Spec => []CallsGoBackwards`: calls of an accepted module go to exactly one, earlier function and have its result |
| `OutputIsWellFormed` | `Spec => []AcceptedIsWellFormed`: what is accepted is `WellFormed`, the precondition of the passes |

`IInv` has four parts: what a function of the module looks like, finished or
abandoned (`ModuleInv`); what the one under construction looks like, where no
return has been built yet (`OpenFunction`); that symbols and pending operands
are values of it (`ScopeInv`); and that each `pc` goes with the frames that can
be there (`WalkInv`). The part that matters is the first: an abandoned function
is either one the verifier rejects, because its block has no terminator, or one
that happens to be whole, because the statement that failed came after a
`return`. `Verified` then lifts it to the accepted module (`VerifiedModule`).

`LexerProofs` proves, for files of every length and content:

| theorem | says |
|---|---|
| `PointersStayInside` | `Spec => []TypeOK`: line buffer and scan stay within the file and its NUL, in order |
| `CharactersInOrder` | `Spec => ReadsInOrder`: the cursor moves by one position or not at all, and what it moves over is what `getTok()` sees |

Assumptions: `TextsAssumption` (files are sequences of characters) and
`EOFAssumption` (EOF is none of them). `TypeOK` alone is not inductive: that the
buffer never runs past `current` needs that between refills it ends exactly there
(`last = current`), and that while one is under way it is empty, so that
`EndLine` extends it from where the last one ended. That is
`RefillsAreSeamless`; it is also what makes the refill invisible in
`CharactersInOrder`. `GetNextCharStep` carries the weight; `GetTokShape` shows
that the nine actions of `getTok()` only differ in what they do besides.

`OperatorPrecedenceProofs` proves, for expressions of any length:

| theorem | says |
|---|---|
| `TypeCorrect` | `Spec => []TypeOK`: calls and trees only name operators that have been consumed, and only operators of the expression are |
| `TreesRespectPrecedence` | `Spec => []PrecedenceRespected`: tighter operators are further down, equal ones associate to the left |
| `NothingIsLost` | `Spec => []ResultIsWhole`: the tree returned holds each operator that was consumed, once |

`PrecedenceRespected` speaks of the operators merged so far and is not
inductive: a merge is right only if the two trees at hand are. So `IInv` adds
what the loop of `parseBinOpRHS` maintains: the tree of a call binds at least as
tight as its `exprPrec` (`TreesBelongToFrames`), a call that waits has an
operator in hand that lies between its tree and what the inner call has, and
the inner call takes only what binds tighter (`CallsAreNested`), and what comes
next never binds tighter than the innermost tree (`NextExtendsTop`). The last
one is what makes the look-ahead right: it holds because an operator is merged
only when the next does not bind tighter, and because a call returns only in
front of an operator below its `exprPrec`. `TakenIsOperator` needs that
whatever is no operator has a precedence of -1, below every `exprPrec`.

`NothingIsLost` rests on a second invariant, `WholeInv`, over the first. Each
operator consumed is either in the hand of exactly one waiting call or merged
(`NoneIsDropped`, `HandsDiffer`); each one merged is an operand of exactly one
other or the tree of exactly one call (`TreesAreKept`, `PlacesDiffer`). When the
last call has returned, no call holds anything but the result, so every operator
but the root has a place of its own among the operands; `ResultIsWhole` counts
them.

`LoweringProofs` proves, for main functions of any length and both targets:

| theorem | says |
|---|---|
| `TypeCorrect` | `Spec => []TypeOK` |
| `SymbolsPresent` | `Spec => []SymbolsOnce`: every symbol a print uses is in the module, none twice |
| `RefusesExactly` | a function is refused exactly when the target cannot express it (`AffineLowers`, `LinalgLowers`), which is what `Pipeline` and `ToyMachine` take for granted |
| `BuffersLive` | every item that runs finds its buffers allocated and not freed yet; on the affine path all are freed by the return |
| `MemorySafe` | `Spec => []MemoryIsSafe`: what runs reads no element before it is stored, loads within its buffers, uses none that is freed, and on the affine path frees all |

Assumption: `ProgramsAssumption` (bodies in SSA form with one return, at the end,
accepted by the verifiers: what `Pipeline` shows of a function a lowering gets).

`IInv` is about code in which converted and unconverted operations are mixed: each
item works on the buffer of an operation and finds its symbols declared
(`CodeOK`), the last one stands for the return (`EndOK`), the prints the LLVM
pass has gone past are gone (`PrintsOK`), and the conversion goes on only past
operations that pass (`RefusalOK`). `AffineConverts` and `LinalgConverts` say, pattern
by pattern, what is put in the place of an operation. The proof corrected
`TypeOK`: an earlier bound on `next` failed for a function whose reshapes the
affine pass drops, so that fewer items than operations are left. `MCLowering` now
holds such a function (`Chain`).

`BuffersLive` rests on `BufInv`, over `IInv`. While a function is converted, its block
is laid out in four parts (`Laid`): items that make buffers and work on what is
made before them, the operations left, the deallocs, and the end; every
converted value has its buffer among those made, and on the affine path each of
these has its dealloc. A pattern that replaces the operation in place keeps
this (`LaidReplaced`), and so does one that puts an alloc and a dealloc around the whole
block (`LaidAround`). Once all is converted, such a block is in order
(`Ordered`), what the LLVM pass does keeps the order, and memory holds at every
moment just what the order says is live (`LiveStep`, `ExecLive`).

`MemorySafe` rests on a third invariant, `FlowInv`, over these two. `Flow(code, prog)`
says of each item that the buffers it reads were filled by items before it, that
it makes no buffer anew that is full, and that it agrees with the types of the
values its buffers stand for: the stores of a literal reach every element
(`StoresAll`), and the loads of a loop nest stay within what they load from
(`LoadsFit`). While code is mixed this holds of the items there are, and the values
already converted stand for buffers that are full and of their type
(`Standing`): that is what a pattern finds in its operands. In the run, memory holds tensors
of those types, and the full ones have no `Undef` (`MemFits`). While operations are left, the
invariant speaks only of functions the target can express (`Lowers`): in others a
reshape that the affine pass drops leaves a buffer of another type behind, and
`RefusesExactly` has it that their code never runs. Three facts about data
carry the proof, each for every shape:

* an index within a shape has a position among its elements (`PositionOfIndex`,
  with `Strides`);
* the loops that place the elements of a literal visit the indices in row-major
  order, so the n-th of them is `IndexAt(s, n)` (`LoopOrderIsRowMajor`); the
  recursion is over prefixes of an index, and the proof goes by their length;
* the sum of a matrix product, a fold over its depth, is defined when its
  starting value is (`SumIsDefined`); where the element is loaded instead of zeroed
  first, the fill before the nest is what makes it so.

TLC has checked `FlowInv` as an invariant on the inputs of run `lowering`.

`PipelineProofs` proves, for all options and for a `main` and at most one callee of any length:

| theorem | says |
|---|---|
| `PipelineTypeOK` | `Spec => []TypeOK`: whatever is rewritten, merged, erased and inlined, in whatever order, leaves bodies in SSA form with one return at the end, and `main()` does not run out of steps |
| `InferenceInputIsWellFormed` | `Spec => []InferenceGetsWellFormed`: what `ShapeInferenceProofs` assumes |
| `LoweringInputIsVerified` | `Spec => []LoweringGetsVerified`: what `LoweringProofs` assumes |
| `NoVectorsReachAffine` | `Spec => []VectorsArePromoted` |
| `DeliversAsRequested` | `Spec => []OutputAsRequested` |

Assumptions: `InputsAssumption` and those of `ToyDialect`. With the theorems about
`MLIRGen`, `ShapeInference` and `Lowering` the stages so fit together: each one
starts from what the theorems of the next assume.

All five follow from one invariant, `PipelineInv`, which ties the three things that
move together: the steps left, the bodies, and the form of the program.

* *The steps.* `Steps` concatenates lists that depend on the options; `Plan` numbers
  its entries from 1 to 17, and `InPlan` says which of them the options ask for
  (`StepsAreLeft`). So `IsNext(m)` can say that step `m` comes next and that `todo`
  lists what is left from there, without the functions that are gone.
* *The bodies.* `BodyInv` holds between any two rewrites, when neither `WellFormed`
  nor `Verified` does: a rewrite changes the type of a value in place and leaves
  its users as they were typed. What does hold (`TypesFit`) is one-sided: a result
  with a shape has operands with a shape, the product with a vector is a vector,
  and a transpose of rank 2 or more fits its operand. `Up` is the order in which a type may change: an unranked one
  becomes anything, a vector becomes something ranked, all else stays. `TypesFit`
  survives when operands go up, and with the verifier's word it is as much as
  `Verified` asks, transposes included (`BodyIsVerified`).
* *The stage.* `Stage(m)` says what else is known in front of step `m`: until inference has been over a
  function its transposes and casts are unranked (`Untyped`), which makes
  `WellFormed` of `BodyInv` and the verifier (`BodyIsWellFormed`); until the
  inliner is through, calls are typed with what the callee returns, or something it
  has gone up from (`CallsFit`); the affine lowering finds no vectors (`NoVectors`):
  a canonical body has none, and CSE brings none back.

Each pattern has a lemma that says that it leads from a body to one it may become
(`Evolves`). They rest on `RewrittenEvolves`: it is enough that each operation of
the result is one of the old ones with operands that went up, or one made to fit.
`InlineKeeps` does the same for the inliner, whose result is four parts with their
own numbering of values. TLC has checked `PipelineInv` as an invariant on the
inputs of run `pipeline`.

Induction over data, where a proof needs it, is done by taking the least number
at which the claim fails, as above; the theorems about recursive functions
(`TypesInOrder`, the folds of `NumElements`) first show that the function exists.

Model-checked only: liveness (`Terminates`, and the liveness part of
`ImplementsContract`), which is out of the prover's reach; of `Lowering`, what is printed
(`ImplementsToyMachine`), which compares values two recursions compute;
`ImplementsTokenStream`, whose tokens are sorted and selected; everything about
`Parser`, whose grammar is recursive; and of `Pipeline`, that the meaning is preserved
(`MeaningPreserved`), which compares values computed by recursion over bodies.

## 7. Disagreements found

Each of these is a run that expects a violation, and quotes the line it
contradicts (`findings` in `PROJECT.json`):

* A product of incompatible operands, or a transpose of a rank 0 operand, is
  dropped from the worklist untyped, the pass succeeds and the verifier accepts
  the unranked result.
* The reshape verifier accumulates element counts in an `int`.
* An error inside an expression statement does not fail code generation: `print(x);` with
  an unknown `x` is dropped, the function finished and the module returned
  (`lib/MLIRGen.cpp:134`).
* A parse error at the end of the file, or in a type, still yields a module.

Others are in the models, because the code behaves so, without a run of their
own. Most concern inputs that are wrong anyway, and differ in how, or whether, the
compiler goes down:

* A statement that fails abandons its function, and nothing but the verifier tells
  the module: `return; var x = ;` emits an error and yields a module all the
  same (`lib/MLIRGen.cpp:81`; `mlirgen_errors` with `Forms = {"var", "return"}`
  shows it).
* `var x = ;` and a failed `return` expression leave a null in the AST
  (`holes`; `Parser.h:82` and 349). MLIRGen answers the first with "missing
  initializer" and dereferences the second.
* A missing `=` and a misplaced token in a parameter list fail assertions of
  the lexer (`pc = "abort"`; `Parser.h:348` and 426).
* A number after a nested literal fails a cast instead of being reported
  (`pc = "bad_cast"`; `Parser.h:154`).
* A type may be empty, lack its commas or end in one, unlike the grammar at
  `Parser.h:302` says.
* An unknown callee is reported and then dereferenced; so is the result of a
  callee that returns nothing (`pc = "undefined"`; `lib/MLIRGen.cpp:230`).
* Calls are not checked against the number of parameters of the callee
  (`lib/MLIRGen.cpp:227`); the inliner leaves them alone, so that shape inference
  or the lowering fails instead (`FailToLower`).
* A reshape of a literal to an unranked type asks `DenseElementsAttr::reshape`
  for the element count of a type that has none (`td/CustomizedCanonicalize.td:22`;
  `AbortFold`).
* `TansposeVector2Reshape` reports success without a change for every operand
  of another rank than 1 (`lib/CustomizedCanonicalize.cpp:31`).
* The affine transpose pattern reports success for rank 0 and 1 without replacing the operation
  (`lib/AffineLoweringPass.cpp:134`); the conversion then fails.
* An affine reshape becomes a `memref.cast`, which the verifier refuses unless
  the shapes are equal (`lib/AffineLoweringPass.cpp:359`): reshapes of anything
  but literals end there.
* A product with an operand of another rank than its result fails an assertion
  in the affine pass (`AffineAborts`): the canonicalizer rules out vectors
  (`VectorsArePromoted`), not a rank 3 operand times a matrix.
* Without `-opt`, `-emit=linalg` runs no canonicalizer behind the inference, and
  products with vectors whose type only the inference finds are refused.
* `-opt` is said to enable shape inference (`lucid-toy.cpp:87`), which always
  runs.
* A NUL character ends the file for the lexer (`include/Lexer.h:220`), whatever
  follows; the comment above (216) only speaks of the end of the buffer. So does
  the byte FF. Bytes from 0x80 on are negative as `char`, so that 0xFE is
  `tok_return` and 0xFB an identifier with the text of the last one
  (`include/Lexer.h:177`, whose comment promises the "ascii value"); only FF is
  in the model.

## 8. What is not modelled

* Text beyond the classes of `SourceText`: names, values of numbers, messages,
  assembly syntax of the dialect. Tokens, names and shapes are what the
  properties tell apart. `Parser` has no locations; `Lexer` has.
* Numbers: tensor elements are symbolic, so rounding and the order of additions
  are not an issue here. The order matters nowhere: all lowerings add in index order.
* MLIR and LLVM: the pass manager, the drivers for greedy rewriting, dialect
  conversion and inlining, CSE, the verifiers of other dialects and
  `getReassociationIndicesForReshape` are modelled from how this code relies on
  them and marked external. What follows the affine lowering besides the LLVM
  pass (canonicalizer, CSE, loop fusion, scalar replacement; `lucid-toy.cpp:145`
  to 153), the conversions of other dialects in the LLVM pass, the translation to
  LLVM IR, the JIT and the linker are MLIR's and LLVM's own; the driver's
  reaction to their failure is modelled.
* The canonicalizer's limit on its rounds, see section 5.
* More than one callee, and calls of callees by callees: the inliner's order
  over the call graph is MLIR's.
* Extents of 0 in reshapes: the language can write them in a type, but a
  literal has at least one element, so no verified reshape has them.
* The AST dumper and visitor only print. `src/compiler`, `src/runtime` and the
  other frontends have no code of their own yet.
