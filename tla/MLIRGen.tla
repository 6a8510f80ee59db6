------------------------------- MODULE MLIRGen -------------------------------
(***************************************************************************)
(* MLIRGenImpl: the AST of a module is turned into toy functions.  The     *)
(* recursive mlirGen(expr) calls are a stack of frames; a frame holds the  *)
(* operand values generated so far, 0 standing for nullptr.  The AST is an *)
(* input: each statement and expression is chosen when it is visited.      *)
(***************************************************************************)
EXTENDS ToyFunction

CONSTANTS
    Names,        \* names of functions
    Vars,         \* names of variables and parameters
    Literals,     \* shapes of tensor literals and of declared types
    NoType,       \* a declaration without a type
    Forms,        \* the statements and compound expressions that are explored
    MaxFuncs,     \* bounds on the AST: functions in a module,
    MaxParams,    \*   parameters of a function (and arguments of a call),
    MaxNodes,     \*   functions, statements and expressions in all,
    MaxDepth      \*   nesting of expressions

ASSUME LiteralsAssumption == Literals \subseteq Seq(Nat) \ {<< >>}
ASSUME NoTypeAssumption == NoType \notin Type

VARIABLES
    module,       \* the functions emitted; the last one is being built
    declared,     \* FunctionDecl: the position of the first function of a name
    calls,        \* who calls whom: the symbol of every generic_call
    symtab,       \* m_symbolTable in the function scope, 0 where undeclared
    stmt,         \* the statement whose expression is being generated
    nodes,        \* nodes of the AST visited so far
    frames,       \* expressions whose operands are being generated
    value,        \* the value of the whole expression, once known
    errors,       \* some error has been emitted
    pc            \* where the walk stands

vars == << module, declared, calls, symtab, stmt, nodes, frames, value, errors, pc >>

Cur  == Len(module)
Body == module[Cur].body

NoScope == [x \in Vars |-> 0]
NoStmt  == [kind |-> "none"]

Init ==
    /\ module = << >> /\ declared = << >> /\ calls = {}
    /\ symtab = NoScope
    /\ stmt = NoStmt /\ nodes = 0 /\ frames = << >> /\ value = 0
    /\ errors = FALSE
    /\ pc = "module"

(* Append an operation to the block under construction.                    *)
Create(kind, args, t) ==
    module' = [module EXCEPT ![Cur].body =
                  Append(@, [kind |-> kind, args |-> args, type |-> t])]

Created == Len(Body) + 1

(* Another node of the AST is visited.                                     *)
Visit == nodes < MaxNodes /\ nodes' = nodes + 1

-----------------------------------------------------------------------------
(* Functions.                                                              *)

(* Faulty: entered at the position of the function before.                 *)
FaultyDeclare(name) ==
    declared' = [f \in DOMAIN declared \cup {name} |-> IF f = name THEN Cur ELSE declared[f]]

(* FunctionDecl.insert keeps an older entry of that name.                  *)
Declare(name) ==
    declared' = [f \in DOMAIN declared \cup {name} |->
                    IF f \in DOMAIN declared THEN declared[f] ELSE Cur + 1]

(* A fresh scope, the FuncOp with unranked arguments and no result, its    *)
(* entry in FunctionDecl, and the parameters in the symbol table.  A       *)
(* repeated parameter abandons the function.                               *)
BeginFunction(name, params) ==
    /\ pc = "module" /\ Cur < MaxFuncs /\ Visit
    /\ module' = Append(module,
          [name |-> name, params |-> Len(params), results |-> << >>,
           body |-> [k \in DOMAIN params |->
                        [kind |-> "arg", args |-> << >>, type |-> Unranked]]])
    /\ Declare(name)
    /\ IF IsInjective(params)
       THEN /\ symtab' = [x \in Vars |-> IF x \in Range(params)
                                         THEN CHOOSE k \in DOMAIN params : params[k] = x
                                         ELSE symtab[x]]
            /\ pc' = "body"
       ELSE /\ pc' = "module"
            /\ UNCHANGED symtab
    /\ UNCHANGED << calls, stmt, frames, value, errors >>

(* Faulty: the scope of the function is not closed.                        *)
FaultyAbandon ==
    /\ pc' = "module"
    /\ stmt' = NoStmt /\ frames' = << >> /\ value' = 0
    /\ UNCHANGED symtab

(* A statement failed: the function is left as it is, without terminator   *)
(* unless it had one already, and its result type is never set.            *)
Abandon ==
    /\ pc' = "module"
    /\ symtab' = NoScope
    /\ stmt' = NoStmt /\ frames' = << >> /\ value' = 0

(* The body is complete: an implicit return, or the result type is taken   *)
(* from the operand of the return.                                         *)
EndFunction ==
    /\ pc = "body"
    /\ IF Body # << >> /\ Last(Body).kind = "return"
       THEN module' = [module EXCEPT ![Cur].results =
                          [k \in DOMAIN Last(Body).args |-> Body[Last(Body).args[k]].type]]
       ELSE Create("return", << >>, Unranked)
    /\ Abandon
    /\ UNCHANGED << declared, calls, nodes, errors >>

-----------------------------------------------------------------------------
(* Statements.                                                             *)

NextStmt(kind) == kind \in Forms /\ pc = "body" /\ Visit

(* var x = e; or var x<...> = e;                                           *)
BeginVarDecl(x, t) ==
    /\ NextStmt("var")
    /\ stmt' = [kind |-> "var", name |-> x, type |-> t]
    /\ pc' = "expr"
    /\ UNCHANGED << module, declared, calls, symtab, frames, value, errors >>

(* The parser leaves the initializer null for var x = ;                    *)
VarDeclWithoutInit ==
    /\ NextStmt("var")
    /\ errors' = TRUE
    /\ Abandon
    /\ UNCHANGED << module, declared, calls >>

BeginReturn ==
    /\ NextStmt("return")
    /\ stmt' = [kind |-> "return"]
    /\ pc' = "expr"
    /\ UNCHANGED << module, declared, calls, symtab, frames, value, errors >>

ReturnVoid ==
    /\ NextStmt("return")
    /\ Create("return", << >>, Unranked)
    /\ UNCHANGED << declared, calls, symtab, stmt, frames, value, errors, pc >>

(* return (;  parses to an engaged optional holding nullptr.               *)
ReturnNullExpr ==
    /\ NextStmt("return")
    /\ pc' = "undefined"
    /\ UNCHANGED << module, declared, calls, symtab, stmt, frames, value, errors >>

(* An expression statement must be a call or a print.                      *)
Expr(kind, name, n) == [kind |-> kind, name |-> name, need |-> n, vals |-> << >>]

BinaryOps == {"add", "matrix_mul"}     \* the elementwise four differ in name only

Explored(kind, es) == IF kind \in Forms THEN es ELSE {}
SideEffects ==
    Explored("print", {Expr("print", "print", 1)})
      \cup Explored("call", {Expr("call", f, n) : f \in Names, n \in 0..MaxParams})
Pure ==
    Explored("transpose", {Expr("transpose", "transpose", 1)})
      \cup Explored("binary", {Expr("binary", op, 2) : op \in BinaryOps})

BeginExprStmt(e) ==
    /\ NextStmt("expr")
    /\ stmt' = [kind |-> "expr"]
    /\ frames' = << e >>
    /\ pc' = "expr"
    /\ UNCHANGED << module, declared, calls, symtab, value, errors >>

(* "Function calls without side effects are not permitted."                *)
PureExprStmt ==
    /\ NextStmt("expr")
    /\ errors' = TRUE
    /\ Abandon
    /\ UNCHANGED << module, declared, calls >>

-----------------------------------------------------------------------------
(* Expressions.                                                            *)

Top == Last(frames)

(* Another operand is needed; a call gives up at its first null argument.  *)
NeedsOperand ==
    /\ pc = "expr"
    /\ frames # << >> => /\ Len(Top.vals) < Top.need
                        /\ ~ (Top.kind = "call" /\ 0 \in Range(Top.vals))

HasOperands == pc = "expr" /\ frames # << >> /\ ~ NeedsOperand

(* mlirGen(expr) returns v to the expression, or the statement, around it. *)
Give(fs, v) ==
    IF fs = << >>
    THEN frames' = fs /\ value' = v /\ pc' = "finish"
    ELSE /\ frames' = [fs EXCEPT ![Len(fs)].vals = Append(@, v)]
         /\ UNCHANGED << value, pc >>

Unchanged == UNCHANGED << declared, symtab, stmt >>

(* A number is a rank 0 constant, a literal has its own shape.             *)
GenConstant(s) ==
    /\ NeedsOperand /\ Visit
    /\ Create("constant", << >>, s)
    /\ Give(frames, Created)
    /\ Unchanged /\ UNCHANGED << calls, errors >>

(* "unknown variable"                                                      *)
GenVariable(x) ==
    /\ NeedsOperand /\ Visit
    /\ Give(frames, symtab[x])
    /\ errors' = (errors \/ symtab[x] = 0)
    /\ Unchanged /\ UNCHANGED << module, calls >>

EnterExpr(e) ==
    /\ NeedsOperand /\ Len(frames) < MaxDepth /\ Visit
    /\ frames' = Append(frames, e)
    /\ Unchanged /\ UNCHANGED << module, calls, value, errors, pc >>

GenTranspose ==
    /\ HasOperands /\ Top.kind = "transpose"
    /\ IF Top.vals[1] = 0
       THEN Give(Front(frames), 0) /\ UNCHANGED module
       ELSE Create("transpose", Top.vals, Unranked) /\ Give(Front(frames), Created)
    /\ Unchanged /\ UNCHANGED << nodes, calls, errors >>

(* print has no value, whether or not it could be emitted.                 *)
GenPrint ==
    /\ HasOperands /\ Top.kind = "print"
    /\ IF Top.vals[1] = 0 THEN UNCHANGED module
                          ELSE Create("print", Top.vals, Unranked)
    /\ Give(Front(frames), 0)
    /\ Unchanged /\ UNCHANGED << nodes, calls, errors >>

(* No operand is tested for null.  The elementwise builder reads the type  *)
(* of a null lhs; the result type of a product is unranked anyway.         *)
GenBinary ==
    /\ HasOperands /\ Top.kind = "binary"
    /\ LET lhs == Top.vals[1] IN
       CASE Top.name = "matrix_mul" ->
              Create("matrix_mul", Top.vals, Unranked) /\ Give(Front(frames), Created)
         [] Top.name # "matrix_mul" /\ lhs # 0 ->
              Create(Top.name, Top.vals, Body[lhs].type) /\ Give(Front(frames), Created)
         [] OTHER -> pc' = "undefined" /\ UNCHANGED << module, frames, value >>
    /\ Unchanged /\ UNCHANGED << nodes, calls, errors >>

(* The callee is looked up before the arguments; when it is unknown the    *)
(* error is emitted and the end iterator is dereferenced all the same.     *)
(* getResult(0) of a function without result is out of bounds.             *)
GenCall ==
    /\ HasOperands /\ Top.kind = "call"
    /\ errors' = (errors \/ Top.name \notin DOMAIN declared)
    /\ CASE 0 \in Range(Top.vals) ->
              Give(Front(frames), 0) /\ UNCHANGED << module, calls >>
         [] 0 \notin Range(Top.vals) /\ Top.name \in DOMAIN declared
                 /\ module[declared[Top.name]].results # << >> ->
              /\ Create("generic_call", Top.vals, module[declared[Top.name]].results[1])
              /\ calls' = calls \cup {[caller |-> Cur, at |-> Created, callee |-> Top.name]}
              /\ Give(Front(frames), Created)
         [] OTHER -> pc' = "undefined" /\ UNCHANGED << module, calls, frames, value >>
    /\ Unchanged /\ UNCHANGED nodes

-----------------------------------------------------------------------------
(* The expression of the statement has a value.                            *)

Continue ==
    /\ pc' = "body" /\ stmt' = NoStmt /\ value' = 0
    /\ UNCHANGED << frames, errors >>

(* "convert MLIR value failed"                                             *)
FinishVarDecl ==
    /\ pc = "finish" /\ stmt.kind = "var" /\ value # 0
    /\ IF stmt.type = NoType THEN UNCHANGED module
                             ELSE Create("reshape", << value >>, stmt.type)
    /\ IF symtab[stmt.name] = 0
       THEN /\ symtab' = [symtab EXCEPT ![stmt.name] =
                             IF stmt.type = NoType THEN value ELSE Created]
            /\ Continue
       ELSE errors' = TRUE /\ Abandon         \* "duplicated name used"
    /\ UNCHANGED << declared, calls, nodes >>

FinishReturn ==
    /\ pc = "finish" /\ stmt.kind = "return" /\ value # 0
    /\ Create("return", << value >>, Unranked)
    /\ Continue
    /\ UNCHANGED << declared, calls, symtab, nodes >>

(* A null value fails a declaration and a return ...                       *)
FinishNull ==
    /\ pc = "finish" /\ stmt.kind \in {"var", "return"} /\ value = 0
    /\ errors' = (errors \/ stmt.kind = "var")
    /\ Abandon
    /\ UNCHANGED << module, declared, calls, nodes >>

(* ... but the value of an expression statement is ignored.                *)
FinishExprStmt ==
    /\ pc = "finish" /\ stmt.kind = "expr"
    /\ Continue
    /\ UNCHANGED << module, declared, calls, symtab, nodes >>

-----------------------------------------------------------------------------
(* mlir::verify of one function: operands are not null, the types agree, a *)
(* return ends the block and nothing else does, and its operands are as    *)
(* many as the results of the function.                                    *)
(* Faulty (VerifyOperands): a null operand is let through.                 *)
FaultyVerifyOperands(p, o) ==
    0 \notin Range(p[o].args) => Verifies(p[o].kind, OperandTypes(p, BuiltTypes(p), o), p[o].type)

VerifyOperands(p, o) ==
    /\ 0 \notin Range(p[o].args)
    /\ Verifies(p[o].kind, OperandTypes(p, BuiltTypes(p), o), p[o].type)

VerifyFunction(f) ==
    LET p == f.body IN
    /\ p # << >>
    /\ \A o \in DOMAIN p : p[o].kind = "return" <=> o = Len(p)
    /\ \A o \in DOMAIN p : VerifyOperands(p, o)
    /\ Len(Last(p).args) = Len(f.results)

(* Faulty: functions of the same name are accepted.                        *)
FaultyVerifyModule == \A k \in DOMAIN module : VerifyFunction(module[k])

(* ... and of the module, whose symbol names must differ.                  *)
VerifyModule ==
    /\ \A k, l \in DOMAIN module : module[k].name = module[l].name => k = l
    /\ \A k \in DOMAIN module : VerifyFunction(module[k])

EndModule ==
    /\ pc = "module"
    /\ pc' = IF VerifyModule THEN "accepted" ELSE "rejected"
    /\ UNCHANGED << module, declared, calls, symtab, stmt, nodes, frames, value, errors >>

Params == UNION {[1..n -> Vars] : n \in 0..MaxParams}

Next ==
    \/ \E f \in Names, ps \in Params : BeginFunction(f, ps)
    \/ EndFunction
    \/ \E x \in Vars, t \in Literals \cup {Unranked, NoType} : BeginVarDecl(x, t)
    \/ VarDeclWithoutInit \/ BeginReturn \/ ReturnVoid \/ ReturnNullExpr
    \/ \E e \in SideEffects : BeginExprStmt(e)
    \/ PureExprStmt
    \/ \E s \in Literals \cup {<< >>} : GenConstant(s)
    \/ \E x \in Vars : GenVariable(x)
    \/ \E e \in SideEffects \cup Pure : EnterExpr(e)
    \/ GenTranspose \/ GenPrint \/ GenBinary \/ GenCall
    \/ FinishVarDecl \/ FinishReturn \/ FinishNull \/ FinishExprStmt
    \/ EndModule

Spec == Init /\ [][Next]_vars

-----------------------------------------------------------------------------
(* Functions, symbols and frames are what the code declares them to be.    *)
Function == [name : Names, params : Nat, results : Seq(Type), body : Seq(Operation)]
Frame == [kind : {"call", "print", "transpose", "binary"},
          name : Names \cup BinaryOps \cup {"print", "transpose"},
          need : Nat, vals : Seq(Nat)]

TypeOK ==
    /\ module \in Seq(Function)
    /\ DOMAIN declared \subseteq Names
    /\ \A f \in DOMAIN declared : declared[f] \in DOMAIN module
    /\ symtab \in [Vars -> Nat]
    /\ frames \in Seq(Frame)
    /\ value \in Nat /\ errors \in BOOLEAN
    /\ pc \in {"module", "body", "expr", "finish", "accepted", "rejected", "undefined"}

(* While a function is built, a declared name denotes a value of this very *)
(* function, never one left over from another scope or an operation that   *)
(* defines none.                                                           *)
IsValue(v) == v \in DOMAIN Body /\ Body[v].kind \notin Sinks

SymbolsInScope ==
    pc \in {"body", "expr", "finish"} =>
        \A x \in Vars : symtab[x] # 0 => IsValue(symtab[x])

(* Every function of an accepted module is a well formed body that ends in *)
(* its only return, and its result type is the type of what it returns.    *)
AcceptedIsWellFormed ==
    pc = "accepted" => \A k \in DOMAIN module :
        LET p == module[k].body IN
        /\ WellFormed(p)
        /\ \A o \in DOMAIN p : p[o].kind = "return" <=> o = Len(p)
        /\ module[k].results = [a \in DOMAIN Last(p).args |-> p[Last(p).args[a]].type]

(* In an accepted module a call names exactly one function, one that comes *)
(* before the caller and has the result the call was typed with: there is  *)
(* no recursion for the inliner to follow.                                 *)
CallsGoBackwards ==
    pc = "accepted" => \A c \in calls :
        \E k \in 1..(c.caller - 1) :
            /\ \A l \in DOMAIN module : module[l].name = c.callee <=> l = k
            /\ module[k].results = << module[c.caller].body[c.at].type >>

(* "or nullptr on failure": a module for which an error was emitted is not *)
(* returned.                                                               *)
ErrorMeansRejected == pc = "accepted" => ~ errors
=============================================================================
