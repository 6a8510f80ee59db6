----------------------------- MODULE MLIRGenProofs -----------------------------
(***************************************************************************)
(* Theorems about the generation of toy functions from the AST: for any    *)
(* number of functions, statements and nested expressions, symbols denote  *)
(* values of the function that is built, and what the verifier accepts is  *)
(* well formed and calls backwards.                                        *)
(***************************************************************************)
EXTENDS MLIRGen, TLAPS

-----------------------------------------------------------------------------
(* The inductive invariant.                                                *)

(* A function that is still being built.                                   *)
Building == pc \in {"body", "expr", "finish"}

(* op can be operation o of body p as far as MLIRGen alone is concerned:   *)
(* an operand may be null, and nothing has been verified.  A null lhs of   *)
(* an elementwise operation and a null operand of a return do not get so   *)
(* far.                                                                    *)
Fits(p, o, op) ==
    /\ op \in Operation
    /\ ArityOK(op.kind, Len(op.args))
    /\ op.kind = "arg" => \A q \in 1..(o - 1) : p[q].kind = "arg"
    /\ \A k \in DOMAIN op.args :
          /\ op.args[k] \in 0..(o - 1)
          /\ op.args[k] # 0 => p[op.args[k]].kind \notin Sinks
    /\ op.kind # "cast"
    /\ op.kind \in Elementwise => op.args[1] # 0 /\ op.type = p[op.args[1]].type
    /\ op.kind = "constant" => op.type # Unranked
    /\ op.kind \in Sinks \cup {"arg", "transpose", "matrix_mul"} => op.type = Unranked
    /\ op.kind = "return" => \A k \in DOMAIN op.args : op.args[k] # 0

Built(p) == \A o \in DOMAIN p : Fits(p, o, p[o])

(* The types of what a body returns, if its last operation is a return.    *)
Returned(p) == [a \in DOMAIN Last(p).args |-> p[Last(p).args[a]].type]

(* A function has no result or those of its last operation, a return.      *)
ResultsOf(f) ==
    f.results # << >> =>
        /\ f.body # << >> /\ Last(f.body).kind = "return"
        /\ f.results = Returned(f.body)
        /\ Len(f.results) = 1

FunctionsBuilt ==
    /\ module \in Seq(Function)
    /\ \A m \in DOMAIN module : Built(module[m].body) /\ ResultsOf(module[m])

(* Every name is declared at a function of that name.                      *)
NamesDeclared ==
    /\ DOMAIN declared \subseteq Names
    /\ \A f \in DOMAIN declared : /\ declared[f] \in DOMAIN module
                                  /\ module[declared[f]].name = f

(* A call was typed with the result of an earlier, complete function.      *)
CallTyped(c) ==
    /\ c.caller \in DOMAIN module
    /\ c.at \in DOMAIN module[c.caller].body
    /\ c.callee \in DOMAIN declared
    /\ declared[c.callee] \in 1..(c.caller - 1)
    /\ module[declared[c.callee]].results = << module[c.caller].body[c.at].type >>

CallsTyped == \A c \in calls : CallTyped(c)

(* While a function is built it has no result yet.                         *)
OpenFunction == Building => Cur \in DOMAIN module /\ module[Cur].results = << >>

(* Between functions no name is in scope.                                  *)
ScopeClosed == pc = "module" => symtab = NoScope

(* The statement is one of the AST's.                                      *)
Statement ==
    [kind : {"var"}, name : Vars, type : Literals \cup {Unranked, NoType}]
      \cup {[kind |-> "return"], [kind |-> "expr"], NoStmt}

(* The frames wait for operands, all but the top one for another one.      *)
FrameShape(f) ==
    /\ f.kind \in {"transpose", "print"} => f.need = 1
    /\ f.kind = "binary" => f.need = 2 /\ f.name \in BinaryOps
    /\ f.kind = "call" => f.name \in Names

FramesWait ==
    /\ pc \in {"module", "body", "finish"} => frames = << >>
    /\ \A d \in DOMAIN frames :
          /\ FrameShape(frames[d])
          /\ Len(frames[d].vals) <= frames[d].need
          /\ d < Len(frames) => Len(frames[d].vals) < frames[d].need

(* What the frames hold, and the value of the statement, are values of the *)
(* function that is built, or null.                                        *)
ValuesInScope ==
    /\ pc = "expr" => \A d \in DOMAIN frames : \A k \in DOMAIN frames[d].vals :
                         frames[d].vals[k] # 0 => IsValue(frames[d].vals[k])
    /\ pc = "finish" => (value # 0 => IsValue(value))

(* v is a value that body p defines.                                       *)
Defines(p, v) == v \in DOMAIN p /\ p[v].kind \notin Sinks

ModuleInv == FunctionsBuilt /\ NamesDeclared /\ CallsTyped

ScopeInv == symtab \in [Vars -> Nat] /\ ScopeClosed /\ SymbolsInScope

WalkInv ==
    /\ stmt \in Statement /\ frames \in Seq(Frame)
    /\ value \in Nat /\ errors \in BOOLEAN
    /\ pc \in {"module", "body", "expr", "finish", "accepted", "rejected", "undefined"}
    /\ FramesWait /\ ValuesInScope

IInv == ModuleInv /\ OpenFunction /\ ScopeInv /\ WalkInv

-----------------------------------------------------------------------------
(* Bodies.                                                                 *)

(* Whether an operation fits depends on the operations before it.          *)
LEMMA FitsLocal ==
    ASSUME NEW p, NEW r, NEW o \in Nat, NEW op, Fits(p, o, op),
           \A q \in 1..(o - 1) : p[q] = r[q]
    PROVE  Fits(r, o, op)
<1>1. op \in Operation /\ \A k \in DOMAIN op.args : op.args[k] \in 0..(o - 1)
  BY DEF Fits
<1>2. \A k \in DOMAIN op.args : op.args[k] # 0 => p[op.args[k]] = r[op.args[k]]
  BY <1>1
<1>3. op.kind \in Elementwise => 1 \in DOMAIN op.args
  <2>1. op.args \in Seq(Nat)
    BY <1>1 DEF Operation
  <2> QED BY <2>1 DEF Fits, ArityOK
<1> QED BY <1>2, <1>3 DEF Fits

(* Creating an operation that fits.                                        *)
LEMMA AppendBuilt ==
    ASSUME NEW p \in Seq(Operation), Built(p), NEW op, Fits(p, Len(p) + 1, op)
    PROVE  Append(p, op) \in Seq(Operation) /\ Built(Append(p, op))
<1> DEFINE r == Append(p, op)
<1>1. op \in Operation
  BY DEF Fits
<1>2. r \in Seq(Operation) /\ DOMAIN r = 1..(Len(p) + 1) /\ Len(p) \in Nat
  BY <1>1
<1>3. \A q \in 1..Len(p) : p[q] = r[q]
  OBVIOUS
<1>4. r[Len(p) + 1] = op
  OBVIOUS
<1>5. DOMAIN p = 1..Len(p)
  OBVIOUS
<1> HIDE DEF r
<1>6. ASSUME NEW o \in DOMAIN r PROVE Fits(r, o, r[o])
  <2>1. CASE o = Len(p) + 1
    <3>1. o \in Nat /\ \A q \in 1..(o - 1) : p[q] = r[q]
      BY <1>2, <1>3, <2>1
    <3> QED BY <1>4, <2>1, <3>1, FitsLocal
  <2>2. CASE o \in 1..Len(p)
    <3>1. o \in Nat /\ \A q \in 1..(o - 1) : p[q] = r[q]
      BY <1>2, <1>3, <2>2
    <3>2. Fits(p, o, r[o])
      BY <1>3, <1>5, <2>2 DEF Built
    <3> QED BY <3>1, <3>2, FitsLocal
  <2> QED BY <1>2, <2>1, <2>2
<1> QED BY <1>2, <1>6 DEF Built, r

(* A value stays a value.                                                  *)
LEMMA DefinesStays ==
    ASSUME NEW p \in Seq(Operation), NEW op, NEW v, Defines(p, v)
    PROVE  Defines(Append(p, op), v)
BY DEF Defines

-----------------------------------------------------------------------------
(* The module grows at its end only.                                       *)

(* A function of the module, and its body.                                 *)
LEMMA InFunction ==
    ASSUME FunctionsBuilt, NEW m \in DOMAIN module
    PROVE  /\ module[m] \in Function
           /\ module[m].body \in Seq(Operation)
           /\ DOMAIN module[m].body = 1..Len(module[m].body)
           /\ Len(module[m].body) \in Nat
<1>1. module[m] \in Function
  BY DEF FunctionsBuilt
<1> QED BY <1>1 DEF Function

(* What Create leaves behind.                                              *)
LEMMA CreateFacts ==
    ASSUME FunctionsBuilt, Cur \in DOMAIN module, NEW kind, NEW args, NEW t,
           Create(kind, args, t)
    PROVE  LET op == [kind |-> kind, args |-> args, type |-> t]
           IN  /\ Cur' = Cur /\ DOMAIN module' = DOMAIN module
               /\ Body' = Append(Body, op)
               /\ module'[Cur] = [module[Cur] EXCEPT !.body = Append(Body, op)]
               /\ \A m \in DOMAIN module : m # Cur => module'[m] = module[m]
<1> DEFINE op == [kind |-> kind, args |-> args, type |-> t]
<1>1. module \in Seq(Function) /\ module[Cur] \in Function
  BY InFunction DEF FunctionsBuilt
<1>2. module' = [module EXCEPT ![Cur] = [module[Cur] EXCEPT !.body = Append(Body, op)]]
  BY DEF Create, Body
<1>3. DOMAIN module' = DOMAIN module /\ Len(module') = Len(module)
  BY <1>1, <1>2
<1>4. module'[Cur] = [module[Cur] EXCEPT !.body = Append(Body, op)]
  BY <1>1, <1>2
<1>5. module'[Cur].body = Append(Body, op)
  BY <1>1, <1>4 DEF Function
<1> QED BY <1>2, <1>3, <1>4, <1>5 DEF Cur, Body

(* A call stays typed when functions keep their names and results, and     *)
(* operations their types.                                                 *)
LEMMA CallsStay ==
    ASSUME NamesDeclared, NEW c, CallTyped(c),
           DOMAIN declared \subseteq DOMAIN declared',
           \A f \in DOMAIN declared : declared'[f] = declared[f],
           DOMAIN module \subseteq DOMAIN module',
           \A m \in DOMAIN module :
              module[m].results # << >> => module'[m].results = module[m].results,
           \A m \in DOMAIN module : \A o \in DOMAIN module[m].body :
              /\ o \in DOMAIN module'[m].body
              /\ module'[m].body[o] = module[m].body[o]
    PROVE  CallTyped(c)'
<1>1. /\ c.caller \in DOMAIN module
      /\ c.at \in DOMAIN module[c.caller].body
      /\ c.callee \in DOMAIN declared
      /\ declared[c.callee] \in 1..(c.caller - 1)
      /\ module[declared[c.callee]].results = << module[c.caller].body[c.at].type >>
  BY DEF CallTyped
<1>2. declared'[c.callee] = declared[c.callee] /\ declared[c.callee] \in DOMAIN module
  BY <1>1 DEF NamesDeclared
<1>3. module[declared[c.callee]].results # << >>
  BY <1>1
<1>4. module'[declared[c.callee]].results = module[declared[c.callee]].results
  BY <1>2, <1>3
<1>5. module'[c.caller].body[c.at] = module[c.caller].body[c.at]
  BY <1>1
<1> QED BY <1>1, <1>2, <1>4, <1>5 DEF CallTyped

(* Creating an operation that fits keeps the functions built.              *)
LEMMA CreateKeepsModule ==
    ASSUME FunctionsBuilt, NamesDeclared, Cur \in DOMAIN module, module[Cur].results = << >>,
           NEW kind, NEW args, NEW t, Create(kind, args, t), UNCHANGED declared,
           Fits(Body, Created, [kind |-> kind, args |-> args, type |-> t])
    PROVE  /\ FunctionsBuilt' /\ NamesDeclared'
           /\ Cur' \in DOMAIN module' /\ module'[Cur'].results = << >>
           /\ \A c : CallTyped(c) => CallTyped(c)'
<1> DEFINE op == [kind |-> kind, args |-> args, type |-> t]
<1>1. /\ Cur' = Cur /\ DOMAIN module' = DOMAIN module
      /\ module'[Cur] = [module[Cur] EXCEPT !.body = Append(Body, op)]
      /\ \A m \in DOMAIN module : m # Cur => module'[m] = module[m]
  BY CreateFacts
<1>2. /\ module[Cur] \in Function /\ Body \in Seq(Operation)
      /\ Built(Body) /\ module \in Seq(Function)
  BY InFunction DEF FunctionsBuilt, Body
<1>3. Append(Body, op) \in Seq(Operation) /\ Built(Append(Body, op))
  BY <1>2, AppendBuilt DEF Created
<1>4. /\ module'[Cur].body = Append(Body, op) /\ module'[Cur].name = module[Cur].name
      /\ module'[Cur].results = << >> /\ module'[Cur] \in Function
  BY <1>1, <1>2, <1>3 DEF Function
<1>5. \A o \in DOMAIN Body : o \in DOMAIN Append(Body, op) /\ Append(Body, op)[o] = Body[o]
  BY <1>2
<1> HIDE DEF op
<1>6. FunctionsBuilt'
  <2>1. module' \in Seq(Function)
    <3> DEFINE f == module'[Cur]
    <3>1. module' = [module EXCEPT ![Cur] = f]
      BY <1>2 DEF Create
    <3>2. f \in Function
      BY <1>4
    <3> HIDE DEF f
    <3>3. [module EXCEPT ![Cur] = f] \in Seq(Function)
      BY <1>2, <3>2
    <3> QED BY <3>1, <3>3
  <2>2. ASSUME NEW m \in DOMAIN module PROVE Built(module'[m].body) /\ ResultsOf(module'[m])
    <3>1. CASE m = Cur
      BY <1>3, <1>4, <3>1 DEF ResultsOf
    <3>2. CASE m # Cur
      BY <1>1, <3>2 DEF FunctionsBuilt
    <3> QED BY <3>1, <3>2
  <2> QED BY <1>1, <2>1, <2>2 DEF FunctionsBuilt
<1>7. NamesDeclared'
  BY <1>1, <1>4 DEF NamesDeclared
<1>8. ASSUME NEW c, CallTyped(c) PROVE CallTyped(c)'
  <2>1. \A m \in DOMAIN module :
           module[m].results # << >> => module'[m].results = module[m].results
    BY <1>1
  <2>2. \A m \in DOMAIN module : \A o \in DOMAIN module[m].body :
           /\ o \in DOMAIN module'[m].body
           /\ module'[m].body[o] = module[m].body[o]
    <3> SUFFICES ASSUME NEW m \in DOMAIN module, NEW o \in DOMAIN module[m].body
                 PROVE  o \in DOMAIN module'[m].body /\ module'[m].body[o] = module[m].body[o]
      OBVIOUS
    <3>1. CASE m = Cur
      BY <1>4, <1>5, <3>1 DEF Body
    <3>2. CASE m # Cur
      BY <1>1, <3>2
    <3> QED BY <3>1, <3>2
  <2> QED BY <1>1, <1>8, <2>1, <2>2, CallsStay
<1> QED BY <1>1, <1>4, <1>6, <1>7, <1>8

(* A new function: its arguments, and its name unless it is taken.         *)
LEMMA BeginKeepsModule ==
    ASSUME FunctionsBuilt, NamesDeclared, CallsTyped,
           NEW name \in Names, NEW params \in Params, BeginFunction(name, params)
    PROVE  /\ FunctionsBuilt' /\ NamesDeclared' /\ CallsTyped'
           /\ Cur' = Cur + 1 /\ Cur' \in DOMAIN module' /\ module'[Cur'].results = << >>
           /\ Body' = [k \in DOMAIN params |->
                         [kind |-> "arg", args |-> << >>, type |-> Unranked]]
<1> DEFINE body == [k \in DOMAIN params |->
                       [kind |-> "arg", args |-> << >>, type |-> Unranked]]
           f == [name |-> name, params |-> Len(params), results |-> << >>, body |-> body]
<1>1. params \in Seq(Vars) /\ Len(params) \in Nat /\ DOMAIN params = 1..Len(params)
  BY DEF Params
<1>2. [kind |-> "arg", args |-> << >>, type |-> Unranked] \in Operation
  BY DEF Operation, Kinds, Type
<1>3. body \in Seq(Operation) /\ DOMAIN body = DOMAIN params
  BY <1>1, <1>2
<1>4. Built(body)
  BY <1>1, <1>2 DEF Built, Fits, ArityOK, Elementwise, Sinks
<1> HIDE DEF body
<1>5. f \in Function /\ f.name = name /\ f.body = body /\ f.results = << >>
  BY <1>1, <1>3 DEF Function
<1> HIDE DEF f
<1>6. module' = Append(module, f) /\ module \in Seq(Function) /\ UNCHANGED calls
  BY DEF BeginFunction, FunctionsBuilt, f, body
<1>7. /\ module' \in Seq(Function) /\ Cur' = Cur + 1 /\ Cur \in Nat
      /\ DOMAIN module = 1..Cur /\ DOMAIN module' = 1..(Cur + 1)
      /\ module'[Cur + 1] = f /\ \A m \in 1..Cur : module'[m] = module[m]
  BY <1>5, <1>6 DEF Cur
<1>8. FunctionsBuilt'
  <2>1. ASSUME NEW m \in DOMAIN module' PROVE Built(module'[m].body) /\ ResultsOf(module'[m])
    <3>1. CASE m = Cur + 1
      BY <1>4, <1>5, <1>7, <3>1 DEF ResultsOf
    <3>2. CASE m \in 1..Cur
      BY <1>7, <3>2 DEF FunctionsBuilt
    <3> QED BY <1>7, <3>1, <3>2
  <2> QED BY <1>7, <2>1 DEF FunctionsBuilt
<1>9. /\ DOMAIN declared' = DOMAIN declared \cup {name}
      /\ \A g \in DOMAIN declared : declared'[g] = declared[g]
      /\ name \notin DOMAIN declared => declared'[name] = Cur + 1
  BY DEF BeginFunction, Declare
<1>10. NamesDeclared'
  <2>1. ASSUME NEW g \in DOMAIN declared'
        PROVE  declared'[g] \in DOMAIN module' /\ module'[declared'[g]].name = g
    <3>1. CASE g \in DOMAIN declared
      BY <1>7, <1>9, <3>1 DEF NamesDeclared
    <3>2. CASE g \notin DOMAIN declared
      BY <1>5, <1>7, <1>9, <3>2
    <3> QED BY <3>1, <3>2
  <2> QED BY <1>9, <2>1 DEF NamesDeclared
<1>11. CallsTyped'
  <2>1. \A c : CallTyped(c) => CallTyped(c)'
    BY <1>7, <1>9, CallsStay
  <2> QED BY <1>6, <2>1 DEF CallsTyped
<1>12. Cur' \in DOMAIN module' /\ module'[Cur'].results = << >> /\ Body' = body
  BY <1>5, <1>7 DEF Body
<1> QED BY <1>7, <1>8, <1>10, <1>11, <1>12 DEF body

(* A return without operand fits behind everything.                        *)
LEMMA ReturnFits ==
    ASSUME NEW p, NEW o
    PROVE  Fits(p, o, [kind |-> "return", args |-> << >>, type |-> Unranked])
BY DEF Fits, ArityOK, Operation, Kinds, Sinks, Elementwise, Type

(* The results of a function are the types of what it returns.             *)
LEMMA ReturnedType ==
    ASSUME NEW p \in Seq(Operation), Built(p), p # << >>, Last(p).kind = "return"
    PROVE  /\ Returned(p) \in Seq(Type)
           /\ Returned(p) # << >> => Len(Returned(p)) = 1
<1> DEFINE n == Len(p)
           op == p[n]
<1>1. n \in Nat /\ n \in DOMAIN p /\ op \in Operation /\ Last(p) = op
  BY DEF Last
<1>2. Fits(p, n, op) /\ op.kind = "return"
  BY <1>1 DEF Built
<1>3. /\ op.args \in Seq(Nat) /\ Len(op.args) \in {0, 1}
      /\ \A k \in DOMAIN op.args : op.args[k] \in 1..(n - 1)
  BY <1>1, <1>2 DEF Fits, ArityOK, Operation, Elementwise
<1>4. \A k \in DOMAIN op.args : p[op.args[k]] \in Operation
  BY <1>1, <1>3
<1>5. \A k \in DOMAIN op.args : p[op.args[k]].type \in Type
  BY <1>4 DEF Operation
<1>6. DOMAIN op.args = 1..Len(op.args)
  BY <1>3
<1> HIDE DEF op
<1>7. Returned(p) = [k \in 1..Len(op.args) |-> p[op.args[k]].type]
  BY <1>1, <1>6 DEF Returned
<1>8. Returned(p) \in Seq(Type) /\ Len(Returned(p)) = Len(op.args)
  BY <1>3, <1>5, <1>6, <1>7
<1> QED BY <1>3, <1>8

(* The end of a function: an implicit return, or its results.              *)
LEMMA EndKeepsModule ==
    ASSUME ModuleInv, Cur \in DOMAIN module, module[Cur].results = << >>, EndFunction
    PROVE  ModuleInv'
<1>1. /\ module[Cur] \in Function /\ Body \in Seq(Operation)
      /\ Built(Body) /\ module \in Seq(Function) /\ Cur \in Nat
      /\ UNCHANGED << declared, calls >>
  BY InFunction DEF ModuleInv, FunctionsBuilt, Body, EndFunction, Cur
<1>2. CASE Body # << >> /\ Last(Body).kind = "return"
  <2>1. module' = [module EXCEPT ![Cur] = [module[Cur] EXCEPT !.results = Returned(Body)]]
    BY <1>2 DEF EndFunction, Returned
  <2>2. Returned(Body) \in Seq(Type) /\ (Returned(Body) # << >> => Len(Returned(Body)) = 1)
    BY <1>1, <1>2, ReturnedType
  <2> DEFINE f == [module[Cur] EXCEPT !.results = Returned(Body)]
  <2>3. /\ f \in Function /\ f.name = module[Cur].name /\ f.body = Body
        /\ f.results = Returned(Body)
    BY <1>1, <2>2 DEF Function, Body
  <2> HIDE DEF f
  <2>4. /\ module' \in Seq(Function) /\ DOMAIN module' = DOMAIN module /\ module'[Cur] = f
        /\ \A m \in DOMAIN module : m # Cur => module'[m] = module[m]
    BY <1>1, <2>1, <2>3 DEF f
  <2>5. FunctionsBuilt'
    <3>1. ASSUME NEW m \in DOMAIN module PROVE Built(module'[m].body) /\ ResultsOf(module'[m])
      <4>1. CASE m = Cur
        BY <1>1, <1>2, <2>2, <2>3, <2>4, <4>1 DEF ResultsOf
      <4>2. CASE m # Cur
        BY <2>4, <4>2 DEF ModuleInv, FunctionsBuilt
      <4> QED BY <4>1, <4>2
    <3> QED BY <2>4, <3>1 DEF FunctionsBuilt
  <2>6. NamesDeclared'
    BY <1>1, <2>3, <2>4 DEF ModuleInv, NamesDeclared
  <2>7. \A m \in DOMAIN module :
           /\ module[m].results # << >> => module'[m].results = module[m].results
           /\ module'[m].body = module[m].body
    BY <2>3, <2>4 DEF Body
  <2>8. CallsTyped'
    <3>1. \A c : CallTyped(c) => CallTyped(c)'
      BY <1>1, <2>4, <2>7, CallsStay DEF ModuleInv
    <3> QED BY <1>1, <3>1 DEF ModuleInv, CallsTyped
  <2> QED BY <2>5, <2>6, <2>8 DEF ModuleInv
<1>3. CASE ~ (Body # << >> /\ Last(Body).kind = "return")
  <2>1. Create("return", << >>, Unranked)
    BY <1>3 DEF EndFunction
  <2>2. Fits(Body, Created, [kind |-> "return", args |-> << >>, type |-> Unranked])
    BY ReturnFits
  <2>3. FunctionsBuilt' /\ NamesDeclared' /\ \A c : CallTyped(c) => CallTyped(c)'
    BY <1>1, <2>1, <2>2, CreateKeepsModule DEF ModuleInv
  <2> QED BY <1>1, <2>3 DEF ModuleInv, CallsTyped
<1> QED BY <1>2, <1>3

-----------------------------------------------------------------------------
(* Steps that leave the module alone.                                      *)

(* Nothing is emitted, declared or called.                                 *)
LEMMA ModuleStays ==
    ASSUME ModuleInv, UNCHANGED << module, declared, calls >>
    PROVE  ModuleInv'
BY DEF ModuleInv, FunctionsBuilt, NamesDeclared, CallsTyped, CallTyped

(* SymbolsInScope and ValuesInScope, by the body they are about.           *)
LEMMA ScopeAsDefines ==
    /\ SymbolsInScope <=>
         (Building => \A x \in Vars : symtab[x] # 0 => Defines(Body, symtab[x]))
    /\ ValuesInScope <=>
         /\ pc = "expr" => \A d \in DOMAIN frames : \A k \in DOMAIN frames[d].vals :
                              frames[d].vals[k] # 0 => Defines(Body, frames[d].vals[k])
         /\ pc = "finish" => (value # 0 => Defines(Body, value))
BY DEF SymbolsInScope, ValuesInScope, Building, Defines, IsValue

(* A function is abandoned, or complete: its scope is closed.              *)
LEMMA AbandonInv ==
    ASSUME ModuleInv', Abandon, errors' \in BOOLEAN
    PROVE  IInv'
<1>1. OpenFunction'
  BY DEF Abandon, OpenFunction, Building
<1>2. ScopeInv'
  BY DEF Abandon, ScopeInv, ScopeClosed, SymbolsInScope, NoScope
<1>3. WalkInv'
  BY DEF Abandon, WalkInv, FramesWait, ValuesInScope, Statement
<1> QED BY <1>1, <1>2, <1>3 DEF IInv

(* Within a function, while the body does not change.                      *)
LEMMA ScopeStays ==
    ASSUME OpenFunction, ScopeInv, Building, Building', UNCHANGED << module, symtab >>
    PROVE  OpenFunction' /\ ScopeInv'
<1>1. OpenFunction'
  BY DEF OpenFunction, Cur
<1>2. pc' # "module"
  BY DEF Building
<1>3. SymbolsInScope'
  BY DEF ScopeInv, SymbolsInScope, Building, IsValue, Body, Cur
<1> QED BY <1>1, <1>2, <1>3 DEF ScopeInv, ScopeClosed

(* The walk has met undefined behaviour, or is over.                       *)
LEMMA StoppedInv ==
    ASSUME ModuleInv', WalkInv, symtab' \in [Vars -> Nat],
           pc' \in {"accepted", "rejected", "undefined"},
           stmt' \in Statement, UNCHANGED << frames, value >>, errors' \in BOOLEAN
    PROVE  IInv'
<1>1. OpenFunction' /\ ScopeInv'
  BY DEF OpenFunction, Building, ScopeInv, ScopeClosed, SymbolsInScope
<1>2. FramesWait' /\ ValuesInScope'
  BY DEF WalkInv, FramesWait, ValuesInScope
<1> QED BY <1>1, <1>2 DEF IInv, WalkInv

-----------------------------------------------------------------------------
(* Statements.                                                             *)

(* A statement is entered, with at most the frame of its expression.       *)
LEMMA EnterStmtInv ==
    ASSUME IInv, pc = "body", pc' = "expr", stmt' \in Statement,
           UNCHANGED << module, declared, calls, symtab, value, errors >>,
           frames' \in Seq(Frame), Len(frames') <= 1,
           \A d \in DOMAIN frames' : FrameShape(frames'[d]) /\ frames'[d].vals = << >>
    PROVE  IInv'
<1>1. ModuleInv'
  BY ModuleStays DEF IInv
<1>2. OpenFunction' /\ ScopeInv'
  BY ScopeStays DEF IInv, Building
<1>3. FramesWait'
  <2>1. ASSUME NEW d \in DOMAIN frames'
        PROVE  Len(frames'[d].vals) <= frames'[d].need /\ ~ (d < Len(frames'))
    <3>1. frames'[d] \in Frame /\ frames'[d].vals = << >> /\ d \in 1..Len(frames')
      OBVIOUS
    <3>2. frames'[d].need \in Nat
      BY <3>1 DEF Frame
    <3> QED BY <3>1, <3>2
  <2> QED BY <2>1 DEF FramesWait
<1>4. ValuesInScope'
  BY DEF ValuesInScope
<1> QED BY <1>1, <1>2, <1>3, <1>4 DEF IInv, WalkInv

(* A declaration or a return starts without a frame ...                    *)
LEMMA BeginStmtInv ==
    ASSUME IInv,
           \/ \E x \in Vars, t \in Literals \cup {Unranked, NoType} : BeginVarDecl(x, t)
           \/ BeginReturn
    PROVE  IInv'
<1>1. /\ pc = "body" /\ pc' = "expr" /\ frames' = frames /\ frames = << >>
      /\ UNCHANGED << module, declared, calls, symtab, value, errors >>
  BY DEF BeginVarDecl, BeginReturn, NextStmt, IInv, WalkInv, FramesWait
<1>2. stmt' \in Statement
  BY DEF BeginVarDecl, BeginReturn, Statement
<1>3. frames' \in Seq(Frame) /\ Len(frames') <= 1 /\ DOMAIN frames' = {}
  BY <1>1
<1> QED BY <1>1, <1>2, <1>3, EnterStmtInv

(* The expressions of the AST are frames without operands.                 *)
LEMMA ExprFrames ==
    ASSUME NEW e \in SideEffects \cup Pure
    PROVE  e \in Frame /\ FrameShape(e) /\ e.vals = << >>
<1>1. CASE e = Expr("print", "print", 1)
  BY <1>1 DEF Expr, Frame, FrameShape
<1>2. CASE e = Expr("transpose", "transpose", 1)
  BY <1>2 DEF Expr, Frame, FrameShape
<1>3. ASSUME NEW f \in Names, NEW n \in 0..MaxParams, e = Expr("call", f, n)
      PROVE  e \in Frame /\ FrameShape(e) /\ e.vals = << >>
  BY <1>3 DEF Expr, Frame, FrameShape
<1>4. ASSUME NEW op \in BinaryOps, e = Expr("binary", op, 2)
      PROVE  e \in Frame /\ FrameShape(e) /\ e.vals = << >>
  BY <1>4 DEF Expr, Frame, FrameShape
<1> QED BY <1>1, <1>3, <1>4, <1>2 DEF SideEffects, Pure, Explored

(* ... an expression statement with the frame of its expression.           *)
LEMMA BeginExprStmtInv ==
    ASSUME IInv, NEW e \in SideEffects, BeginExprStmt(e)
    PROVE  IInv'
<1>1. e \in Frame /\ FrameShape(e) /\ e.vals = << >>
  BY ExprFrames
<1>2. frames' = << e >> /\ stmt' \in Statement
  BY DEF BeginExprStmt, Statement
<1>3. /\ frames' \in Seq(Frame) /\ Len(frames') <= 1
      /\ \A d \in DOMAIN frames' : FrameShape(frames'[d]) /\ frames'[d].vals = << >>
  BY <1>1, <1>2
<1> QED BY <1>2, <1>3, EnterStmtInv DEF BeginExprStmt, NextStmt

(* A statement fails before anything is created.                           *)
LEMMA FailedStmtInv ==
    ASSUME IInv, VarDeclWithoutInit \/ PureExprStmt \/ FinishNull
    PROVE  IInv'
<1>1. ModuleInv'
  BY ModuleStays DEF IInv, VarDeclWithoutInit, PureExprStmt, FinishNull
<1>2. Abandon
  BY DEF VarDeclWithoutInit, PureExprStmt, FinishNull
<1>3. errors' \in BOOLEAN
  BY DEF VarDeclWithoutInit, PureExprStmt, FinishNull, IInv, WalkInv
<1> QED BY <1>1, <1>2, <1>3, AbandonInv

(* The walk runs into a null expression.                                   *)
LEMMA ReturnNullInv ==
    ASSUME IInv, ReturnNullExpr
    PROVE  IInv'
<1>1. ModuleInv'
  BY ModuleStays DEF IInv, ReturnNullExpr
<1> QED BY <1>1, StoppedInv DEF IInv, ScopeInv, WalkInv, ReturnNullExpr

(* What every step that creates an operation has in common.                *)
LEMMA CreateInv ==
    ASSUME IInv, Building, NEW kind, NEW args, NEW t, Create(kind, args, t),
           UNCHANGED declared, Fits(Body, Created, [kind |-> kind, args |-> args, type |-> t])
    PROVE  /\ FunctionsBuilt' /\ NamesDeclared' /\ \A c : CallTyped(c) => CallTyped(c)'
           /\ UNCHANGED calls => ModuleInv'
           /\ Cur' \in DOMAIN module' /\ module'[Cur'].results = << >>
           /\ Body' = Append(Body, [kind |-> kind, args |-> args, type |-> t])
           /\ \A v : Defines(Body, v) => Defines(Body', v)
           /\ kind \notin Sinks => Defines(Body', Created)
           /\ UNCHANGED symtab => ScopeInv' \/ ~ Building'
<1> DEFINE op == [kind |-> kind, args |-> args, type |-> t]
<1>1. ModuleInv /\ Cur \in DOMAIN module /\ module[Cur].results = << >>
  BY DEF IInv, OpenFunction
<1>2. /\ FunctionsBuilt' /\ NamesDeclared' /\ \A c : CallTyped(c) => CallTyped(c)'
      /\ Cur' \in DOMAIN module' /\ module'[Cur'].results = << >>
  BY <1>1, CreateKeepsModule DEF ModuleInv
<1>3. UNCHANGED calls => ModuleInv'
  BY <1>1, <1>2 DEF ModuleInv, CallsTyped
<1>4. Body' = Append(Body, op) /\ Body \in Seq(Operation)
  <2>1. FunctionsBuilt
    BY <1>1 DEF ModuleInv
  <2>2. Body' = Append(Body, op)
    BY <1>1, <2>1, CreateFacts
  <2>3. Body \in Seq(Operation)
    BY <1>1, <2>1, InFunction DEF Body
  <2> QED BY <2>2, <2>3
<1>5. \A v : Defines(Body, v) => Defines(Body', v)
  BY <1>4, DefinesStays
<1>6. kind \notin Sinks => Defines(Body', Created)
  <2>1. Created \in DOMAIN Body' /\ Body'[Created] = op
    BY <1>4 DEF Created
  <2> QED BY <2>1 DEF Defines
<1>7. ASSUME UNCHANGED symtab, Building' PROVE ScopeInv'
  <2>1. \A x \in Vars : symtab[x] # 0 => Defines(Body, symtab[x])
    BY ScopeAsDefines DEF IInv, ScopeInv
  <2>2. \A x \in Vars : symtab'[x] # 0 => Defines(Body', symtab'[x])
    BY <1>5, <1>7, <2>1
  <2>3. SymbolsInScope'
    BY <2>2 DEF SymbolsInScope, Defines, IsValue
  <2> QED BY <1>7, <2>3 DEF IInv, ScopeInv, ScopeClosed, Building
<1> QED BY <1>2, <1>3, <1>4, <1>5, <1>6, <1>7

(* A return without expression ends its statement at once.                 *)
LEMMA ReturnVoidInv ==
    ASSUME IInv, ReturnVoid
    PROVE  IInv'
<1>1. /\ Building /\ Building' /\ Create("return", << >>, Unranked)
      /\ UNCHANGED << declared, calls, symtab, stmt, frames, value, errors, pc >>
      /\ pc = "body"
  BY DEF ReturnVoid, NextStmt, Building
<1>2. Fits(Body, Created, [kind |-> "return", args |-> << >>, type |-> Unranked])
  BY ReturnFits
<1>3. /\ ModuleInv' /\ ScopeInv' /\ Cur' \in DOMAIN module' /\ module'[Cur'].results = << >>
  BY <1>1, <1>2, CreateInv
<1>4. FramesWait' /\ ValuesInScope'
  BY <1>1 DEF IInv, WalkInv, FramesWait, ValuesInScope
<1> QED BY <1>1, <1>3, <1>4 DEF IInv, WalkInv, OpenFunction

-----------------------------------------------------------------------------
(* Expressions.                                                            *)

(* Frames that all wait for another operand, and hold values of p.         *)
Waiting(fs, p) ==
    /\ fs \in Seq(Frame)
    /\ \A d \in DOMAIN fs :
          /\ FrameShape(fs[d]) /\ Len(fs[d].vals) < fs[d].need
          /\ \A k \in DOMAIN fs[d].vals : fs[d].vals[k] # 0 => Defines(p, fs[d].vals[k])

(* When an operand is needed every frame waits.                            *)
LEMMA AllWait ==
    ASSUME IInv, NeedsOperand
    PROVE  Waiting(frames, Body) /\ Building /\ pc = "expr"
<1>1. frames \in Seq(Frame) /\ FramesWait /\ pc = "expr"
  BY DEF IInv, WalkInv, NeedsOperand
<1>2. ASSUME NEW d \in DOMAIN frames
      PROVE  FrameShape(frames[d]) /\ Len(frames[d].vals) < frames[d].need
  <2>1. d \in 1..Len(frames) /\ Len(frames) \in Nat
    BY <1>1
  <2>2. CASE d = Len(frames)
    BY <1>1, <2>1, <2>2 DEF NeedsOperand, Top, Last, FramesWait
  <2>3. CASE d < Len(frames)
    BY <1>1, <2>3 DEF FramesWait
  <2> QED BY <2>1, <2>2, <2>3
<1>3. \A d \in DOMAIN frames : \A k \in DOMAIN frames[d].vals :
         frames[d].vals[k] # 0 => Defines(Body, frames[d].vals[k])
  BY <1>1, ScopeAsDefines DEF IInv, WalkInv
<1> QED BY <1>1, <1>2, <1>3 DEF Waiting, Building

(* When the top frame has its operands the others wait.                    *)
LEMMA FrontWaits ==
    ASSUME IInv, HasOperands
    PROVE  /\ Waiting(Front(frames), Body) /\ Building /\ pc = "expr"
           /\ Top \in Frame /\ FrameShape(Top) /\ Len(Top.vals) <= Top.need
           /\ \A k \in DOMAIN Top.vals :
                 Top.vals[k] # 0 => Defines(Body, Top.vals[k])
           /\ Len(Top.vals) = Top.need \/ (Top.kind = "call" /\ 0 \in Range(Top.vals))
<1>1. frames \in Seq(Frame) /\ FramesWait /\ pc = "expr" /\ frames # << >>
  BY DEF IInv, WalkInv, HasOperands
<1>2. /\ Len(frames) \in Nat \ {0} /\ DOMAIN frames = 1..Len(frames)
      /\ Top = frames[Len(frames)] /\ Top \in Frame
  BY <1>1 DEF Top, Last
<1>3. \A d \in DOMAIN frames : \A k \in DOMAIN frames[d].vals :
         frames[d].vals[k] # 0 => Defines(Body, frames[d].vals[k])
  BY <1>1, ScopeAsDefines DEF IInv, WalkInv
<1>4. /\ FrameShape(Top) /\ Len(Top.vals) <= Top.need
      /\ \A k \in DOMAIN Top.vals : Top.vals[k] # 0 => Defines(Body, Top.vals[k])
  BY <1>1, <1>2, <1>3 DEF FramesWait
<1>5. Len(Top.vals) \in Nat /\ Top.need \in Nat
  BY <1>2 DEF Frame
<1>6. Len(Top.vals) = Top.need \/ (Top.kind = "call" /\ 0 \in Range(Top.vals))
  BY <1>1, <1>4, <1>5 DEF HasOperands, NeedsOperand
<1>7. /\ Front(frames) \in Seq(Frame) /\ DOMAIN Front(frames) = 1..(Len(frames) - 1)
      /\ \A d \in 1..(Len(frames) - 1) : Front(frames)[d] = frames[d]
  BY <1>1, <1>2 DEF Front
<1>8. ASSUME NEW d \in 1..(Len(frames) - 1)
      PROVE  /\ FrameShape(frames[d]) /\ Len(frames[d].vals) < frames[d].need
             /\ d \in DOMAIN frames
  BY <1>1, <1>2 DEF FramesWait
<1>9. Waiting(Front(frames), Body)
  BY <1>3, <1>7, <1>8 DEF Waiting
<1> QED BY <1>1, <1>2, <1>4, <1>6, <1>9 DEF Building

(* Frames keep their values when the body grows.                           *)
LEMMA WaitingStays ==
    ASSUME NEW fs, NEW p, NEW r, Waiting(fs, p), \A v : Defines(p, v) => Defines(r, v)
    PROVE  Waiting(fs, r)
BY DEF Waiting

(* A frame with another operand.                                           *)
LEMMA MoreOperands ==
    ASSUME NEW g \in Frame, NEW v \in Nat
    PROVE  LET f == [g EXCEPT !.vals = Append(g.vals, v)]
           IN  /\ f \in Frame /\ f.vals = Append(g.vals, v) /\ f.need = g.need
               /\ f.kind = g.kind /\ f.name = g.name
<1>1. Append(g.vals, v) \in Seq(Nat)
  BY DEF Frame
<1> QED BY <1>1 DEF Frame

(* A value is given to the expression around, or to the statement.         *)
LEMMA GiveInv ==
    ASSUME IInv, pc = "expr", ModuleInv',
           Cur' \in DOMAIN module', module'[Cur'].results = << >>,
           ScopeInv' \/ ~ Building', UNCHANGED stmt, errors' \in BOOLEAN,
           NEW fs, Waiting(fs, Body'), NEW v \in Nat, v # 0 => Defines(Body', v),
           Give(fs, v)
    PROVE  IInv'
<1>1. pc' \in {"expr", "finish"} /\ Building' /\ value' \in Nat
  BY DEF Give, Building, IInv, WalkInv
<1>2. OpenFunction' /\ ScopeInv'
  BY <1>1 DEF OpenFunction
<1>3. CASE fs = << >>
  <2>1. frames' = << >> /\ value' = v /\ pc' = "finish"
    BY <1>3 DEF Give
  <2>2. FramesWait' /\ ValuesInScope'
    BY <2>1 DEF FramesWait, ValuesInScope, Defines, IsValue
  <2> QED BY <1>1, <1>2, <2>1, <2>2 DEF IInv, WalkInv
<1>4. CASE fs # << >>
  <2> DEFINE n == Len(fs)
             f == [fs[n] EXCEPT !.vals = Append(fs[n].vals, v)]
  <2>1. /\ frames' = [fs EXCEPT ![n] = f] /\ pc' = "expr"
    BY <1>4 DEF Give
  <2>2. /\ fs \in Seq(Frame) /\ n \in Nat \ {0} /\ DOMAIN fs = 1..n
        /\ fs[n] \in Frame
    BY <1>4 DEF Waiting
  <2>3. /\ FrameShape(fs[n]) /\ Len(fs[n].vals) < fs[n].need
        /\ fs[n].vals \in Seq(Nat) /\ fs[n].need \in Nat
    BY <2>2 DEF Waiting, Frame
  <2>4. f \in Frame /\ f.vals = Append(fs[n].vals, v) /\ f.need = fs[n].need
        /\ f.kind = fs[n].kind /\ f.name = fs[n].name
    BY <2>2, <2>3, MoreOperands
  <2>5. FrameShape(f) /\ Len(f.vals) <= f.need
    BY <2>3, <2>4 DEF FrameShape
  <2>6. \A k \in DOMAIN f.vals : f.vals[k] # 0 => Defines(Body', f.vals[k])
    <3>1. \A k \in DOMAIN fs[n].vals : fs[n].vals[k] # 0 => Defines(Body', fs[n].vals[k])
      BY <2>2 DEF Waiting
    <3> SUFFICES ASSUME NEW k \in DOMAIN f.vals, f.vals[k] # 0
                 PROVE  Defines(Body', f.vals[k])
      OBVIOUS
    <3>2. CASE k = Len(fs[n].vals) + 1
      BY <2>3, <2>4, <3>2
    <3>3. CASE k \in 1..Len(fs[n].vals)
      BY <2>3, <2>4, <3>1, <3>3
    <3> QED BY <2>3, <2>4, <3>2, <3>3
  <2> HIDE DEF f
  <2>7. /\ frames' \in Seq(Frame) /\ Len(frames') = n /\ DOMAIN frames' = 1..n
        /\ frames'[n] = f /\ \A d \in 1..(n - 1) : frames'[d] = fs[d]
    BY <2>1, <2>2, <2>4
  <2>8. \A d \in 1..(n - 1) :
           /\ FrameShape(fs[d]) /\ Len(fs[d].vals) < fs[d].need
           /\ Len(fs[d].vals) <= fs[d].need
           /\ \A k \in DOMAIN fs[d].vals :
                 fs[d].vals[k] # 0 => Defines(Body', fs[d].vals[k])
    <3> SUFFICES ASSUME NEW d \in 1..(n - 1)
                 PROVE  /\ FrameShape(fs[d]) /\ Len(fs[d].vals) < fs[d].need
                        /\ Len(fs[d].vals) <= fs[d].need
                        /\ \A k \in DOMAIN fs[d].vals :
                              fs[d].vals[k] # 0 => Defines(Body', fs[d].vals[k])
      OBVIOUS
    <3>1. d \in DOMAIN fs /\ fs[d] \in Frame
      BY <2>2
    <3>2. Len(fs[d].vals) \in Nat /\ fs[d].need \in Nat
      BY <3>1 DEF Frame
    <3> QED BY <3>1, <3>2 DEF Waiting
  <2>9. \A d \in DOMAIN frames' : d = n \/ d \in 1..(n - 1)
    BY <2>2, <2>7
  <2> HIDE DEF n
  <2>10. FramesWait'
    BY <2>1, <2>2, <2>5, <2>7, <2>8, <2>9 DEF FramesWait
  <2>11. ValuesInScope'
    BY <2>1, <2>6, <2>7, <2>8, <2>9 DEF ValuesInScope, Defines, IsValue
  <2> QED BY <1>1, <1>2, <2>7, <2>10, <2>11 DEF IInv, WalkInv
<1> QED BY <1>3, <1>4

(* An operation is created and given to the expression around.             *)
LEMMA CreateAndGive ==
    ASSUME IInv, pc = "expr", NEW kind, NEW args, NEW t, Create(kind, args, t),
           UNCHANGED << declared, symtab, stmt, calls >>, errors' \in BOOLEAN,
           Fits(Body, Created, [kind |-> kind, args |-> args, type |-> t]),
           NEW fs, Waiting(fs, Body), NEW v \in Nat,
           v = 0 \/ (v = Created /\ kind \notin Sinks), Give(fs, v)
    PROVE  IInv'
<1>1. /\ ModuleInv' /\ Cur' \in DOMAIN module' /\ module'[Cur'].results = << >>
      /\ \A w : Defines(Body, w) => Defines(Body', w)
      /\ kind \notin Sinks => Defines(Body', Created)
      /\ ScopeInv' \/ ~ Building'
  BY CreateInv DEF Building
<1>2. Waiting(fs, Body')
  BY <1>1, WaitingStays
<1>3. v # 0 => Defines(Body', v)
  BY <1>1
<1> QED BY <1>1, <1>2, <1>3, GiveInv

(* A value is given without an operation being created.                    *)
LEMMA GiveOnly ==
    ASSUME IInv, pc = "expr", UNCHANGED << module, declared, symtab, stmt, calls >>,
           errors' \in BOOLEAN, NEW fs, Waiting(fs, Body),
           NEW v \in Nat, v # 0 => Defines(Body, v), Give(fs, v)
    PROVE  IInv'
<1>1. Body' = Body /\ Cur' = Cur /\ module' = module
  BY DEF Body, Cur
<1>2. ModuleInv' /\ Cur' \in DOMAIN module' /\ module'[Cur'].results = << >>
  BY <1>1, ModuleStays DEF IInv, OpenFunction, Building
<1>3. ScopeInv' \/ ~ Building'
  BY <1>1, ScopeStays DEF IInv, Building
<1>4. Waiting(fs, Body') /\ (v # 0 => Defines(Body', v))
  BY <1>1
<1> QED BY <1>2, <1>3, <1>4, GiveInv

(* The value that the next operation will define.                          *)
LEMMA CreatedType ==
    ASSUME IInv, Building
    PROVE  Created \in Nat /\ Body \in Seq(Operation) /\ DOMAIN Body = 1..(Created - 1)
<1>1. Body \in Seq(Operation)
  BY InFunction DEF IInv, ModuleInv, OpenFunction, Body
<1> QED BY <1>1 DEF Created

(* A constant is an operand ...                                            *)
LEMMA GenConstantInv ==
    ASSUME IInv, NEW s \in Literals \cup {<< >>}, GenConstant(s)
    PROVE  IInv'
<1>1. NeedsOperand /\ Create("constant", << >>, s) /\ Give(frames, Created)
  BY DEF GenConstant
<1>2. Waiting(frames, Body) /\ Building /\ pc = "expr"
  BY <1>1, AllWait
<1>3. s \in Seq(Nat) /\ s # Unranked
  <2>1. << >> \in Seq(Nat)
    OBVIOUS
  <2>2. s \in Seq(Nat)
    BY <2>1, LiteralsAssumption
  <2> QED BY <2>2, UnrankedAssumption
<1>4. Fits(Body, Created, [kind |-> "constant", args |-> << >>, type |-> s])
  BY <1>3 DEF Fits, ArityOK, Operation, Kinds, Sinks, Elementwise, Type, Shape
<1>5. Created \in Nat /\ "constant" \notin Sinks
  BY <1>2, CreatedType DEF Sinks
<1>6. UNCHANGED << declared, symtab, stmt, calls >> /\ errors' \in BOOLEAN
  BY DEF GenConstant, Unchanged, IInv, WalkInv
<1> QED BY <1>1, <1>2, <1>4, <1>5, <1>6, CreateAndGive

(* ... a variable is what the symbol table says ...                        *)
LEMMA GenVariableInv ==
    ASSUME IInv, NEW x \in Vars, GenVariable(x)
    PROVE  IInv'
<1>1. NeedsOperand /\ Give(frames, symtab[x])
  BY DEF GenVariable
<1>2. Waiting(frames, Body) /\ Building /\ pc = "expr"
  BY <1>1, AllWait
<1>3. symtab[x] \in Nat /\ (symtab[x] # 0 => Defines(Body, symtab[x]))
  BY <1>2, ScopeAsDefines DEF IInv, ScopeInv
<1>4. UNCHANGED << module, declared, symtab, stmt, calls >> /\ errors' \in BOOLEAN
  BY DEF GenVariable, Unchanged, IInv, WalkInv
<1> QED BY <1>1, <1>2, <1>3, <1>4, GiveOnly

(* ... and an expression gets a frame of its own.                          *)
LEMMA EnterExprInv ==
    ASSUME IInv, NEW e \in SideEffects \cup Pure, EnterExpr(e)
    PROVE  IInv'
<1>1. /\ NeedsOperand /\ frames' = Append(frames, e)
      /\ UNCHANGED << module, declared, symtab, stmt, calls, value, errors, pc >>
  BY DEF EnterExpr, Unchanged
<1>2. Waiting(frames, Body) /\ Building /\ pc = "expr"
  BY <1>1, AllWait
<1>3. e \in Frame /\ FrameShape(e) /\ e.vals = << >> /\ e.need \in Nat
  <2>1. e \in Frame /\ FrameShape(e) /\ e.vals = << >>
    BY ExprFrames
  <2> QED BY <2>1 DEF Frame
<1>4. ModuleInv'
  BY <1>1, ModuleStays DEF IInv
<1>5. OpenFunction' /\ ScopeInv'
  BY <1>1, <1>2, ScopeStays DEF IInv, Building
<1> DEFINE n == Len(frames)
<1>6. /\ frames' \in Seq(Frame) /\ Len(frames') = n + 1 /\ DOMAIN frames' = 1..(n + 1)
      /\ frames'[n + 1] = e /\ \A d \in 1..n : frames'[d] = frames[d]
      /\ n \in Nat /\ DOMAIN frames = 1..n
  BY <1>1, <1>3 DEF IInv, WalkInv
<1>7. \A d \in 1..n :
         /\ FrameShape(frames[d]) /\ Len(frames[d].vals) < frames[d].need
         /\ Len(frames[d].vals) <= frames[d].need
         /\ \A k \in DOMAIN frames[d].vals :
               frames[d].vals[k] # 0 => Defines(Body, frames[d].vals[k])
  <2> SUFFICES ASSUME NEW d \in 1..n
               PROVE  /\ FrameShape(frames[d]) /\ Len(frames[d].vals) < frames[d].need
                      /\ Len(frames[d].vals) <= frames[d].need
                      /\ \A k \in DOMAIN frames[d].vals :
                            frames[d].vals[k] # 0 => Defines(Body, frames[d].vals[k])
    OBVIOUS
  <2>1. d \in DOMAIN frames /\ frames[d] \in Frame
    BY <1>6 DEF IInv, WalkInv
  <2>2. Len(frames[d].vals) \in Nat /\ frames[d].need \in Nat
    BY <2>1 DEF Frame
  <2> QED BY <1>2, <2>1, <2>2 DEF Waiting
<1>8. \A d \in DOMAIN frames' : d = n + 1 \/ d \in 1..n
  BY <1>6
<1> HIDE DEF n
<1>9. FramesWait'
  BY <1>1, <1>2, <1>3, <1>6, <1>7, <1>8 DEF FramesWait
<1>10. Body' = Body
  BY <1>1 DEF Body, Cur
<1>11. ValuesInScope'
  BY <1>1, <1>2, <1>3, <1>6, <1>7, <1>8, <1>10 DEF ValuesInScope, Defines, IsValue
<1> QED BY <1>1, <1>4, <1>5, <1>6, <1>9, <1>11 DEF IInv, WalkInv

-----------------------------------------------------------------------------
(* Expressions whose operands are known.                                   *)

(* The operands of the top frame are null or earlier values.               *)
LEMMA TopOperands ==
    ASSUME IInv, HasOperands
    PROVE  /\ Top.vals \in Seq(Nat) /\ DOMAIN Top.vals = 1..Len(Top.vals)
           /\ \A k \in DOMAIN Top.vals :
                 /\ Top.vals[k] \in 0..(Created - 1)
                 /\ Top.vals[k] # 0 => /\ Top.vals[k] \in DOMAIN Body
                                       /\ Body[Top.vals[k]].kind \notin Sinks
           /\ Top.kind \in {"transpose", "print"} => Len(Top.vals) = 1
           /\ Top.kind = "binary" => Len(Top.vals) = 2 /\ Top.name \in BinaryOps
<1>1. /\ Top \in Frame /\ FrameShape(Top)
      /\ \A k \in DOMAIN Top.vals : Top.vals[k] # 0 => Defines(Body, Top.vals[k])
      /\ Len(Top.vals) = Top.need \/ (Top.kind = "call" /\ 0 \in Range(Top.vals))
      /\ Building
  BY FrontWaits
<1>2. Top.vals \in Seq(Nat) /\ DOMAIN Top.vals = 1..Len(Top.vals)
  BY <1>1 DEF Frame
<1>3. Created \in Nat \ {0} /\ DOMAIN Body = 1..(Created - 1)
  <2>1. Body \in Seq(Operation)
    BY <1>1, CreatedType
  <2> QED BY <2>1 DEF Created
<1>4. ASSUME NEW k \in DOMAIN Top.vals
      PROVE  /\ Top.vals[k] \in 0..(Created - 1)
             /\ Top.vals[k] # 0 => /\ Top.vals[k] \in DOMAIN Body
                                   /\ Body[Top.vals[k]].kind \notin Sinks
  BY <1>1, <1>2, <1>3 DEF Defines
<1>5. /\ Top.kind \in {"transpose", "print"} => Len(Top.vals) = 1
      /\ Top.kind = "binary" => Len(Top.vals) = 2 /\ Top.name \in BinaryOps
  BY <1>1 DEF FrameShape
<1> QED BY <1>2, <1>4, <1>5

(* A transpose is not created for a null operand ...                       *)
LEMMA GenTransposeInv ==
    ASSUME IInv, GenTranspose
    PROVE  IInv'
<1>1. /\ HasOperands /\ Top.kind = "transpose"
      /\ UNCHANGED << declared, symtab, stmt, calls >> /\ errors' \in BOOLEAN
  BY DEF GenTranspose, Unchanged, IInv, WalkInv
<1>2. Waiting(Front(frames), Body) /\ pc = "expr" /\ Building
  BY <1>1, FrontWaits
<1>3. CASE Top.vals[1] = 0
  BY <1>1, <1>2, <1>3, GiveOnly DEF GenTranspose
<1>4. CASE Top.vals[1] # 0
  <2>1. Create("transpose", Top.vals, Unranked) /\ Give(Front(frames), Created)
    BY <1>4 DEF GenTranspose
  <2>2. Fits(Body, Created, [kind |-> "transpose", args |-> Top.vals, type |-> Unranked])
    BY <1>1, TopOperands DEF Fits, ArityOK, Operation, Kinds, Sinks, Elementwise, Type
  <2>3. Created \in Nat /\ "transpose" \notin Sinks
    BY <1>2, CreatedType DEF Sinks
  <2> QED BY <1>1, <1>2, <2>1, <2>2, <2>3, CreateAndGive
<1> QED BY <1>3, <1>4

(* ... nor is a print, which has no value ...                              *)
LEMMA GenPrintInv ==
    ASSUME IInv, GenPrint
    PROVE  IInv'
<1>1. /\ HasOperands /\ Top.kind = "print" /\ Give(Front(frames), 0)
      /\ UNCHANGED << declared, symtab, stmt, calls >> /\ errors' \in BOOLEAN
  BY DEF GenPrint, Unchanged, IInv, WalkInv
<1>2. Waiting(Front(frames), Body) /\ pc = "expr" /\ Building
  BY <1>1, FrontWaits
<1>3. CASE Top.vals[1] = 0
  BY <1>1, <1>2, <1>3, GiveOnly DEF GenPrint
<1>4. CASE Top.vals[1] # 0
  <2>1. Create("print", Top.vals, Unranked)
    BY <1>4 DEF GenPrint
  <2>2. Fits(Body, Created, [kind |-> "print", args |-> Top.vals, type |-> Unranked])
    BY <1>1, TopOperands DEF Fits, ArityOK, Operation, Kinds, Sinks, Elementwise, Type
  <2> QED BY <1>1, <1>2, <2>1, <2>2, CreateAndGive
<1> QED BY <1>3, <1>4

(* ... but a product is, and an elementwise operation unless its lhs is.   *)
LEMMA GenBinaryInv ==
    ASSUME IInv, GenBinary
    PROVE  IInv'
<1>1. /\ HasOperands /\ Top.kind = "binary"
      /\ UNCHANGED << declared, symtab, stmt, calls >> /\ errors' \in BOOLEAN
  BY DEF GenBinary, Unchanged, IInv, WalkInv
<1>2. Waiting(Front(frames), Body) /\ pc = "expr" /\ Building
  BY <1>1, FrontWaits
<1>3. Created \in Nat /\ Body \in Seq(Operation)
  BY <1>2, CreatedType
<1>4. CASE Top.name = "matrix_mul"
  <2>1. Create("matrix_mul", Top.vals, Unranked) /\ Give(Front(frames), Created)
    BY <1>4 DEF GenBinary
  <2>2. Fits(Body, Created, [kind |-> "matrix_mul", args |-> Top.vals, type |-> Unranked])
    BY <1>1, TopOperands DEF Fits, ArityOK, Operation, Kinds, Sinks, Elementwise, Type
  <2>3. "matrix_mul" \notin Sinks
    BY DEF Sinks
  <2> QED BY <1>1, <1>2, <1>3, <2>1, <2>2, <2>3, CreateAndGive
<1>5. CASE Top.name # "matrix_mul" /\ Top.vals[1] # 0
  <2>1. Create(Top.name, Top.vals, Body[Top.vals[1]].type) /\ Give(Front(frames), Created)
    BY <1>5 DEF GenBinary
  <2>2. Top.name = "add"
    BY <1>1, <1>5, TopOperands DEF BinaryOps
  <2>3. 1 \in DOMAIN Top.vals /\ Top.vals[1] \in DOMAIN Body
    BY <1>1, <1>5, TopOperands
  <2>4. Body[Top.vals[1]] \in Operation
    BY <1>3, <2>3
  <2>5. Body[Top.vals[1]].type \in Type
    BY <2>4 DEF Operation
  <2>6. Fits(Body, Created,
             [kind |-> Top.name, args |-> Top.vals, type |-> Body[Top.vals[1]].type])
    BY <1>1, <1>5, <2>2, <2>5, TopOperands DEF Fits, ArityOK, Operation, Kinds, Sinks, Elementwise
  <2>7. Top.name \notin Sinks
    BY <2>2 DEF Sinks
  <2> QED BY <1>1, <1>2, <1>3, <2>1, <2>6, <2>7, CreateAndGive
<1>6. CASE Top.name # "matrix_mul" /\ Top.vals[1] = 0
  <2>1. pc' = "undefined" /\ UNCHANGED << module, frames, value >>
    BY <1>6 DEF GenBinary
  <2>2. ModuleInv'
    BY <1>1, <2>1, ModuleStays DEF IInv
  <2> QED BY <1>1, <2>1, <2>2, StoppedInv DEF IInv, ScopeInv, WalkInv
<1> QED BY <1>4, <1>5, <1>6

(* A call that is typed with the result of its callee, once created.       *)
LEMMA CallCreated ==
    ASSUME IInv, Building, NEW name \in DOMAIN declared, NEW kind, NEW args, NEW t,
           module[declared[name]].results = << t >>, Create(kind, args, t), UNCHANGED declared,
           Fits(Body, Created, [kind |-> kind, args |-> args, type |-> t]),
           NEW c, c.caller = Cur, c.at = Created, c.callee = name
    PROVE  CallTyped(c)'
<1> DEFINE k == declared[name]
           op == [kind |-> kind, args |-> args, type |-> t]
<1>1. FunctionsBuilt /\ NamesDeclared /\ Cur \in DOMAIN module /\ module[Cur].results = << >>
  BY DEF IInv, ModuleInv, OpenFunction
<1>2. module \in Seq(Function) /\ Cur \in Nat /\ DOMAIN module = 1..Cur
  BY <1>1 DEF FunctionsBuilt, Cur
<1>3. k \in DOMAIN module
  BY <1>1 DEF NamesDeclared
<1>4. k \in 1..(Cur - 1)
  <2>1. module[k].results = << t >>
    OBVIOUS
  <2> HIDE DEF k
  <2>2. k # Cur
    BY <1>1, <2>1
  <2> QED BY <1>2, <1>3, <2>2
<1>5. module[k].results = << t >>
  OBVIOUS
<1> HIDE DEF k
<1>6. /\ Cur' = Cur /\ DOMAIN module' = DOMAIN module /\ Body' = Append(Body, op)
      /\ \A m \in DOMAIN module : m # Cur => module'[m] = module[m]
  <2>1. FunctionsBuilt /\ Cur \in DOMAIN module
    BY <1>1
  <2>2. Cur' = Cur /\ DOMAIN module' = DOMAIN module /\ Body' = Append(Body, op)
    BY <2>1, CreateFacts
  <2>3. \A m \in DOMAIN module : m # Cur => module'[m] = module[m]
    BY <2>1, CreateFacts
  <2> QED BY <2>2, <2>3
<1>7. Created \in DOMAIN Body' /\ Body'[Created] = op
  <2>1. Body \in Seq(Operation)
    BY CreatedType
  <2> QED BY <1>6, <2>1 DEF Created
<1>8. Created \in DOMAIN module'[Cur].body /\ module'[Cur].body[Created].type = t
  BY <1>6, <1>7 DEF Body
<1>9. declared'[name] = k /\ name \in DOMAIN declared'
  BY DEF k
<1> HIDE DEF op
<1> QED BY <1>1, <1>3, <1>4, <1>5, <1>6, <1>8, <1>9 DEF CallTyped

(* A call is typed with the first result of its callee.                    *)
LEMMA GenCallInv ==
    ASSUME IInv, GenCall
    PROVE  IInv'
<1>1. /\ HasOperands /\ Top.kind = "call"
      /\ UNCHANGED << declared, symtab, stmt >> /\ errors' \in BOOLEAN
  BY DEF GenCall, Unchanged, IInv, WalkInv
<1>2. Waiting(Front(frames), Body) /\ pc = "expr" /\ Building
  BY <1>1, FrontWaits
<1>3. CASE 0 \in Range(Top.vals)
  <2>1. Give(Front(frames), 0) /\ UNCHANGED << module, calls >>
    BY <1>3 DEF GenCall
  <2> QED BY <1>1, <1>2, <2>1, GiveOnly
<1>4. CASE /\ 0 \notin Range(Top.vals) /\ Top.name \in DOMAIN declared
           /\ module[declared[Top.name]].results # << >>
  <2> DEFINE t == module[declared[Top.name]].results[1]
  <2>0. PICK c : c = [caller |-> Cur, at |-> Created, callee |-> Top.name]
    OBVIOUS
  <2>1. /\ Create("generic_call", Top.vals, t)
        /\ calls' = calls \cup {c} /\ Give(Front(frames), Created)
    BY <1>4, <2>0 DEF GenCall
  <2>2. t \in Type /\ module[declared[Top.name]].results = << t >>
    <3> DEFINE m == declared[Top.name]
    <3>1. m \in DOMAIN module /\ FunctionsBuilt
      BY <1>4 DEF IInv, ModuleInv, NamesDeclared
    <3>2. module[m] \in Function /\ Len(module[m].results) = 1
      BY <1>4, <3>1, InFunction DEF FunctionsBuilt, ResultsOf
    <3>3. module[m].results \in Seq(Type)
      BY <3>2 DEF Function
    <3> QED BY <3>2, <3>3
  <2> HIDE DEF t
  <2>3. Fits(Body, Created, [kind |-> "generic_call", args |-> Top.vals, type |-> t])
    BY <1>1, <2>2, TopOperands DEF Fits, ArityOK, Operation, Kinds, Sinks, Elementwise
  <2>4. /\ FunctionsBuilt' /\ NamesDeclared' /\ \A d : CallTyped(d) => CallTyped(d)'
        /\ Cur' \in DOMAIN module' /\ module'[Cur'].results = << >>
        /\ \A w : Defines(Body, w) => Defines(Body', w)
        /\ "generic_call" \notin Sinks => Defines(Body', Created)
        /\ ScopeInv' \/ ~ Building'
    BY <1>1, <1>2, <2>1, <2>3, CreateInv
  <2>5. CallTyped(c)'
    <3>1. c.caller = Cur /\ c.at = Created /\ c.callee = Top.name
      BY <2>0
    <3>2. Top.name \in DOMAIN declared /\ UNCHANGED declared
      BY <1>1, <1>4
    <3> QED BY <1>2, <2>1, <2>2, <2>3, <3>1, <3>2, CallCreated
  <2>6. CallsTyped'
    BY <2>1, <2>4, <2>5 DEF IInv, ModuleInv, CallsTyped
  <2>7. ModuleInv'
    BY <2>4, <2>6 DEF ModuleInv
  <2>8. Created \in Nat /\ Defines(Body', Created)
    BY <1>2, <2>4, CreatedType DEF Sinks
  <2>9. Waiting(Front(frames), Body')
    BY <1>2, <2>4, WaitingStays
  <2> QED BY <1>1, <1>2, <2>1, <2>4, <2>7, <2>8, <2>9, GiveInv
<1>5. CASE ~ (Top.name \in DOMAIN declared /\ module[declared[Top.name]].results # << >>)
           /\ 0 \notin Range(Top.vals)
  <2>1. pc' = "undefined" /\ UNCHANGED << module, calls, frames, value >>
    BY <1>5 DEF GenCall
  <2>2. ModuleInv'
    BY <1>1, <2>1, ModuleStays DEF IInv
  <2> QED BY <1>1, <2>1, <2>2, StoppedInv DEF IInv, ScopeInv, WalkInv
<1> QED BY <1>3, <1>4, <1>5

-----------------------------------------------------------------------------
(* The end of a statement.                                                 *)

(* The walk continues behind the statement.                                *)
LEMMA ContinueInv ==
    ASSUME IInv, pc = "finish", Continue, ModuleInv', ScopeInv',
           Cur' \in DOMAIN module', module'[Cur'].results = << >>
    PROVE  IInv'
<1>1. /\ pc' = "body" /\ stmt' = NoStmt /\ value' = 0
      /\ frames' = frames /\ errors' = errors /\ frames = << >>
  BY DEF Continue, IInv, WalkInv, FramesWait
<1>2. OpenFunction'
  BY DEF OpenFunction
<1>3. WalkInv'
  BY <1>1 DEF IInv, WalkInv, FramesWait, ValuesInScope, Statement
<1> QED BY <1>2, <1>3 DEF IInv

(* An expression statement leaves nothing behind.                          *)
LEMMA FinishExprStmtInv ==
    ASSUME IInv, FinishExprStmt
    PROVE  IInv'
<1>1. /\ pc = "finish" /\ Continue /\ pc' = "body"
      /\ UNCHANGED << module, declared, calls, symtab >>
  BY DEF FinishExprStmt, Continue
<1>2. ModuleInv'
  BY <1>1, ModuleStays DEF IInv
<1>3. OpenFunction' /\ ScopeInv'
  BY <1>1, ScopeStays DEF IInv, Building
<1>4. Cur' \in DOMAIN module' /\ module'[Cur'].results = << >>
  BY <1>1, <1>3 DEF OpenFunction, Building
<1> QED BY <1>1, <1>2, <1>3, <1>4, ContinueInv

(* The value of a finished statement is one of this function.              *)
LEMMA FinishedValue ==
    ASSUME IInv, pc = "finish", value # 0
    PROVE  /\ Building /\ Defines(Body, value) /\ value \in 1..(Created - 1)
           /\ value \in Nat /\ Created \in Nat
<1>1. Building /\ Defines(Body, value)
  BY ScopeAsDefines DEF IInv, WalkInv, Building
<1> QED BY <1>1, CreatedType DEF Defines

(* A return takes the value.                                               *)
LEMMA FinishReturnInv ==
    ASSUME IInv, FinishReturn
    PROVE  IInv'
<1>1. /\ pc = "finish" /\ value # 0 /\ Create("return", << value >>, Unranked)
      /\ Continue /\ pc' = "body" /\ UNCHANGED << declared, calls, symtab >>
  BY DEF FinishReturn, Continue
<1>2. Building /\ Defines(Body, value) /\ value \in 1..(Created - 1) /\ value \in Nat
  BY <1>1, FinishedValue
<1>3. Fits(Body, Created, [kind |-> "return", args |-> << value >>, type |-> Unranked])
  BY <1>1, <1>2 DEF Fits, ArityOK, Operation, Kinds, Sinks, Elementwise, Type, Defines
<1>4. /\ ModuleInv' /\ Cur' \in DOMAIN module' /\ module'[Cur'].results = << >>
      /\ ScopeInv' \/ ~ Building'
  BY <1>1, <1>2, <1>3, CreateInv
<1>5. ScopeInv'
  BY <1>1, <1>4 DEF Building
<1> QED BY <1>1, <1>4, <1>5, ContinueInv

(* A declared name denotes the value from now on.                          *)
LEMMA DeclaredInScope ==
    ASSUME symtab \in [Vars -> Nat], NEW p,
           \A x \in Vars : symtab[x] # 0 => Defines(p, symtab[x]),
           NEW name, NEW v \in Nat, Defines(p, v), Body' = p, pc' = "body",
           symtab' = [symtab EXCEPT ![name] = v]
    PROVE  ScopeInv'
<1>1. symtab' \in [Vars -> Nat]
  OBVIOUS
<1>2. \A x \in Vars : symtab'[x] # 0 => Defines(p, symtab'[x])
  OBVIOUS
<1>3. SymbolsInScope'
  BY <1>2 DEF SymbolsInScope, Defines, IsValue
<1> QED BY <1>1, <1>3 DEF ScopeInv, ScopeClosed

(* A declaration reshapes the value if it has a type, and names it.        *)
LEMMA FinishVarDeclInv ==
    ASSUME IInv, FinishVarDecl
    PROVE  IInv'
<1>1. pc = "finish" /\ stmt.kind = "var" /\ value # 0 /\ UNCHANGED << declared, calls >>
  BY DEF FinishVarDecl
<1>2. /\ Building /\ Defines(Body, value) /\ value \in 1..(Created - 1)
      /\ value \in Nat /\ Created \in Nat
  BY <1>1, FinishedValue
<1>3. stmt.type # NoType => stmt.type \in Type
  <2>1. stmt \in [kind : {"var"}, name : Vars, type : Literals \cup {Unranked, NoType}]
    BY <1>1 DEF IInv, WalkInv, Statement, NoStmt
  <2>2. Literals \subseteq Type
    BY LiteralsAssumption DEF Type, Shape
  <2> QED BY <2>1, <2>2 DEF Type
<1>4. /\ symtab \in [Vars -> Nat]
      /\ \A x \in Vars : symtab[x] # 0 => Defines(Body, symtab[x])
  BY <1>2, ScopeAsDefines DEF IInv, ScopeInv
<1>5. PICK v \in Nat :
         /\ v = (IF stmt.type = NoType THEN value ELSE Created)
         /\ ModuleInv' /\ Cur' \in DOMAIN module' /\ module'[Cur'].results = << >>
         /\ Defines(Body', v)
         /\ \A x \in Vars : symtab[x] # 0 => Defines(Body', symtab[x])
  <2>1. CASE stmt.type = NoType
    <3>1. UNCHANGED << module, declared, calls >>
      BY <1>1, <2>1 DEF FinishVarDecl
    <3>2. Body' = Body /\ Cur' = Cur
      BY <3>1 DEF Body, Cur
    <3>3. ModuleInv' /\ Cur' \in DOMAIN module' /\ module'[Cur'].results = << >>
      BY <1>2, <3>1, <3>2, ModuleStays DEF IInv, OpenFunction
    <3> QED BY <1>2, <1>4, <2>1, <3>2, <3>3
  <2>2. CASE stmt.type # NoType
    <3>1. Create("reshape", << value >>, stmt.type)
      BY <2>2 DEF FinishVarDecl
    <3>2. Fits(Body, Created, [kind |-> "reshape", args |-> << value >>, type |-> stmt.type])
      BY <1>1, <1>2, <1>3, <2>2
      DEF Fits, ArityOK, Operation, Kinds, Sinks, Elementwise, Defines
    <3>3. /\ ModuleInv' /\ Cur' \in DOMAIN module' /\ module'[Cur'].results = << >>
          /\ \A w : Defines(Body, w) => Defines(Body', w)
          /\ "reshape" \notin Sinks => Defines(Body', Created)
      BY <1>1, <1>2, <3>1, <3>2, CreateInv
    <3>4. Defines(Body', Created)
      BY <3>3 DEF Sinks
    <3> QED BY <1>2, <1>4, <2>2, <3>3, <3>4
  <2> QED BY <2>1, <2>2
<1>6. CASE symtab[stmt.name] = 0
  <2>1. symtab' = [symtab EXCEPT ![stmt.name] = v] /\ Continue
    BY <1>5, <1>6 DEF FinishVarDecl
  <2>2. pc' = "body"
    BY <2>1 DEF Continue
  <2>3. ScopeInv'
    BY <1>4, <1>5, <2>1, <2>2, DeclaredInScope
  <2> QED BY <1>1, <1>5, <2>1, <2>3, ContinueInv
<1>7. CASE symtab[stmt.name] # 0
  BY <1>5, <1>7, AbandonInv DEF FinishVarDecl
<1> QED BY <1>6, <1>7

-----------------------------------------------------------------------------
(* Functions, and every step.                                              *)

(* A new function has its parameters, which are values, in scope; one with *)
(* a repeated parameter is abandoned before anything is in scope.          *)
LEMMA BeginFunctionInv ==
    ASSUME IInv, NEW name \in Names, NEW params \in Params, BeginFunction(name, params)
    PROVE  IInv'
<1>1. /\ pc = "module" /\ symtab = NoScope /\ frames = << >>
      /\ UNCHANGED << calls, stmt, frames, value, errors >>
  BY DEF BeginFunction, IInv, ScopeInv, ScopeClosed, WalkInv, FramesWait
<1>2. /\ ModuleInv' /\ Cur' \in DOMAIN module' /\ module'[Cur'].results = << >>
      /\ Body' = [k \in DOMAIN params |-> [kind |-> "arg", args |-> << >>, type |-> Unranked]]
  BY BeginKeepsModule DEF IInv, ModuleInv
<1>3. pc' \in {"module", "body"}
  BY DEF BeginFunction
<1>4. OpenFunction' /\ WalkInv'
  BY <1>1, <1>2, <1>3 DEF OpenFunction, IInv, WalkInv, FramesWait, ValuesInScope
<1>5. CASE IsInjective(params)
  <2>1. /\ pc' = "body"
        /\ symtab' = [x \in Vars |-> IF x \in Range(params)
                                     THEN CHOOSE k \in DOMAIN params : params[k] = x
                                     ELSE symtab[x]]
    BY <1>5 DEF BeginFunction
  <2>2. ASSUME NEW x \in Vars
        PROVE  symtab'[x] \in Nat /\ (symtab'[x] # 0 => Defines(Body', symtab'[x]))
    <3>1. CASE x \in Range(params)
      <4>1. symtab'[x] = CHOOSE k \in DOMAIN params : params[k] = x
        BY <2>1, <3>1
      <4>2. \E k \in DOMAIN params : params[k] = x
        BY <3>1 DEF Range
      <4>3. symtab'[x] \in DOMAIN params
        BY <4>1, <4>2
      <4>4. DOMAIN params \subseteq Nat
        BY DEF Params
      <4>5. Defines(Body', symtab'[x])
        BY <1>2, <4>3 DEF Defines, Sinks
      <4> QED BY <4>3, <4>4, <4>5
    <3>2. CASE x \notin Range(params)
      BY <1>1, <2>1, <3>2 DEF NoScope
    <3> QED BY <3>1, <3>2
  <2>3. symtab' \in [Vars -> Nat]
    <3>1. symtab' = [x \in Vars |-> symtab'[x]]
      BY <2>1
    <3> QED BY <2>2, <3>1
  <2>4. SymbolsInScope'
    BY <2>2 DEF SymbolsInScope, IsValue, Defines
  <2> QED BY <1>2, <1>4, <2>1, <2>3, <2>4 DEF IInv, ScopeInv, ScopeClosed
<1>6. CASE ~ IsInjective(params)
  <2>1. pc' = "module" /\ symtab' = NoScope
    BY <1>1, <1>6 DEF BeginFunction
  <2>2. ScopeInv'
    BY <2>1 DEF ScopeInv, ScopeClosed, SymbolsInScope, NoScope
  <2> QED BY <1>2, <1>4, <2>2 DEF IInv
<1> QED BY <1>5, <1>6

(* The end of a function closes its scope.                                 *)
LEMMA EndFunctionInv ==
    ASSUME IInv, EndFunction
    PROVE  IInv'
<1>1. Cur \in DOMAIN module /\ module[Cur].results = << >> /\ Abandon /\ errors' \in BOOLEAN
  BY DEF EndFunction, IInv, OpenFunction, Building, WalkInv
<1>2. ModuleInv'
  BY <1>1, EndKeepsModule DEF IInv
<1> QED BY <1>1, <1>2, AbandonInv

(* The module is verified, accepted or not.                                *)
LEMMA EndModuleInv ==
    ASSUME IInv, EndModule
    PROVE  IInv'
<1>1. /\ UNCHANGED << module, declared, calls, symtab, stmt, frames, value, errors >>
      /\ pc' \in {"accepted", "rejected"}
  BY DEF EndModule
<1>2. ModuleInv'
  BY <1>1, ModuleStays DEF IInv
<1> QED BY <1>1, <1>2, StoppedInv DEF IInv, ScopeInv, WalkInv

(* Only the verifier accepts a module.                                     *)
VerifiedModule == pc = "accepted" => VerifyModule

(* No other step accepts one.                                              *)
LEMMA VerifiedStays ==
    ASSUME VerifiedModule, [Next]_vars
    PROVE  VerifiedModule'
<1>1. CASE EndModule
  BY <1>1 DEF EndModule, VerifiedModule, VerifyModule
<1>2. CASE UNCHANGED vars
  BY <1>2 DEF vars, VerifiedModule, VerifyModule
<1>3. CASE Next /\ ~ EndModule
  <2>1. ASSUME NEW f \in Names, NEW ps \in Params, BeginFunction(f, ps)
        PROVE  pc' # "accepted"
    BY <2>1 DEF BeginFunction
  <2>2. ASSUME \/ EndFunction \/ VarDeclWithoutInit \/ PureExprStmt \/ FinishNull
               \/ FinishVarDecl \/ FinishReturn \/ FinishExprStmt
        PROVE  pc' # "accepted"
    BY <2>2 DEF EndFunction, VarDeclWithoutInit, PureExprStmt, FinishNull, FinishVarDecl,
                FinishReturn, FinishExprStmt, Abandon, Continue
  <2>3. ASSUME \/ \E x \in Vars, t \in Literals \cup {Unranked, NoType} : BeginVarDecl(x, t)
               \/ BeginReturn \/ ReturnVoid \/ ReturnNullExpr
               \/ \E e \in SideEffects : BeginExprStmt(e)
        PROVE  pc' # "accepted"
    BY <2>3 DEF BeginVarDecl, BeginReturn, ReturnVoid, ReturnNullExpr, BeginExprStmt, NextStmt
  <2>4. ASSUME \/ \E s \in Literals \cup {<< >>} : GenConstant(s)
               \/ \E x \in Vars : GenVariable(x)
               \/ \E e \in SideEffects \cup Pure : EnterExpr(e)
               \/ GenTranspose \/ GenPrint
        PROVE  pc' # "accepted"
    BY <2>4 DEF GenConstant, GenVariable, EnterExpr, GenTranspose, GenPrint, Give,
                NeedsOperand, HasOperands
  <2>5. ASSUME GenBinary \/ GenCall PROVE pc' # "accepted"
    BY <2>5 DEF GenBinary, GenCall, Give, HasOperands
  <2>6. pc' # "accepted"
    BY <1>3, <2>1, <2>2, <2>3, <2>4, <2>5 DEF Next
  <2> QED BY <2>6 DEF VerifiedModule
<1> QED BY <1>1, <1>2, <1>3

(* Nothing has been emitted.                                               *)
LEMMA InitInv == Init => IInv /\ VerifiedModule
<1> SUFFICES ASSUME Init PROVE IInv /\ VerifiedModule
  OBVIOUS
<1>1. ModuleInv
  BY DEF Init, ModuleInv, FunctionsBuilt, NamesDeclared, CallsTyped
<1>2. OpenFunction /\ ScopeInv
  BY DEF Init, OpenFunction, Building, ScopeInv, ScopeClosed, SymbolsInScope, NoScope
<1>3. WalkInv
  <2>1. stmt \in Statement /\ frames = << >> /\ value = 0 /\ errors = FALSE /\ pc = "module"
    BY DEF Init, Statement
  <2>2. frames \in Seq(Frame) /\ FramesWait /\ ValuesInScope
    BY <2>1 DEF FramesWait, ValuesInScope
  <2> QED BY <2>1, <2>2 DEF WalkInv
<1> QED BY <1>1, <1>2, <1>3 DEF Init, IInv, VerifiedModule

(* Nothing happens.                                                        *)
LEMMA StutterInv ==
    ASSUME IInv, UNCHANGED vars
    PROVE  IInv'
<1>1. ModuleInv'
  BY ModuleStays DEF IInv, vars
<1>2. OpenFunction' /\ ScopeInv'
  BY DEF IInv, vars, OpenFunction, ScopeInv, ScopeClosed, SymbolsInScope, Building,
         IsValue, Body, Cur
<1>3. WalkInv'
  BY DEF IInv, vars, WalkInv, FramesWait, ValuesInScope, IsValue, Body, Cur
<1> QED BY <1>1, <1>2, <1>3 DEF IInv

(* Every step of the walk preserves the invariant.                         *)
LEMMA NextInv == IInv /\ [Next]_vars => IInv'
<1> SUFFICES ASSUME IInv, [Next]_vars PROVE IInv'
  OBVIOUS
<1>1. ASSUME NEW f \in Names, NEW ps \in Params, BeginFunction(f, ps) PROVE IInv'
  BY <1>1, BeginFunctionInv
<1>2. CASE EndFunction
  BY <1>2, EndFunctionInv
<1>3. CASE \/ \E x \in Vars, t \in Literals \cup {Unranked, NoType} : BeginVarDecl(x, t)
           \/ BeginReturn
  BY <1>3, BeginStmtInv
<1>4. CASE VarDeclWithoutInit \/ PureExprStmt \/ FinishNull
  BY <1>4, FailedStmtInv
<1>5. CASE ReturnVoid
  BY <1>5, ReturnVoidInv
<1>6. CASE ReturnNullExpr
  BY <1>6, ReturnNullInv
<1>7. ASSUME NEW e \in SideEffects, BeginExprStmt(e) PROVE IInv'
  BY <1>7, BeginExprStmtInv
<1>8. ASSUME NEW s \in Literals \cup {<< >>}, GenConstant(s) PROVE IInv'
  BY <1>8, GenConstantInv
<1>9. ASSUME NEW x \in Vars, GenVariable(x) PROVE IInv'
  BY <1>9, GenVariableInv
<1>10. ASSUME NEW e \in SideEffects \cup Pure, EnterExpr(e) PROVE IInv'
  BY <1>10, EnterExprInv
<1>11. CASE GenTranspose
  BY <1>11, GenTransposeInv
<1>12. CASE GenPrint
  BY <1>12, GenPrintInv
<1>13. CASE GenBinary
  BY <1>13, GenBinaryInv
<1>14. CASE GenCall
  BY <1>14, GenCallInv
<1>15. CASE FinishVarDecl
  BY <1>15, FinishVarDeclInv
<1>16. CASE FinishReturn
  BY <1>16, FinishReturnInv
<1>17. CASE FinishExprStmt
  BY <1>17, FinishExprStmtInv
<1>18. CASE EndModule
  BY <1>18, EndModuleInv
<1>19. CASE UNCHANGED vars
  BY <1>19, StutterInv
<1> QED BY <1>1, <1>2, <1>3, <1>4, <1>5, <1>6, <1>7, <1>8, <1>9, <1>10, <1>11, <1>12,
           <1>13, <1>14, <1>15, <1>16, <1>17, <1>18, <1>19 DEF Next

(* The inductive invariant holds, for any AST.                             *)
THEOREM Invariance == Spec => [](IInv /\ VerifiedModule)
<1>1. IInv /\ VerifiedModule /\ [Next]_vars => (IInv /\ VerifiedModule)'
  BY NextInv, VerifiedStays
<1> QED BY <1>1, InitInv, PTL DEF Spec

-----------------------------------------------------------------------------
(* The properties.                                                         *)

(* The state of MLIRGenImpl is what the code declares it to be.            *)
THEOREM TypeCorrect == Spec => []TypeOK
<1>1. IInv => TypeOK
  BY DEF IInv, ModuleInv, FunctionsBuilt, NamesDeclared, ScopeInv, WalkInv, TypeOK
<1> QED BY <1>1, Invariance, PTL

(* m_symbolTable never hands out a value of another function, nor an       *)
(* operation without a result: every declared name denotes a value of the  *)
(* function under construction.                                            *)
THEOREM SymbolsStayInScope == Spec => []SymbolsInScope
<1>1. IInv => SymbolsInScope
  BY DEF IInv, ScopeInv
<1> QED BY <1>1, Invariance, PTL

(* In a module that mlir::verify accepts every call has exactly one        *)
(* callee, it is an earlier function, and the call has its result type: no *)
(* chain of calls is longer than the module.                               *)
THEOREM NoRecursion == Spec => []CallsGoBackwards
<1>1. ASSUME IInv, VerifiedModule PROVE CallsGoBackwards
  <2> SUFFICES ASSUME pc = "accepted", NEW c \in calls
               PROVE  \E k \in 1..(c.caller - 1) :
                         /\ \A l \in DOMAIN module : module[l].name = c.callee <=> l = k
                         /\ module[k].results = << module[c.caller].body[c.at].type >>
    BY DEF CallsGoBackwards
  <2> DEFINE k == declared[c.callee]
  <2>1. CallTyped(c)
    BY <1>1 DEF IInv, ModuleInv, CallsTyped
  <2>2. k \in DOMAIN module /\ module[k].name = c.callee
    BY <1>1, <2>1 DEF IInv, ModuleInv, NamesDeclared, CallTyped
  <2>3. \A l \in DOMAIN module : module[l].name = c.callee => l = k
    BY <1>1, <2>2 DEF VerifiedModule, VerifyModule
  <2>4. /\ k \in 1..(c.caller - 1)
        /\ module[k].results = << module[c.caller].body[c.at].type >>
    BY <2>1 DEF CallTyped
  <2> HIDE DEF k
  <2> QED BY <2>2, <2>3, <2>4
<1> QED BY <1>1, Invariance, PTL

(* An operation that fits and is verified is one the builders make.        *)
LEMMA VerifiedFollows ==
    ASSUME NEW p \in Seq(Operation), NEW o \in DOMAIN p, Fits(p, o, p[o]),
           VerifyOperands(p, o)
    PROVE  MayFollow(SubSeq(p, 1, o - 1), p[o])
<1> DEFINE q == SubSeq(p, 1, o - 1)
           op == p[o]
           in == [k \in DOMAIN op.args |-> q[op.args[k]].type]
<1>1. op \in Operation /\ o \in Nat \ {0} /\ o <= Len(p) /\ Len(p) \in Nat
  OBVIOUS
<1>2. Len(q) = o - 1 /\ DOMAIN q = 1..(o - 1) /\ \A j \in 1..(o - 1) : q[j] = p[j]
  BY <1>1
<1>3. /\ \A k \in DOMAIN op.args : op.args[k] \in 0..(o - 1)
      /\ \A k \in DOMAIN op.args : op.args[k] # 0 => p[op.args[k]].kind \notin Sinks
  BY DEF Fits
<1>4. \A k \in DOMAIN op.args : op.args[k] # 0
  BY DEF VerifyOperands, Range
<1> HIDE DEF op, q
<1>5. \A k \in DOMAIN op.args :
         /\ op.args[k] \in 1..(o - 1) /\ p[op.args[k]].kind \notin Sinks
         /\ q[op.args[k]] = p[op.args[k]]
  BY <1>1, <1>2, <1>3, <1>4
<1>6. \A k \in DOMAIN op.args : op.args[k] \in DOMAIN p
  BY <1>1, <1>5
<1>7. OperandTypes(p, BuiltTypes(p), o) = in
  BY <1>5, <1>6 DEF OperandTypes, BuiltTypes, op
<1>8. Verifies(op.kind, in, op.type)
  BY <1>7 DEF VerifyOperands, op
<1>9. op.kind \in Elementwise => 1 \in DOMAIN op.args
  <2>1. op.args \in Seq(Nat)
    BY <1>1 DEF Operation
  <2> QED BY <2>1 DEF Fits, ArityOK, op
<1>10. op.kind \in Elementwise => op.type = in[1]
  BY <1>5, <1>9 DEF Fits, op
<1>11. BuildType(op.kind, in, op.type)
  <2>1. /\ op.kind # "cast"
        /\ op.kind = "constant" => op.type # Unranked
        /\ op.kind \in Sinks \cup {"arg", "transpose", "matrix_mul"} => op.type = Unranked
    BY DEF Fits, op
  <2> HIDE DEF in
  <2> QED BY <1>10, <2>1 DEF BuildType, IsRanked
<1>12. ArityOK(op.kind, Len(op.args)) /\ (op.kind = "arg" => \A j \in DOMAIN q : q[j].kind = "arg")
  BY <1>2 DEF Fits, op
<1> QED BY <1>1, <1>2, <1>5, <1>8, <1>11, <1>12 DEF MayFollow, op, q

(* What mlir::verify accepts is a well formed body: its only return is its *)
(* last operation and the result of the function has the returned type.    *)
(* This is what the passes start from.                                     *)
THEOREM OutputIsWellFormed == Spec => []AcceptedIsWellFormed
<1>1. ASSUME IInv, VerifiedModule PROVE AcceptedIsWellFormed
  <2> SUFFICES ASSUME pc = "accepted", NEW k \in DOMAIN module
               PROVE  LET p == module[k].body IN
                      /\ WellFormed(p)
                      /\ \A o \in DOMAIN p : p[o].kind = "return" <=> o = Len(p)
                      /\ module[k].results = Returned(p)
    BY DEF AcceptedIsWellFormed, Returned
  <2> DEFINE p == module[k].body
  <2>1. /\ p # << >>
        /\ \A o \in DOMAIN p : p[o].kind = "return" <=> o = Len(p)
        /\ \A o \in DOMAIN p : VerifyOperands(p, o)
        /\ Len(Last(p).args) = Len(module[k].results)
    BY <1>1 DEF VerifiedModule, VerifyModule, VerifyFunction
  <2>2. /\ module[k] \in Function /\ p \in Seq(Operation) /\ Built(p)
        /\ ResultsOf(module[k])
    BY <1>1, InFunction DEF IInv, ModuleInv, FunctionsBuilt
  <2>3. WellFormed(p)
    BY <2>1, <2>2, VerifiedFollows DEF WellFormed, Built
  <2>4. module[k].results = Returned(p)
    <3>1. CASE module[k].results # << >>
      BY <2>2, <3>1 DEF ResultsOf
    <3>2. CASE module[k].results = << >>
      <4>1. Last(p) \in Operation
        BY <2>1, <2>2 DEF Last
      <4>2. Last(p).args \in Seq(Nat) /\ Len(Last(p).args) = 0
        BY <2>1, <3>2, <4>1 DEF Operation
      <4>3. Last(p).args = << >>
        BY <4>2
      <4> QED BY <3>2, <4>3 DEF Returned
    <3> QED BY <3>1, <3>2
  <2> QED BY <2>1, <2>3, <2>4
<1> QED BY <1>1, Invariance, PTL
=============================================================================
