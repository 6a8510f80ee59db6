-------------------------------- MODULE Parser --------------------------------
(***************************************************************************)
(* The recursive descent of Parser.  The token stream is the input: each   *)
(* token is chosen when the lexer is asked for it.  pc is the point that   *)
(* runs next, stack the frames of the calls around it, each with the point *)
(* it goes on at, and val what the last call returned.  Nodes are reduced  *)
(* to whether they are null; a tensor literal keeps its dims.  The         *)
(* recursion of parseBinOpRHS, which only shapes the tree, is the subject  *)
(* of OperatorPrecedence.                                                  *)
(***************************************************************************)
EXTENDS ToyGrammar, SequencesExt

CONSTANT Inputs    \* families of inputs that are explored: a family starts with
                   \* its header, goes on with its tokens, and ends within bound

ASSUME InputsAssumption ==
    \A f \in Inputs : f.header \in Seq(STRING) /\ f.tokens \subseteq STRING /\ f.bound \in Nat

VARIABLES
    read,        \* the tokens read so far; the last one is curTok
    pc, stack, val,
    reported,    \* an error message has been written
    holes        \* a null expression was put into a statement

vars == << read, pc, stack, val, reported, holes >>

tok == Last(read)
Names == {"id", "builtin"}

(* What the lexer may return as token number k.  "op" is any binary        *)
(* operator, "builtin" an identifier that is print or transpose.           *)
Allowed(f, k) ==
    IF k <= Len(f.header) THEN {f.header[k]}
    ELSE IF k < f.bound THEN f.tokens ELSE {"eof"}

Readable(before) ==
    UNION {Allowed(f, Len(before) + 1) :
              f \in {g \in Inputs : \A k \in DOMAIN before : before[k] \in Allowed(g, k)}}

Null == [ok |-> FALSE, dims |-> << >>]
Node(dims) == [ok |-> TRUE, dims |-> dims]
Frame(at) == [at |-> at]

(* parseModule primes the lexer and asks for a definition.                 *)
Init ==
    /\ \E t \in Readable(<< >>) : read = << t >>
    /\ pc = "def" /\ stack = << >> /\ val = Null
    /\ reported = FALSE /\ holes = FALSE

Advance == \E t \in Readable(read) : read' = Append(read, t)
Stay    == read' = read

(* Every point but "primary" works on the frame on top of the stack; at    *)
(* the level of statements there is none.                                  *)
Outer == IF pc = "primary" \/ stack = << >> THEN stack ELSE Front(stack)

(* Faulty: the frame of the call that returns is left on the stack.        *)
FaultyReturn(v) ==
    /\ stack' = stack
    /\ val' = v
    /\ pc' = IF Outer = << >> THEN "defined" ELSE Last(Outer).at
    /\ UNCHANGED holes

(* The call returns v: the frame around it goes on.                        *)
Return(v) ==
    /\ stack' = Outer
    /\ val' = v
    /\ pc' = IF Outer = << >> THEN "defined" ELSE Last(Outer).at
    /\ UNCHANGED holes

(* parseError, and null to the caller.                                     *)
Fail == Stay /\ Return(Null) /\ reported' = TRUE

Goto(next) == pc' = next /\ UNCHANGED << stack, val, reported, holes >>

(* An assertion of the lexer, or a cast, fails.                            *)
Abort == Stay /\ Goto("abort")
BadCast == Stay /\ Goto("bad_cast")

(* parseExpression is called, on behalf of the frames fs.                  *)
CallExpr(fs) ==
    /\ stack' = Append(fs, Frame("lhs")) /\ pc' = "primary"
    /\ UNCHANGED << val, reported, holes >>

-----------------------------------------------------------------------------
(* Points that demand one token, report an error when there is another,    *)
(* and go on at the next point.                                            *)
Demand(tokens, next) == [tokens |-> tokens, next |-> next]
Demands ==
    [def        |-> Demand({"def"}, "name"),         \* parsePrototype
     name       |-> Demand(Names, "open"),
     open       |-> Demand({"("}, "params"),
     param_next |-> Demand(Names, "param_sep"),
     close      |-> Demand({")"}, "body"),
     body       |-> Demand({"{"}, "stmts"),          \* parseBlock
     end_stmt   |-> Demand({";"}, "stmts"),
     var_name   |-> Demand(Names, "var_type")]       \* parseDeclaration

Demanded ==
    /\ pc \in DOMAIN Demands
    /\ IF tok \in Demands[pc].tokens
       THEN Advance /\ Goto(Demands[pc].next)
       ELSE Fail

(* Faulty: a definition that failed is not told from one that was parsed.  *)
FaultyDefined == pc = "defined" /\ Stay /\ Goto(IF tok # "eof" THEN "def" ELSE "end_module")

(* parseModule, after a definition.                                        *)
Defined ==
    /\ pc = "defined"
    /\ Stay
    /\ Goto(IF val.ok /\ tok # "eof" THEN "def" ELSE "end_module")

EndModule ==
    /\ pc = "end_module"
    /\ pc' = IF tok = "eof" THEN "module" ELSE "null"
    /\ reported' = (reported \/ tok # "eof")
    /\ UNCHANGED << read, stack, val, holes >>

(* The parameter list: getId() asserts that the token is an identifier.    *)
Params ==
    /\ pc = "params"
    /\ IF tok = ")" THEN Stay /\ Goto("close")
       ELSE IF tok \in Names THEN Advance /\ Goto("param_sep") ELSE Abort

ParamSep ==
    /\ pc = "param_sep"
    /\ IF tok = "," THEN Advance /\ Goto("param_next") ELSE Stay /\ Goto("close")

-----------------------------------------------------------------------------
(* Statements.                                                             *)
Stmt ==
    /\ pc = "stmts"
    /\ CASE tok = ";"             -> Advance /\ Goto("stmts")
         [] tok \in {"}", "eof"}  -> Stay /\ Goto("end_block")
         [] tok = "var"           -> Advance /\ Goto("var_name")
         [] tok = "return"        -> Advance /\ Goto("return_value")
         [] OTHER                 -> Stay /\ CallExpr(<< Frame("expr_stmt") >>)

(* Faulty: the end of the file closes a block.                             *)
FaultyEndBlock ==
    /\ pc = "end_block"
    /\ IF tok = "}" THEN Advance ELSE Stay
    /\ Return(Node(<< >>)) /\ UNCHANGED reported

(* "}" closes the block.                                                   *)
EndBlock ==
    /\ pc = "end_block"
    /\ IF tok = "}" THEN Advance /\ Return(Node(<< >>)) /\ UNCHANGED reported ELSE Fail

ExprStmt ==
    /\ pc = "expr_stmt"
    /\ Stay
    /\ IF val.ok
       THEN pc' = "end_stmt" /\ stack' = Outer /\ UNCHANGED << val, reported, holes >>
       ELSE Return(Null) /\ UNCHANGED reported

ReturnValue ==
    /\ pc = "return_value"
    /\ Stay
    /\ IF tok = ";" THEN Goto("end_stmt") ELSE CallExpr(<< Frame("filled") >>)

(* The type of a declaration.  A type that fails to parse leaves an        *)
(* engaged optional behind, and the declaration goes on.                   *)
VarType ==
    /\ pc = "var_type"
    /\ IF tok = "<" THEN Advance /\ Goto("shape") ELSE Stay /\ Goto("var_init")

Shape ==
    /\ pc = "shape"
    /\ CASE tok = "num" -> Advance /\ Goto("shape_sep")
         [] tok = ">"   -> Advance /\ Goto("var_init")
         [] OTHER       -> /\ pc' = "var_init" /\ reported' = TRUE
                           /\ UNCHANGED << read, stack, val, holes >>

ShapeSep ==
    /\ pc = "shape_sep"
    /\ IF tok = "," THEN Advance ELSE Stay
    /\ Goto("shape")

(* consume('=') asserts.                                                   *)
VarInit ==
    /\ pc = "var_init"
    /\ IF tok = "=" THEN Advance /\ CallExpr(<< Frame("filled") >>) ELSE Abort

(* Neither a declaration nor a return looks at the expression it is given. *)
Filled ==
    /\ pc = "filled"
    /\ Stay
    /\ pc' = "end_stmt" /\ stack' = Outer
    /\ holes' = (holes \/ ~ val.ok)
    /\ UNCHANGED << val, reported >>

-----------------------------------------------------------------------------
(* Expressions.                                                            *)
Primary ==
    /\ pc = "primary"
    /\ CASE tok \in Names -> /\ Advance /\ pc' = "ident"
                             /\ stack' = Append(stack, [at |-> "arg", args |-> 0,
                                                        builtin |-> tok = "builtin"])
                             /\ UNCHANGED << val, reported, holes >>
         [] tok = "num"   -> Advance /\ Return(Node(<< >>)) /\ UNCHANGED reported
         [] tok = "("     -> Advance /\ CallExpr(Append(stack, Frame("paren")))
         [] tok = "["     -> /\ Advance /\ pc' = "element"
                             /\ stack' = Append(stack, [at |-> "nested", elems |-> << >>])
                             /\ UNCHANGED << val, reported, holes >>
         [] tok \in {";", "}"} -> Stay /\ Return(Null) /\ UNCHANGED reported
         [] OTHER         -> Fail

(* parseExpression: nothing is reported for a null primary, but a binary   *)
(* operator needs its right operand.                                       *)
Lhs ==
    /\ pc = "lhs"
    /\ Stay
    /\ IF val.ok THEN Goto("rhs") ELSE Return(Null) /\ UNCHANGED reported

Rhs ==
    /\ pc = "rhs"
    /\ IF tok = "op"
       THEN /\ Advance /\ pc' = "primary"
            /\ stack' = [stack EXCEPT ![Len(stack)] = Frame("operand")]
            /\ UNCHANGED << val, reported, holes >>
       ELSE Stay /\ Return(val) /\ UNCHANGED reported

Operand ==
    /\ pc = "operand"
    /\ IF val.ok THEN Stay /\ Goto("rhs") ELSE Fail

Paren ==
    /\ pc = "paren"
    /\ IF ~ val.ok THEN Stay /\ Return(Null) /\ UNCHANGED reported
       ELSE IF tok = ")" THEN Advance /\ Return(Node(<< >>)) /\ UNCHANGED reported
       ELSE Fail

(* A variable, or a call.                                                  *)
Ident ==
    /\ pc = "ident"
    /\ IF tok = "(" THEN Advance /\ Goto("args")
       ELSE Stay /\ Return(Node(<< >>)) /\ UNCHANGED reported

(* Faulty: an empty list of arguments is not provided for.                 *)
FaultyArgs == pc = "args" /\ Stay /\ CallExpr(stack)

(* The arguments of a call, if any.                                        *)
Args ==
    /\ pc = "args"
    /\ Stay
    /\ IF tok = ")" THEN Goto("end_args") ELSE CallExpr(stack)

Arg ==
    /\ pc = "arg"
    /\ IF ~ val.ok THEN Stay /\ Return(Null) /\ UNCHANGED reported
       ELSE IF tok \notin {")", ","} THEN Fail
       ELSE LET s == [stack EXCEPT ![Len(stack)].args = @ + 1] IN
            IF tok = ","
            THEN Advance /\ CallExpr(s)
            ELSE /\ Stay /\ pc' = "end_args" /\ stack' = s
                 /\ UNCHANGED << val, reported, holes >>

(* print and transpose take one argument.                                  *)
EndArgs ==
    /\ pc = "end_args"
    /\ Advance
    /\ LET wrong == Last(stack).builtin /\ Last(stack).args # 1 IN
       /\ Return(IF wrong THEN Null ELSE Node(<< >>))
       /\ reported' = (reported \/ wrong)

-----------------------------------------------------------------------------
(* Tensor literals.  A frame collects the dims of the elements, << >> for  *)
(* a number.                                                               *)
AddElement(dims) ==
    /\ stack' = [stack EXCEPT ![Len(stack)].elems = Append(@, dims)]
    /\ pc' = "element_sep"
    /\ UNCHANGED << val, reported, holes >>

Element ==
    /\ pc = "element"
    /\ CASE tok = "num" -> Advance /\ AddElement(<< >>)
         [] tok = "["   -> /\ Advance
                           /\ stack' = Append(stack, [at |-> "nested", elems |-> << >>])
                           /\ UNCHANGED << pc, val, reported, holes >>
         [] OTHER       -> Fail

Nested ==
    /\ pc = "nested"
    /\ Stay
    /\ IF val.ok THEN AddElement(val.dims) ELSE Return(Null) /\ UNCHANGED reported

(* At the end the dims must be uniform.  The elements are cast to literals *)
(* before they are compared with the first one: a number among literals    *)
(* fails the cast, literals after a number or of other dims are reported.  *)
Uniform(elems) == \A k \in DOMAIN elems : elems[k] = elems[1]

FailsCast(elems) ==
    /\ elems[1] # << >>
    /\ \E k \in DOMAIN elems : elems[k] = << >> /\ \A l \in 1..(k - 1) : elems[l] = elems[1]

ElementSep ==
    /\ pc = "element_sep"
    /\ LET elems == Last(stack).elems IN
       CASE tok = "," -> Advance /\ Goto("element")
         [] tok = "]" /\ FailsCast(elems) -> BadCast
         [] tok = "]" /\ ~ FailsCast(elems) ->
               /\ Advance
               /\ Return(IF Uniform(elems) THEN Node(<< Len(elems) >> \o elems[1]) ELSE Null)
               /\ reported' = (reported \/ ~ Uniform(elems))
         [] OTHER -> Fail

Next ==
    \/ Demanded \/ Defined \/ EndModule \/ Params \/ ParamSep
    \/ Stmt \/ EndBlock \/ ExprStmt \/ ReturnValue
    \/ VarType \/ Shape \/ ShapeSep \/ VarInit \/ Filled
    \/ Primary \/ Lhs \/ Rhs \/ Operand \/ Paren \/ Ident \/ Args \/ Arg \/ EndArgs
    \/ Element \/ Nested \/ ElementSep

Spec == Init /\ [][Next]_vars /\ WF_vars(Next)

-----------------------------------------------------------------------------
Ends == {"module", "null", "abort", "bad_cast"}
Points == Ends \cup DOMAIN Demands \cup
    {"defined", "end_module", "params", "param_sep", "stmts", "end_block", "expr_stmt",
     "return_value", "var_type", "shape", "shape_sep", "var_init", "filled", "primary",
     "lhs", "rhs", "operand", "paren", "ident", "args", "arg", "end_args", "element",
     "nested", "element_sep"}

(* Tokens, frames and values are well typed, and at a point that works on  *)
(* the frame of its own call that frame is on top.                         *)
TypeOK ==
    /\ read \in Seq(STRING) /\ read # << >>
    /\ pc \in Points
    /\ stack \in Seq([at : Points] \cup [at : {"arg"}, args : Nat, builtin : BOOLEAN]
                      \cup [at : {"nested"}, elems : Seq(Seq(Nat))])
    /\ val \in [ok : BOOLEAN, dims : Seq(Nat)]
    /\ reported \in BOOLEAN /\ holes \in BOOLEAN
    /\ pc \in {"ident", "args", "arg", "end_args"} => Last(stack).at = "arg"
    /\ pc \in {"element", "nested", "element_sep"} => Last(stack).at = "nested"

(* What is accepted without a message, and without a hole in the AST, is a *)
(* sentence of the language.                                               *)
AcceptedIsGrammatical ==
    pc = "module" /\ ~ reported /\ ~ holes => IsModule(Front(read))

(* How a sentence that was read up to the token t may go on.               *)
Continuations(t) ==
    CASE t = "def"                -> {<< "id", "(" >>}
      [] t = "var"                -> {<< "id", "=", "num" >>}
      [] t \in {"=", "op", "["}   -> {<< "num" >>}
      [] t = "("                  -> {<< >>, << "num" >>}
      [] t = "<"                  -> {<< ">", "=", "num" >>}
      [] t = ">"                  -> {<< "=", "num" >>}
      [] t = ","                  -> {<< "num" >>, << "id" >>, << ">", "=", "num" >>}
      [] t = "num"                -> {<< >>, << ">", "=", "num" >>}
      [] t \in Names              -> {<< >>, << "(" >>, << "=", "num" >>}
      [] OTHER                    -> {<< >>}

(* What closes the brackets that w leaves open, innermost first, and gives *)
(* its last function a body.                                               *)
Closing(w) ==
    LET closer == ("(" :> << ")" >>) @@ ("[" :> << "]" >>) @@ ("{" :> << ";", "}" >>)
        step(open, t) == IF t \in DOMAIN closer THEN << t >> \o open
                         ELSE IF open # << >> /\ t = Last(closer[Head(open)]) THEN Tail(open)
                         ELSE open
        open == FoldLeft(step, << >>, w)
        count(t) == Cardinality({k \in DOMAIN w : w[k] = t})
    IN  FlattenSeq([k \in DOMAIN open |-> closer[open[k]]])
          \o (IF count("def") > count("{") THEN << "{", "}" >> ELSE << >>)

(* No sentence of the language, nor the beginning of one, makes the parser *)
(* write a message, fail an assertion or a cast, or leave a hole: where it *)
(* stops early, no ending would have made the tokens read right.           *)
Trouble == reported \/ holes \/ pc \in {"abort", "bad_cast"}
SentencesAreAccepted ==
    pc \in Ends /\ Trouble =>
        IF tok = "eof" THEN ~ IsModule(Front(read))
        ELSE \A c \in Continuations(tok) : ~ IsModule(read \o c \o Closing(read \o c))

(* Parsing comes to an end.                                                *)
Terminates == <>(pc \in Ends)

(* "Returns a lucid_frontend AST resulting from parsing the file or a      *)
(* nullptr on error."                                                      *)
ErrorMeansNull == pc = "module" => ~ reported
=============================================================================
