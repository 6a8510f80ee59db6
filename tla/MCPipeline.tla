------------------------------- MODULE MCPipeline -------------------------------
(***************************************************************************)
(* Pipeline on programs of up to two literals and two more operations, as  *)
(* the builders type them, with and without a called function; under the   *)
(* options that take them to LLVM and to linalg, and some under all.       *)
(***************************************************************************)
EXTENDS Pipeline

Literal(name, s) == [kind |-> "constant", args |-> << >>, type |-> s, data |-> name]
Arg == Op("arg", << >>, Unranked)
Return(v) == Op("return", << v >>, Unranked)

LiteralShapes == {<< << 2 >>, << 2, 3 >> >>, << << 2, 2 >>, << 2 >> >>,
                  << << 1, 2 >>, << 2, 1 >> >>}
Literals == {<< Literal("a", s[1]), Literal("b", s[2]) >> : s \in LiteralShapes}

(* The operations the builders may append, not counting symmetric ones.    *)
OpsAfter(p) ==
    LET vals == {v \in DOMAIN p : p[v].kind \notin Sinks}
    IN  {Op("sub", << v, w >>, p[v].type) : v, w \in vals}
        \cup {Op("matrix_mul", << v, w >>, Unranked) : v, w \in vals}
        \cup {Op("transpose", << v >>, Unranked) : v \in vals}
        \cup {Op("reshape", << v >>, s) : v \in vals, s \in {<< 2, 1 >>, << 2 >>, Unranked}}

(* One more operation that the verifier accepts, on the last value if that *)
(* is not a literal.                                                       *)
Grows(p, x) ==
    /\ Len(p) = 2 \/ Len(p) \in Range(x.args)
    /\ Verifies(x.kind, [k \in DOMAIN x.args |-> p[x.args[k]].type], x.type)

Grow(ps) == UNION {{Append(p, x) : x \in {y \in OpsAfter(p) : Grows(p, y)}} : p \in ps}

(* Prints the last value, and returns.                                     *)
Complete(p) == p \o << Op("print", << Len(p) >>, Unranked), Op("return", << >>, Unranked) >>

Alone == {[main |-> Complete(p)] : p \in Grow(Grow(Literals))}

(* Functions of one and of two arguments.                                  *)
Callees ==
    {<< Arg, Op(k, << 1 >>, Unranked), Return(2) >> : k \in {"transpose"}}
    \cup {<< Arg, Return(1) >>,
          << Arg, Op("reshape", << 1 >>, << 2 >>), Op("sub", << 2, 2 >>, << 2 >>), Return(3) >>,
          << Arg, Op("print", << 1 >>, Unranked), Op("sub", << 1, 1 >>, Unranked), Return(3) >>,
          << Arg, Literal("c", << 2 >>), Return(2) >>}
    \cup {<< Arg, Arg, Op("matrix_mul", << v, 3 - v >>, Unranked), Return(3) >> : v \in {1, 2}}

Call(f, args) == Op("generic_call", args, f[Last(f).args[1]].type)

Calling ==
    UNION {{[callee |-> f, main |-> Complete(q)] :
        q \in UNION {LET called == {Append(p, Call(f, args)) : args \in {<< 1 >>, << 1, 2 >>}}
                     IN  called \cup Grow(called)
                     : p \in Literals}}
        : f \in Callees}

Full == {o \in Options : o.emit \in {"linalg", "affine"} /\ o.run = "native" /\ (o.emit = "affine" => ~ o.opt)}
MCInputs == (Full \X (Alone \cup Calling)) \cup (Options \X {[main |-> Complete(p)] : p \in Literals})
=============================================================================
