------------------------------ MODULE ToyGrammar ------------------------------
(***************************************************************************)
(* The language the parser is meant to accept, declaratively: the grammar  *)
(* of the comments of Parser.h, over the tokens of module Parser, with the *)
(* two things the comments leave open as the code has them (commas in a    *)
(* type are optional; statements may be empty).                            *)
(***************************************************************************)
EXTENDS Integers, Sequences

(* Der[<< nt, i, j >>]: the tokens w[i], ..., w[j] are an nt.              *)
IsModule(w) ==
    LET name(i) == w[i] \in {"id", "builtin"}
        first(t, i, k) == w[k] = t /\ \A l \in i..(k - 1) : w[l] # t
        bracketed(l, i, j, r) == i < j /\ w[i] = l /\ w[j] = r
        nonterminal == {"module", "def", "params", "stmts", "stmt", "type", "dims",
                        "expr", "primary", "args", "literal", "elems"}
        Der[x \in nonterminal \X (1..(Len(w) + 1)) \X (0..Len(w))] ==
          LET i == x[2]
              j == x[3]
          IN
          CASE x[1] = "module" ->
                 \E k \in i..j : /\ first("}", i, k) /\ Der[<< "def", i, k >>]
                                 /\ k = j \/ Der[<< "module", k + 1, j >>]
            [] x[1] = "def" ->
                 /\ i + 5 <= j /\ w[i] = "def" /\ name(i + 1) /\ w[i + 2] = "(" /\ w[j] = "}"
                 /\ \E k \in (i + 3)..(j - 2) :
                       /\ w[k] = ")" /\ w[k + 1] = "{"
                       /\ i + 3 = k \/ Der[<< "params", i + 3, k - 1 >>]
                       /\ Der[<< "stmts", k + 2, j - 1 >>]
            [] x[1] = "params" ->
                 /\ i <= j /\ name(i)
                 /\ i < j => w[i + 1] = "," /\ Der[<< "params", i + 2, j >>]
            [] x[1] = "stmts" ->
                 \/ i > j
                 \/ \E k \in i..j : /\ first(";", i, k)
                                    /\ k = i \/ Der[<< "stmt", i, k - 1 >>]
                                    /\ Der[<< "stmts", k + 1, j >>]
            [] x[1] = "stmt" ->
                 \/ w[i] = "var" /\ i + 3 <= j /\ name(i + 1)
                    /\ \E k \in (i + 2)..(j - 1) :
                          /\ w[k] = "=" /\ Der[<< "expr", k + 1, j >>]
                          /\ k = i + 2 \/ Der[<< "type", i + 2, k - 1 >>]
                 \/ w[i] = "return" /\ (i = j \/ Der[<< "expr", i + 1, j >>])
                 \/ w[i] \notin {"var", "return"} /\ Der[<< "expr", i, j >>]
            [] x[1] = "type" -> bracketed("<", i, j, ">") /\ Der[<< "dims", i + 1, j - 1 >>]
            [] x[1] = "dims" ->
                 \/ i > j
                 \/ i <= j /\ w[i] = "num"
                    /\ Der[<< "dims", IF i < j /\ w[i + 1] = "," THEN i + 2 ELSE i + 1, j >>]
            [] x[1] = "expr" ->
                 \/ Der[<< "primary", i, j >>]
                 \/ \E k \in (i + 1)..(j - 1) :
                       w[k] = "op" /\ Der[<< "primary", k + 1, j >>] /\ Der[<< "expr", i, k - 1 >>]
            [] x[1] = "primary" ->
                 \/ i = j /\ (name(i) \/ w[i] = "num")
                 \/ bracketed("(", i, j, ")") /\ Der[<< "expr", i + 1, j - 1 >>]
                 \/ i + 2 <= j /\ name(i) /\ bracketed("(", i + 1, j, ")")
                    /\ IF w[i] = "builtin" THEN Der[<< "expr", i + 2, j - 1 >>]
                       ELSE i + 2 = j \/ Der[<< "args", i + 2, j - 1 >>]
                 \/ Der[<< "literal", i, j >>]
            [] x[1] = "args" ->
                 \/ Der[<< "expr", i, j >>]
                 \/ \E k \in (i + 1)..(j - 1) :
                       w[k] = "," /\ Der[<< "expr", i, k - 1 >>] /\ Der[<< "args", k + 1, j >>]
            [] x[1] = "literal" -> bracketed("[", i, j, "]") /\ Der[<< "elems", i + 1, j - 1 >>]
            (* Elements have equal dims if and only if their tokens agree. *)
            [] x[1] = "elems" ->
                 \E n \in {m \in 1..(j - i + 1) : (j - i + 2) % (m + 1) = 0} :
                    /\ (n = 1 /\ w[i] = "num") \/ Der[<< "literal", i, i + n - 1 >>]
                    /\ \A k \in i..j :
                          w[k] = IF (k - i + 1) % (n + 1) = 0 THEN "," ELSE w[i + ((k - i) % (n + 1))]
    IN  Der[<< "module", 1, Len(w) >>]
=============================================================================
