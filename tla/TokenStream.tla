------------------------------ MODULE TokenStream ------------------------------
(***************************************************************************)
(* The tokens of a Toy source, told from the text as a whole, and their    *)
(* delivery one after the other.                                           *)
(***************************************************************************)
EXTENDS Integers, Sequences, SequencesExt, SourceText

(* What the lexer can get at: everything before the first NUL or FF.       *)
Readable(t) == {i \in DOMAIN t : \A k \in 1..i : t[k] \notin {"NUL", "FF"}}

(* A # comments out the rest of the line.                                  *)
InComment(t, i) ==
    \E c \in 1..i : t[c] = "#" /\ \A k \in c..i : t[k] \notin EndOfLine

(* [a-zA-Z][a-zA-Z0-9_]* and, where no word has claimed it, [0-9.]+.       *)
InWord(t, i)   == \E c \in 1..i : t[c] \in Letter /\ \A k \in c..i : t[k] \in WordChar
InNumber(t, i) == ~ InWord(t, i) /\ t[i] \in NumberChar

(* Positions i and i + 1 are parts of one token.                           *)
Joined(t, i) == \/ InWord(t, i) /\ InWord(t, i + 1)
                \/ InNumber(t, i) /\ InNumber(t, i + 1)

(* A token starts wherever there is one and it is not one with the         *)
(* character before; it goes on as far as it can.                          *)
Starts(t) ==
    {i \in Readable(t) : /\ ~ InComment(t, i) /\ t[i] \notin Space
                         /\ i > 1 => ~ Joined(t, i - 1)}
EndFrom(t, i) == CHOOSE e \in Readable(t) : /\ e >= i /\ \A k \in i..(e - 1) : Joined(t, k)
                                            /\ e + 1 \in Readable(t) => ~ Joined(t, e)

KindOf(word) == IF word = << "v" >> THEN "keyword" ELSE "identifier"

(* Lines and columns count from 1.                                         *)
LineOf(t, i) == 1 + Len(SelectSeq(SubSeq(t, 1, i - 1), LAMBDA c : c = "\n"))
ColumnOf(t, i) ==
    i - CHOOSE n \in 0..(i - 1) : (n > 0 => t[n] = "\n") /\ \A k \in (n + 1)..(i - 1) : t[k] # "\n"

TokenAt(t, i) ==
    LET lexeme == SubSeq(t, i, EndFrom(t, i))
    IN  [kind |-> IF InWord(t, i) THEN KindOf(lexeme) ELSE IF InNumber(t, i) THEN "number" ELSE "character",
         lexeme |-> lexeme, at |-> << LineOf(t, i), ColumnOf(t, i) >>]
EndOfFile == [kind |-> "eof"]

Tokens(t) ==
    LET starts == SetToSortSeq(Starts(t), <)
    IN  [k \in DOMAIN starts |-> TokenAt(t, starts[k])]

-----------------------------------------------------------------------------
(* One token after the other, and the end of the file ever after.          *)
VARIABLES text, tokens
tvars == << text, tokens >>

Init == tokens = << >>

Deliver ==
    LET n == Len(tokens) + 1
    IN  /\ tokens' = Append(tokens, IF n \in DOMAIN Tokens(text) THEN Tokens(text)[n] ELSE EndOfFile)
        /\ UNCHANGED text

Spec == Init /\ [][Deliver]_tvars
=============================================================================
