--------------------------------- MODULE Lexer ---------------------------------
(***************************************************************************)
(* Lexer and LexerBuffer: a cursor over one line at a time, one character  *)
(* of look-ahead, and getTok().  Every call of getNextChar() is a step,    *)
(* and every turn of the loop in readNextLine().                           *)
(*                                                                         *)
(* The line buffer is a pair of positions, first to last - 1.  It starts   *)
(* as the literal "\n", position 0 here; the file follows from position 1. *)
(***************************************************************************)
EXTENDS Integers, Sequences, SourceText

CONSTANTS Texts,      \* contents of the file
          EOF         \* the value of that name

ASSUME TextsAssumption == Texts \subseteq Seq(Chars)
ASSUME EOFAssumption == EOF \notin Chars

VARIABLES
    text,          \* the file
    first, last,   \* curLineBuffer
    current,       \* where readNextLine() goes on
    scanning,      \* readNextLine() is running
    lastChar,      \* the character read ahead
    line, col,     \* curLineNum, curCol
    pc,            \* where getTok() is
    lexeme,        \* identifierStr or numStr
    lastLocation,
    tokens         \* what getTok() has returned
cursor == << first, last, current, scanning, lastChar, line, col >>
vars == << text, cursor, pc, lexeme, lastLocation, tokens >>

End == Len(text) + 1      \* the pointer end, at the NUL behind the file

CharAt(i) == IF i = 0 THEN "\n" ELSE IF i \in DOMAIN text THEN text[i] ELSE "NUL"

Init ==
    /\ text \in Texts
    /\ first = 0 /\ last = 1 /\ current = 1 /\ scanning = FALSE
    /\ lastChar = " " /\ line = 0 /\ col = 0
    /\ pc = "getTok" /\ lexeme = << >> /\ lastLocation = << 0, 0 >> /\ tokens = << >>

-----------------------------------------------------------------------------
(* A char is signed: the byte FF has the value of EOF.                     *)
Signed(c) == IF c = "FF" THEN EOF ELSE c

(* Faulty: the newline counts as a column of the next line.                *)
FaultyAdvance(c) ==
    /\ line' = IF c = "\n" THEN line + 1 ELSE line
    /\ col'  = IF c = "\n" THEN 1 ELSE col + 1

(* The position after character c.                                         *)
Advance(c) ==
    /\ line' = IF c = "\n" THEN line + 1 ELSE line
    /\ col'  = IF c = "\n" THEN 0 ELSE col + 1

(* getNextChar(): the next character of the buffer, which is refilled when *)
(* that was its last one, or EOF when there is none.                       *)
GetNextChar ==
    \/ /\ first = last
       /\ lastChar' = EOF
       /\ UNCHANGED << first, last, current, scanning, line, col >>
    \/ /\ first # last
       /\ lastChar' = Signed(CharAt(first))
       /\ Advance(CharAt(first))
       /\ scanning' = (first + 1 = last)
       /\ first' = IF first + 1 = last THEN current ELSE first + 1
       /\ last'  = IF first + 1 = last THEN current ELSE last
       /\ UNCHANGED current

(* Faulty: runs into the NUL.                                              *)
FaultyInLine == current <= End /\ CharAt(current) # "\n"

(* The loop of readNextLine(): a NUL ends the line, and the file with it.  *)
InLine == current <= End /\ CharAt(current) \notin {"NUL", "\n"}

ScanLine ==
    /\ scanning /\ InLine
    /\ current' = current + 1
    /\ UNCHANGED << text, first, last, scanning, lastChar, line, col, pc, lexeme, lastLocation, tokens >>

(* Faulty: the newline is skipped, not part of the line.                   *)
FaultyEndLine ==
    /\ scanning /\ ~ InLine
    /\ current' = IF CharAt(current) # "NUL" THEN current + 1 ELSE current
    /\ last' = current /\ scanning' = FALSE
    /\ UNCHANGED << text, first, lastChar, line, col, pc, lexeme, lastLocation, tokens >>

(* The newline belongs to the line.                                        *)
EndLine ==
    /\ scanning /\ ~ InLine
    /\ current' = IF current <= End /\ CharAt(current) # "NUL" THEN current + 1 ELSE current
    /\ last' = current' /\ scanning' = FALSE
    /\ UNCHANGED << text, first, lastChar, line, col, pc, lexeme, lastLocation, tokens >>

-----------------------------------------------------------------------------
At(point) == ~ scanning /\ pc = point

(* getTok() is called until it has told the end of the file twice.         *)
Goto(point) == pc' = point /\ UNCHANGED << text, tokens >>
Give(token) ==
    /\ tokens' = Append(tokens, token)
    /\ pc' = IF token.kind = "eof" /\ tokens # << >> /\ tokens[Len(tokens)].kind = "eof"
             THEN "done" ELSE "getTok"
    /\ UNCHANGED text

KindOf(word) == IF word = << "v" >> THEN "keyword" ELSE "identifier"
Token(kind, word, location) == [kind |-> kind, lexeme |-> word, at |-> location]
EndOfFile == [kind |-> "eof"]

SkipSpace ==
    /\ At("getTok") /\ lastChar \in Space
    /\ GetNextChar /\ Goto("getTok")
    /\ UNCHANGED << lexeme, lastLocation >>

(* The first character decides what the token is.                          *)
StartsToken == At("getTok") /\ lastChar \notin Space /\ lastLocation' = << line, col >>

StartLexeme ==
    /\ StartsToken
    /\ \/ lastChar \in Letter /\ Goto("identifier")
       \/ lastChar \in NumberChar /\ Goto("number")
    /\ lexeme' = << lastChar >>
    /\ GetNextChar

StartComment ==
    /\ StartsToken /\ lastChar = "#"
    /\ GetNextChar /\ Goto("comment")
    /\ UNCHANGED lexeme

SingleCharacter ==
    /\ StartsToken /\ lastChar \notin Letter \cup NumberChar \cup {"#", EOF}
    /\ Give(Token("character", << lastChar >>, lastLocation'))
    /\ GetNextChar
    /\ UNCHANGED lexeme

AtEOF ==
    /\ StartsToken /\ lastChar = EOF
    /\ Give(EndOfFile)
    /\ UNCHANGED << cursor, lexeme >>

LexemeGoesOn ==
    \/ At("identifier") /\ lastChar \in WordChar
    \/ At("number") /\ lastChar \in NumberChar

ExtendLexeme ==
    /\ LexemeGoesOn
    /\ lexeme' = Append(lexeme, lastChar)
    /\ GetNextChar /\ Goto(pc)
    /\ UNCHANGED lastLocation

EndLexeme ==
    /\ At("identifier") \/ At("number")
    /\ ~ LexemeGoesOn
    /\ Give(Token(IF pc = "number" THEN "number" ELSE KindOf(lexeme), lexeme, lastLocation))
    /\ UNCHANGED << cursor, lexeme, lastLocation >>

(* Faulty: a comment looks for a newline only.                             *)
FaultyCommentGoesOn == lastChar \notin {"\n", "\r"}

CommentGoesOn == lastChar \notin {EOF, "\n", "\r"}

SkipComment ==
    /\ At("comment") /\ CommentGoesOn
    /\ GetNextChar /\ Goto("comment")
    /\ UNCHANGED << lexeme, lastLocation >>

(* getTok() calls itself, or falls through to the end of the file.         *)
EndComment ==
    /\ At("comment") /\ ~ CommentGoesOn
    /\ IF lastChar = EOF THEN Give(EndOfFile) ELSE Goto("getTok")
    /\ UNCHANGED << cursor, lexeme, lastLocation >>

Next ==
    \/ ScanLine \/ EndLine
    \/ SkipSpace
    \/ StartLexeme \/ StartComment \/ SingleCharacter \/ AtEOF
    \/ ExtendLexeme \/ EndLexeme
    \/ SkipComment \/ EndComment

Spec == Init /\ [][Next]_vars /\ WF_vars(Next)

-----------------------------------------------------------------------------
(* The pointers stay inside the file and its NUL, one behind the other.    *)
TypeOK ==
    /\ text \in Seq(Chars)
    /\ first \in Nat /\ last \in Nat /\ current \in Nat
    /\ first <= last /\ last <= current /\ current <= End
    /\ scanning \in BOOLEAN
    /\ lastChar \in Chars \cup {EOF}
    /\ line \in Nat /\ col \in Nat
    /\ pc \in {"getTok", "identifier", "number", "comment", "done"}

(* The characters of the file are read in order, each one once, across all *)
(* the refills of the line buffer.                                         *)
ReadsInOrder ==
    [][first' # first => first' = first + 1 /\ lastChar' = Signed(CharAt(first))]_vars

(* The lexer delivers the tokens of the text, where they are in the text.  *)
Stream == INSTANCE TokenStream
ImplementsTokenStream == Stream!Spec

(* Every call returns, and the end of the file is reached.                 *)
Terminates == <>(pc = "done")
=============================================================================
