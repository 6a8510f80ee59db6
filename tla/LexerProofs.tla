------------------------------ MODULE LexerProofs ------------------------------
(***************************************************************************)
(* Theorems about Lexer, for files of every length and content.            *)
(***************************************************************************)
EXTENDS Lexer, TLAPS

(* Between refills the line buffer ends where the next line begins; while  *)
(* one is under way it is empty.                                           *)
RefillsAreSeamless ==
    /\ ~ scanning => last = current
    /\ scanning => first = last /\ first <= current

IInv == TypeOK /\ RefillsAreSeamless

-----------------------------------------------------------------------------
(* Whatever position the lexer looks at, it finds a character.             *)
LEMMA CharAtType ==
    ASSUME TypeOK, NEW i \in Nat
    PROVE  CharAt(i) \in Chars
<1>1. i \in DOMAIN text => text[i] \in Chars
  BY DEF TypeOK
<1>2. "\n" \in Chars /\ "NUL" \in Chars
  BY DEF Chars, Space
<1>3. CASE i = 0
  BY <1>2, <1>3 DEF CharAt
<1>4. CASE i # 0
  BY <1>1, <1>2, <1>4 DEF CharAt
<1> QED BY <1>3, <1>4

(* Reading a character from a buffer that is not being refilled keeps the  *)
(* pointers in order, and takes the next character of the file.            *)
LEMMA GetNextCharStep ==
    ASSUME IInv, ~ scanning, GetNextChar
    PROVE  /\ first' \in Nat /\ last' \in Nat /\ current' = current
           /\ first' <= last' /\ last' = current
           /\ scanning' \in BOOLEAN
           /\ scanning' => first' = last'
           /\ lastChar' \in Chars \cup {EOF}
           /\ line' \in Nat /\ col' \in Nat
           /\ first' # first => first' = first + 1 /\ lastChar' = Signed(CharAt(first))
<1>1. /\ first \in Nat /\ last \in Nat /\ current \in Nat
      /\ first <= last /\ last = current
      /\ line \in Nat /\ col \in Nat
  BY DEF IInv, TypeOK, RefillsAreSeamless
<1>2. CASE first = last
  BY <1>1, <1>2 DEF GetNextChar, IInv, TypeOK
<1>3. CASE first # last
  <2>1. /\ lastChar' = Signed(CharAt(first))
        /\ Advance(CharAt(first))
        /\ scanning' = (first + 1 = last)
        /\ first' = IF first + 1 = last THEN current ELSE first + 1
        /\ last'  = IF first + 1 = last THEN current ELSE last
        /\ current' = current
    BY <1>3 DEF GetNextChar
  <2>2. first' = first + 1 /\ last' = last
    BY <1>1, <2>1
  <2>3. lastChar' \in Chars \cup {EOF}
    BY <1>1, <2>1, CharAtType DEF IInv, Signed
  <2>4. line' \in Nat /\ col' \in Nat
    BY <1>1, <2>1 DEF Advance
  <2>5. scanning' \in BOOLEAN
    BY <2>1
  <2>6. scanning' => first' = last'
    <3>1. scanning' => first + 1 = last
      BY <2>1
    <3> QED BY <2>2, <3>1
  <2>7. /\ first' \in Nat /\ last' \in Nat
        /\ first' <= last' /\ last' = current
    BY <1>1, <1>3, <2>2
  <2> QED BY <2>1, <2>2, <2>3, <2>4, <2>5, <2>6, <2>7
<1> QED BY <1>2, <1>3

(* The same for what the actions of getTok() have in common: they read a   *)
(* character or none, and go to one of its points.                         *)
LEMMA GetTokStep ==
    ASSUME IInv, ~ scanning, GetNextChar \/ UNCHANGED cursor,
           text' = text, pc' \in {"getTok", "identifier", "number", "comment", "done"}
    PROVE  IInv'
<1>1. CASE GetNextChar
  BY <1>1, GetNextCharStep DEF IInv, TypeOK, RefillsAreSeamless, End
<1>2. CASE UNCHANGED cursor
  BY <1>2 DEF IInv, TypeOK, RefillsAreSeamless, End, cursor
<1> QED BY <1>1, <1>2

(* Every action of getTok() is of that kind.                               *)
GetTok ==
    \/ SkipSpace
    \/ StartLexeme \/ StartComment \/ SingleCharacter \/ AtEOF
    \/ ExtendLexeme \/ EndLexeme
    \/ SkipComment \/ EndComment

LEMMA GetTokShape ==
    ASSUME IInv, GetTok
    PROVE  /\ ~ scanning
           /\ GetNextChar \/ UNCHANGED cursor
           /\ text' = text
           /\ pc' \in {"getTok", "identifier", "number", "comment", "done"}
<1>1. CASE SkipSpace
  BY <1>1 DEF SkipSpace, At, Goto
<1>2. CASE StartLexeme
  BY <1>2 DEF StartLexeme, StartsToken, At, Goto
<1>3. CASE StartComment
  BY <1>3 DEF StartComment, StartsToken, At, Goto
<1>4. CASE SingleCharacter
  BY <1>4 DEF SingleCharacter, StartsToken, At, Give
<1>5. CASE AtEOF
  BY <1>5 DEF AtEOF, StartsToken, At, Give
<1>6. CASE ExtendLexeme
  BY <1>6 DEF ExtendLexeme, LexemeGoesOn, At, Goto
<1>7. CASE EndLexeme
  BY <1>7 DEF EndLexeme, At, Give
<1>8. CASE SkipComment
  BY <1>8 DEF SkipComment, At, Goto
<1>9. CASE EndComment
  BY <1>9 DEF EndComment, At, Goto, Give
<1> QED BY <1>1, <1>2, <1>3, <1>4, <1>5, <1>6, <1>7, <1>8, <1>9 DEF GetTok

-----------------------------------------------------------------------------
LEMMA InitInv == Init => IInv
<1> SUFFICES ASSUME Init PROVE IInv
  OBVIOUS
<1>1. text \in Seq(Chars)
  BY TextsAssumption DEF Init
<1>2. " " \in Chars
  BY DEF Chars, Space
<1>3. Len(text) \in Nat
  BY <1>1
<1>4. first = 0 /\ last = 1 /\ current = 1 /\ End = Len(text) + 1
  BY DEF Init, End
<1>5. /\ first \in Nat /\ last \in Nat /\ current \in Nat
      /\ first <= last /\ last <= current /\ current <= End
  BY <1>3, <1>4
<1>6. /\ lastChar \in Chars \cup {EOF}
      /\ line \in Nat /\ col \in Nat
      /\ pc \in {"getTok", "identifier", "number", "comment", "done"}
  BY <1>2 DEF Init
<1>7. scanning = FALSE
  BY DEF Init
<1> QED BY <1>1, <1>4, <1>5, <1>6, <1>7 DEF IInv, TypeOK, RefillsAreSeamless

LEMMA NextInv == IInv /\ [Next]_vars => IInv'
<1> SUFFICES ASSUME IInv, [Next]_vars PROVE IInv'
  OBVIOUS
<1>1. CASE ScanLine
  BY <1>1 DEF ScanLine, InLine, IInv, TypeOK, RefillsAreSeamless, End, CharAt
<1>2. CASE EndLine
  <2>1. /\ scanning /\ scanning' = FALSE
        /\ current' \in {current, current + 1} /\ last' = current'
        /\ CharAt(current) = "NUL" => current' = current
        /\ UNCHANGED << text, first, lastChar, line, col, pc >>
    BY <1>2 DEF EndLine
  <2>2. /\ text \in Seq(Chars) /\ Len(text) \in Nat
        /\ first \in Nat /\ current \in Nat /\ first <= current /\ current <= Len(text) + 1
    BY <2>1 DEF IInv, TypeOK, RefillsAreSeamless, End
  <2>3. current = Len(text) + 1 => CharAt(current) = "NUL"
    BY <2>2 DEF CharAt
  <2>4. current' \in Nat /\ first <= current' /\ current' <= Len(text) + 1
    BY <2>1, <2>2, <2>3
  <2>5. /\ (text \in Seq(Chars))'
        /\ first' \in Nat /\ last' \in Nat /\ current' \in Nat
        /\ first' <= last' /\ last' <= current' /\ current' <= End'
    BY <2>1, <2>2, <2>4 DEF End
  <2>6. /\ (lastChar \in Chars \cup {EOF})'
        /\ line' \in Nat /\ col' \in Nat
        /\ (pc \in {"getTok", "identifier", "number", "comment", "done"})'
    BY <2>1 DEF IInv, TypeOK
  <2> QED BY <2>1, <2>5, <2>6 DEF IInv, TypeOK, RefillsAreSeamless
<1>3. CASE GetTok
  BY <1>3, GetTokShape, GetTokStep
<1>4. CASE UNCHANGED vars
  BY <1>4 DEF vars, cursor, IInv, TypeOK, RefillsAreSeamless, End
<1> QED BY <1>1, <1>2, <1>3, <1>4 DEF Next, GetTok

(* readNextLine() and the line buffer never leave the file and the NUL     *)
(* behind it, whatever the file holds.                                     *)
THEOREM PointersStayInside == Spec => []TypeOK
<1>1. IInv => TypeOK
  BY DEF IInv
<1> QED BY InitInv, NextInv, <1>1, PTL DEF Spec

(* No character is skipped and none is read twice: the cursor moves by one *)
(* position or not at all, and what it moves over is what getTok() sees.   *)
THEOREM CharactersInOrder == Spec => ReadsInOrder
<1>1. IInv /\ [Next]_vars =>
          [first' # first => first' = first + 1 /\ lastChar' = Signed(CharAt(first))]_vars
  <2> SUFFICES ASSUME IInv, Next
               PROVE  first' # first => first' = first + 1 /\ lastChar' = Signed(CharAt(first))
    OBVIOUS
  <2>1. CASE ScanLine
    BY <2>1 DEF ScanLine
  <2>2. CASE EndLine
    BY <2>2 DEF EndLine
  <2>3. CASE GetTok
    <3>1. ~ scanning /\ (GetNextChar \/ UNCHANGED cursor)
      BY <2>3, GetTokShape
    <3>2. CASE GetNextChar
      BY <3>1, <3>2, GetNextCharStep
    <3>3. CASE UNCHANGED cursor
      BY <3>3 DEF cursor
    <3> QED BY <3>1, <3>2, <3>3
  <2> QED BY <2>1, <2>2, <2>3 DEF Next, GetTok
<1> QED BY InitInv, NextInv, <1>1, PTL DEF Spec, ReadsInOrder
=============================================================================
