------------------------------ MODULE SourceText ------------------------------
(***************************************************************************)
(* The characters of a Toy source.  A character stands for its class: "v"  *)
(* for the letters (the word v for the three keywords), "1" for the        *)
(* digits, ";" for all that has no meaning of its own, FF for the byte     *)
(* that as a signed char has the value of EOF.                             *)
(***************************************************************************)
Letter == {"v"}
Digit  == {"1"}
Space  == {" ", "\n", "\r"}
EndOfLine == {"\n", "\r"}
NumberChar == Digit \cup {"."}
WordChar   == Letter \cup Digit \cup {"_"}
Chars == Letter \cup NumberChar \cup WordChar \cup Space \cup {"#", ";", "NUL", "FF"}
=============================================================================
