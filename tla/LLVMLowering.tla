----------------------------- MODULE LLVMLowering -----------------------------
(***************************************************************************)
(* The print pattern of LLVMLoweringPass, the only toy operation left by   *)
(* then: nested scf.for loops around a call of printf, and the symbols the *)
(* module must hold for it.                                                *)
(***************************************************************************)
EXTENDS LoweredCode

(* Faulty: the newline belongs to the innermost loop too.                  *)
FaultyPrintLoops(s) == [d \in DOMAIN s |-> [bound |-> s[d], newline |-> TRUE]]

(* One loop per dimension; every body but the innermost one ends with a    *)
(* newline.                                                                *)
PrintLoops(s) == [d \in DOMAIN s |-> [bound |-> s[d], newline |-> d # Len(s)]]

PrintfOpLowering(code, k) == [code EXCEPT ![k] = Printf(code[k].buf, PrintLoops(code[k].shape))]

(* Faulty: inserted without looking for it.                                *)
FaultyGetOrInsert(decls, name) == << name >> \o decls

(* getOrInsertPrintfOp, getOrCreateStringGlobalOp and the linalg pass's    *)
(* getOrInsertPrintFuncOp.                                                 *)
GetOrInsert(decls, name) == IF name \in Range(decls) THEN decls ELSE << name >> \o decls

(* printf and the two strings, in the order they are asked for.            *)
PrintfSymbols(decls) == FoldLeft(GetOrInsert, decls, << "printf", "frmt_spec", "nl" >>)
=============================================================================
