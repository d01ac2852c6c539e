------------------------------ MODULE MCLexorank ------------------------------
(***************************************************************************)
(* Instances of LexorankLoop for TLC.                                      *)
(***************************************************************************)
EXTENDS LexorankLoop

WordsUpto(n) == UNION {[1 .. k -> Letter] : k \in 0 .. n}

Words3 == WordsUpto(3)

===============================================================================
