------------------------------ MODULE MCPrintd ------------------------------
(* Two or three print commands for TLC. *)
EXTENDS PrintdInv, TLC

CONSTANTS c1, c2, c3

Clients2 == {c1, c2}
Sym2     == Permutations(Clients2)
Clients3 == {c1, c2, c3}
Sym3     == Permutations(Clients3)
=============================================================================
