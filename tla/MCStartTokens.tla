--------------------------- MODULE MCStartTokens ---------------------------
(* Model values for TLC: three users, two tokens of either kind, two       *)
(* transactions at a time.                                                 *)
EXTENDS StartTokens, TLC

CONSTANTS ana, ben, eva, c1, c2, s1, s2

MCAccounts == {ana, ben, eva}
MCCodes == {c1, c2}
MCSessions == {s1, s2}
Symmetry == Permutations(MCAccounts) \cup Permutations(MCCodes)
                \cup Permutations(MCSessions)
=============================================================================
