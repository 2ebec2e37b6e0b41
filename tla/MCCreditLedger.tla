--------------------------- MODULE MCCreditLedger ---------------------------
(* Model values for TLC: two transactions at a time on one account, and    *)
(* room for one more package, which expires before the first one.          *)
EXTENDS CreditLedger, TLC

CONSTANTS t1, t2

MCTxns == {t1, t2}
MCPackages == 1..2
MCExpiryRank == (1 :> 2) @@ (2 :> 1)
Symmetry == Permutations(MCTxns)
MCAmounts == {1, 2}
EveryOp == AllOps \cup {"expire"}
ChargeAndGrant == {"consume", "grant"}
=============================================================================
