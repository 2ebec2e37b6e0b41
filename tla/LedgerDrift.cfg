CONSTANTS
    t1 = t1
    t2 = t2
    Txns <- MCTxns
    Ops <- ChargeAndGrant
    Packages <- MCPackages
    ExpiryRank <- MCExpiryRank
    FirstPackage = 2
    Amounts <- MCAmounts
    MaxCounter = 3
    MaxCharges = 2
SPECIFICATION Spec
INVARIANT CounterMatchesLedger
