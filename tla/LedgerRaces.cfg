CONSTANTS
    t1 = t1
    t2 = t2
    Txns <- MCTxns
    Ops <- EveryOp
    Packages <- MCPackages
    ExpiryRank <- MCExpiryRank
    FirstPackage = 2
    Amounts <- MCAmounts
    MaxCounter = 3
    MaxCharges = 2
SPECIFICATION Spec
INVARIANT DriftNeedsRace
PROPERTY ChargeTakesOne
SYMMETRY Symmetry
