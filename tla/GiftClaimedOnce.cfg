CONSTANTS
    ana = ana
    ben = ben
    eva = eva
    c1 = c1
    c2 = c2
    s1 = s1
    s2 = s2
    Accounts <- MCAccounts
    Codes <- MCCodes
    Sessions <- MCSessions
    MaxUses = 3
SPECIFICATION Spec
INVARIANT GiftClaimedOnce
CHECK_DEADLOCK FALSE
