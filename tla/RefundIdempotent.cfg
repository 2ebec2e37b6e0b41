CONSTANTS
    r1 = r1
    r2 = r2
    ana = ana
    Requests <- MCRequests
    Accounts <- MCAccounts
    Owner <- MCOwner
    Kind <- MCKind
    Surface <- MixedSurface
    InitialCredits <- OneCredit
    Subscribers <- NoAccounts
    LlmConfigured = FALSE
    MaxTries = 1
    Faults = {"reply_lost"}
SPECIFICATION Spec
INVARIANT RefundIdempotent
CHECK_DEADLOCK FALSE
