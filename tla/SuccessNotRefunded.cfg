CONSTANTS
    r1 = r1
    r2 = r2
    ana = ana
    Requests <- MCRequests
    Accounts <- MCAccounts
    Owner <- MCOwner
    Kind <- MCKind
    Surface <- BotSurface
    InitialCredits <- OneCredit
    Subscribers <- NoAccounts
    LlmConfigured = TRUE
    MaxTries = 2
    Faults = {"worker_stop"}
SPECIFICATION Spec
PROPERTY SuccessNotRefunded
CHECK_DEADLOCK FALSE
