CONSTANTS
    r1 = r1
    r2 = r2
    ana = ana
    Requests <- MCRequests
    Accounts <- MCAccounts
    Owner <- MCOwner
    Kind <- MCKind
    Surface <- BotSurface
    InitialCredits <- OneCredit
    Subscribers <- MCAccounts
    LlmConfigured = TRUE
    MaxTries = 2
    Faults = {"handler_crash", "reply_lost", "worker_stop", "job_lost"}
SPECIFICATION Spec
INVARIANTS CreditsConserved RefundedAtMostOnce NoFreeContent
PROPERTY WalletSpec
CHECK_DEADLOCK FALSE
