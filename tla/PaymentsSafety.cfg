CONSTANTS
    p1 = p1
    p2 = p2
    h1 = h1
    h2 = h2
    monthly = monthly
    pack = pack
    Payments <- MCPayments
    SubscriptionPlans <- MCSubscriptionPlans
    PackagePlans <- MCPackagePlans
    Handlers <- MCHandlers
    Sweeper = Sweeper
    Period = 1
    Grace = 1
    Remind = 1
    MaxTime = 3
    MaxCrashes = 1
SPECIFICATION Spec
INVARIANTS CreditedTwiceNeedsOverlap PaidIsCredited ActiveWhileRunning
    AccessFollowsRows RemindedOnce
SYMMETRY Symmetry
