CONSTANTS
    DailyAccounts <- MCDailyAccounts
    Zone <- MCZone
    DayHours = 2
    DefaultHour = 1
    Taps = {1}
    LastHour = 1
    MaxTaps = 2
    MaxStops = 1
    ana = ana
    r1 = r1
    r2 = r2
    p1 = p1
    p2 = p2
    h1 = h1
    Sweeper = Sweeper
    monthly = monthly
    wb = wb
    pb = pb
    u1 = u1
    u2 = u2
    TgBots = {wb, pb}
    Webhooks = {wb}
    Updates = {u1, u2}
    BotOf <- MCBotOf
    MaxChanges = 1
    MaxFaults = 1
    Bots = {tenant}
    Readers = {reader1, reader2}
    Editors = {editor}
    MaxEdits = 2
    MaxDeaths = 1
SPECIFICATION FairSpec
INVARIANTS OnePerDay StaleOnlyByOverlap UpdateOnce
PROPERTIES ClaimEnds StaleGoesAway UpdateAnswered PoolSettles AnsweredSettles
    EndedLapses
CHECK_DEADLOCK FALSE
