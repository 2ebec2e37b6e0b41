CONSTANTS
    Accounts = {ana, ben}
    Codes = {c1, c2}
    Sessions = {s1, s2}
    MaxUses = 2

    Owners = {ana, ben}
    Invites = {i1}
    InviteUses = 1
    Tenants = {1, 2}
    BotIds = {b1}
    ProvisionJobs = {j1}
    MaxStaffActs = 1

    People = {ana, ben}
    Founders = {ana, ben}
    Superadmins = {ben}
    Master = master
    Routes = {x, y}
    MaxCalls = 2

    Persons = {ana}
    Requests = {x, y}
    Tokens = {t1, t2, t3}

    Apis = {api}
    BotWorkers = {bot}
    TaskWorkers = {task}
    MaxStarts = 4
    MaxActs = 2

    Langs = {ru, en}
    DefaultLang = ru
    ChosenLang = en
    LanguageCalls = {x, y}
    MaxPuts = 2

    Features = {qa}
    Texts = {name, welcome}
    NameKey = name
    SettingStaff = {ana}
    SettingCalls = {x}
    MaxSettingCalls = 3

    Sales = {1, 2}
    Amount <- MCAmount
    Periods <- MCPeriods
    Deliveries = {x, y}
    Admins = {ana, ben}
    FeePct = 15
    LastPayDay = 1

    Values = {v}
    BirthBodies <- MCBodies
    Places = {p, q}
    Zone <- MCZone
    ProfileCalls = {x}
    MaxSaves = 3

    Cards = {fool, star, sun}
    Casts = {cast}
    Readings = {1}
    Credits = 2
    MaxQuestions = 1

    Purse = 3
    MaxGift = 2
    ExpiryDays = {0, 1}
    MaxGifts = 2
    LastDay = 1
    MaxDeaths = 1

    Ids = {1}
    Prices = {1, 2}
    Sizes = {1, 2}
    Patches = {x, y}
    Invoices = {i1}
    MaxPatches = 2

    Suns <- MCSuns
    MaxChannels = 2

    Circle = 24
    DayTicks = 4
    Halvings = 3
    Orb = 2
    MinWindow = 1
    MaxWindow = 3
    DefaultWindow = 2
    Asked = {0, 1, 7}
    Natal = {0, 17}
    MaxTurns = 1

    Starts <- MCStarts
    MaxDays = 400
    Letters = {"A", "B", "Y", "-"}
    MaxName = 4
SPECIFICATION PlatformSpec
INVARIANTS AttributedOnce RewardedOnce GiftNeverLost PaidTwiceNeedsRace
    TenantsAreOwned StaffRemains OneAccount OneLiveToken StartsAgain
    LanguageIsServed PaymentsPaidOutOnce ChartsAgree ForecastIsTrue
    PlaceIsWhole ReadingAsAsked GiftsAddUp SoldAsOffered
PROPERTIES NoPowerAfterRevoke AuditTellsTruth EditsOnlyItsField
CHECK_DEADLOCK FALSE
