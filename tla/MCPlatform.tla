----------------------------- MODULE MCPlatform -----------------------------
(***************************************************************************)
(* What must never happen, around the requests and the payments: the       *)
(* modules that have safety properties only.  A behaviour is a behaviour   *)
(* of one of them, the part chosen at the start; the variables of the      *)
(* others are off, and so a property of a part is stated for the           *)
(* behaviours of that part.  StartTokens is extended, the others are       *)
(* instances; the four calculators share x1 to x5.                         *)
(***************************************************************************)
EXTENDS StartTokens

CONSTANTS
    \* Onboarding
    Owners, Invites, InviteUses, Tenants, BotIds, ProvisionJobs, MaxStaffActs,
    \* TenantConsole
    People, Founders, Superadmins, Master, Routes, MaxCalls,
    \* SignIn
    Persons, Requests, Tokens,
    \* Bootstrap
    Apis, BotWorkers, TaskWorkers, MaxStarts, MaxActs,
    \* TenantLanguages
    Langs, DefaultLang, ChosenLang, LanguageCalls, MaxPuts,
    \* TenantSettings
    Features, Texts, NameKey, SettingStaff, SettingCalls, MaxSettingCalls,
    \* Payouts
    Sales, Amount, Periods, Deliveries, Admins, FeePct, LastPayDay,
    \* BirthProfile
    Values, BirthBodies, Places, Zone, ProfileCalls, MaxSaves,
    \* Divination
    Cards, Casts, Readings, Credits, MaxQuestions,
    \* GiftScreen
    Purse, MaxGift, ExpiryDays, MaxGifts, LastDay, MaxDeaths,
    \* PlanSales
    Ids, Prices, Sizes, Patches, Invoices, MaxPatches,
    \* HumanDesign
    Suns, MaxChannels,
    \* Transits
    Circle, DayTicks, Halvings, Orb, MinWindow, MaxWindow, DefaultWindow, Asked,
    Natal, MaxTurns,
    \* Almanac
    Starts, MaxDays, Letters, MaxName

VARIABLES
    part,
    \* Onboarding
    invite, tenant, bot, owners, chat, job, finalize, staffActs, finalised,
    confirmed,
    \* TenantConsole
    role, superadmin, disabled, primary, standing, dialog, call, calls,
    removalsRaced,
    \* SignIn
    identities, link, token, request, doubled, forked,
    \* Bootstrap
    seeded, admins, signedUp, starting, starts, acts, overtaken,
    \* TenantLanguages
    language, tokenIsIn, languageCall, puts, repeated, early,
    \* TenantSettings
    config, staff, settingDialog, settingCall, settingCalls, audits, last,
    \* Payouts
    payDay, sale, delivery, payout, calculation, late, moved,
    \* BirthProfile
    profile, profileChat, data, shown, profileCall, saves, placeTorn, sent,
    \* Divination
    failOpen, kind, handler, credits, rows, jobs, told, questions, events,
    \* GiftScreen
    day, days, enabled, named, balance, packages, spent, gifts, awaiting, step,
    deaths, undone,
    \* PlanSales
    plan, patch, patches, menu, payment, meant, torn, edited,
    \* HumanDesign, IChing, Transits, Almanac
    x1, x2, x3, x4, x5

O == INSTANCE Onboarding
T == INSTANCE TenantConsole WITH raced <- removalsRaced
I == INSTANCE SignIn
A == INSTANCE Bootstrap WITH rows <- seeded
L == INSTANCE TenantLanguages WITH
        Calls <- LanguageCalls, Chosen <- ChosenLang,
        finalised <- tokenIsIn, call <- languageCall
S == INSTANCE TenantSettings WITH
        Staff <- SettingStaff, ApiCalls <- SettingCalls,
        MaxCalls <- MaxSettingCalls,
        dialog <- settingDialog, call <- settingCall, calls <- settingCalls
P == INSTANCE Payouts WITH LastDay <- LastPayDay, day <- payDay
B == INSTANCE BirthProfile WITH
        Bodies <- BirthBodies, ApiCalls <- ProfileCalls,
        chat <- profileChat, call <- profileCall, torn <- placeTorn
D == INSTANCE Divination
G == INSTANCE GiftScreen WITH Credits <- Purse
M == INSTANCE PlanSales
H == INSTANCE HumanDesign WITH
        sun <- x1, gates <- x2, placed <- x3
K == INSTANCE IChing WITH
        coins <- x1, lines <- x2
F == INSTANCE Transits WITH
        MinDays <- MinWindow, MaxDays <- MaxWindow, DefaultDays <- DefaultWindow,
        days <- x1, natal <- x2, lons <- x3, turns <- x4
N == INSTANCE Almanac WITH
        start <- x1, date <- x2, gone <- x3, name <- x4

\* Ids are serial, and an invite is for some number of tenants.
ASSUME OnboardingAssumption == Tenants \subseteq Nat \ {0} /\ InviteUses \in Nat

\* The tenant has an owner and the platform a superadmin when the console
\* starts; the master bot is not one of the routes.
ASSUME ConsoleAssumption ==
    /\ Founders # {} /\ Founders \subseteq People
    /\ Superadmins # {} /\ Superadmins \subseteq People
    /\ Master \notin Routes

\* The platform has some languages, and both defaults are among them.
ASSUME LanguageAssumption ==
    /\ L!IsFiniteSet(Langs) /\ L!NoLang \notin Langs
    /\ DefaultLang \in Langs /\ ChosenLang \in Langs

\* api/schemas.py asks for a day or a request at least.
ASSUME PlanAssumption == 0 \notin Sizes

\* An answer is a value, and a body of the API is checked by its schema only.
ASSUME BirthAssumption ==
    /\ B!None \notin Values \cup Places
    /\ \A b \in BirthBodies :
          /\ DOMAIN b = {"value"} \cup B!PlaceColumns
          /\ \A c \in DOMAIN b : b[c] # B!None

\* A price is an amount of cents, and the fee a percentage (api/schemas.py,
\* settings.py).
ASSUME PayoutAssumption ==
    /\ L!IsFiniteSet(Sales) /\ Amount \in [Sales -> Nat]
    /\ L!IsFiniteSet(Periods) /\ Periods \subseteq Int \X Int
    /\ FeePct \in Nat

\* The amounts and the days are whole numbers.
ASSUME GiftAssumption ==
    Purse \in Nat /\ MaxGift \in Nat /\ ExpiryDays \subseteq Int

\* All the angles of the aspects are whole; a day takes a body less than a
\* quarter round the circle; and as many halvings as there are bring a day
\* down to a tick (astrology/transits.py 42-54).
ASSUME TransitAssumption ==
    /\ Circle \in Nat /\ Circle % 12 = 0
    /\ DayTicks \in Nat \ {0} /\ 4 * DayTicks < Circle
    /\ Halvings \in Nat
    /\ \E left \in [0..Halvings -> 1..DayTicks] :
          /\ left[0] = DayTicks /\ left[Halvings] = 1
          /\ \A i \in 1..Halvings : left[i - 1] <= 2 * left[i]
    /\ MinWindow \in Nat /\ MaxWindow \in Nat /\ DefaultWindow \in Nat
    /\ Asked \subseteq Int
    /\ Natal \subseteq 0..(Circle - 1)

\* A longitude is a place on the wheel.
ASSUME SunAssumption == Suns \subseteq 0..(H!Wheel - 1)

\* The calendar starts from dates.
ASSUME DateAssumption == \A t \in Starts : N!IsDate(t)

\* Two places and their zones, bodies with a place that agrees with itself or
\* does not, two sales of different amounts, two periods
\* that follow each other and the one they make up, Suns all round the wheel,
\* dates before the end of a year and of February.
MCZone == [p \in Places |-> <<"zone", p>>]
MCHome == CHOOSE p \in Places : TRUE
MCBodies == [value : {"b"}, place : Places, coords : {MCHome},
             zone : {MCZone[MCHome]}]
MCAmount == <<99, 150>>
MCPeriods == {<<0, 1>>, <<1, 2>>, <<0, 2>>}
MCSuns == {k * 4608 + 7 : k \in 0..14}
MCStarts == {<<1899, 12, 30>>, <<1900, 2, 27>>, <<2000, 2, 27>>,
             <<2023, 12, 30>>, <<2100, 2, 27>>}

tenantVars == <<invite, tenant, bot, owners, chat, job, finalize, staffActs,
                finalised, confirmed>>
consoleVars == <<role, superadmin, disabled, primary, standing, dialog, call,
                 calls, removalsRaced>>
accountVars == <<identities, link, token, request, doubled, forked>>
seedVars == <<seeded, admins, signedUp, starting, starts, acts, overtaken>>
languageVars == <<language, tokenIsIn, languageCall, puts, repeated, early>>
settingVars == <<config, staff, settingDialog, settingCall, settingCalls,
                 audits, last>>
payoutVars == <<payDay, sale, delivery, payout, calculation, late, moved>>
birthVars == <<profile, profileChat, data, shown, profileCall, saves,
               placeTorn, sent>>
readingVars == <<failOpen, kind, handler, credits, rows, jobs, told, questions,
                 events>>
giftVars == <<day, days, enabled, named, balance, packages, spent, gifts,
              awaiting, step, deaths, undone>>
planVars == <<plan, patch, patches, menu, payment, meant, torn, edited>>
calculatorVars == <<x1, x2, x3, x4, x5>>
platformVars == <<part, vars, tenantVars, consoleVars, accountVars, seedVars,
                  languageVars, settingVars, payoutVars, birthVars,
                  readingVars, giftVars, planVars, calculatorVars>>

\* The variables of a part that does not run.
Off == "off"
TenantsOff ==
    /\ invite = Off /\ tenant = Off /\ bot = Off /\ owners = Off
    /\ chat = Off /\ job = Off /\ finalize = Off /\ staffActs = Off
    /\ finalised = Off /\ confirmed = Off
ConsoleOff ==
    /\ role = Off /\ superadmin = Off /\ disabled = Off /\ primary = Off
    /\ standing = Off /\ dialog = Off /\ call = Off /\ calls = Off
    /\ removalsRaced = Off
AccountsOff ==
    /\ identities = Off /\ link = Off /\ token = Off /\ request = Off
    /\ doubled = Off /\ forked = Off
SeedsOff ==
    /\ seeded = Off /\ admins = Off /\ signedUp = Off /\ starting = Off
    /\ starts = Off /\ acts = Off /\ overtaken = Off
LanguagesOff ==
    /\ language = Off /\ tokenIsIn = Off /\ languageCall = Off /\ puts = Off
    /\ repeated = Off /\ early = Off
SettingsOff ==
    /\ config = Off /\ staff = Off /\ settingDialog = Off
    /\ settingCall = Off /\ settingCalls = Off /\ audits = Off /\ last = Off
PayoutsOff ==
    /\ payDay = Off /\ sale = Off /\ delivery = Off /\ payout = Off
    /\ calculation = Off /\ late = Off /\ moved = Off
BirthsOff ==
    /\ profile = Off /\ profileChat = Off /\ data = Off /\ shown = Off
    /\ profileCall = Off /\ saves = Off /\ placeTorn = Off /\ sent = Off
ReadingsOff ==
    /\ failOpen = Off /\ kind = Off /\ handler = Off /\ credits = Off
    /\ rows = Off /\ jobs = Off /\ told = Off /\ questions = Off
    /\ events = Off
GiftsOff ==
    /\ day = Off /\ days = Off /\ enabled = Off /\ named = Off
    /\ balance = Off /\ packages = Off /\ spent = Off /\ gifts = Off
    /\ awaiting = Off
    /\ step = Off /\ deaths = Off /\ undone = Off
PlansOff ==
    /\ plan = Off /\ patch = Off /\ patches = Off /\ menu = Off
    /\ payment = Off /\ meant = Off /\ torn = Off /\ edited = Off
\* Those of the calculators, from xN on.
Off5 == x5 = Off
Off4 == x4 = Off /\ Off5
Off3 == x3 = Off /\ Off4
Off1 == x1 = Off /\ x2 = Off /\ Off3

PlatformInit ==
    /\ Init
    /\ \/ part \in {"tokens", "tenants", "console", "accounts", "seeds",
                    "languages", "settings", "payouts", "births", "readings",
                    "gifts", "plans"} /\ Off1
       \/ part = "designs" /\ H!Init /\ Off4
       \/ part = "casts" /\ K!Init /\ Off3
       \/ part = "transits" /\ F!Init /\ Off5
       \/ part = "dates" /\ N!Init /\ Off5
    /\ IF part = "tenants" THEN O!Init ELSE TenantsOff
    /\ IF part = "console" THEN T!Init ELSE ConsoleOff
    /\ IF part = "accounts" THEN I!Init ELSE AccountsOff
    /\ IF part = "seeds" THEN A!Init ELSE SeedsOff
    /\ IF part = "languages" THEN L!Init ELSE LanguagesOff
    /\ IF part = "settings" THEN S!Init ELSE SettingsOff
    /\ IF part = "payouts" THEN P!Init ELSE PayoutsOff
    /\ IF part = "births" THEN B!Init ELSE BirthsOff
    /\ IF part = "readings" THEN D!Init ELSE ReadingsOff
    /\ IF part = "gifts" THEN G!Init ELSE GiftsOff
    /\ IF part = "plans" THEN M!Init ELSE PlansOff

\* Part p runs, and the variables of the others stay what they are.
Only(p) ==
    /\ part = p /\ UNCHANGED part
    /\ IF p = "tokens" THEN TRUE ELSE UNCHANGED vars
    /\ IF p = "tenants" THEN TRUE ELSE UNCHANGED tenantVars
    /\ IF p = "console" THEN TRUE ELSE UNCHANGED consoleVars
    /\ IF p = "accounts" THEN TRUE ELSE UNCHANGED accountVars
    /\ IF p = "seeds" THEN TRUE ELSE UNCHANGED seedVars
    /\ IF p = "languages" THEN TRUE ELSE UNCHANGED languageVars
    /\ IF p = "settings" THEN TRUE ELSE UNCHANGED settingVars
    /\ IF p = "payouts" THEN TRUE ELSE UNCHANGED payoutVars
    /\ IF p = "births" THEN TRUE ELSE UNCHANGED birthVars
    /\ IF p = "readings" THEN TRUE ELSE UNCHANGED readingVars
    /\ IF p = "gifts" THEN TRUE ELSE UNCHANGED giftVars
    /\ IF p = "plans" THEN TRUE ELSE UNCHANGED planVars
    /\ IF p \in {"designs", "casts", "transits", "dates"} THEN TRUE
       ELSE UNCHANGED calculatorVars

PlatformNext ==
    \/ Only("tokens") /\ Next
    \/ Only("tenants") /\ O!Next
    \/ Only("console") /\ T!Next
    \/ Only("accounts") /\ I!Next
    \/ Only("seeds") /\ A!Next
    \/ Only("languages") /\ L!Next
    \/ Only("settings") /\ S!Next
    \/ Only("payouts") /\ P!Next
    \/ Only("births") /\ B!Next
    \/ Only("readings") /\ D!Next
    \/ Only("gifts") /\ G!Next
    \/ Only("plans") /\ M!Next
    \/ Only("designs") /\ H!Next /\ UNCHANGED <<x4, x5>>
    \/ Only("casts") /\ K!Next /\ UNCHANGED <<x3, x4, x5>>
    \/ Only("transits") /\ F!Next /\ UNCHANGED x5
    \/ Only("dates") /\ N!Next /\ UNCHANGED x5

PlatformSpec == PlatformInit /\ [][PlatformNext]_platformVars

-----------------------------------------------------------------------------
(* Onboarding: an invite is never counted more often than it may be used,  *)
(* and whoever gave the token owns the tenant (domain/provisioning.py).    *)
TenantsAreOwned == part = "tenants" => O!UsesBounded /\ O!OwnerGaveToken
(* TenantConsole: somebody is left to administer (admin_tenants.py).       *)
StaffRemains == part = "console" => T!StaffRemains
(* TenantConsole: who loses a role loses its power (owner_console.py).     *)
NoPowerAfterRevoke == [][part = "console" => T!WritesAllowed]_platformVars
(* SignIn: one account for each way to sign in (auth/identity.py).         *)
OneAccount == part = "accounts" => I!OneAccount
(* SignIn: a login has one token that works (auth/jwt_tokens.py).          *)
OneLiveToken == part = "accounts" => I!OneLiveToken
(* Bootstrap: the ensure functions are idempotent (db/bootstrap.py).       *)
StartsAgain == part = "seeds" => A!StartsAgain
(* TenantLanguages: a tenant has one default language, the one its owner   *)
(* chose (admin_tenants.py 469-513, domain/provisioning.py 114-120).       *)
LanguageIsServed == part = "languages" => L!ExactlyOneDefault /\ L!OwnersChoice
(* TenantSettings: the audit log tells the truth (domain/referrals.py).    *)
AuditTellsTruth == [][part = "settings" => S!AuditStep]_platformVars
(* Payouts: every payment is paid out once, but for what is on record      *)
(* (domain/payouts.py, domain/billing.py).                                 *)
PaymentsPaidOutOnce == part = "payouts" => P!PaymentsPaidOutOnce
(* HumanDesign, IChing, Almanac: what is read off a chart or a date agrees *)
(* with itself, and the hexagrams of a cast, right or wrong, are two whole *)
(* ones (astrology/human_design.py, divination/iching.py, astrology/       *)
(* mayan.py and numerology.py).                                            *)
ChartsAgree ==
    /\ part = "designs" => H!TypeMeetsAuthority /\ H!TwelveProfiles
    /\ part = "casts" => K!ReadingHangsTogether
    /\ part = "dates" => N!AlmanacAgrees
(* Transits: the forecast holds every exact aspect once (transits.py).     *)
ForecastIsTrue == part = "transits" => F!ForecastIsTrue
(* BirthProfile: a place comes with its coordinates and its timezone, as   *)
(* the geocoder or one call of the route has them, and is the one that was *)
(* shown (domain/natal_profiles.py, api/routes/me.py).                     *)
PlaceIsWhole == part = "births" => B!PlaceIsWhole /\ B!ConfirmsWhatWasShown
(* BirthProfile: an edit undoes no other change (handlers/profile.py).     *)
EditsOnlyItsField == [][part = "births" => B!EditStep]_platformVars
(* Divination: a reading is what was asked for (handlers/divination.py).   *)
ReadingAsAsked == part = "readings" => D!ReadingAsAsked
(* GiftScreen: no credit is lost, and none made but where a sweep writes   *)
(* over a charge (bot/handlers/gift.py, domain/gifts.py, billing.py).      *)
GiftsAddUp == part = "gifts" => G!GiftsAddUp
(* PlanSales: a plan is credited as it was offered (domain/billing.py).    *)
SoldAsOffered == part = "plans" => M!SoldAsOffered
=============================================================================
