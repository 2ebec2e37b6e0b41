# Quantuum in TLA+

Specifications of Quantuum, a multi-tenant astrology service: every tenant runs
a Telegram bot whose users spend credits (or a subscription) on generated
texts, buy and give away credits, and invite each other; owners, admins and
superadmins run tenants and platform through a console bot and an HTTP API.
The modules here model how credits are charged, refunded, bought and given
away; how updates, jobs and cached texts reach their users; how tenants,
accounts and settings come about and change; and the parts of the calculators
that decide something.

All paths below are relative to `src/quantuum/` of the repository unless they
start with `docs/` or `tests/`.

## The system

Five processes (`docker-compose.yml`): the HTTP API (`api/`), the bot worker
(`bot/runner.py`, or `bot/polling.py` in development), the task worker
(`tasks/worker.py`, an arq worker with two hourly cron jobs), PostgreSQL and
Redis. The three Python processes share no memory: they interact through rows
of the database (SQLAlchemy sessions, READ COMMITTED), through Redis (the queue
of webhook updates, arq's job queue, the string cache, FSM states, magic links,
reload signals) and through Telegram.

| component | state it keeps | operations | what makes it correct | modules |
|---|---|---|---|---|
| quota (`domain/quota.py`) | `AccountBalance.package_credits`, ledger rows, `Request.charged_against` | `consume_quota`, `refund_quota` | a charge takes one credit, a refund returns it once | CreditWallet, RequestLifecycle, CreditLedger |
| paid handlers (`bot/handlers/qa.py`, `readings.py`, `generate.py`, `transits.py`, `_guard.py`; `api/routes/me.py`) | local variables between commits | gate, charge, two rows, enqueue, refund | a charge never ends without a job or a refund, unless the process dies | RequestLifecycle |
| generation jobs (`tasks/*.py`), request and content rows (`domain/requests.py`, `readings.py`, ...) | status of each row, arq's queue | start, calculate, generate, complete, deliver, refund | what is not delivered is refunded, what is delivered is not | RequestLifecycle |
| ledger (`domain/billing.py`, `domain/accounts.py`) | ledger rows and the counter that caches their sum | grant, deduct, recompute | counter and rows agree | CreditLedger |
| payments and subscriptions (`domain/billing.py`, `lifecycle.py`, `bot/handlers/buy.py`) | `Payment.status`, `AccountSubscription`, `subscription_active_until` | invoice, fulfil, renew, sweep, remind | a payment is credited once; access follows the subscription | Payments |
| plans (`domain/plans.py`, `api/routes/billing.py`) | plan rows | create, patch, offer, credit | what is credited is what was offered | PlanSales |
| gifts (`domain/gifts.py`, `bot/handlers/gift.py`) | `StartToken` rows, the sender's credits, the dialogue | create, claim, sweep | the credits of a gift reach exactly one account | StartTokens, GiftScreen |
| referrals, deep links (`domain/referrals.py`, `bot/handlers/start_tokens.py`) | `StartToken`, `StartTokenUse` | create code, attribute, pay out | one referrer per account, one reward per attribution | StartTokens |
| bot runtime (`bot/runner.py`, `reload.py`, `polling.py`, `api/routes/webhook.py`, `redis_client.py`) | dedup keys, update queue, pools of live bots | accept, pop, process, reconcile | an update is processed once; the pool follows the database | BotRuntime |
| daily horoscope (`domain/daily.py`, `tasks/daily.py`, `bot/handlers/daily.py`) | settings, one row per account and date | toggle, dispatch, claim, generate, deliver | at most one a day, and one that is begun ends | Daily |
| strings (`i18n/cache.py`, `strings.py`) | a Redis hash per tenant and language | fill, invalidate | an edit becomes visible | StringCache |
| languages (`i18n/langs.py`, `resolver.py`) | `tenant_languages` | seed, replace, resolve | one default, the one the owner chose | TenantLanguages |
| onboarding (`domain/provisioning.py`, `tasks/provision.py`, `bot/handlers/master_onboarding.py`) | tenant, bot and invite rows, FSM state | invite, dialogue, provision, finalize | an invite is used as often as it allows; who gives the token owns the tenant | Onboarding |
| tenants and roles (`domain/tenants.py`, `api/routes/admin_*.py`, `bot/handlers/owner_*.py`) | roles, superadmins, bans, status | grant, revoke, transfer, ban, pause | a tenant keeps an owner; lost power is lost at once | TenantConsole |
| settings and audit (`domain/tenant_features.py`, `tenant_branding.py`, `audit.py`) | `tenant_config`, texts, audit entries | edit, toggle, reset | the audit log tells the truth | TenantSettings |
| payouts (`domain/payouts.py`) | one row per tenant and period | calculate, mark paid | every payment is paid out once | Payouts |
| authentication (`auth/`, `bot/middleware/account.py`) | identities, magic links, refresh tokens | find or create, exchange, rotate, revoke | one account per person, one live token per login | SignIn |
| profiles (`bot/handlers/onboarding.py`, `profile.py`, `domain/natal_profiles.py`) | `natal_profiles`, dialogue data | ask, confirm, edit, upsert | a place comes with its coordinates and timezone | BirthProfile |
| start of a process (`db/bootstrap.py`) | the seeded rows | the ensure functions | a start after a start works | Bootstrap |
| divination and moderation (`bot/handlers/divination.py`, `divination/`, `moderation/`) | readings, events | choose, ask, moderate, charge, draw, tell | flagged is not charged, told is what was drawn | Divination, IChing |
| calculators (`astrology/`) | none | pure functions | they agree with what they compute | HumanDesign, Transits, Almanac |
| LLM adapters (`llm/`), other screens | none | calls, menus | not modelled | |

Interactions that matter: handlers call `consume_quota`, which ends with
`maybe_payout_referral`; handler and worker both call `refund_quota`;
`create_gift` deducts through `adjust_package_credits`, a claim, a sweep and a
reward credit through `grant_credits`; a purchase grants too, and the sweep of
subscriptions recomputes the counter; the provisioning seeds the languages that
every start of the API seeds as well; routes that edit texts invalidate the
cache the bots read, and the console does not.

What is hard: each of these operations is a read followed by a write with
awaits and other processes in between; some take a row lock and some do not,
and a row that is already in a session's identity map is *not* re-read by
`SELECT ... FOR UPDATE`; a handler makes up to four commits for one request; arq
runs a job again when its worker was stopped; an enqueue may raise although
the job was stored; dialogues keep in Redis what they read many messages ago.
The hazards are listed line by line in `PROJECT.json`, where `map` has the lines
of each definition; a definition that stands for several handlers that do the same
names those of one.

## The modules: credits and money

### CreditWallet: what the quota promises

An account's `balance`, the requests that hold a credit (`held`) and those
whose charge was given back (`settled`). Three actions: `Charge` takes a credit
that is there for a request that never had one; `GiveBack` returns it for good;
`Release` settles a request that a subscription paid. It is the abstract
specification RequestLifecycle implements.

### RequestLifecycle: from the submission to the refund

One submission `r` is one run of a handler, with the request row, the content
row and the arq job it makes.

* `phase` is the handler's program counter: `ConsumeQuota`, `CreateContent`,
  `CreateRequest` (in the order of the kind: blueprints and readings write the
  content first), `Enqueue` or `EnqueueRaises`, `HandlerRefund`; each is one
  commit. `HandlerCrash` ends it anywhere after the charge.
* `against`, `status`, `content` are the columns `Request.charged_against`,
  `Request.status` and the status of the content row.
* `job`, `step`, `tries` are the arq job and where its function is: `StartJob`,
  `Calculate`, `StartGenerating`, `Generated` or `GenerationFails`, then
  `CompleteRequest`, `Deliver`, or `JobRefund`, then `FinishJob`.
* `Refund` is what `refund_quota` commits, `AlreadyRefunded` its no-op check.
  `enqueue_or_refund` and the jobs refund in a session that reads the row
  afresh (`RefundQuota`); the API routes refund in the session that created the
  row, which `SELECT ... FOR UPDATE` does not refresh, so they always `Refund`.
* Faults the environment may inject: a dying handler, an enqueue whose reply is
  lost, a stopped worker (arq runs the job again), a job cancelled by its
  timeout. `SubscriptionEnds` is the passing of time.

One database transaction is one action here, because `consume_quota` and
`refund_quota` lock the rows they depend on; CreditLedger looks inside.

### CreditLedger: two copies of one number

One account's `counter` and ledger rows (`left`). An operation reads at `Begin`
and writes at `Commit`, as the absolute values the ORM sends, and only for the
attributes it changed. `consume_quota`, `refund_quota` and `create_gift` read
the balance row under a lock and hold it; `grant_credits`,
`adjust_package_credits` and `recompute_account_balance` do not, but wait for
the lock when they write, since each of them writes `updated_at`. `Expire` is
the passing of a package's `expires_at`.

### StartTokens: gifts and referral codes

`tokens` and `uses` are the two tables, a `session` is a transaction that has
read and not yet committed. `ResolveStartToken` reads the token, `LockToken` and
`LockAccount` take the row lock of the gift and of the referee's account,
`ClaimGift` and `Attribute` commit; `FindExpiredGifts`/`RefundGifts` and
`FindAttribution`/`PayoutReferral` are the read and the commit of the sweep and
of the payout. `credited` and `raced` are histories: how often somebody got a
gift's credits, and which gifts were settled while another session had read
them.

### Payments: from the invoice to the lapsed subscription

One account's rows of `payments` and `account_subscriptions` (`subs`) and its
`subscription_active_until` (`until`). A process of `proc` is a handler of
`successful_payment` or the hourly job, and its record holds what it has read.

* `Invoice` is `on_buy_pick`. `ReadPayment`, `MarkPaid`, then `PlanWithdrawn`,
  `ApplyPackagePayment` or `ReadSubscription`, `WriteSubscription` (or
  `WriteRefused`), `RecomputeRead`, `RecomputeWrite` are the reads and commits
  of `fulfill_payment` in their order. Any payment may be notified any number of
  times, by two handlers at once too. That an administrator deactivates a plan
  is an outcome of the plan's look-up.
* `FindEnded`, `FindLapsed`, `SweepCommit`, the two recompute steps, `FindDue`,
  then `SendReminder` and `MarkReminderSent` or `SkipReminder` for each reminder
  that is due, are one run of `subscription_lifecycle`.
* A write sends only the attributes that differ from what was read: a renewal
  of a row that was read as "active" does not restore the status the job has
  changed meanwhile (`Renewed`). The job's first UPDATE is flushed by its second
  SELECT and locks its rows until the commit (`Locked`). The partial unique
  index refuses a second live row of a plan (`Violates`), after the payment was
  committed as paid.
* `Crash` ends a process between two commits, `Tick` is the passing of a day.
  Histories record what the properties excuse: crediting that ended without
  effect (`lost`), overlapping handlers (`overlapped`), a subscription that job
  and renewal changed at once (`overtaken`), a balance written from rows that
  had changed (`drifted`).

### PlanSales: selling a plan that is being edited

`plan` has the rows of both plan tables, `patch` what each running PATCH has
read and its body. `BeginPatch` and `SavePatch` are the two halves of the PATCH
routes: the UPDATE sends the columns whose value differs from the one read.
`ShowBuyMenu`, `OnBuyPick`, `MarkPaid` and `Credit` are the sale; a `Credit`
reads the plan as it is then. `meant`, `torn` and `edited` are histories: the
rows somebody meant, the plans whose PATCHes overlapped, the invoices whose plan
changed before they were credited.

### GiftScreen: the sender's dialogue

`awaiting` is the largest amount the dialogue allows, read when it opened; the
worker is at `step`. `OnAmountReceived` checks, `LockBalance` and `CreateGift`
are `create_gift` under the lock of the balance row, `Answer` shows the link.
`ShowGiftScreen` and `CommitSweep` are the two halves of the sweep: it selects what
has expired and `grant_credits` reads the balance without a lock; the balance
it read and what it returns are then written as one absolute value. The API
spends credits beside it, and a charge between the two halves is written over
in `balance` but not in `packages`, the sum of the rows, to which the next gift
sets the balance again (`adjust_package_credits`); `undone` counts such charges.
The staff changes `gift.expiry_days`, `WorkerDies` ends the worker at any step.

### Payouts: what the platform owes a tenant

A delivery that reads the payment as pending stamps it (`Stamp`) before its
transaction commits (`Commit`, or `CommitFails`). Nothing keeps a second delivery
from doing the same, as `fulfill_once` shows, and the later commit moves
`paid_at`; a calculation sums the payments it sees (`Calculate`) and inserts its
row (`InsertPayout`), where a unique key refuses the second. `late` records the
payments that came into a period after its sum, `moved` those that left one after
its sum. The latter are in the payouts of two periods if the second is
summed after the move, which TLC reaches: the tenant is paid for them twice.

## The modules: bots, jobs and texts

### BotRuntime: how an update reaches a handler

`held` is where Telegram has an update, `call` where the webhook request for it
is, `seen` the dedup keys, `queue` the Redis list, `pool` and `poll` what the
worker and the poller run. `Webhook` goes through look-up, claim and append,
`Consume` pops and processes, `Poll` is a polling task, `Reconcile` compares a
pool with the table. `CallFails`, `PollDies`, `WorkerDies` and `SeenExpires` are
the faults; `SetTenantStatus` changes what the pools have to follow.

### Daily: one horoscope a day

The clock counts hours, `Zone` shifts an account's date. `Toggle`, `SetHour`,
`Put` read the settings, `SaveSettings` writes the attributes that changed;
`Dispatch` is the hourly cron job, `Claim`, `Generated`, `MarkSent`, `FindChat` and
`Deliver` the steps of `daily_generate`. `GenerationFails` is its `except` branch,
which any step of the `try` may lead to, those after the text was saved too;
`FailureNotWritten` is the same branch when the write of the failure raises and
is swallowed. `WorkerStop` puts a job back into the queue wherever it is.
`JobCutOff` ends it for good: arq's timeout, whose `CancelledError` is no
`Exception`, or what raises outside the `try`.

### StringCache: texts in front of the database

A fill takes four steps (`LoadPlatformStrings`, `LoadTenantOverrides`,
`FillHash`, `SetTtl`), an edit commits and then drops one key after another
(`PutOverride`, `DeleteOverride`, `PutPlatform`; `DropHash`), or drops none
(`EditBranding`, `ResetBranding`, of the console). Readers and editors may die
between any two steps; `TtlEnds` is Redis.

### Divination: from the question to the cards

`OnChoice` opens the dialogue, `OnQuestion` has a question moderated by two
classifiers of which either may fail (`failOpen`, a setting of the process,
says what that means), `Charge`, `CreateReading`, `SaveDraw` and `Enqueue` are the commits of the
handler, `Tell` a run of the job; `HandlerDies` ends the handler anywhere.

## The modules: tenants and accounts

### Onboarding: how a tenant comes to life

The dialogue with the master bot (`OnStartWithCode`, `OnSlug`, ...), the
confirmation that creates the tenant and queues the job (`OnConfirm`), the job
(`ProvisionReads`, `ProvisionWrites`, `ProvisionStops`) and the finalization
when the token arrives (`GrantOwner`, `Activate` or `FinalizeFails`), while staff
suspend, resume and archive tenants and revoke invites.

### TenantConsole: who may do what

A call authorises (`TenantRoute`, `Route`, `MasterBot`) and writes later
(`Write`, or `Abandon`); `dialog` holds the console's open dialogues, `overtaken`
in a call whether another one wrote meanwhile. Roles, superadmins, bans, the
primary owner and the tenant's status are the state.

### TenantSettings and TenantLanguages

TenantSettings has the rows of `tenant_config` and the texts; every edit is
begin, read and write, by the console's dialogues (`OnReferralsValue`,
`OnGiftsReset`, ...) and by `PUT /config` (`BeginPut`); `last` is the audit entry
just written. TenantLanguages has the rows of one tenant: `SeedLanguages` at the
start of an API process or a finalization, `PutLanguages` of the route, with the
partial unique index that refuses a second default.

### SignIn: accounts and tokens

A request is at `pc`: it has found nobody and will `CreateAccount`, has read a
magic link and will `MagicDelete` it and `FindByEmail`, will
`IssueRefreshToken`, or has read a refresh token (`RotateRead`) and will
`RotateWrite`. `RotateReuse` is a revoked token that is presented again.

### BirthProfile: the dialogue of the birth data

`chat` and `data` are the FSM state and data that two dialogues share, `shown`
the place somebody was asked to confirm, `profile` the row by column. Bot and
API `Save` the whole row from a copy read before. `Put` of the route writes what
the client sent, whose place, coordinates and timezone nobody compares; `sent`
remembers them.

### Bootstrap: the start of a process

Each process runs its ensure functions in order: `Find` looks for rows, `Insert`
commits them; `Stop` kills it in between. `rows` counts what is there of each
seed; people add plans and accounts meanwhile.

## The modules: calculators

These are functions; their modules walk through the inputs step by step so that
TLC compares results over a whole range.

* **HumanDesign**: the wheel of 64 gates, the 36 channels, centres, type,
  authority, definition and profile. A step activates a channel. The Sun's
  longitude is a whole number of bases of the wheel.
* **IChing**: coins, lines, and both tables in full: King Wen look-up and the
  trigrams and line texts of all 64 hexagrams, a text kept as the line it
  speaks of.
* **Transits**: the search for exact aspects on a circle of 24 units with a body
  that moves a unit a tick and may turn; sampling, sign change, bisection.
* **Almanac**: Julian day, Tzolkin and numerology, day by day and letter by
  letter.

## Instances and seeded faults

`MCRequestLifecycle`, `MCCreditLedger`, `MCStartTokens` and `MCPayments` give
the constants their values for TLC; `Onboarding` and `IChing` are also checked by
themselves. `MCServices` and `MCPlatform` put the other modules side by side: a
behaviour chooses a *part* at its start and is from then on a behaviour of that
part's module alone. The parts do not interact in them; what crosses their
borders is modelled inside the module that suffers it (an API call beside the
dialogue, a plan that is edited beside the sale). MCServices extends Daily and
MCPlatform StartTokens; every other part is an instance with variables of its own,
which keep their initial values (MCServices) or are "off" (MCPlatform) in the
behaviours of another part; only the four calculators share theirs, `x1` to `x5`.
The constants of the parts that are proved about are constants of the two
modules, with the assumptions the code justifies, and get their values in
`Services.cfg` and `Platform.cfg`; the calculators and the requests and payments of
MCServices have theirs in the module.

Operators whose name ends in a fault (`Refund_KeepsCharge`,
`FindByEmail_Creates`, ...) are used by no specification: each is a definition of
the code with a plausible mistake, and each property is known to fail when its
definition is exchanged for one.

## The runs

| run | configuration | what it shows |
|---|---|---|
| request_safety | `RequestSafety.cfg` | Two bot submissions (a blueprint and a question) of one account with one credit and a subscription that may end, all faults, two tries per job: credits are conserved, a request is refunded once, a finished text stays charged unless its job ran twice or the reply of its enqueue was lost, and every step implements CreditWallet. |
| ledger_races | `LedgerRaces.cfg` | All operations, two transactions at a time, two packages: charges and refunds count, drift needs an expiry or an overwritten change. |
| payments_safety | `PaymentsSafety.cfg` | Two payments, a subscription plan and a package plan, two handlers and the job, one crash: what is paid is credited, twice only by an overlap; a running subscription stays active; access follows the rows; an end is reminded of once. |
| services | `Services.cfg` | Under fairness: daily horoscopes, the string cache, updates and pools, a bot and an API submission, the subscription sweep. What is begun ends, what is stale goes away, what arrives is processed or lost to a named fault, pools settle, answers settle, ended subscriptions lapse; with three safety properties of the same parts. |
| platform | `Platform.cfg` | Links and gifts, onboarding, roles, sign-in, seeding, languages, settings, payouts, calculators, profiles, divinations (fail-open and fail-closed), the gift screen and the sale of plans: their safety and action properties. |
| refund_idempotent | `RefundIdempotent.cfg` | Counterexample: the API's refund credits a request that the worker has refunded. |
| success_not_refunded | `SuccessNotRefunded.cfg` | Counterexample: a re-run job refunds a delivered text. |
| ledger_drift | `LedgerDrift.cfg` | Counterexample: a grant overlapping a charge leaves counter and ledger apart. |
| gift_claimed_once | `GiftClaimedOnce.cfg` | Counterexample: two overlapping claims of one gift are both credited. |
| fulfill_once | `FulfillOnce.cfg` | Counterexample: two overlapping notifications of one payment both credit it. |
| invite_consumed | `InviteConsumed.cfg` | Counterexample: the token comes after the provisioning job, and the use of the invite is not counted. |
| iching_trigrams | `IChingTrigrams.cfg` | Counterexample: the hexagram that is read out is not the one that was thrown. |

### Bounds

*Requests.* Submissions interact only through their account's credits, so two
submissions of one account with fewer credits than submissions are the smallest
case with competition; two tries are the smallest with a re-run. *Ledger.* The
races are between a read and a write of two transactions; a third would only
repeat them, and `MaxCounter`, `MaxCharges` and the two packages keep the numbers
finite while both packages can be drained, expired and topped up. *Payments.*
Two payments are the first and the renewal of one plan, or two rivals for its
index, or a notification and its redelivery; with period, grace and reminder
window of a day each, the three days of `MaxTime` let a subscription start, be
due, end, lapse and be renewed in between; one crash falls between any two
steps. *Tokens.* Two users are a sender and a claimer or a referrer and a
referee, two codes a gift beside a referral code, two sessions an overlap; the
counterexample of the gift has three users, a sender and two rivals.

*Services.* Two hours of a two-hour day and a zone an hour ahead cross a date;
one stop puts the job back, or one fault cuts it off, after any commit. Two readers and an editor, with two
edits and a death, overlap a fill with an edit and an invalidation. A webhook bot
and a polled one with an update each, one change of status and one fault, which
may fall anywhere.

*Platform.* Two people and one invite of one use are the smallest rivalry for
it; two owners and one superadmin who is one of them; two requests and three
tokens are a login rotated twice; two kinds of long-lived processes and the task
worker in four starts; two languages and two calls; a member of the staff and an
API call in three calls; two payments, two deliveries and three periods of which
two make up the third, on two days, so that a delivery may move a payment from
the first to the second; one dialogue and one API call in three saves, the call
with a body that belongs together and with one that does not; two plans, two PATCHes and
an invoice; two gifts, two deadlines and a death. HumanDesign takes fifteen
positions of the Sun around the wheel and every pair of channels; IChing is
exhaustive, all casts; Transits all paths of up to three days with a turn, with
natal points on and off the seam; Almanac 400 days from five dates that cross
the ends of years and February of leap years, common years and centuries, and
all names of up to four letters of a vowel, a consonant, a Y and a mark.

Deadlock is checked for the ledger and the payments, whose operations may always
start again. The other systems do stop: when every submission is over, every
code used, every bound reached.

### Fairness

Only `services` has liveness, and its fairness is on steps that the code takes by
itself:

* a handler that has charged runs on, its coroutine is not waiting for the user
  (`HandlerGoesOn`), and arq polls its queue as long as the worker lives
  (`Worker` of a request, `Run` of a daily job), per request and job;
* the consumer and the polling task loop, Telegram sends an update again until
  it is answered (`Webhook`, `Consume`, `Poll`), the pools reconcile at an interval
  (`Reconcile`), and somebody starts a worker that is down (`WorkerStarts`:
  `docker-compose.yml` has no restart policy, so this is the operator);
* a fill that has begun goes on, an editor drops the keys it has still to drop,
  and Redis drops a key whose TTL is over (`Fill`, `DropHash`, `TtlEnds`);
* arq's cron starts the sweep of subscriptions every hour, and a run goes to its
  end unless it dies, a bounded number of times (`Lifecycle`).

Nothing makes a user act, a fault happen or time pass. Jobs are not retried after
`job_timeout` and are dropped when their tries are used up, so `AnsweredSettles`
is checked with a handler that may crash, and without these two faults, which do
lose jobs.

Symmetry is used in `ledger_races`, `payments_safety` and the counterexamples of
tokens and payments, whose model values are interchangeable, and not where
liveness is checked.

## What the counterexamples say

* `refund_quota` is documented as idempotent. It is for a session that has not
  loaded the request; the API routes have (`api/routes/me.py:269`).
* The jobs say that a successful generation must not be refunded. Within one run
  that holds; a run after a worker stop does not look at what the last one left
  (`tasks/qa.py:77`).
* The counter is documented to equal the ledger's sum. `grant_credits` and
  `adjust_package_credits` read it without a lock (`domain/billing.py:121`).
* Of two concurrent claims of a gift the design lets the first win. The check
  after the lock looks at the object that was loaded before it
  (`bot/handlers/start_tokens.py:144`).
* `fulfill_payment` promises to credit on the transition to "paid" only. It reads
  the status without a lock and writes it without a condition, so two handlers
  at once both make the transition (`domain/billing.py:223`). The plan of that
  change lists an advisory lock as deferred hardening.
* The use of an invite is said to be counted on finalization. It is only counted
  for a tenant that is still "provisioning", a status the job ends before the
  owner has a token to give (`domain/provisioning.py:152`).
* The King Wen table says that the lower trigram is in its low bits. 39 of the 64
  entries name another hexagram (`divination/iching.py:936`).

For most of them a property that does hold says how far the damage can go:
`RefundedAtMostOnce` (the bot's handlers), `NoFreeContent` (for a job
that was not stopped), `DriftNeedsRace`, `PaidTwiceNeedsRace`, `CreditedTwiceNeedsOverlap`,
`TenantsAreOwned`, and `ChartsAgree` (the texts of each hexagram are its own, and no
hexagram is in the King Wen table twice; that it is the one thrown is just what
fails).

Other properties have an excuse in them, a history variable that names an
overlap or a loss: these are the races the code has and does not mend, and the
property says that nothing else breaks the promise. `OneAccount`, `OneLiveToken`,
`StaffRemains`, `StartsAgain`, `LanguageIsServed`, `PaymentsPaidOutOnce`,
`SoldAsOffered`, `StaleOnlyByOverlap`, `UpdateAnswered`, `ClaimEnds`, `PlaceIsWhole`
and `GiftsAddUp` are of this kind. Four of these excuses deserve a word:

* `PaymentsPaidOutOnce` excuses `late` payments, which are in no payout of their
  period, and `moved` ones, which may be in two.
* `ClaimEnds` excuses a day on which the worker was stopped or the job cut off
  while it generated (`interrupted`), and one whose failure could not be written
  (`unrecorded`). Nothing mends such a row: it stays "generating", and no later
  job of that day touches it.
* `PlaceIsWhole` promises that place, coordinates and timezone belong together
  only for what the bot saved. After a call of `PUT /v1/me/natal-profile` they are
  what the client sent; the property says that they are all of that one call.
* `GiftsAddUp` lets the balance be too high by the charges a sweep has written
  over (`undone`): the defect of `ledger_drift` in another place.

## What is proved

TLAPS proves, for every value of the constants (their assumptions are the
`ASSUME`s of the modules: the types of the parameters, finite sets of requests,
languages, payments and periods, distinct expiry ranks, sizes that are not 0,
languages and values that are no markers, longitudes on the wheel, dates of the
calendar):

* **RequestLifecycleProofs.** `TypeCorrect`, `JobRowsExist`, `RefundOnce`,
  `Conserved`, `NoFreeText`, `ImplementsWallet`. The inductive invariant `IInv` adds to the
  types what the properties take for granted: which rows exist in which phase
  (`RowsInv`: otherwise an `Enqueue` could precede a row), that a job exists
  only after the enqueue call and a step only while it runs (`JobsInv`:
  otherwise a job could refund a request without a row), and that `refunds`
  counts exactly the transition of `charged_against` to "none" (`RefundsInv`).
  For `Conserved`, every step is shown to do one of three things to the credits
  (`StepEffect`: nothing, a charge, a refund), and the cardinality of the set of
  holding requests moves against the balance. `ImplementsWallet` maps the same
  three effects to the wallet's actions or a stutter; it assumes that all
  submissions come from the bot, as the API's refund does break the wallet.
* **CreditLedgerProofs.** `FreshUnderLock` and `ChargesExact`, from `LInv`: at most
  one transaction holds the lock, it is the one with a locking plan, and its
  plan is computed from the present counter and ledger. A commit needs the lock
  or its absence, so nobody changes what the holder has read. `DriftIsExplained`,
  from `DInv`: a plan changes the counter by as much as its rows (`PlansAddUp`), if
  it was made from a counter and rows that agreed, and a commit that overwrites
  what the plan had not read is recorded as `stale`.
* **PaymentsProofs.** `NoPaymentForgotten` and `DoubleCreditIsARace` from `CInv`: a
  handler beyond `MarkPaid` carries a paid payment (`PaidInv`), and a payment that
  is not on record as overlapped has one carrier, which has not credited it yet
  (`OnceInv`). `RunningStaysActive`, `ReminderKept` and `OneReminder` from `RInv`,
  which says what the processes have read is worth as long as a row is not
  overtaken: a renewal will write onto the status and mark it read, and a later
  end (`FreshWrites`); what the sweep holds has ended (`SweptEnded`); what is due
  has the end that was read (`DueTrue`); what was reminded of is marked, or about
  to be, and not due again (`SentMarked`). `AccessIsCurrent` from `AInv`: whoever
  is about to write the balance has computed it from the rows it read, and the
  balance is that of the rows unless somebody is on the way to write it. The
  shapes of rows and processes (`TInv`) come first.
* **Sums.** The community modules define a sum by taking members in an order
  that CHOOSE fixes. The lemmas say what everybody takes for granted of it: it is
  the same whichever member is taken first (`SumMember`), depends on the members'
  values only (`SumSame`), is additive over sets apart (`SumApart`) and monotonic
  (`SumWithin`). The library's induction theorems cannot be used here, since no
  prover instantiates their operator parameter; instead each fact is proved of
  the smallest set it could be false of, which exists in a finite set
  (`SmallestSet`, from the well-foundedness of strict inclusion). Least and
  greatest members of sets of numbers follow in the same way.
* **ServicesProofs** (for `FairSpec` of MCServices, any number of accounts,
  tenants, readers, editors, bots and updates). `OneHoroscopeADay`: a job
  *carries* a day from its claim to its end. `Kept` says of every account and day
  that the row is there before a job carries the day, that one job does, and that
  a day somebody carries was not sent. It needs nothing of clock and zones but
  that a date is one of the dates a clock can show; a job that is stopped loses
  the day and can claim it no more. `StaleHasAReason`, from `CleanReads`: what
  a fill has read that no edit overlapped is what the tables hold. One edit of
  any kind is one step of the proof (the texts of some tenants change, their
  fills become dirty, each of them is pending or missed), and so is one drop.
  `ProcessedOnce`: an update of a webhook whose key is in Redis is in one place
  of the way from the claim to the handler (`InOnePlace`: its request, the queue
  once, the worker, or processed), one whose key is not there is in none; an
  update that a polling task has processed is below its offset as long as that
  task polls (`FedOnce`), because every way back to polling leads through a start
  that drops what is pending or records it as renewed.
* **TenantProofs** (for `PlatformSpec` of MCPlatform). `TenantsOwned`: a use is
  left for the one tenant of an invite that is being provisioned, and for the
  finalize call that will count it (`UseIsLeft`); the owner in the row is who
  confirmed last, and has the role before the token is saved (`OwnersKnown`).
  `StaffStays` and `PowerEnds`: what a call was let in for still holds, or the call
  is marked as overtaken (`RunningCalls`), and no removal that runs is of the last
  holder (`LastOneStays`). `SeedsAgain`: a process that is about to add a row
  finds none but its own, unless another one has seeded since (`FindsNoRow`).
  `LanguageServed`: there is one default (`OneDefault`), the chosen one until a call
  or an early seed (`ChosenDefault`), and rows a call has read are never deleted
  (`CallsOfLanguages`). `AuditIsTrue`: the old value a call has read is the one in
  effect until another write marks the call (`ReadsHold`). `PaidOutOnce`: the
  amount of a payout, and of a calculation that is running, lies between the sum
  of the period without its late payments and the sum with them and with those
  that have moved out of it (`Covers`), and whatever is committed later, of a
  payment that is paid already too, leaves it between them (`CommitKeeps`); for
  periods that do not overlap the payments are apart, and the bounds add up
  period by period (`OneMoreAddsUp`), the fees with them, although each is rounded
  by itself.
* **AccountProofs** (for `Spec` of StartTokens and `PlatformSpec`). Of the tokens:
  `TypeCorrect`; `OneReferrer`, from the lock of the
  account row (`Serialized`: a session in its insert has the account to itself
  and the account has no use); `OneReward`, from the conditional update (`RInv`:
  an unclaimed use has no reward); `GiftKept` and `DoublePayIsARace`, from `GInv`
  (an active gift has not been credited, and a session that still holds a
  settled gift is recorded as overtaken). `LoginHasOneToken` counts the tokens that
  are not revoked, not the live ones: a token that expired while a request held
  it can still be rotated. `PersonHasOneAccount` counts creators: whom no two
  requests were creating at once has at most one row, and none while a request
  is creating it. `SalesAreFair`: a row that no overlapping calls tore is one
  that somebody meant (`RowsAreMeant`), because its only call has read it as it
  is (`CallsAreFresh`), and an open invoice that was not edited offers what the
  plan has (`OpenAsOffered`); no plan has size 0, as `api/schemas.py` demands
  (without it, a free plan that is withdrawn looks like no plan).
  `PlaceStaysWhole` and `EditsAreLocal`: a save of the bot carries the three
  columns of one place or a single other column, a save of the route the three of
  its body (`AsSaved`), and a save that has read the row as it is leaves the three
  as it carries them; what was shown last is what the dialogue holds. `ReadingsAreAsked`: the question a handler carries is
  one that no classifier flagged, whether moderation fails open or closed, and
  a row has its draw before a job can tell it and keeps it. `NoCreditLost`: what the
  lock of the balance has seen suffices until the commit (`GiftInv`), a new gift
  adds its amount to the gifts that stand, a claim nothing, and the sweep takes
  off them what it returns (`SweepReturns`). The packages hold what is owed or
  more, the balance holds no less than the packages, and both stay within the
  charges that were written over: a sweep under way has read a balance from which
  only charges were taken since (`SweepRead`), and raises the bound by as many as
  it writes over.

* **ChartProofs** (for `PlatformSpec`): the calculators, which compute. A
  theorem about them is one about every input, not the few TLC gets to.
  `ForecastsAreTrue` is for any circle of a multiple of twelve units, any path
  of a body that takes a unit a tick, any window, and days of any number of
  ticks below a quarter of the circle (`TransitAssumption`; the invariant
  `SkyInv` says no more than that consecutive positions are neighbours). The
  offset from an aspect moves with the body until it wraps (`OffsetMoves`,
  `NoJump`), and so a change of sign is a crossing and not the wrap; the
  bisection keeps a bracket around it (`Brackets`) and halves it until it is one
  tick wide (`BisectFinds`); the half-open days report an exact sample once
  (`HitsAreOnce`); and a body that does not turn goes straight (`Straight`), and
  is found where it meets an aspect (`DayFound`, `NothingMissed`).
  `ChartsAlwaysAgree` has four parts. For designs with any channels, not pairs,
  the argument needs of the body graph only that each channel links two centres
  (`LinkSet`): nine rounds of the search find the least closed set with the
  centre it starts from (`FoundIs`), and types and authorities follow
  (`TypesMeetAuthorities`). Any integer longitude has one of the twelve
  profiles, since 88 degrees are 94 lines less 24 bases (`ProfilesAreTwelve`),
  and a Sun and its Earth stand in gates that face each other, entry by entry of
  the wheel. The texts of all 64 hexagrams are of the lines their trigrams are
  made of, row by row, and a changed line leads to another entry of the King Wen
  table, so that none stands there twice (`ReadingHolds`); which entry belongs to
  which lines is no part of it, and the table has many of them wrong. A day follows another in the Julian
  count over every end of a month, of February by the Gregorian rule and of a
  year, from year 1 to 9999 (`DayFollows`, by `LeapDays`: what the three
  quotients add when a year begins), which makes `DateInv` inductive; tone, sign
  and kin are one count by 13, 20 and 260, before the epoch too (`KinHolds`);
  adding up digits keeps the remainder by nine and comes to an end
  (`DigitsSummed`, `Reduced`), and the vowels and consonants of a name of any
  length share its letters out (`NameNumbers`).

MCServices and MCPlatform are proved about as they are run: a part's invariant is
inductive for the part's steps, and the steps of the other parts leave its
variables alone. `JobRowsExist`, `FreshUnderLock`, `ReminderKept` and the two
`TypeCorrect` of requests and tokens state properties that are proved and no
longer run.

Only model-checked: liveness (`ClaimEnds`, `StaleGoesAway`, `UpdateAnswered`,
`PoolSettles`, `AnsweredSettles`, `EndedLapses`), whose fairness this prover cannot
reason about. Every invariant and every action property of a passing run has a
theorem.

Where the models of the calculators end, their theorems do: positions are whole
numbers of ticks and bases (Python's are floats), a body takes one unit a tick,
and the four rounds of `Reduce` are those of the code for numbers below 10000,
which the letters of a name reach from 1112 letters on.

## What is not modelled

* The LLM and its adapters (a call that answers or raises), the ephemeris, the
  payment providers and the geocoder (they answer or do not), Telegram's
  messages, the screens that only show something, statistics and lists.
* Data no property distinguishes: translations, the texts of cards, hexagrams
  and sections, what only formats a chart (`astrology/sections.py`,
  `gene_keys.py`, `chinese.py`), costs and token counts.
* The database itself: a commit takes effect or not; a commit whose
  acknowledgement is lost is not distinguished from one that failed before.
  Deadlock victims are `Abort` in CreditLedger and a failing call elsewhere.
* Access tokens (a signature and an expiry, no state), the encryption of bot
  tokens, rate limits.
* An administrator's direct edit of `subscription_active_until`, and the refund
  statuses of a payment, which nothing sets.
* `cost_units` is 1 in every caller, so charges are of one credit. The legacy
  `trial` charge cannot be made any more.
* One hazard of `PROJECT.json`'s list has no property: a job that `job_timeout` ends
  leaves its request charged for ever (`CreditsConserved` only says that the request
  holds the credit, and `AnsweredSettles` is checked without this fault). Three more
  are known and not in the list: two invite screens of
  one user opened at once make two referral codes (`domain/referrals.py:37`; both
  work, and only the statistics are split); a failed referral payout rolls back
  the session of its caller, whose objects expire (`domain/quota.py:74`); and
  locks that are taken in different orders (`domain/accounts.py:91`).

## Plan

Every module gets its instance, run, mutants and map before the next is begun.

1. *CreditWallet, RequestLifecycle, CreditLedger, StartTokens, Payments* with
   refinement and proofs. Done.
2. *BotRuntime, Daily, StringCache* with liveness; *Onboarding, TenantConsole,
   SignIn, Bootstrap, TenantLanguages, TenantSettings, Payouts, BirthProfile,
   PlanSales, GiftScreen, Divination*. Done.
3. *HumanDesign, IChing, Transits, Almanac*. Done.
4. Proofs of *Daily* and of the safety properties of *services* and *platform*,
   with a theory of sums and maxima over finite sets. Done.
5. Proofs of *HumanDesign, IChing, Transits, Almanac*. Done.
6. Left: a composition of RequestLifecycle over CreditLedger's counter; the
   remaining calculators (sections and charts, the ephemeris).
