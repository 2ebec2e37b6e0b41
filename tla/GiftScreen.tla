----------------------------- MODULE GiftScreen -----------------------------
(***************************************************************************)
(* The gift screen of a tenant's bot: the dialogue in which a sender turns *)
(* credits of the balance into a link, and the sweep that takes back what  *)
(* has expired each time the sender opens the screen.                      *)
(*                                                                         *)
(* One worker handles the updates of the bot one at a time; the API spends *)
(* credits of the same account beside it, and the staff changes the days a *)
(* gift lives.  create_gift holds the lock of the balance's row from its   *)
(* check to the commit; the sweep reads the balance without it and writes  *)
(* what it read and what it returns.  The balance is a counter beside the  *)
(* packages the credits are in: a charge takes from both, a gift takes     *)
(* from the packages and sets the counter to what they hold.  (StartTokens *)
(* has several sessions, and their races; CreditLedger has each package.)  *)
(***************************************************************************)
EXTENDS Integers, Sequences, Functions

CONSTANTS
    Credits,        \* package_credits of the sender at first
    MaxGift,        \* MAX_GIFT_AMOUNT
    ExpiryDays,     \* values of gift.expiry_days; the API stores any number
    MaxGifts,       \* bound: gifts made
    LastDay,        \* bound: the clock stops here
    MaxDeaths       \* bound: how often the worker dies

VARIABLES
    day,            \* utcnow()
    days,           \* gift.expiry_days of the tenant
    enabled,        \* the feature "gifts"
    named,          \* TenantBot.bot_username is known
    balance,        \* package_credits of the sender
    packages,       \* what the sender's packages hold
    spent,          \* credits the sender's requests have taken
    gifts,          \* the rows of start_tokens, and what became of the link
    awaiting,       \* max_amount of the dialogue, 0 when there is none
    step,           \* what the worker is in the middle of
    deaths,
    undone          \* history: charges that a sweep has written over

vars == <<day, days, enabled, named, balance, packages, spent, gifts,
          awaiting, step, deaths, undone>>

Least(m, n) == IF m < n THEN m ELSE n
NoStep == [op |-> "none", amount |-> 0, swept |-> {}, beside |-> 0]

Init ==
    /\ day = 0
    /\ days \in ExpiryDays
    /\ enabled = TRUE
    /\ named \in BOOLEAN
    /\ balance = Credits /\ packages = Credits /\ spent = 0
    /\ gifts = <<>>
    /\ awaiting = 0
    /\ step = NoStep
    /\ deaths = 0
    /\ undone = 0

Free == step = NoStep
Expired(g) == g.expires <= day

-----------------------------------------------------------------------------
(* The sender.                                                             *)

\* on_gift_create
OnGiftCreate ==
    /\ Free /\ enabled
    /\ balance >= 1
    /\ awaiting' = Least(balance, MaxGift)
    /\ UNCHANGED <<day, days, enabled, named, balance, packages, spent, gifts,
                   step, deaths, undone>>

\* on_gift_cancel
OnGiftCancel ==
    /\ Free /\ awaiting # 0
    /\ awaiting' = 0
    /\ UNCHANGED <<day, days, enabled, named, balance, packages, spent, gifts,
                   step, deaths, undone>>

\* on_amount_received, with a number the dialogue lets through: others, and
\* what is no number, leave it open.
OnAmountReceived(n) ==
    /\ Free /\ awaiting # 0
    /\ n \in 1..awaiting
    /\ step' = [NoStep EXCEPT !.op = "amount", !.amount = n]
    /\ UNCHANGED <<day, days, enabled, named, balance, packages, spent, gifts,
                   awaiting, deaths, undone>>

\* create_gift locks the balance and finds that the credits do not suffice:
\* InsufficientCreditsError, and the dialogue ends.
LockBalanceFails ==
    /\ step.op = "amount"
    /\ balance < step.amount
    /\ step' = NoStep
    /\ awaiting' = 0
    /\ UNCHANGED <<day, days, enabled, named, balance, packages, spent, gifts,
                   deaths, undone>>

(* Seeded fault: the maximum that the dialogue holds is trusted.            *)
LockBalance_Trusting ==
    /\ step.op = "amount"
    /\ step' = [step EXCEPT !.op = "locked"]
    /\ UNCHANGED <<day, days, enabled, named, balance, packages, spent, gifts,
                   awaiting, deaths, undone>>

\* create_gift locks the balance and finds enough.
LockBalance ==
    /\ step.op = "amount"
    /\ balance >= step.amount
    /\ step' = [step EXCEPT !.op = "locked"]
    /\ UNCHANGED <<day, days, enabled, named, balance, packages, spent, gifts,
                   awaiting, deaths, undone>>

\* What is left of n when k are taken: _oldest_valid_package until none is.
Drained(n, k) == n - Least(n, k)

\* The commit of the debit, adjust_package_credits, and of the token.
CreateGift ==
    /\ step.op = "locked"
    /\ Len(gifts) < MaxGifts
    /\ packages' = Drained(packages, step.amount)
    /\ balance' = packages'
    /\ gifts' = Append(gifts, [amount |-> step.amount, status |-> "active",
                               expires |-> day + days, shown |-> FALSE])
    /\ step' = [step EXCEPT !.op = IF named THEN "show" ELSE "hide"]
    /\ UNCHANGED <<day, days, enabled, named, spent, awaiting, deaths,
                   undone>>

\* The message with the link; without a username the sender is told that
\* gifts are disabled, though the gift is made.
Answer ==
    /\ step.op \in {"show", "hide"}
    /\ gifts' = [gifts EXCEPT ![Len(gifts)].shown = (step.op = "show")]
    /\ step' = NoStep
    /\ awaiting' = 0
    /\ UNCHANGED <<day, days, enabled, named, balance, packages, spent,
                   deaths, undone>>

\* What sweep_expired_gifts selects, and the credits of some gifts.
Lapsed(g) == g.status = "active" /\ Expired(g)
Amounts(chosen) ==
    SumFunctionOnSet([i \in DOMAIN gifts |-> gifts[i].amount], chosen)

\* show_gift_screen, which does not touch the dialogue: sweep_expired_gifts
\* selects the rows, and grant_credits reads the balance, without a lock.
ShowGiftScreen ==
    LET lapsed == {i \in DOMAIN gifts : Lapsed(gifts[i])} IN
    /\ Free /\ enabled
    /\ lapsed # {}
    /\ step' = [NoStep EXCEPT !.op = "sweep", !.amount = balance,
                              !.swept = lapsed]
    /\ UNCHANGED <<day, days, enabled, named, balance, packages, spent, gifts,
                   awaiting, deaths, undone>>

\* The flush of grant_credits writes the balance it read and the credits of
\* the gifts; its lock is held until the screen commits.
CommitSweep ==
    /\ step.op = "sweep"
    /\ balance' = step.amount + Amounts(step.swept)
    /\ packages' = packages + Amounts(step.swept)
    /\ gifts' = [i \in DOMAIN gifts |->
                    IF i \in step.swept
                    THEN [gifts[i] EXCEPT !.status = "refunded"]
                    ELSE gifts[i]]
    /\ undone' = undone + step.beside
    /\ step' = NoStep
    /\ UNCHANGED <<day, days, enabled, named, spent, awaiting, deaths>>

-----------------------------------------------------------------------------
(* The others.                                                             *)

\* A friend who was given the link opens it (StartTokens).
Claim(i) ==
    /\ Free
    /\ gifts[i].shown
    /\ gifts[i].status = "active" /\ ~Expired(gifts[i])
    /\ gifts' = [gifts EXCEPT ![i].status = "claimed"]
    /\ UNCHANGED <<day, days, enabled, named, balance, packages, spent,
                   awaiting, step, deaths, undone>>

\* A request through the API takes a credit; it waits for the lock.
Spend ==
    /\ balance > 0 /\ step.op # "locked"
    /\ balance' = balance - 1
    /\ packages' = Drained(packages, 1)
    /\ spent' = spent + 1
    /\ step' = [step EXCEPT !.beside = IF step.op = "sweep" THEN @ + 1 ELSE @]
    /\ UNCHANGED <<day, days, enabled, named, gifts, awaiting, deaths,
                   undone>>

\* The staff changes the days, or the feature (TenantSettings).
SetExpiryDays(d) ==
    /\ days' = d
    /\ UNCHANGED <<day, enabled, named, balance, packages, spent, gifts,
                   awaiting, step, deaths, undone>>

ToggleGifts ==
    /\ enabled' = ~enabled
    /\ UNCHANGED <<day, days, named, balance, packages, spent, gifts,
                   awaiting, step, deaths, undone>>

NextDay ==
    /\ day < LastDay
    /\ day' = day + 1
    /\ UNCHANGED <<days, enabled, named, balance, packages, spent, gifts,
                   awaiting, step, deaths, undone>>

\* The worker dies and the update is lost; the dialogue is kept in Redis.
WorkerDies ==
    /\ ~Free /\ deaths < MaxDeaths
    /\ deaths' = deaths + 1
    /\ step' = NoStep
    /\ UNCHANGED <<day, days, enabled, named, balance, packages, spent, gifts,
                   awaiting, undone>>

Next ==
    \/ OnGiftCreate \/ OnGiftCancel \/ ShowGiftScreen \/ CommitSweep
    \/ \E n \in 1..MaxGift : OnAmountReceived(n)
    \/ LockBalance \/ LockBalanceFails \/ CreateGift \/ Answer
    \/ \E i \in DOMAIN gifts : Claim(i)
    \/ Spend
    \/ \E d \in ExpiryDays : SetExpiryDays(d)
    \/ ToggleGifts \/ NextDay \/ WorkerDies

Spec == Init /\ [][Next]_vars

-----------------------------------------------------------------------------
(* No credit is lost: what the sender began with is in the balance, was    *)
(* spent, or is in a gift that is open or claimed, although the dialogue   *)
(* checks an amount against a balance it read long before, the worker dies *)
(* around the commit and the amount is sent again, and the days of a gift  *)
(* change.  None is made either, but for a charge that committed between   *)
(* the read and the write of a sweep, which is written over in the balance *)
(* until a gift sets it to what the packages hold                          *)
(* (bot/handlers/gift.py 63-78 and 122-222, domain/gifts.py 135-184 and    *)
(* 228-280, domain/billing.py 118-124, domain/accounts.py 87-100).         *)
GiftsAddUp ==
    LET total == balance + spent
                 + Amounts({i \in DOMAIN gifts : gifts[i].status # "refunded"})
    IN
    /\ balance >= 0
    /\ Credits <= total /\ total <= Credits + undone
    /\ undone <= spent
=============================================================================
