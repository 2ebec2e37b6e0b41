----------------------------- MODULE MCServices -----------------------------
(***************************************************************************)
(* What must happen in the end: the modules that have liveness, each on a  *)
(* small instance, under the fairness its workers justify.  A behaviour is *)
(* a behaviour of one of the modules, the part chosen at the start; the    *)
(* variables of the others keep their initial values.  Daily is extended,  *)
(* the others are instances.                                               *)
(***************************************************************************)
EXTENDS Daily, FiniteSets, Sequences, TLC

CONSTANTS
    ana, r1, r2,                        \* RequestLifecycle, Daily
    p1, p2, h1, Sweeper, monthly,       \* Payments
    \* BotRuntime
    TgBots, Webhooks, Updates, BotOf, MaxChanges, MaxFaults,
    \* StringCache
    Bots, Readers, Editors, MaxEdits, MaxDeaths,
    wb, pb, u1, u2                      \* bots and updates of this instance

VARIABLES
    part,
    \* StringCache
    edits, platform, override, hash, reader, pending, deaths, outrun, missed,
    \* BotRuntime
    botOn, tenantOn, held, call, seen, queue, working, up, pool, poll, handled,
    changes, faults, processed, dropped, renewed,
    \* RequestLifecycle
    credits, subscribed, phase, charge, against, status, content, job, step,
    tries, received, refunds, disturbed,
    \* Payments
    now, payments, subs, until, proc, crashes, credited, lost, overlapped,
    overtaken, drifted, sent, repeated

\* Daily: an account that is an hour ahead.
MCDailyAccounts == {ana}
MCZone == [a \in MCDailyAccounts |-> 1]

\* BotRuntime: a bot with a webhook, a polled one, an update for each.
MCBotOf == (u1 :> wb) @@ (u2 :> pb)

C == INSTANCE StringCache WITH overlapped <- outrun
R == INSTANCE BotRuntime WITH lost <- dropped, repeated <- renewed
Q == INSTANCE RequestLifecycle WITH
        Requests <- {r1, r2}, Accounts <- {ana},
        Owner <- [r \in {r1, r2} |-> ana],
        Kind <- (r1 :> "blueprint") @@ (r2 :> "qa"),
        Surface <- (r1 :> "bot") @@ (r2 :> "api"),
        InitialCredits <- [a \in {ana} |-> 2], Subscribers <- {ana},
        LlmConfigured <- TRUE, MaxTries <- 1, Faults <- {"handler_crash"},
        delivered <- received
B == INSTANCE Payments WITH
        Payments <- {p1, p2}, SubscriptionPlans <- {monthly},
        PackagePlans <- {}, Handlers <- {h1}, Period <- 1, Grace <- 1,
        Remind <- 1, MaxTime <- 2, MaxCrashes <- 1

stringVars == <<edits, platform, override, hash, reader, pending, deaths,
                outrun, missed>>
botVars == <<botOn, tenantOn, held, call, seen, queue, working, up, pool, poll,
             handled, changes, faults, processed, dropped, renewed>>
requestVars == <<credits, subscribed, phase, charge, against, status, content,
                 job, step, tries, received, refunds, disturbed>>
billingVars == <<now, payments, subs, until, proc, crashes, credited, lost,
                 overlapped, overtaken, drifted, sent, repeated>>
serviceVars == <<part, vars, stringVars, botVars, requestVars, billingVars>>

Parts == {"daily", "strings", "bots", "requests", "billing"}

ServicesInit ==
    /\ part \in Parts
    /\ Init /\ C!Init /\ R!Init /\ Q!Init /\ B!Init
    /\ part # "daily" => settings = [a \in MCDailyAccounts |-> NoRow]

\* The part that runs, and the variables of the others.
OnlyDaily ==
    part = "daily"
    /\ UNCHANGED <<part, stringVars, botVars, requestVars, billingVars>>
OnlyStrings ==
    part = "strings"
    /\ UNCHANGED <<part, vars, botVars, requestVars, billingVars>>
OnlyBots ==
    part = "bots"
    /\ UNCHANGED <<part, vars, stringVars, requestVars, billingVars>>
OnlyRequests ==
    part = "requests"
    /\ UNCHANGED <<part, vars, stringVars, botVars, billingVars>>
OnlyBilling ==
    part = "billing"
    /\ UNCHANGED <<part, vars, stringVars, botVars, requestVars>>

ServicesNext ==
    \/ OnlyDaily /\ Next
    \/ OnlyStrings /\ C!Next
    \/ OnlyBots /\ R!Next
    \/ OnlyRequests /\ Q!Next
    \/ OnlyBilling /\ B!Next

\* The jobs of the task worker run to their end, the readers and editors of
\* the cache go on and Redis drops what is old, Telegram sends again and the
\* workers loop, and somebody starts a worker that is down.
Fairness ==
    /\ \A j \in JobIds : WF_serviceVars(OnlyDaily /\ Run(j))
    /\ \A b \in Bots :
          /\ \A r \in Readers : WF_serviceVars(OnlyStrings /\ C!Fill(r, b))
          /\ \A e \in Editors : WF_serviceVars(OnlyStrings /\ C!DropHash(e, b))
          /\ WF_serviceVars(OnlyStrings /\ C!TtlEnds(b))
    /\ \A u \in Updates : WF_serviceVars(OnlyBots /\ R!Webhook(u))
    /\ WF_serviceVars(OnlyBots /\ R!Consume)
    /\ \A b \in R!Polled : WF_serviceVars(OnlyBots /\ R!Poll(b))
    /\ \A w \in R!Workers :
          /\ WF_serviceVars(OnlyBots /\ R!Reconcile(w))
          /\ WF_serviceVars(OnlyBots /\ R!WorkerStarts(w))
    /\ \A r \in {r1, r2} :
          /\ WF_serviceVars(OnlyRequests /\ Q!HandlerGoesOn(r))
          /\ WF_serviceVars(OnlyRequests /\ Q!Worker(r))
    /\ WF_serviceVars(OnlyBilling /\ B!Lifecycle)

FairSpec == ServicesInit /\ [][ServicesNext]_serviceVars /\ Fairness

-----------------------------------------------------------------------------
(* StringCache: why a cached text may be old (i18n/cache.py 29-38).        *)
StaleOnlyByOverlap == C!StaleOnlyByOverlap
(* StringCache: an old text goes away (i18n/cache.py 36-37).               *)
StaleGoesAway == C!StaleGoesAway
(* BotRuntime: no update is processed twice (redis_client.py 18-31).       *)
UpdateOnce == R!UpdateOnce
(* BotRuntime: an update is processed or lost (api/routes/webhook.py).     *)
UpdateAnswered == R!UpdateAnswered
(* BotRuntime: the pools follow the database (bot/reload.py).              *)
PoolSettles == part = "bots" => R!PoolSettles
(* RequestLifecycle: every answered submission settles (tasks/*.py).       *)
AnsweredSettles == Q!AnsweredSettles
(* Payments: a subscription that has ended lapses (domain/lifecycle.py).   *)
EndedLapses == B!EndedLapses
=============================================================================
