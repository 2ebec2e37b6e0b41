------------------------------ MODULE Payments ------------------------------
(***************************************************************************)
(* What one account buys: invoices, the crediting of payments and the      *)
(* subscriptions that payments start or renew (domain/billing.py), and the *)
(* hourly job that lets subscriptions lapse and sends renewal reminders    *)
(* (domain/lifecycle.py, tasks/lifecycle.py).                              *)
(*                                                                         *)
(* A process is a handler of Telegram's payment notification or the job;   *)
(* each of its steps is one read or one commit.  An ORM object is written  *)
(* as the attributes that differ from what was read: a renewal of a row    *)
(* that was read as "active" does not write its status.                    *)
(***************************************************************************)
EXTENDS Integers, Sequences, FiniteSetsExt

CONSTANTS
    Payments,             \* payments the account may make
    SubscriptionPlans,
    PackagePlans,
    Handlers,             \* concurrent payment notifications
    Sweeper,              \* the hourly job
    Period,               \* period_days, for every subscription plan
    Grace,                \* GRACE_DAYS
    Remind,               \* REMINDER_DAYS
    MaxTime,              \* bound: days that pass
    MaxCrashes            \* bound: processes that die

Plans == SubscriptionPlans \cup PackagePlans
Processes == Handlers \cup {Sweeper}

ASSUME PaymentsAssumption ==
    /\ SubscriptionPlans \cap PackagePlans = {}
    /\ Sweeper \notin Handlers
    /\ Period \in Nat \ {0} /\ Grace \in Nat /\ Remind \in Nat
    /\ MaxTime \in Nat /\ MaxCrashes \in Nat

VARIABLES
    now,         \* utcnow(), in days
    payments,    \* the rows of payments that exist: status and plan
    subs,        \* the rows of account_subscriptions, in order of insertion
    until,       \* subscription_active_until, 0 for none
    proc,        \* where each process is and what it has read
    crashes,     \* processes that died so far
    credited,    \* history: how often a payment was credited
    lost,        \* history: paid payments whose crediting ended without effect
    overlapped,  \* history: payments read as pending by two handlers at once
    overtaken,   \* history: subscriptions that job and renewal changed at once
    drifted,     \* history: a balance was written from rows no longer true
    sent,        \* history: reminders sent, a subscription and its end each
    repeated     \* history: the reminders that were sent a second time

Idle == [op |-> "idle"]
rows == <<payments, subs, until>>
histories == <<credited, lost, overlapped, overtaken, drifted, sent, repeated>>
vars == <<now, rows, proc, crashes, histories>>

Invoices == DOMAIN payments
IsLive(row) == row.status \in {"active", "grace"}

(* The rows the partial unique index uq_active_subscription_per_plan is    *)
(* about: at most one of each plan.                                        *)
LiveRows(plan) == {i \in DOMAIN subs : subs[i].plan = plan /\ IsLive(subs[i])}

Goto(q, x) == proc' = [proc EXCEPT ![q] = x]

Init ==
    /\ now = 1
    /\ payments = [p \in {} |-> Idle]
    /\ subs = <<>>
    /\ until = 0
    /\ proc = [q \in Processes |-> Idle]
    /\ crashes = 0
    /\ credited = [p \in Payments |-> 0]
    /\ lost = {}
    /\ overlapped = {}
    /\ overtaken = {}
    /\ drifted = FALSE
    /\ sent = {}
    /\ repeated = {}

-----------------------------------------------------------------------------
(* Buying                                                                  *)

(* on_buy_pick: a pending payment for a plan that is on offer.            *)
Invoice(p, plan) ==
    /\ p \notin Invoices
    /\ payments' = [r \in Invoices \cup {p} |->
                       IF r = p THEN [status |-> "pending", plan |-> plan]
                       ELSE payments[r]]
    /\ UNCHANGED <<now, subs, until, proc, crashes, histories>>

(* The payment a handler has read and not yet credited.                    *)
Carries(h, p) ==
    proc[h].op \in {"mark", "plan", "write"} /\ proc[h].payment = p

(* Seeded fault: the status is not looked at.                              *)
ReadPayment_AnyStatus(h, p) ==
    /\ proc[h] = Idle
    /\ p \in Invoices
    /\ overlapped' = IF \E k \in Handlers : Carries(k, p)
                     THEN overlapped \cup {p} ELSE overlapped
    /\ Goto(h, [op |-> "mark", payment |-> p])
    /\ UNCHANGED <<now, rows, crashes, credited, lost, overtaken, drifted,
                   sent, repeated>>

(* fulfill_payment, on the first or any later notification of a payment:   *)
(* it goes on if the payment is still pending.                             *)
ReadPayment(h, p) ==
    /\ proc[h] = Idle
    /\ p \in Invoices
    /\ payments[p].status = "pending"
    /\ overlapped' = IF \E k \in Handlers : Carries(k, p)
                     THEN overlapped \cup {p} ELSE overlapped
    /\ Goto(h, [op |-> "mark", payment |-> p])
    /\ UNCHANGED <<now, rows, crashes, credited, lost, overtaken, drifted,
                   sent, repeated>>

(* Seeded fault: mark_payment_paid, after which nobody credits.            *)
MarkPaid_Only(h) ==
    /\ proc[h].op = "mark"
    /\ payments' = [payments EXCEPT ![proc[h].payment].status = "paid"]
    /\ Goto(h, Idle)
    /\ UNCHANGED <<now, subs, until, crashes, histories>>

(* ... marks it paid in a commit of its own, ...                           *)
MarkPaid(h) ==
    LET p == proc[h].payment IN
    /\ proc[h].op = "mark"
    /\ payments' = [payments EXCEPT ![p].status = "paid"]
    /\ Goto(h, [op |-> "plan", payment |-> p])
    /\ UNCHANGED <<now, subs, until, crashes, histories>>

(* ... credits nothing if an administrator has withdrawn the plan since    *)
(* the invoice, ...                                                        *)
PlanWithdrawn(h) ==
    /\ proc[h].op = "plan"
    /\ lost' = lost \cup {proc[h].payment}
    /\ Goto(h, Idle)
    /\ UNCHANGED <<now, rows, crashes, credited, overlapped, overtaken,
                   drifted, sent, repeated>>

(* ... and grants the credits of a package: CreditLedger's Grant.          *)
ApplyPackagePayment(h) ==
    LET p == proc[h].payment IN
    /\ proc[h].op = "plan"
    /\ payments[p].plan \in PackagePlans
    /\ credited' = [credited EXCEPT ![p] = @ + 1]
    /\ Goto(h, Idle)
    /\ UNCHANGED <<now, rows, crashes, lost, overlapped, overtaken, drifted,
                   sent, repeated>>

-----------------------------------------------------------------------------
(* Subscriptions                                                           *)

(* apply_subscription_payment reads the live row of the plan, if any, and  *)
(* computes the new end from the old one or from now.                      *)
ReadSubscription(h) ==
    LET p    == proc[h].payment
        plan == payments[p].plan
        Write(i, status, ends, reminded) ==
            [op |-> "write", payment |-> p, plan |-> plan, sub |-> i,
             status |-> status, ends |-> ends, reminded |-> reminded]
    IN
    /\ proc[h].op = "plan"
    /\ plan \in SubscriptionPlans
    /\ \/ /\ LiveRows(plan) = {}
          /\ Goto(h, Write(0, "active", now + Period, FALSE))
       \/ \E i \in LiveRows(plan) :
             Goto(h, Write(i, subs[i].status, Max({subs[i].ends, now}) + Period,
                           subs[i].reminded))
    /\ UNCHANGED <<now, rows, crashes, histories>>

(* Seeded fault: reminder_sent_at is kept.                                 *)
Renewed_KeepsReminder(row, x) ==
    [row EXCEPT !.ends = x.ends,
                !.status = IF x.status = "active" THEN @ ELSE "active"]

(* The row after a renewal that planned x: ends_at is always written,      *)
(* status and reminder_sent_at only if they were read as something else.   *)
Renewed(row, x) ==
    [row EXCEPT !.ends = x.ends,
                !.status = IF x.status = "active" THEN @ ELSE "active",
                !.reminded = IF x.reminded THEN FALSE ELSE @]

NewRow(x) ==
    [plan |-> x.plan, status |-> "active", ends |-> x.ends, reminded |-> FALSE]

SubsAfter(x) ==
    IF x.sub = 0 THEN Append(subs, NewRow(x))
    ELSE [subs EXCEPT ![x.sub] = Renewed(@, x)]

(* Rows the job has updated and not yet committed, ...                     *)
Locked == IF proc[Sweeper].op = "lapsed" THEN proc[Sweeper].ended ELSE {}

(* ... and all rows it has read and may still change.                      *)
InSweep ==
    CASE proc[Sweeper].op = "ended" -> proc[Sweeper].ended
      [] proc[Sweeper].op = "lapsed" -> proc[Sweeper].ended \cup proc[Sweeper].lapsed
      [] proc[Sweeper].op \in {"remind", "reminded"} ->
             {d[1] : d \in proc[Sweeper].due}
      [] OTHER -> {}

(* The rows that handlers hs have read and are going to renew.             *)
InRenewal(hs) == {proc[h].sub : h \in {k \in hs : proc[k].op = "write"}} \ {0}

(* Seeded fault: the index leaves rows in grace out.                       *)
Violates_ActiveOnly(x) ==
    /\ x.sub # 0 => IsLive(Renewed(subs[x.sub], x))
    /\ \E i \in LiveRows(x.plan) \ {x.sub} : subs[i].status = "active"

(* A live row may not join another one of its plan.                        *)
Violates(x) ==
    /\ x.sub # 0 => IsLive(Renewed(subs[x.sub], x))
    /\ LiveRows(x.plan) \ {x.sub} # {}

(* The commit of apply_subscription_payment.                               *)
WriteSubscription(h) ==
    LET x == proc[h] IN
    /\ x.op = "write"
    /\ (LiveRows(x.plan) \cup {x.sub}) \cap Locked = {}
    /\ ~Violates(x)
    /\ subs' = SubsAfter(x)
    /\ credited' = [credited EXCEPT ![x.payment] = @ + 1]
    /\ overtaken' =
           overtaken \cup ({x.sub} \cap (InSweep \cup InRenewal(Handlers \ {h})))
    /\ Goto(h, [op |-> "recompute"])
    /\ UNCHANGED <<now, payments, until, crashes, lost, overlapped,
                   drifted, sent, repeated>>

(* IntegrityError: the payment stays paid and is not credited.             *)
WriteRefused(h) ==
    LET x == proc[h] IN
    /\ x.op = "write"
    /\ (LiveRows(x.plan) \cup {x.sub}) \cap Locked = {}
    /\ Violates(x)
    /\ lost' = lost \cup {x.payment}
    /\ Goto(h, Idle)
    /\ UNCHANGED <<now, rows, crashes, credited, overlapped, overtaken,
                   drifted, sent, repeated>>

(* Seeded fault: no days of grace.                                         *)
EffectiveEnd_NoGrace(row) == row.ends

EffectiveEnd(row) == IF row.status = "grace" THEN row.ends + Grace ELSE row.ends

EffectiveUntil ==
    Max({0} \cup {EffectiveEnd(subs[i]) : i \in {j \in DOMAIN subs : IsLive(subs[j])}})

(* recompute_account_balance, of a handler or of the job.                  *)
RecomputeRead(q) ==
    /\ proc[q].op = "recompute"
    /\ Goto(q, [op |-> "balance", read |-> until, subs |-> subs,
                until |-> EffectiveUntil])
    /\ UNCHANGED <<now, rows, crashes, histories>>

RecomputeWrite(q) ==
    LET x == proc[q] IN
    /\ x.op = "balance"
    /\ until' = IF x.until = x.read THEN until ELSE x.until
    /\ drifted' = (drifted \/ x.read # until \/ x.subs # subs)
    /\ Goto(q, IF q = Sweeper THEN [op |-> "due"] ELSE Idle)
    /\ UNCHANGED <<now, payments, subs, crashes, credited, lost,
                   overlapped, overtaken, sent, repeated>>

-----------------------------------------------------------------------------
(* The hourly job                                                          *)

(* Seeded fault: it also takes rows that end before the next run.          *)
Ended_TooEarly(row) == row.status = "active" /\ row.ends <= now + 1

Ended(row) == row.status = "active" /\ row.ends <= now

(* sweep_subscriptions selects the active rows that have ended; ...        *)
FindEnded ==
    /\ proc[Sweeper] = Idle
    /\ Goto(Sweeper, [op |-> "ended", at |-> now,
                      ended |-> {i \in DOMAIN subs : Ended(subs[i])}])
    /\ UNCHANGED <<now, rows, crashes, histories>>

(* ... flushes them as "grace", which locks them until the commit, and     *)
(* selects the rows in grace that have lapsed, those just flushed too; ... *)
FindLapsed ==
    LET x == proc[Sweeper] IN
    /\ x.op = "ended"
    /\ Goto(Sweeper,
            [op |-> "lapsed", ended |-> x.ended,
             lapsed |-> {i \in DOMAIN subs :
                            /\ subs[i].status = "grace" \/ i \in x.ended
                            /\ subs[i].ends <= x.at - Grace}])
    /\ UNCHANGED <<now, rows, crashes, histories>>

(* Seeded fault: the session is closed without a commit.                   *)
SweepCommit_RolledBack ==
    /\ proc[Sweeper].op = "lapsed"
    /\ Goto(Sweeper, [op |-> "recompute"])
    /\ UNCHANGED <<now, rows, crashes, histories>>

(* ... and commits.  The balance is recomputed if a row has changed.       *)
SweepCommit ==
    LET x == proc[Sweeper]
        affected == x.ended \cup x.lapsed
    IN
    /\ x.op = "lapsed"
    /\ subs' = [i \in DOMAIN subs |->
                   IF i \in x.lapsed THEN [subs[i] EXCEPT !.status = "expired"]
                   ELSE IF i \in x.ended THEN [subs[i] EXCEPT !.status = "grace"]
                   ELSE subs[i]]
    /\ overtaken' = overtaken \cup (affected \cap InRenewal(Handlers))
    /\ Goto(Sweeper, [op |-> IF affected = {} THEN "due" ELSE "recompute"])
    /\ UNCHANGED <<now, payments, until, crashes, credited, lost,
                   overlapped, drifted, sent, repeated>>

(* due_renewal_reminders                                                   *)
FindDue ==
    LET due == {i \in DOMAIN subs :
                   /\ subs[i].status = "active" /\ ~subs[i].reminded
                   /\ now < subs[i].ends /\ subs[i].ends <= now + Remind}
    IN
    /\ proc[Sweeper].op = "due"
    /\ Goto(Sweeper, IF due = {} THEN Idle
                     ELSE [op |-> "remind", due |-> {<<i, subs[i].ends>> : i \in due}])
    /\ UNCHANGED <<now, rows, crashes, histories>>

(* One reminder is done with; the job is over when none is left.           *)
AfterReminder(d) ==
    LET left == proc[Sweeper].due \ {d} IN
    IF left = {} THEN Idle ELSE [op |-> "remind", due |-> left]

SendReminder(d) ==
    /\ proc[Sweeper].op = "remind"
    /\ d \in proc[Sweeper].due
    /\ Goto(Sweeper, [op |-> "reminded", due |-> proc[Sweeper].due, one |-> d])
    /\ sent' = sent \cup {d}
    /\ repeated' = repeated \cup ({d} \cap sent)
    /\ UNCHANGED <<now, rows, crashes, credited, lost, overlapped, overtaken, drifted>>

(* No bot, no chat, or the message was not delivered: not marked.          *)
SkipReminder(d) ==
    /\ proc[Sweeper].op = "remind"
    /\ d \in proc[Sweeper].due
    /\ Goto(Sweeper, AfterReminder(d))
    /\ UNCHANGED <<now, rows, crashes, histories>>

(* Seeded fault: the mark is not saved.                                    *)
MarkReminderSent_NotSaved ==
    /\ proc[Sweeper].op = "reminded"
    /\ Goto(Sweeper, AfterReminder(proc[Sweeper].one))
    /\ UNCHANGED <<now, rows, crashes, histories>>

(* mark_reminder_sent, in a session of its own.                            *)
MarkReminderSent ==
    LET i == proc[Sweeper].one[1] IN
    /\ proc[Sweeper].op = "reminded"
    /\ subs' = [subs EXCEPT ![i].reminded = TRUE]
    /\ overtaken' = overtaken \cup ({i} \cap InRenewal(Handlers))
    /\ Goto(Sweeper, AfterReminder(proc[Sweeper].one))
    /\ UNCHANGED <<now, payments, until, crashes, credited, lost,
                   overlapped, drifted, sent, repeated>>

-----------------------------------------------------------------------------
(* A process dies, or its transaction fails: what is committed stays.      *)
Crash(q) ==
    /\ proc[q] # Idle
    /\ crashes < MaxCrashes
    /\ crashes' = crashes + 1
    /\ lost' = IF proc[q].op \in {"plan", "write"}
               THEN lost \cup {proc[q].payment} ELSE lost
    /\ drifted' = (drifted \/ proc[q].op \in {"recompute", "balance"})
    /\ Goto(q, Idle)
    /\ UNCHANGED <<now, rows, credited, overlapped, overtaken, sent, repeated>>

Tick ==
    /\ now < MaxTime
    /\ now' = now + 1
    /\ UNCHANGED <<rows, proc, crashes, histories>>

Fulfill(h) ==
    \/ \E p \in Payments : ReadPayment(h, p)
    \/ MarkPaid(h) \/ PlanWithdrawn(h) \/ ApplyPackagePayment(h)
    \/ ReadSubscription(h) \/ WriteSubscription(h) \/ WriteRefused(h)
    \/ RecomputeRead(h) \/ RecomputeWrite(h)

Lifecycle ==
    \/ FindEnded \/ FindLapsed \/ SweepCommit \/ FindDue \/ MarkReminderSent
    \/ RecomputeRead(Sweeper) \/ RecomputeWrite(Sweeper)
    \/ proc[Sweeper].op = "remind" /\
         \E d \in proc[Sweeper].due : SendReminder(d) \/ SkipReminder(d)

Next ==
    \/ \E p \in Payments, plan \in Plans : Invoice(p, plan)
    \/ \E h \in Handlers : Fulfill(h)
    \/ Lifecycle
    \/ \E q \in Processes : Crash(q)
    \/ Tick

Spec == Init /\ [][Next]_vars

(* The job runs every hour, and to its end unless the worker dies.         *)
FairSpec == Spec /\ WF_vars(Lifecycle)

-----------------------------------------------------------------------------
(* Properties                                                              *)

Row == [plan : SubscriptionPlans, status : {"active", "grace", "expired"},
        ends : Nat, reminded : BOOLEAN]

(* The rows keep their types, and no plan has two live subscriptions,      *)
(* which scalar_one_or_none of apply_subscription_payment relies on.       *)
TypeOK ==
    /\ now \in 1..MaxTime /\ crashes \in 0..MaxCrashes
    /\ Invoices \subseteq Payments
    /\ payments \in [Invoices -> [status : {"pending", "paid"}, plan : Plans]]
    /\ subs \in Seq(Row)
    /\ \A plan \in Plans : \A i, j \in LiveRows(plan) : i = j
    /\ until \in Nat
    /\ DOMAIN proc = Processes
    /\ credited \in [Payments -> Nat]
    /\ lost \subseteq Payments /\ overlapped \subseteq Payments

(* fulfill_payment credits a payment twice only if two notifications of it *)
(* were handled at once: a later redelivery, even after a crash, does not. *)
CreditedTwiceNeedsOverlap ==
    \A p \in Payments : credited[p] > 1 => p \in overlapped

(* A payment that is marked paid gets credited, unless its plan was        *)
(* withdrawn, its handler died between the two commits, or the index       *)
(* refused the subscription; one that is not paid is never credited.       *)
PaidIsCredited ==
    \A p \in Payments :
        IF p \in Invoices /\ payments[p].status = "paid"
        THEN credited[p] > 0 \/ p \in lost \/ \E h \in Handlers : Carries(h, p)
        ELSE credited[p] = 0

(* A subscription that was paid for and has not ended is active: the job   *)
(* takes it away only if a renewal ran at the same time.                   *)
ActiveWhileRunning ==
    \A i \in DOMAIN subs :
        subs[i].ends > now => subs[i].status = "active" \/ i \in overtaken

(* subscription_active_until is the latest end of a live subscription, the *)
(* days of grace included, unless somebody is about to recompute it, died  *)
(* before doing so, or two recomputations overlapped.                      *)
AccessFollowsRows ==
    \/ drifted
    \/ \E q \in Processes : proc[q].op \in {"recompute", "balance"}
    \/ until = Max({0} \cup {subs[i].ends : i \in {j \in DOMAIN subs : subs[j].status = "active"}}
                       \cup {subs[i].ends + Grace :
                                i \in {j \in DOMAIN subs : subs[j].status = "grace"}})

(* A subscription counts as reminded only if its present end was reminded  *)
(* of, unless job and renewal overlapped.                                  *)
ReminderNotSuppressed ==
    \A i \in DOMAIN subs :
        subs[i].status = "active" /\ subs[i].reminded =>
            <<i, subs[i].ends>> \in sent \/ i \in overtaken

(* The user is reminded of an end once, unless the job died before it had  *)
(* marked the reminder or a renewal that overlapped cleared the mark.      *)
RemindedOnce == \A d \in repeated : crashes > 0 \/ d[1] \in overtaken

EndedStillActive(i) ==
    i \in DOMAIN subs /\ subs[i].status = "active" /\ subs[i].ends <= now

(* A subscription that has ended and is not renewed lapses: the job finds  *)
(* it although renewals and crashes come in between.                       *)
EndedLapses ==
    \A i \in 1..Cardinality(Payments) :
        EndedStillActive(i) ~> ~EndedStillActive(i)

(* What fulfill_payment documents.                                         *)
FulfillOnce == \A p \in Payments : credited[p] <= 1
=============================================================================
