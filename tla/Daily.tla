------------------------------- MODULE Daily -------------------------------
(***************************************************************************)
(* The daily horoscope: the settings screen of the bot, the hourly cron    *)
(* job that enqueues what is due (daily_dispatch) and the job that writes  *)
(* and sends one account's horoscope (daily_generate).                     *)
(*                                                                         *)
(* The clock counts hours of UTC; a day has DayHours of them, and Zone is  *)
(* the offset of an account's natal profile.  A handler of the bot reads   *)
(* the settings in one step and writes them in another; SQLAlchemy writes  *)
(* only the attributes whose value differs from the one read.  The job     *)
(* takes one step per transaction.  A worker that is stopped meanwhile     *)
(* puts it back into the queue; a job that arq cancels for its time, or    *)
(* that raises where nothing catches it, ends there and is not run again.  *)
(***************************************************************************)
EXTENDS Integers

CONSTANTS
    DailyAccounts,
    Zone,           \* hours an account's local time is ahead of UTC
    DayHours,       \* hours of a day
    DefaultHour,    \* DailySubscription.send_hour's default
    Taps,           \* handlers of an account's taps, and calls of the API,
                    \* that may run at a time
    LastHour,       \* bound: the clock stops here
    MaxTaps,        \* bound: taps on the settings screen
    MaxStops        \* bound: how often a worker is stopped or a job cut off

VARIABLES
    hour,           \* utcnow(), in hours
    dispatched,     \* the last hour daily_dispatch ran for
    subscriber,     \* accounts with subscription_active_until in the future
    settings,       \* the row of daily_subscriptions of each account
    tap,            \* what each handler of the settings screen has read
    taps,           \* taps so far
    horoscope,      \* DailyHoroscope.status by account and local date
    jobs,           \* the daily_generate job of an account, by hour enqueued
    stops,          \* workers stopped and jobs cut off so far
    interrupted,    \* history: account-days whose generation was stopped or
                    \* cut off
    unrecorded,     \* history: account-days whose failure was not written
    delivered       \* history: messages sent for an account-day

vars == <<hour, dispatched, subscriber, settings, tap, taps, horoscope, jobs,
          stops, interrupted, unrecorded, delivered>>

Hours == 0..LastHour
Days == 0..((LastHour + DayHours) \div DayHours)
NoDay == -1
NoRow ==
    [row |-> FALSE, enabled |-> FALSE, send |-> DefaultHour, sent |-> NoDay]
TurnedOn == [NoRow EXCEPT !.row = TRUE, !.enabled = TRUE]
NoJob == [pc |-> "none", day |-> NoDay]
Closed == [op |-> "none", read |-> NoRow, value |-> DefaultHour]

LocalDay(a) == (hour + Zone[a]) \div DayHours
LocalHour(a) == (hour + Zone[a]) % DayHours

Init ==
    /\ hour = 0
    /\ dispatched = -1
    /\ subscriber = DailyAccounts
    /\ settings \in [DailyAccounts -> {NoRow, TurnedOn}]
    /\ tap = [a \in DailyAccounts |-> [i \in Taps |-> Closed]]
    /\ taps = 0
    /\ horoscope = [a \in DailyAccounts |-> [d \in Days |-> "absent"]]
    /\ jobs = [a \in DailyAccounts |-> [h \in Hours |-> NoJob]]
    /\ stops = 0
    /\ interrupted = {}
    /\ unrecorded = {}
    /\ delivered = [a \in DailyAccounts |-> [d \in Days |-> 0]]

-----------------------------------------------------------------------------
(* The settings screen, and the route of the API.                          *)

Tapped(a, i, t) ==
    /\ tap[a][i].op = "none" /\ taps < MaxTaps
    /\ tap' = [tap EXCEPT ![a][i] = t]
    /\ taps' = taps + 1
    /\ UNCHANGED <<hour, dispatched, subscriber, settings, horoscope,
                   jobs, stops, interrupted, unrecorded, delivered>>

\* on_daily_toggle reads the row of a subscriber.
Toggle(a, i) ==
    /\ a \in subscriber
    /\ Tapped(a, i, [op |-> "toggle", read |-> settings[a],
                     value |-> settings[a].send])

\* on_daily_set_hour reads the row of a subscriber.
SetHour(a, i, h) ==
    /\ a \in subscriber
    /\ Tapped(a, i, [op |-> "hour", read |-> settings[a], value |-> h])

\* write_daily_settings, of the API: only turning it on takes a subscriber.
Put(a, i, on, h) ==
    /\ on => a \in subscriber
    /\ Tapped(a, i, [op |-> IF on THEN "on" ELSE "off", read |-> settings[a],
                     value |-> h])

\* What the UPDATE of a tap leaves: the attributes it changed are new, the
\* others are as the table has them now.
Merged(row, read, enabled, send) ==
    [row EXCEPT !.row = TRUE,
                !.enabled = IF enabled # read.enabled THEN enabled ELSE @,
                !.send = IF send # read.send THEN send ELSE @]

\* upsert_settings; an INSERT meets the row another handler has inserted, and
\* the handler ends with an IntegrityError.
SaveSettings(a, i) ==
    LET t == tap[a][i]
        enabled == CASE t.op = "toggle" -> ~t.read.enabled
                     [] t.op = "hour" -> t.read.enabled
                     [] OTHER -> t.op = "on"
        conflict == ~t.read.row /\ settings[a].row
    IN  /\ t.op # "none"
        /\ tap' = [tap EXCEPT ![a][i] = Closed]
        /\ settings' = IF conflict THEN settings
                       ELSE [settings EXCEPT ![a] =
                                Merged(@, t.read, enabled, t.value)]
        /\ UNCHANGED <<hour, dispatched, subscriber, taps, horoscope, jobs,
                       stops, interrupted, unrecorded, delivered>>

-----------------------------------------------------------------------------
(* The hourly cron job.                                                    *)

\* due_daily_account_ids
Due(a) ==
    /\ settings[a].enabled
    /\ a \in subscriber
    /\ LocalHour(a) = settings[a].send
    /\ settings[a].sent = NoDay \/ settings[a].sent < LocalDay(a)

\* daily_dispatch enqueues a job for every account that is due in this hour.
Dispatch ==
    /\ dispatched < hour
    /\ dispatched' = hour
    /\ jobs' = [a \in DailyAccounts |->
                   IF Due(a) THEN [jobs[a] EXCEPT ![hour].pc = "queued"]
                   ELSE jobs[a]]
    /\ UNCHANGED <<hour, subscriber, settings, tap, taps, horoscope,
                   stops, interrupted, unrecorded, delivered>>

-----------------------------------------------------------------------------
(* daily_generate, job j = <<account, hour enqueued>>.                     *)

JobIds == DailyAccounts \X Hours
At(j) == jobs[j[1]][j[2]].pc
DayOf(j) == jobs[j[1]][j[2]].day
Moves(j, pc) == jobs' = [jobs EXCEPT ![j[1]][j[2]].pc = pc]
SetStatus(j, status) ==
    horoscope' = [horoscope EXCEPT ![j[1]][DayOf(j)] = status]

\* The gates: no subscriber, no settings or not enabled.
Gated(a) == a \notin subscriber \/ ~settings[a].row \/ ~settings[a].enabled

(* Seeded fault: the key of the claim is not looked at.                     *)
Free_Unclaimed(a, d) == ~Gated(a)

Free(a, d) == ~Gated(a) /\ horoscope[a][d] = "absent"

\* claim_horoscope: the unique key of (account_id, local_date) lets one job
\* have the day; the day is the one at the time the job runs.
Claim(j) ==
    /\ At(j) = "queued"
    /\ LET d == LocalDay(j[1])
           free == Free(j[1], d)
       IN  /\ jobs' = [jobs EXCEPT ![j[1]][j[2]] =
                          IF free THEN [pc |-> "claimed", day |-> d]
                          ELSE [@ EXCEPT !.pc = "over"]]
           /\ horoscope' = IF free
                           THEN [horoscope EXCEPT ![j[1]][d] = "generating"]
                           ELSE horoscope
    /\ UNCHANGED <<hour, dispatched, subscriber, settings, tap, taps,
                   stops, interrupted, unrecorded, delivered>>

\* The LLM answered: the text is saved.
Generated(j) ==
    /\ At(j) = "claimed"
    /\ SetStatus(j, "done")
    /\ Moves(j, "done")
    /\ UNCHANGED <<hour, dispatched, subscriber, settings, tap, taps,
                   stops, interrupted, unrecorded, delivered>>

(* Seeded fault: a failure is logged, and the row is left as it is.         *)
GenerationFails_RowKept(j) ==
    /\ At(j) = "claimed"
    /\ Moves(j, "over")
    /\ UNCHANGED <<hour, dispatched, subscriber, settings, tap, taps,
                   horoscope, stops, interrupted, unrecorded, delivered>>

\* There is no LLM, or the try block raised: before the text was saved, or
\* after it, around mark_sent.
GenerationFails(j) ==
    /\ At(j) \in {"claimed", "done", "marked"}
    /\ SetStatus(j, "failed")
    /\ Moves(j, "failed")
    /\ UNCHANGED <<hour, dispatched, subscriber, settings, tap, taps,
                   stops, interrupted, unrecorded, delivered>>

\* The try block raised, and so did the write of the failure: it is logged.
FailureNotWritten(j) ==
    /\ At(j) \in {"claimed", "done", "marked"}
    /\ Moves(j, "failed")
    /\ unrecorded' = IF At(j) = "claimed"
                     THEN unrecorded \cup {<<j[1], DayOf(j)>>}
                     ELSE unrecorded
    /\ UNCHANGED <<hour, dispatched, subscriber, settings, tap, taps,
                   horoscope, stops, interrupted, delivered>>

\* mark_sent, after a failure too.
MarkSent(j) ==
    /\ At(j) \in {"done", "failed"}
    /\ settings' = [settings EXCEPT ![j[1]].sent = DayOf(j)]
    /\ Moves(j, IF At(j) = "done" THEN "marked" ELSE "over")
    /\ UNCHANGED <<hour, dispatched, subscriber, tap, taps, horoscope,
                   stops, interrupted, unrecorded, delivered>>

\* get_tg_chat_id, the last of the try block; with no chat the job ends.
FindChat(j) ==
    /\ At(j) = "marked"
    /\ Moves(j, "deliver") \/ Moves(j, "over")
    /\ UNCHANGED <<hour, dispatched, subscriber, settings, tap, taps,
                   horoscope, stops, interrupted, unrecorded, delivered>>

\* deliver_daily, which may fail: no active bot, Telegram.
Deliver(j) ==
    /\ At(j) = "deliver"
    /\ \E n \in {0, 1} :
          delivered' = [delivered EXCEPT ![j[1]][DayOf(j)] = @ + n]
    /\ Moves(j, "over")
    /\ UNCHANGED <<hour, dispatched, subscriber, settings, tap, taps,
                   horoscope, stops, interrupted, unrecorded>>

\* A job goes on from pc after a fault.
Fault(j, pc) ==
    /\ At(j) \notin {"none", "over", pc}
    /\ stops < MaxStops
    /\ stops' = stops + 1
    /\ Moves(j, pc)
    /\ interrupted' = IF At(j) = "claimed"
                      THEN interrupted \cup {<<j[1], DayOf(j)>>}
                      ELSE interrupted
    /\ UNCHANGED <<hour, dispatched, subscriber, settings, tap, taps,
                   horoscope, unrecorded, delivered>>

\* The worker is stopped: arq runs the job again from its start.
WorkerStop(j) == Fault(j, "queued")

\* job_timeout cancels the job (no "except Exception" catches that), or a read
\* before the try block, the refresh of the claimed row or the mark_sent of a
\* failure raises: arq does not run it again.
JobCutOff(j) == Fault(j, "over")

-----------------------------------------------------------------------------
Tick ==
    /\ hour < LastHour
    /\ hour' = hour + 1
    /\ UNCHANGED <<dispatched, subscriber, settings, tap, taps, horoscope,
                   jobs, stops, interrupted, unrecorded, delivered>>

SubscriptionEnds(a) ==
    /\ a \in subscriber
    /\ subscriber' = subscriber \ {a}
    /\ UNCHANGED <<hour, dispatched, settings, tap, taps, horoscope, jobs,
                   stops, interrupted, unrecorded, delivered>>

Run(j) ==
    \/ Claim(j)
    \/ Generated(j)
    \/ GenerationFails(j)
    \/ FailureNotWritten(j)
    \/ MarkSent(j)
    \/ FindChat(j)
    \/ Deliver(j)

Next ==
    \/ \E a \in DailyAccounts :
          \/ \E i \in Taps :
                \/ Toggle(a, i)
                \/ \E h \in 0..(DayHours - 1) :
                      SetHour(a, i, h) \/ \E on \in BOOLEAN : Put(a, i, on, h)
                \/ SaveSettings(a, i)
          \/ SubscriptionEnds(a)
    \/ Dispatch
    \/ \E j \in JobIds : Run(j) \/ WorkerStop(j) \/ JobCutOff(j)
    \/ Tick

Spec == Init /\ [][Next]_vars

-----------------------------------------------------------------------------
(* At most one horoscope is sent for a local date, whatever is enqueued    *)
(* twice, run again after a stop or moved by a change of the chosen hour   *)
(* (tasks/daily.py 75-80, the unique key of daily_horoscopes).             *)
OnePerDay ==
    \A a \in DailyAccounts, d \in Days : delivered[a][d] <= 1

(* A horoscope that is being generated ends, done or failed, unless the    *)
(* worker was stopped or the job cut off meanwhile, or the database        *)
(* refused the failure: no later job of the day touches the row, and it    *)
(* stays generating (tasks/daily.py 75-119).                               *)
ClaimEnds ==
    \A a \in DailyAccounts, d \in Days :
       horoscope[a][d] = "generating" ~>
          \/ horoscope[a][d] # "generating"
          \/ <<a, d>> \in interrupted \cup unrecorded
=============================================================================
