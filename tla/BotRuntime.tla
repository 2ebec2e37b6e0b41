----------------------------- MODULE BotRuntime -----------------------------
(***************************************************************************)
(* How an update of Telegram reaches a handler.  A bot with a webhook: the *)
(* API route looks the bot up, claims the update's number in Redis and     *)
(* appends it to a list, the bot worker pops and processes it.  A polled   *)
(* bot: one task of the polling process asks for updates and feeds them.   *)
(* Both workers keep a pool of the bots that are active in the database    *)
(* and compare it with the table after a nudge or an interval.             *)
(*                                                                         *)
(* Telegram keeps an update until it is answered or confirmed and sends it *)
(* again otherwise.  Every process may die between two awaits.             *)
(***************************************************************************)
EXTENDS Integers, Sequences, SequencesExt

CONSTANTS
    TgBots,
    Webhooks,       \* the bots whose transport is webhook; the others poll
    Updates,
    BotOf,          \* the bot an update is for
    MaxChanges,     \* bound: changes of a bot's or its tenant's status
    MaxFaults       \* bound: processes that die, answers lost, keys expired

VARIABLES
    botOn,          \* bots with tenant_bots.status active
    tenantOn,       \* bots whose tenant's status is active
    held,           \* where Telegram has an update
    call,           \* where the API's request for an update is
    seen,           \* the tg:dedup keys
    queue,          \* the list tg:updates
    working,        \* the update the bot worker has popped, a set
    up,             \* the workers that run
    pool,           \* bots with an entry in the worker's pool
    poll,           \* where the polling task of a bot is
    handled,        \* updates below the offset of their polling task
    changes,
    faults,
    processed,      \* history: how often an update was given to a handler
    lost,           \* history: updates taken from Telegram and not processed
    repeated        \* history: updates that a fault made new again

vars == <<botOn, tenantOn, held, call, seen, queue, working, up, pool, poll,
          handled, changes, faults, processed, lost, repeated>>

Workers == {"runner", "polling"}
WorkerOf(b) == IF b \in Webhooks THEN "runner" ELSE "polling"
Polled == TgBots \ Webhooks
Serves(b) == b \in botOn /\ b \in tenantOn

Init ==
    /\ botOn = TgBots /\ tenantOn = TgBots
    /\ held = [u \in Updates |-> "unsent"]
    /\ call = [u \in Updates |-> "none"]
    /\ seen = {} /\ queue = <<>> /\ working = {}
    /\ up = {} /\ pool = {}
    /\ poll = [b \in Polled |-> "none"]
    /\ handled = {}
    /\ changes = 0 /\ faults = 0
    /\ processed = [u \in Updates |-> 0]
    /\ lost = {} /\ repeated = {}

Arrive(u) ==
    /\ held[u] = "unsent"
    /\ held' = [held EXCEPT ![u] = "waiting"]
    /\ UNCHANGED <<botOn, tenantOn, call, seen, queue, working, up, pool, poll,
                   handled, changes, faults, processed, lost, repeated>>

-----------------------------------------------------------------------------
(* telegram_webhook                                                        *)

\* get_tenant_bot_by_webhook_secret: 404 unless bot and tenant are active.
LookUpBot(u) ==
    /\ held[u] = "waiting" /\ call[u] = "none"
    /\ BotOf[u] \in Webhooks /\ Serves(BotOf[u])
    /\ call' = [call EXCEPT ![u] = "found"]
    /\ UNCHANGED <<botOn, tenantOn, held, seen, queue, working, up, pool, poll,
                   handled, changes, faults, processed, lost, repeated>>

(* Seeded fault: the dedup key is looked up and never set.                  *)
MarkUpdateSeen_NotSet(u) ==
    /\ call[u] = "found"
    /\ call' = [call EXCEPT ![u] = IF u \in seen THEN "none" ELSE "new"]
    /\ UNCHANGED <<botOn, tenantOn, held, seen, queue, working, up, pool, poll,
                   handled, changes, faults, processed, lost, repeated>>

\* mark_update_seen; a duplicate is answered with ok.
MarkUpdateSeen(u) ==
    /\ call[u] = "found"
    /\ seen' = seen \cup {u}
    /\ IF u \in seen
       THEN /\ call' = [call EXCEPT ![u] = "none"]
            /\ held' = [held EXCEPT ![u] = "answered"]
       ELSE /\ call' = [call EXCEPT ![u] = "new"]
            /\ held' = held
    /\ UNCHANGED <<botOn, tenantOn, queue, working, up, pool, poll, handled,
                   changes, faults, processed, lost, repeated>>

PushUpdate(u) ==
    /\ call[u] = "new"
    /\ queue' = Append(queue, u)
    /\ call' = [call EXCEPT ![u] = "pushed"]
    /\ UNCHANGED <<botOn, tenantOn, held, seen, working, up, pool, poll,
                   handled, changes, faults, processed, lost, repeated>>

Respond(u) ==
    /\ call[u] = "pushed"
    /\ call' = [call EXCEPT ![u] = "none"]
    /\ held' = [held EXCEPT ![u] = "answered"]
    /\ UNCHANGED <<botOn, tenantOn, seen, queue, working, up, pool, poll,
                   handled, changes, faults, processed, lost, repeated>>

\* The API dies, or its answer does not arrive: Telegram sends again.
CallFails(u) ==
    /\ call[u] # "none" /\ faults < MaxFaults
    /\ faults' = faults + 1
    /\ call' = [call EXCEPT ![u] = "none"]
    /\ lost' = IF call[u] = "new" THEN lost \cup {u} ELSE lost
    /\ UNCHANGED <<botOn, tenantOn, held, seen, queue, working, up, pool, poll,
                   handled, changes, processed, repeated>>

\* DEDUP_TTL_SECONDS are over.
SeenExpires(u) ==
    /\ u \in seen /\ faults < MaxFaults
    /\ faults' = faults + 1
    /\ seen' = seen \ {u}
    /\ repeated' = repeated \cup {u}
    /\ UNCHANGED <<botOn, tenantOn, held, call, queue, working, up, pool, poll,
                   handled, changes, processed, lost>>

-----------------------------------------------------------------------------
(* The bot worker.                                                         *)

\* An update whose bot is in no pool is dropped; the middleware finds no
\* tenant for a bot that does not serve, and the handlers have no account.
Feed(u) ==
    IF BotOf[u] \in pool /\ Serves(BotOf[u])
    THEN /\ processed' = [processed EXCEPT ![u] = @ + 1]
         /\ lost' = lost
    ELSE /\ lost' = lost \cup {u}
         /\ processed' = processed

\* BLPOP
PopUpdate ==
    /\ "runner" \in up /\ working = {} /\ queue # <<>>
    /\ working' = {Head(queue)}
    /\ queue' = Tail(queue)
    /\ UNCHANGED <<botOn, tenantOn, held, call, seen, up, pool, poll, handled,
                   changes, faults, processed, lost, repeated>>

(* Seeded fault: an update is taken off the queue and not fed.              *)
Process_Unfed ==
    /\ working # {} /\ working' = {}
    /\ UNCHANGED <<botOn, tenantOn, held, call, seen, queue, up, pool, poll,
                   handled, changes, faults, processed, lost, repeated>>

\* process; an exception is logged and the update is over.
Process ==
    \E u \in working :
       /\ working' = {}
       /\ Feed(u)
       /\ UNCHANGED <<botOn, tenantOn, held, call, seen, queue, up, pool, poll,
                      handled, changes, faults, repeated>>

-----------------------------------------------------------------------------
(* poll_one                                                                *)

Ours(b) == {u \in Updates : BotOf[u] = b}

\* delete_webhook(drop_pending_updates=True), whose failure is only logged.
StartPolling(b) ==
    /\ poll[b] = "starting"
    /\ poll' = [poll EXCEPT ![b] = "polling"]
    /\ \/ /\ held' = [u \in Updates |-> IF u \in Ours(b) /\ held[u] = "waiting"
                                        THEN "answered" ELSE held[u]]
          /\ lost' = lost \cup
                {u \in Ours(b) : held[u] = "waiting" /\ processed[u] = 0}
          /\ UNCHANGED <<faults, repeated>>
       \/ /\ faults < MaxFaults
          /\ faults' = faults + 1
          /\ repeated' = repeated \cup
                {u \in Ours(b) : held[u] = "waiting" /\ processed[u] > 0}
          /\ UNCHANGED <<held, lost>>
    /\ UNCHANGED <<botOn, tenantOn, call, seen, queue, working, up, pool,
                   handled, changes, processed>>

\* get_updates with the offset confirms what was handled; the first update
\* that was not is fed, and the offset moves past it whatever happens.
PollUpdate(b) ==
    /\ poll[b] = "polling"
    /\ \E u \in Ours(b) :
          /\ held[u] = "waiting" /\ u \notin handled
          /\ held' = [v \in Updates |-> IF v \in Ours(b) \cap handled
                                        THEN "answered" ELSE held[v]]
          /\ handled' = handled \cup {u}
          /\ Feed(u)
    /\ UNCHANGED <<botOn, tenantOn, call, seen, queue, working, up, pool, poll,
                   changes, faults, repeated>>

\* The task ends with an exception nobody caught.
PollDies(b) ==
    /\ poll[b] \in {"starting", "polling"} /\ faults < MaxFaults
    /\ faults' = faults + 1
    /\ poll' = [poll EXCEPT ![b] = "dead"]
    /\ UNCHANGED <<botOn, tenantOn, held, call, seen, queue, working, up, pool,
                   handled, changes, processed, lost, repeated>>

-----------------------------------------------------------------------------
(* The pools.                                                              *)

\* load_active_bot_specs looks at the status of the bot only.
Desired(w) == {b \in botOn : WorkerOf(b) = w}

(* Seeded fault: a polling task that died is not started again.             *)
PoolAfter_DeadStay(w, old) ==
    /\ pool' = {b \in old : WorkerOf(b) # w} \cup Desired(w)
    /\ poll' = [b \in Polled |->
                  IF w # "polling" THEN poll[b]
                  ELSE IF b \notin Desired(w) THEN "none"
                  ELSE IF b \notin old THEN "starting" ELSE poll[b]]
    /\ UNCHANGED handled

\* Both reconciles: what is not desired goes, what is new is added; a polling
\* task that is dead is started again, and each starts without an offset.
PoolAfter(w, old) ==
    /\ pool' = {b \in old : WorkerOf(b) # w} \cup Desired(w)
    /\ poll' = [b \in Polled |->
                  IF w # "polling" THEN poll[b]
                  ELSE IF b \notin Desired(w) THEN "none"
                  ELSE IF b \notin old \/ poll[b] = "dead" THEN "starting"
                  ELSE poll[b]]
    /\ handled' = {u \in handled :
                     BotOf[u] \in Polled /\ poll'[BotOf[u]] # "starting"}

Reconcile(w) ==
    /\ w \in up
    /\ PoolAfter(w, pool)
    /\ UNCHANGED <<botOn, tenantOn, held, call, seen, queue, working, up,
                   changes, faults, processed, lost, repeated>>

WorkerStarts(w) ==
    /\ w \notin up
    /\ up' = up \cup {w}
    /\ PoolAfter(w, {b \in pool : WorkerOf(b) # w})
    /\ UNCHANGED <<botOn, tenantOn, held, call, seen, queue, working, changes,
                   faults, processed, lost, repeated>>

\* What the worker had in memory is gone: the pool, the popped update.
WorkerDies(w) ==
    /\ w \in up /\ faults < MaxFaults
    /\ faults' = faults + 1
    /\ up' = up \ {w}
    /\ pool' = {b \in pool : WorkerOf(b) # w}
    /\ poll' = IF w = "polling" THEN [b \in Polled |-> "none"] ELSE poll
    /\ lost' = IF w = "runner" THEN lost \cup working ELSE lost
    /\ working' = IF w = "runner" THEN {} ELSE working
    /\ UNCHANGED <<botOn, tenantOn, held, call, seen, queue, handled, changes,
                   processed, repeated>>

\* set_tenant_status writes the tenant and its bots, the platform's routes
\* only the tenant.
SetTenantStatus(b, on) ==
    /\ changes < MaxChanges
    /\ changes' = changes + 1
    /\ tenantOn' = IF on THEN tenantOn \cup {b} ELSE tenantOn \ {b}
    /\ \/ botOn' = IF on THEN botOn \cup {b} ELSE botOn \ {b}
       \/ ~on /\ botOn' = botOn
    /\ UNCHANGED <<held, call, seen, queue, working, up, pool, poll, handled,
                   faults, processed, lost, repeated>>

-----------------------------------------------------------------------------
Webhook(u) == LookUpBot(u) \/ MarkUpdateSeen(u) \/ PushUpdate(u) \/ Respond(u)
Consume == PopUpdate \/ Process
Poll(b) == StartPolling(b) \/ PollUpdate(b)

Next ==
    \/ \E u \in Updates :
          Arrive(u) \/ Webhook(u) \/ CallFails(u) \/ SeenExpires(u)
    \/ Consume
    \/ \E b \in Polled : Poll(b) \/ PollDies(b)
    \/ \E w \in Workers : Reconcile(w) \/ WorkerStarts(w) \/ WorkerDies(w)
    \/ \E b \in TgBots, on \in BOOLEAN : SetTenantStatus(b, on)

Spec == Init /\ [][Next]_vars

-----------------------------------------------------------------------------
(* An update is processed at most once although Telegram sends it again    *)
(* after every call that fails and every restart: only a dedup key that    *)
(* expired (redis_client.py 18-31) or pending updates that a restarted     *)
(* poller could not drop (bot/reload.py 65-73) make it new again.          *)
UpdateOnce ==
    \A u \in Updates : processed[u] > 1 => u \in repeated

(* An update that arrives is processed, or is lost to one of the faults    *)
(* the code does not mend: a crash between claiming and queueing it or     *)
(* between popping and processing it, a poller's start that drops what was *)
(* pending, a bot that was switched off meanwhile.                         *)
UpdateAnswered ==
    \A u \in Updates :
       held[u] = "waiting" ~>
          processed[u] > 0 \/ u \in lost \/ ~Serves(BotOf[u])

(* The pools end up with exactly the bots that are active in the database, *)
(* whatever nudges were missed and whatever workers and tasks died         *)
(* (bot/reload.py 48-62, 118-136, bot/runner.py 42-56).                    *)
PoolSettles ==
    <>[](/\ pool = botOn
         /\ \A b \in Polled : (poll[b] = "none") = (b \notin botOn)
         /\ \A b \in Polled : poll[b] # "dead")
=============================================================================
