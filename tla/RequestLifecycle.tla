-------------------------- MODULE RequestLifecycle --------------------------
(***************************************************************************)
(* The life of a paid request (blueprint, reading, question, transit       *)
(* report): the handler that charges the account, writes the two rows and  *)
(* enqueues a job; the arq worker that runs the job, possibly more than    *)
(* once; and the refund either of them may issue.                          *)
(*                                                                         *)
(* Every database transaction is one action: the rows that consume_quota   *)
(* and refund_quota depend on are read under FOR UPDATE locks that are     *)
(* held to the commit.  What happens between two commits (an await, a      *)
(* crash, the other process) happens between two actions.                  *)
(***************************************************************************)
EXTENDS Integers, FiniteSets

CONSTANTS
    Requests,        \* submissions: one run of a submit handler each
    Accounts,
    Owner,           \* the account that submits
    Kind,            \* what is submitted
    Surface,         \* the bot's handler or the HTTP API's
    InitialCredits,  \* package_credits before the first submission
    Subscribers,     \* accounts whose subscription is active at the start
    LlmConfigured,   \* whether the worker has an LLM client
    MaxTries,        \* arq's max_tries
    Faults           \* which faults the environment may inject

FaultKinds == {"handler_crash", "reply_lost", "worker_stop", "job_lost"}

ASSUME RequestLifecycleAssumption ==
    /\ IsFiniteSet(Requests)
    /\ Owner \in [Requests -> Accounts]
    /\ Kind \in [Requests -> {"blueprint", "reading", "qa", "transit"}]
    /\ Surface \in [Requests -> {"bot", "api"}]
    /\ InitialCredits \in [Accounts -> Nat]
    /\ Subscribers \subseteq Accounts
    /\ LlmConfigured \in BOOLEAN
    /\ MaxTries \in Nat \ {0}
    /\ Faults \subseteq FaultKinds

VARIABLES
    credits,     \* AccountBalance.package_credits
    subscribed,  \* accounts with subscription_active_until in the future
    phase,       \* where the submit handler is
    charge,      \* the handler's local `charged`, what consume_quota returned
    against,     \* Request.charged_against; "absent" before the row exists
    status,      \* Request.status; "absent" before the row exists
    content,     \* status of the Blueprint, Reading, QaAnswer or TransitReport
    job,         \* the arq job of the request
    step,        \* where the running job is
    tries,       \* how often arq has started the job
    delivered,   \* the user was sent a finished text
    refunds,     \* history: refund transactions that were not no-ops
    disturbed    \* history: requests whose enqueue reply was lost or whose
                 \* job was stopped and queued again

handlerVars == <<phase, charge>>
jobVars == <<job, step, tries>>
vars == <<credits, subscribed, phase, charge, against, status, content,
          job, step, tries, delivered, refunds, disturbed>>

Phases == {"idle", "refused", "charged", "half", "ready", "refunding",
           "answered", "crashed"}
Charges == {"unset", "package", "subscription"}
Steps == {"off", "loaded", "calculated", "generating", "generated",
          "refunding", "delivering", "returned"}

Init ==
    /\ credits = InitialCredits
    /\ subscribed = Subscribers
    /\ phase = [r \in Requests |-> "idle"]
    /\ charge = [r \in Requests |-> "unset"]
    /\ against = [r \in Requests |-> "absent"]
    /\ status = [r \in Requests |-> "absent"]
    /\ content = [r \in Requests |-> "absent"]
    /\ job = [r \in Requests |-> "none"]
    /\ step = [r \in Requests |-> "off"]
    /\ tries = [r \in Requests |-> 0]
    /\ delivered = [r \in Requests |-> FALSE]
    /\ refunds = [r \in Requests |-> 0]
    /\ disturbed = {}

-----------------------------------------------------------------------------
(* The submit handlers                                                     *)

(* A gate before the charge turns the submission away: no profile, feature *)
(* disabled, moderation, or no quota.  Nothing is written.                 *)
Refuse(r) ==
    /\ phase[r] = "idle"
    /\ phase' = [phase EXCEPT ![r] = "refused"]
    /\ UNCHANGED <<credits, subscribed, charge, against, status, content,
                   jobVars, delivered, refunds, disturbed>>

(* Seeded fault: consume_quota does not look at package_credits.           *)
ConsumeQuota_Unchecked(r) ==
    /\ phase[r] = "idle"
    /\ charge' = [charge EXCEPT ![r] = "package"]
    /\ credits' = [credits EXCEPT ![Owner[r]] = @ - 1]
    /\ phase' = [phase EXCEPT ![r] = "charged"]
    /\ UNCHANGED <<subscribed, against, status, content, jobVars, delivered,
                   refunds, disturbed>>

(* consume_quota: an active subscription pays, else one package credit.    *)
ConsumeQuota(r) ==
    LET a == Owner[r] IN
    /\ phase[r] = "idle"
    /\ \/ /\ a \in subscribed
          /\ charge' = [charge EXCEPT ![r] = "subscription"]
          /\ UNCHANGED credits
       \/ /\ a \notin subscribed
          /\ credits[a] >= 1
          /\ charge' = [charge EXCEPT ![r] = "package"]
          /\ credits' = [credits EXCEPT ![a] = @ - 1]
    /\ phase' = [phase EXCEPT ![r] = "charged"]
    /\ UNCHANGED <<subscribed, against, status, content, jobVars, delivered,
                   refunds, disturbed>>

(* Blueprints and readings write their content row before the request row, *)
(* questions and transit reports after it.                                 *)
ContentFirst(r) == Kind[r] \in {"blueprint", "reading"}

CreateContent(r) ==
    /\ phase[r] = IF ContentFirst(r) THEN "charged" ELSE "half"
    /\ content' = [content EXCEPT ![r] = "pending"]
    /\ phase' = [phase EXCEPT ![r] = IF ContentFirst(r) THEN "half" ELSE "ready"]
    /\ UNCHANGED <<credits, subscribed, charge, against, status, jobVars,
                   delivered, refunds, disturbed>>

CreateRequest(r) ==
    /\ phase[r] = IF ContentFirst(r) THEN "half" ELSE "charged"
    /\ against' = [against EXCEPT ![r] = charge[r]]
    /\ status' = [status EXCEPT ![r] = "pending"]
    /\ phase' = [phase EXCEPT ![r] = IF ContentFirst(r) THEN "ready" ELSE "half"]
    /\ UNCHANGED <<credits, subscribed, charge, content, jobVars, delivered,
                   refunds, disturbed>>

(* Seeded fault: the job is enqueued before the second row is committed.   *)
Enqueue_TooEarly(r) ==
    /\ phase[r] \in {"half", "ready"}
    /\ phase' = [phase EXCEPT ![r] = "answered"]
    /\ job' = [job EXCEPT ![r] = "queued"]
    /\ UNCHANGED <<credits, subscribed, charge, against, status, content,
                   step, tries, delivered, refunds, disturbed>>

Enqueue(r) ==
    /\ phase[r] = "ready"
    /\ phase' = [phase EXCEPT ![r] = "answered"]
    /\ job' = [job EXCEPT ![r] = "queued"]
    /\ UNCHANGED <<credits, subscribed, charge, against, status, content,
                   step, tries, delivered, refunds, disturbed>>

(* The enqueue call raises.  The job may have been stored all the same: the *)
(* connection can drop after Redis executed the command.                   *)
EnqueueRaises(r) ==
    /\ phase[r] = "ready"
    /\ phase' = [phase EXCEPT ![r] = "refunding"]
    /\ \/ UNCHANGED <<job, disturbed>>
       \/ /\ "reply_lost" \in Faults
          /\ job' = [job EXCEPT ![r] = "queued"]
          /\ disturbed' = disturbed \cup {r}
    /\ UNCHANGED <<credits, subscribed, charge, against, status, content,
                   step, tries, delivered, refunds>>

(* Seeded fault: refund_quota leaves charged_against as it was.            *)
Refund_KeepsCharge(r) ==
    /\ credits' = IF charge[r] = "package"
                  THEN [credits EXCEPT ![Owner[r]] = @ + 1]
                  ELSE credits
    /\ status' = [status EXCEPT ![r] = "refunded"]
    /\ refunds' = [refunds EXCEPT ![r] = @ + 1]
    /\ UNCHANGED against

(* What refund_quota commits once it is past its no-op check.              *)
Refund(r) ==
    /\ credits' = IF charge[r] = "package"
                  THEN [credits EXCEPT ![Owner[r]] = @ + 1]
                  ELSE credits
    /\ against' = [against EXCEPT ![r] = "none"]
    /\ status' = [status EXCEPT ![r] = "refunded"]
    /\ refunds' = [refunds EXCEPT ![r] = @ + 1]

(* Seeded fault: the no-op check trusts Request.status, which              *)
(* complete_request overwrites.                                            *)
AlreadyRefunded_ByStatus(r) == status[r] = "refunded"

AlreadyRefunded(r) == against[r] = "none"

(* refund_quota in a fresh session: the locked row is read from the        *)
(* database, and a row that was refunded before is left alone.             *)
RefundQuota(r) ==
    \/ ~AlreadyRefunded(r) /\ Refund(r)
    \/ AlreadyRefunded(r) /\ UNCHANGED <<credits, against, status, refunds>>

(* Seeded fault: a failed enqueue is reported but not refunded.            *)
HandlerRefund_Skipped(r) ==
    /\ phase[r] = "refunding"
    /\ phase' = [phase EXCEPT ![r] = "answered"]
    /\ UNCHANGED <<credits, subscribed, charge, against, status, content,
                   jobVars, delivered, refunds, disturbed>>

(* enqueue_or_refund opens a fresh session.  The API routes refund in the  *)
(* session that created the request: the row is in its identity map, so    *)
(* the lock does not refresh charged_against and the check never fires.    *)
HandlerRefund(r) ==
    /\ phase[r] = "refunding"
    /\ \/ Surface[r] = "bot" /\ RefundQuota(r)
       \/ Surface[r] = "api" /\ Refund(r)
    /\ phase' = [phase EXCEPT ![r] = "answered"]
    /\ UNCHANGED <<subscribed, charge, content, jobVars, delivered, disturbed>>

(* The process dies, or a commit raises, after the charge.                 *)
HandlerCrash(r) ==
    /\ "handler_crash" \in Faults
    /\ phase[r] \in {"charged", "half", "ready", "refunding"}
    /\ phase' = [phase EXCEPT ![r] = "crashed"]
    /\ UNCHANGED <<credits, subscribed, charge, against, status, content,
                   jobVars, delivered, refunds, disturbed>>

-----------------------------------------------------------------------------
(* The worker                                                              *)

StartJob(r) ==
    /\ job[r] = "queued"
    /\ tries[r] < MaxTries
    /\ job' = [job EXCEPT ![r] = "running"]
    /\ step' = [step EXCEPT ![r] = "loaded"]
    /\ tries' = [tries EXCEPT ![r] = @ + 1]
    /\ UNCHANGED <<credits, subscribed, handlerVars, against, status, content,
                   delivered, refunds, disturbed>>

(* arq drops a job it has started max_tries times.                         *)
GiveUp(r) ==
    /\ job[r] = "queued"
    /\ tries[r] = MaxTries
    /\ job' = [job EXCEPT ![r] = "over"]
    /\ UNCHANGED <<credits, subscribed, handlerVars, against, status, content,
                   step, tries, delivered, refunds, disturbed>>

(* Blueprints and readings store the calculated markdown first.            *)
Calculate(r) ==
    /\ step[r] = "loaded"
    /\ ContentFirst(r)
    /\ content' = [content EXCEPT ![r] = "calculating"]
    /\ step' = [step EXCEPT ![r] = "calculated"]
    /\ UNCHANGED <<credits, subscribed, handlerVars, against, status, job,
                   tries, delivered, refunds, disturbed>>

StartGenerating(r) ==
    /\ step[r] = IF ContentFirst(r) THEN "calculated" ELSE "loaded"
    /\ content' = [content EXCEPT ![r] = "generating"]
    /\ step' = [step EXCEPT ![r] = "generating"]
    /\ UNCHANGED <<credits, subscribed, handlerVars, against, status, job,
                   tries, delivered, refunds, disturbed>>

(* Without an LLM, blueprints and readings fall back on the calculated     *)
(* text; questions and transit reports fail.                               *)
CanGenerate(r) == LlmConfigured \/ ContentFirst(r)

Generated(r) ==
    /\ step[r] = "generating"
    /\ CanGenerate(r)
    /\ content' = [content EXCEPT ![r] = "done"]
    /\ step' = [step EXCEPT ![r] = "generated"]
    /\ UNCHANGED <<credits, subscribed, handlerVars, against, status, job,
                   tries, delivered, refunds, disturbed>>

(* Seeded fault: an error in the bookkeeping after a finished generation    *)
(* takes the failure path.                                                 *)
GenerationFails_AfterDone(r) ==
    /\ step[r] \in {"loaded", "calculated", "generating", "generated"}
    /\ UNCHANGED content
    /\ step' = [step EXCEPT ![r] = "refunding"]
    /\ UNCHANGED <<credits, subscribed, handlerVars, against, status, job,
                   tries, delivered, refunds, disturbed>>

(* No LLM client, or any exception before the content is done: the content *)
(* is marked failed (unless that fails too) and a refund follows.          *)
GenerationFails(r) ==
    /\ step[r] \in {"loaded", "calculated", "generating"}
    /\ \/ content' = [content EXCEPT ![r] = "failed"]
       \/ UNCHANGED content
    /\ step' = [step EXCEPT ![r] = "refunding"]
    /\ UNCHANGED <<credits, subscribed, handlerVars, against, status, job,
                   tries, delivered, refunds, disturbed>>

(* Seeded fault: the worker credits the account without the check.         *)
JobRefund_Unchecked(r) ==
    /\ step[r] = "refunding"
    /\ Refund(r)
    /\ step' = [step EXCEPT ![r] = "returned"]
    /\ UNCHANGED <<subscribed, handlerVars, content, job, tries, delivered,
                   disturbed>>

JobRefund(r) ==
    /\ step[r] = "refunding"
    /\ RefundQuota(r)
    /\ step' = [step EXCEPT ![r] = "returned"]
    /\ UNCHANGED <<subscribed, handlerVars, content, job, tries, delivered,
                   disturbed>>

(* complete_request sets the status whatever it was; an error is logged.   *)
CompleteRequest(r) ==
    /\ step[r] = "generated"
    /\ \/ status' = [status EXCEPT ![r] = "done"]
       \/ UNCHANGED status
    /\ step' = [step EXCEPT ![r] = "delivering"]
    /\ UNCHANGED <<credits, subscribed, handlerVars, against, content, job,
                   tries, delivered, refunds, disturbed>>

(* Best-effort delivery, to the bot's chats only: the API passes no chat.  *)
Deliver(r) ==
    /\ step[r] = "delivering"
    /\ \/ Surface[r] = "bot" /\ delivered' = [delivered EXCEPT ![r] = TRUE]
       \/ UNCHANGED delivered
    /\ step' = [step EXCEPT ![r] = "returned"]
    /\ UNCHANGED <<credits, subscribed, handlerVars, against, status, content,
                   job, tries, refunds, disturbed>>

(* arq removes the job once its function has returned.                     *)
FinishJob(r) ==
    /\ step[r] = "returned"
    /\ step' = [step EXCEPT ![r] = "off"]
    /\ job' = [job EXCEPT ![r] = "over"]
    /\ UNCHANGED <<credits, subscribed, handlerVars, against, status, content,
                   tries, delivered, refunds, disturbed>>

(* The worker is stopped or killed while the job runs; arq runs the job    *)
(* again from the start.                                                   *)
WorkerStop(r) ==
    /\ "worker_stop" \in Faults
    /\ job[r] = "running"
    /\ job' = [job EXCEPT ![r] = "queued"]
    /\ step' = [step EXCEPT ![r] = "off"]
    /\ disturbed' = disturbed \cup {r}
    /\ UNCHANGED <<credits, subscribed, handlerVars, against, status, content,
                   tries, delivered, refunds>>

(* job_timeout cancels the job (CancelledError passes `except Exception`), *)
(* or refund_quota itself raises: arq does not run the job again.          *)
JobLost(r) ==
    /\ "job_lost" \in Faults
    /\ job[r] = "running"
    /\ job' = [job EXCEPT ![r] = "over"]
    /\ step' = [step EXCEPT ![r] = "off"]
    /\ UNCHANGED <<credits, subscribed, handlerVars, against, status, content,
                   tries, delivered, refunds, disturbed>>

(* Time passes the end of a subscription.                                  *)
SubscriptionEnds(a) ==
    /\ a \in subscribed
    /\ subscribed' = subscribed \ {a}
    /\ UNCHANGED <<credits, handlerVars, against, status, content, jobVars,
                   delivered, refunds, disturbed>>

Handler(r) ==
    \/ Refuse(r) \/ ConsumeQuota(r) \/ CreateContent(r) \/ CreateRequest(r)
    \/ Enqueue(r) \/ EnqueueRaises(r) \/ HandlerRefund(r) \/ HandlerCrash(r)

Worker(r) ==
    \/ StartJob(r) \/ GiveUp(r) \/ Calculate(r) \/ StartGenerating(r)
    \/ Generated(r) \/ GenerationFails(r) \/ JobRefund(r)
    \/ CompleteRequest(r) \/ Deliver(r) \/ FinishJob(r)

Next ==
    \/ \E r \in Requests : Handler(r) \/ Worker(r) \/ WorkerStop(r) \/ JobLost(r)
    \/ \E a \in Accounts : SubscriptionEnds(a)

Spec == Init /\ [][Next]_vars

(* A handler that has charged runs on to its answer unless its process     *)
(* dies, and arq polls its queue forever; users may never submit.          *)
HandlerGoesOn(r) == CreateContent(r) \/ CreateRequest(r) \/ Enqueue(r)
                    \/ EnqueueRaises(r) \/ HandlerRefund(r) \/ HandlerCrash(r)

FairSpec ==
    /\ Spec
    /\ \A r \in Requests : WF_vars(HandlerGoesOn(r)) /\ WF_vars(Worker(r))

-----------------------------------------------------------------------------
(* Properties                                                              *)

(* Types of the rows and of the program counters (domain/quota.py,         *)
(* domain/requests.py, tasks/): package_credits never goes below zero.     *)
TypeOK ==
    /\ credits \in [Accounts -> Nat]
    /\ subscribed \subseteq Accounts
    /\ phase \in [Requests -> Phases]
    /\ charge \in [Requests -> Charges]
    /\ against \in [Requests -> {"absent", "package", "subscription", "none"}]
    /\ status \in [Requests -> {"absent", "pending", "done", "refunded"}]
    /\ content \in [Requests -> {"absent", "pending", "calculating",
                                 "generating", "done", "failed"}]
    /\ job \in [Requests -> {"none", "queued", "running", "over"}]
    /\ step \in [Requests -> Steps]
    /\ tries \in [Requests -> 0..MaxTries]
    /\ delivered \in [Requests -> BOOLEAN]
    /\ refunds \in [Requests -> Nat]
    /\ disturbed \subseteq Requests

HoldsCredit(r) == charge[r] = "package" /\ against[r] # "none"
HeldBy(a) == {r \in Requests : Owner[r] = a /\ HoldsCredit(r)}
BotOnly(a) == \A r \in Requests : Owner[r] = a => Surface[r] = "bot"

(* A credit that consume_quota took is held by its request until one       *)
(* refund_quota puts it back: whatever crashes, re-runs and lost replies   *)
(* do, the bot's handlers and the worker neither create nor destroy one.   *)
CreditsConserved ==
    \A a \in Accounts :
        BotOnly(a) => credits[a] + Cardinality(HeldBy(a)) = InitialCredits[a]

(* The handler's refund (enqueue_or_refund) and the worker's refund of the *)
(* same request, in any order and however often the job runs, credit the   *)
(* account once.                                                           *)
RefundedAtMostOnce ==
    \A r \in Requests : Surface[r] = "bot" => refunds[r] <= 1

(* The same for every caller of refund_quota, which the repository calls   *)
(* idempotent; the API routes' refund is not.                              *)
RefundIdempotent == \A r \in Requests : refunds[r] <= 1

(* A job that a worker picks up finds the rows it was given the ids of,    *)
(* although the handler commits each of them on its own.                   *)
JobFindsItsRows ==
    \A r \in Requests :
        job[r] # "none" => against[r] # "absent" /\ content[r] # "absent"

(* Nobody keeps both the credit and the text: finished content stays       *)
(* charged, unless the request's enqueue reply was lost or its job was     *)
(* stopped and run again.                                                  *)
NoFreeContent ==
    \A r \in Requests \ disturbed :
        content[r] = "done" => against[r] \in {"package", "subscription"}

(* tasks/*.py: a generation that succeeded is never refunded afterwards by *)
(* its own job.                                                            *)
SuccessNotRefunded ==
    [][\A r \in Requests :
        (status[r] = "done" /\ delivered[r]) => refunds'[r] = refunds[r]]_vars

(* A submission that was answered and is charged ends with finished        *)
(* content or with the charge given back.                                  *)
AnsweredSettles ==
    \A r \in Requests :
        phase[r] = "answered" ~> (content[r] = "done" \/ against[r] = "none")

-----------------------------------------------------------------------------
(* The wallet this system implements.                                      *)
Wallet == INSTANCE CreditWallet WITH
    balance <- credits,
    held    <- {r \in Requests : HoldsCredit(r)},
    settled <- {r \in Requests : against[r] = "none"}

WalletSpec == Wallet!Spec
=============================================================================
