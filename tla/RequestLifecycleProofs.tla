----------------------- MODULE RequestLifecycleProofs -----------------------
(***************************************************************************)
(* Theorems about RequestLifecycle, for any number of requests, accounts,  *)
(* credits and job runs, and any combination of faults.                    *)
(***************************************************************************)
EXTENDS RequestLifecycle, FiniteSetTheorems, TLAPS

(* Which rows exist at which point of a submission.                        *)
RowsInv ==
    \A r \in Requests :
        /\ phase[r] \in {"idle", "refused"} <=> charge[r] = "unset"
        /\ \/ phase[r] \in {"idle", "refused", "charged"}
           \/ phase[r] = "half" /\ ContentFirst(r)
           => against[r] = "absent"
        /\ phase[r] \in {"ready", "refunding", "answered"} => against[r] # "absent"
        /\ phase[r] = "half" /\ ContentFirst(r) => content[r] # "absent"
        /\ phase[r] \in {"ready", "refunding", "answered"} => content[r] # "absent"
        /\ phase[r] = "half" /\ ~ContentFirst(r) => against[r] # "absent"

(* A job exists only once its handler has reached the enqueue call.        *)
JobsInv ==
    \A r \in Requests :
        /\ job[r] # "none" => phase[r] \in {"refunding", "answered", "crashed"}
        /\ job[r] # "none" => against[r] # "absent" /\ content[r] # "absent"
        /\ step[r] # "off" => job[r] = "running"

(* A request of the bot was refunded once if its row says "none", else     *)
(* never.                                                                  *)
RefundsInv ==
    \A r \in Requests :
        Surface[r] = "bot" =>
            refunds[r] = IF against[r] = "none" THEN 1 ELSE 0

(* An undisturbed job runs once: it refunds as the last thing it does, and  *)
(* only if it did not finish the content.                                  *)
ChargeInv ==
    \A r \in Requests \ disturbed :
        /\ phase[r] = "refunding" => job[r] = "none"
        /\ against[r] = "none" => phase[r] \in {"answered", "crashed"}
        /\ job[r] \in {"none", "queued"} => content[r] # "done"
        /\ job[r] = "queued" => against[r] # "none"
        /\ job[r] = "running" => step[r] # "off"
        /\ step[r] \in {"loaded", "calculated", "generating", "refunding"}
           => content[r] # "done"
        /\ step[r] \notin {"off", "returned"} => against[r] # "none"
        /\ content[r] = "done" => against[r] \in {"package", "subscription"}

IInv == TypeOK /\ RowsInv /\ JobsInv /\ RefundsInv /\ ChargeInv

(* The two outcomes of a refund, as an action of their own.                *)
LEMMA RefundQuotaCases ==
    ASSUME NEW r \in Requests, RefundQuota(r)
    PROVE  \/ against[r] # "none" /\ Refund(r)
           \/ against[r] = "none" /\ UNCHANGED <<credits, against, status, refunds>>
BY DEF RefundQuota, AlreadyRefunded

-----------------------------------------------------------------------------
LEMMA InitIInv == Init => IInv
BY RequestLifecycleAssumption
   DEF RequestLifecycleAssumption, Init, IInv, TypeOK, RowsInv, JobsInv, RefundsInv,
       ChargeInv, Phases, Charges, Steps

LEMMA HandlerTypeOK ==
    ASSUME IInv, NEW r \in Requests, Handler(r)
    PROVE  TypeOK'
<1> USE RequestLifecycleAssumption
        DEF RequestLifecycleAssumption, IInv, TypeOK, Phases, Charges, Steps, handlerVars, jobVars
<1>1. CASE Refuse(r)
    BY <1>1 DEF Refuse
<1>2. CASE ConsumeQuota(r)
    BY <1>2 DEF ConsumeQuota
<1>3. CASE CreateContent(r)
    BY <1>3 DEF CreateContent
<1>4. CASE CreateRequest(r)
    BY <1>4 DEF CreateRequest, RowsInv, ContentFirst
<1>5. CASE Enqueue(r)
    BY <1>5 DEF Enqueue
<1>6. CASE EnqueueRaises(r)
    BY <1>6 DEF EnqueueRaises
<1>7. CASE HandlerRefund(r)
    <2>1. CASE Refund(r)
        BY <1>7, <2>1 DEF HandlerRefund, Refund
    <2>2. CASE UNCHANGED <<credits, against, status, refunds>>
        BY <1>7, <2>2 DEF HandlerRefund
    <2> QED
        BY <1>7, <2>1, <2>2, RefundQuotaCases DEF HandlerRefund
<1>8. CASE HandlerCrash(r)
    BY <1>8 DEF HandlerCrash
<1> QED
    BY <1>1, <1>2, <1>3, <1>4, <1>5, <1>6, <1>7, <1>8 DEF Handler

LEMMA DeliverTypeOK ==
    ASSUME TypeOK, NEW r \in Requests, Deliver(r)
    PROVE  TypeOK'
<1>1. delivered \in [Requests -> BOOLEAN]
    BY DEF TypeOK
<1>2. delivered' = [delivered EXCEPT ![r] = TRUE] \/ delivered' = delivered
    BY DEF Deliver
<1>3. delivered' \in [Requests -> BOOLEAN]
    BY <1>1, <1>2
<1>4. step' \in [Requests -> Steps]
    BY DEF TypeOK, Deliver, Steps
<1> QED
    BY <1>3, <1>4 DEF TypeOK, Deliver, handlerVars

LEMMA WorkerTypeOK ==
    ASSUME IInv, NEW r \in Requests, Worker(r)
    PROVE  TypeOK'
<1> USE RequestLifecycleAssumption
        DEF RequestLifecycleAssumption, IInv, TypeOK, Phases, Charges, Steps, handlerVars, jobVars
<1>1. CASE StartJob(r)
    BY <1>1 DEF StartJob
<1>2. CASE GiveUp(r)
    BY <1>2 DEF GiveUp
<1>3. CASE Calculate(r)
    BY <1>3 DEF Calculate
<1>4. CASE StartGenerating(r)
    BY <1>4 DEF StartGenerating
<1>5. CASE Generated(r)
    BY <1>5 DEF Generated
<1>6. CASE GenerationFails(r)
    BY <1>6 DEF GenerationFails
<1>7. CASE JobRefund(r)
    <2>1. CASE Refund(r)
        BY <1>7, <2>1 DEF JobRefund, Refund
    <2>2. CASE UNCHANGED <<credits, against, status, refunds>>
        BY <1>7, <2>2 DEF JobRefund
    <2> QED
        BY <1>7, <2>1, <2>2, RefundQuotaCases DEF JobRefund
<1>8. CASE CompleteRequest(r)
    BY <1>8 DEF CompleteRequest
<1>9. CASE Deliver(r)
    BY <1>9, DeliverTypeOK
<1>10. CASE FinishJob(r)
    BY <1>10 DEF FinishJob
<1> QED
    BY <1>1, <1>2, <1>3, <1>4, <1>5, <1>6, <1>7, <1>8, <1>9, <1>10 DEF Worker

LEMMA FaultTypeOK ==
    ASSUME IInv,
           \/ \E r \in Requests : WorkerStop(r) \/ JobLost(r)
           \/ \E a \in Accounts : SubscriptionEnds(a)
           \/ UNCHANGED vars
    PROVE  TypeOK'
BY RequestLifecycleAssumption
   DEF RequestLifecycleAssumption, IInv, TypeOK, Phases, Charges, Steps, handlerVars,
       jobVars, vars, WorkerStop, JobLost, SubscriptionEnds

-----------------------------------------------------------------------------
(* The rest of the inductive invariant.                                    *)
LEMMA HandlerRest ==
    ASSUME IInv, NEW r \in Requests, Handler(r)
    PROVE  RowsInv' /\ JobsInv' /\ RefundsInv'
<1> USE DEF IInv, TypeOK, RowsInv, JobsInv, RefundsInv, ContentFirst, Phases, Charges,
            Steps, handlerVars, jobVars
<1>1. CASE Refuse(r)
    BY <1>1 DEF Refuse
<1>2. CASE ConsumeQuota(r)
    BY <1>2 DEF ConsumeQuota
<1>3. CASE CreateContent(r)
    BY <1>3 DEF CreateContent
<1>4. CASE CreateRequest(r)
    BY <1>4 DEF CreateRequest
<1>5. CASE Enqueue(r)
    BY <1>5 DEF Enqueue
<1>6. CASE EnqueueRaises(r)
    BY <1>6 DEF EnqueueRaises
<1>7. CASE HandlerRefund(r)
    <2>1. CASE Refund(r) /\ (Surface[r] = "bot" => against[r] # "none")
        BY <1>7, <2>1 DEF HandlerRefund, Refund
    <2>2. CASE UNCHANGED <<credits, against, status, refunds>>
        BY <1>7, <2>2 DEF HandlerRefund
    <2>3. CASE Surface[r] = "api" /\ Refund(r)
        BY <2>1, <2>3
    <2> QED
        BY <1>7, <2>1, <2>2, <2>3, RefundQuotaCases DEF HandlerRefund
<1>8. CASE HandlerCrash(r)
    BY <1>8 DEF HandlerCrash
<1> QED
    BY <1>1, <1>2, <1>3, <1>4, <1>5, <1>6, <1>7, <1>8 DEF Handler

LEMMA WorkerRest ==
    ASSUME IInv, NEW r \in Requests, Worker(r)
    PROVE  RowsInv' /\ JobsInv' /\ RefundsInv'
<1> USE DEF IInv, TypeOK, RowsInv, JobsInv, RefundsInv, ContentFirst, Phases, Charges,
            Steps, handlerVars, jobVars
<1>1. CASE StartJob(r)
    BY <1>1 DEF StartJob
<1>2. CASE GiveUp(r)
    BY <1>2 DEF GiveUp
<1>3. CASE Calculate(r)
    BY <1>3 DEF Calculate
<1>4. CASE StartGenerating(r)
    BY <1>4 DEF StartGenerating
<1>5. CASE Generated(r)
    BY <1>5 DEF Generated
<1>6. CASE GenerationFails(r)
    BY <1>6 DEF GenerationFails
<1>7. CASE JobRefund(r)
    <2>1. CASE Refund(r) /\ against[r] # "none"
        BY <1>7, <2>1 DEF JobRefund, Refund
    <2>2. CASE UNCHANGED <<credits, against, status, refunds>>
        BY <1>7, <2>2 DEF JobRefund
    <2> QED
        BY <1>7, <2>1, <2>2, RefundQuotaCases DEF JobRefund
<1>8. CASE CompleteRequest(r)
    BY <1>8 DEF CompleteRequest
<1>9. CASE Deliver(r)
    BY <1>9 DEF Deliver
<1>10. CASE FinishJob(r)
    BY <1>10 DEF FinishJob
<1> QED
    BY <1>1, <1>2, <1>3, <1>4, <1>5, <1>6, <1>7, <1>8, <1>9, <1>10 DEF Worker

LEMMA FaultRest ==
    ASSUME IInv,
           \/ \E r \in Requests : WorkerStop(r) \/ JobLost(r)
           \/ \E a \in Accounts : SubscriptionEnds(a)
           \/ UNCHANGED vars
    PROVE  RowsInv' /\ JobsInv' /\ RefundsInv'
BY DEF IInv, TypeOK, RowsInv, JobsInv, RefundsInv, ContentFirst, Phases, Steps,
       handlerVars, jobVars, vars, WorkerStop, JobLost, SubscriptionEnds

(* Finished content of an undisturbed request stays charged.               *)
LEMMA HandlerCharge ==
    ASSUME IInv, NEW r \in Requests, Handler(r)
    PROVE  ChargeInv'
<1> USE DEF IInv, TypeOK, RowsInv, JobsInv, ChargeInv, ContentFirst, Charges,
            handlerVars, jobVars
<1>1. CASE Refuse(r)
    BY <1>1 DEF Refuse
<1>2. CASE ConsumeQuota(r)
    BY <1>2 DEF ConsumeQuota
<1>3. CASE CreateContent(r)
    BY <1>3 DEF CreateContent
<1>4. CASE CreateRequest(r)
    BY <1>4 DEF CreateRequest
<1>5. CASE Enqueue(r)
    BY <1>5 DEF Enqueue
<1>6. CASE EnqueueRaises(r)
    <2>1. job[r] = "none"
        BY <1>6 DEF EnqueueRaises
    <2>2. CASE UNCHANGED <<job, disturbed>>
        BY <1>6, <2>1, <2>2 DEF EnqueueRaises
    <2>3. CASE disturbed' = disturbed \cup {r}
        <3>1. \A q \in Requests \ disturbed' : q \in Requests \ disturbed /\ q # r
            BY <2>3
        <3> QED
            BY <1>6, <3>1 DEF EnqueueRaises
    <2> QED
        BY <1>6, <2>2, <2>3 DEF EnqueueRaises
<1>7. CASE HandlerRefund(r)
    <2>1. CASE r \in disturbed
        BY <1>7, <2>1 DEF HandlerRefund, RefundQuota, Refund
    <2>2. CASE r \notin disturbed
        <3>1. job[r] = "none" /\ content[r] # "done" /\ step[r] = "off"
            BY <1>7, <2>2 DEF HandlerRefund
        <3> QED
            BY <1>7, <3>1 DEF HandlerRefund, RefundQuota, Refund
    <2> QED
        BY <2>1, <2>2
<1>8. CASE HandlerCrash(r)
    BY <1>8 DEF HandlerCrash
<1> QED
    BY <1>1, <1>2, <1>3, <1>4, <1>5, <1>6, <1>7, <1>8 DEF Handler

LEMMA WorkerCharge ==
    ASSUME IInv, NEW r \in Requests, Worker(r)
    PROVE  ChargeInv'
<1> USE DEF IInv, TypeOK, RowsInv, JobsInv, ChargeInv, ContentFirst, handlerVars,
            jobVars
<1>1. CASE StartJob(r)
    BY <1>1 DEF StartJob
<1>2. CASE GiveUp(r)
    BY <1>2 DEF GiveUp
<1>3. CASE Calculate(r)
    BY <1>3 DEF Calculate
<1>4. CASE StartGenerating(r)
    BY <1>4 DEF StartGenerating
<1>5. CASE Generated(r)
    BY <1>5 DEF Generated
<1>6. CASE GenerationFails(r)
    BY <1>6 DEF GenerationFails
<1>7. CASE JobRefund(r)
    BY <1>7 DEF JobRefund, RefundQuota, Refund
<1>8. CASE CompleteRequest(r)
    BY <1>8 DEF CompleteRequest
<1>9. CASE Deliver(r)
    BY <1>9 DEF Deliver
<1>10. CASE FinishJob(r)
    BY <1>10 DEF FinishJob
<1> QED
    BY <1>1, <1>2, <1>3, <1>4, <1>5, <1>6, <1>7, <1>8, <1>9, <1>10 DEF Worker

LEMMA FaultCharge ==
    ASSUME IInv,
           \/ \E r \in Requests : WorkerStop(r) \/ JobLost(r)
           \/ \E a \in Accounts : SubscriptionEnds(a)
           \/ UNCHANGED vars
    PROVE  ChargeInv'
BY DEF IInv, TypeOK, RowsInv, JobsInv, ChargeInv, handlerVars, jobVars, vars, WorkerStop,
       JobLost, SubscriptionEnds

LEMMA NextIInv == IInv /\ [Next]_vars => IInv'
<1> SUFFICES ASSUME IInv, [Next]_vars PROVE IInv'
    OBVIOUS
<1>1. ASSUME NEW r \in Requests, Handler(r) PROVE IInv'
    BY <1>1, HandlerTypeOK, HandlerRest, HandlerCharge DEF IInv
<1>2. ASSUME NEW r \in Requests, Worker(r) PROVE IInv'
    BY <1>2, WorkerTypeOK, WorkerRest, WorkerCharge DEF IInv
<1>3. CASE \/ \E r \in Requests : WorkerStop(r) \/ JobLost(r)
           \/ \E a \in Accounts : SubscriptionEnds(a)
           \/ UNCHANGED vars
    BY <1>3, FaultTypeOK, FaultRest, FaultCharge DEF IInv
<1> QED
    BY <1>1, <1>2, <1>3 DEF Next

LEMMA SpecIInv == Spec => []IInv
BY InitIInv, NextIInv, PTL DEF Spec

(* Every reachable state is well typed; in particular consume_quota never  *)
(* takes package_credits below zero.                                       *)
THEOREM TypeCorrect == Spec => []TypeOK
BY SpecIInv, PTL DEF IInv

(* Handler and worker together refund a request of the bot at most once.   *)
THEOREM RefundOnce == Spec => []RefundedAtMostOnce
<1>1. IInv => RefundedAtMostOnce
    BY DEF IInv, RefundsInv, RefundedAtMostOnce
<1> QED
    BY <1>1, SpecIInv, PTL

(* The worker never runs a job whose rows are not committed.               *)
THEOREM JobRowsExist == Spec => []JobFindsItsRows
<1>1. IInv => JobFindsItsRows
    BY DEF IInv, JobsInv, JobFindsItsRows
<1> QED
    BY <1>1, SpecIInv, PTL

(* Nobody keeps both the credit and the text.                              *)
THEOREM NoFreeText == Spec => []NoFreeContent
<1>1. IInv => NoFreeContent
    BY DEF IInv, ChargeInv, NoFreeContent
<1> QED
    BY <1>1, SpecIInv, PTL

-----------------------------------------------------------------------------
(* What a step can do to the credits and to the charge of the requests.    *)

Refunded(r) == against[r] = "none"

(* No credit moves, no charge is given back.                               *)
Quiet ==
    /\ credits' = credits
    /\ \A r \in Requests : HoldsCredit(r)' = HoldsCredit(r)
    /\ \A r \in Requests : Refunded(r)' = Refunded(r)

(* r takes a credit of its account.                                        *)
Takes(r) ==
    /\ ~HoldsCredit(r) /\ ~Refunded(r)
    /\ credits[Owner[r]] >= 1
    /\ credits' = [credits EXCEPT ![Owner[r]] = @ - 1]
    /\ charge' = [charge EXCEPT ![r] = "package"]
    /\ against' = against

(* r is refunded, with or without a credit.                                *)
Returns(r) ==
    /\ ~Refunded(r)
    /\ credits' = IF HoldsCredit(r) THEN [credits EXCEPT ![Owner[r]] = @ + 1]
                                    ELSE credits
    /\ against' = [against EXCEPT ![r] = "none"]
    /\ charge' = charge

(* The second refund of an API request: credits without a held credit.     *)
ReturnsAgain(r) ==
    /\ Surface[r] = "api"
    /\ Refunded(r)
    /\ \A a \in Accounts : a # Owner[r] => credits'[a] = credits[a]
    /\ charge' = charge
    /\ \A q \in Requests : Refunded(q)' = Refunded(q)

LEMMA RefundReturns ==
    ASSUME IInv, NEW r \in Requests, Refund(r), charge' = charge, ~Refunded(r)
    PROVE  Returns(r)
BY DEF Refund, Returns, Refunded, HoldsCredit

LEMMA HandlerEffect ==
    ASSUME IInv, NEW r \in Requests, Handler(r)
    PROVE  Quiet \/ Takes(r) \/ Returns(r) \/ ReturnsAgain(r)
<1> USE DEF IInv, TypeOK, RowsInv, HoldsCredit, Refunded
<1>1. CASE ConsumeQuota(r)
    <2>1. CASE Owner[r] \in subscribed
        BY <1>1, <2>1 DEF ConsumeQuota, Quiet
    <2>2. CASE Owner[r] \notin subscribed
        BY <1>1, <2>2 DEF ConsumeQuota, Takes
    <2> QED
        BY <2>1, <2>2
<1>2. CASE CreateRequest(r)
    BY <1>2 DEF CreateRequest, Quiet, ContentFirst, Charges
<1>3. CASE HandlerRefund(r)
    <2>1. charge' = charge
        BY <1>3 DEF HandlerRefund
    <2>2. CASE Refund(r) /\ ~Refunded(r)
        BY <2>1, <2>2, RefundReturns
    <2>3. CASE Surface[r] = "api" /\ Refund(r) /\ Refunded(r)
        <3>1. \A a \in Accounts : a # Owner[r] => credits'[a] = credits[a]
            BY <2>3 DEF Refund
        <3>2. \A q \in Requests : Refunded(q)' = Refunded(q)
            BY <2>3 DEF Refund
        <3> QED
            BY <2>1, <2>3, <3>1, <3>2 DEF ReturnsAgain
    <2>4. CASE UNCHANGED <<credits, against>>
        BY <2>1, <2>4 DEF Quiet
    <2> QED
        BY <1>3, <2>2, <2>3, <2>4, RefundQuotaCases DEF HandlerRefund
<1>4. CASE UNCHANGED <<credits, charge, against>>
    BY <1>4 DEF Quiet
<1> QED
    BY <1>1, <1>2, <1>3, <1>4
       DEF Handler, Refuse, CreateContent, Enqueue, EnqueueRaises, HandlerCrash

LEMMA OtherEffect ==
    ASSUME IInv,
           \/ \E r \in Requests : Worker(r) \/ WorkerStop(r) \/ JobLost(r)
           \/ \E a \in Accounts : SubscriptionEnds(a)
           \/ UNCHANGED vars
    PROVE  Quiet \/ \E r \in Requests : Returns(r)
<1>1. ASSUME NEW r \in Requests, JobRefund(r) PROVE Quiet \/ Returns(r)
    <2>1. charge' = charge
        BY <1>1 DEF JobRefund, handlerVars
    <2>2. CASE Refund(r) /\ ~Refunded(r)
        BY <2>1, <2>2, RefundReturns
    <2>3. CASE UNCHANGED <<credits, against>>
        BY <2>1, <2>3 DEF Quiet, HoldsCredit, Refunded
    <2> QED
        BY <1>1, <2>2, <2>3, RefundQuotaCases DEF JobRefund, Refunded
<1>2. CASE UNCHANGED <<credits, charge, against>>
    BY <1>2 DEF Quiet, HoldsCredit, Refunded
<1> QED
    BY <1>1, <1>2
       DEF Worker, StartJob, GiveUp, Calculate, StartGenerating, Generated,
           GenerationFails, CompleteRequest, Deliver, FinishJob, WorkerStop, JobLost,
           SubscriptionEnds, handlerVars, vars

LEMMA StepEffect ==
    ASSUME IInv, [Next]_vars
    PROVE  \/ Quiet
           \/ \E r \in Requests : Takes(r) \/ Returns(r) \/ ReturnsAgain(r)
BY HandlerEffect, OtherEffect DEF Next

-----------------------------------------------------------------------------
LEMMA HeldFinite == \A a \in Accounts : IsFiniteSet(HeldBy(a))
BY RequestLifecycleAssumption, FS_Subset DEF RequestLifecycleAssumption, HeldBy

LEMMA ConservedStep ==
    ASSUME IInv, CreditsConserved, [Next]_vars
    PROVE  CreditsConserved'
<1> SUFFICES ASSUME NEW a \in Accounts, BotOnly(a)
             PROVE  credits'[a] + Cardinality(HeldBy(a)') = InitialCredits[a]
    BY DEF CreditsConserved, BotOnly
<1> DEFINE H == HeldBy(a)
<1>1. credits[a] + Cardinality(H) = InitialCredits[a]
    BY DEF CreditsConserved
<1>2. IsFiniteSet(H) /\ Cardinality(H) \in Nat
    BY HeldFinite, FS_CardinalityType
<1>3. credits[a] \in Nat /\ credits \in [Accounts -> Nat] /\ InitialCredits[a] \in Nat
    BY RequestLifecycleAssumption DEF IInv, TypeOK, RequestLifecycleAssumption
<1>4. \A r \in Requests : Owner[r] \in Accounts
    BY RequestLifecycleAssumption DEF RequestLifecycleAssumption
<1>5. charge \in [Requests -> Charges] /\ DOMAIN against = Requests
    BY DEF IInv, TypeOK
<1>6. CASE Quiet
    <2>1. HeldBy(a)' = H
        BY <1>6 DEF Quiet, HeldBy
    <2> QED
        BY <1>1, <1>6, <2>1 DEF Quiet
<1>7. ASSUME NEW r \in Requests, Takes(r)
      PROVE  credits'[a] + Cardinality(HeldBy(a)') = InitialCredits[a]
    <2>1. CASE Owner[r] = a
        <3>1. HeldBy(a)' = H \cup {r} /\ r \notin H
            BY <1>5, <1>7, <2>1 DEF Takes, HeldBy, HoldsCredit, Refunded
        <3>2. Cardinality(H \cup {r}) = Cardinality(H) + 1
            BY <1>2, <3>1, FS_AddElement
        <3>3. credits'[a] = credits[a] - 1
            BY <1>3, <1>7, <2>1 DEF Takes
        <3> QED
            BY <1>1, <1>2, <1>3, <3>1, <3>2, <3>3
    <2>2. CASE Owner[r] # a
        <3>1. HeldBy(a)' = H
            BY <1>5, <1>7, <2>2 DEF Takes, HeldBy, HoldsCredit
        <3> QED
            BY <1>1, <1>3, <1>7, <2>2, <3>1 DEF Takes
    <2> QED
        BY <2>1, <2>2
<1>8. ASSUME NEW r \in Requests, Returns(r)
      PROVE  credits'[a] + Cardinality(HeldBy(a)') = InitialCredits[a]
    <2>1. HeldBy(a)' = H \ {r}
        BY <1>5, <1>8 DEF Returns, HeldBy, HoldsCredit
    <2>2. CASE r \in H
        <3>1. Cardinality(H \ {r}) = Cardinality(H) - 1
            BY <1>2, <2>2, FS_RemoveElement
        <3>2. credits'[a] = credits[a] + 1
            BY <1>3, <1>8, <2>2 DEF Returns, HeldBy
        <3> QED
            BY <1>1, <1>2, <1>3, <2>1, <3>1, <3>2
    <2>3. CASE r \notin H
        <3>1. credits'[a] = credits[a]
            BY <1>3, <1>8, <2>3 DEF Returns, HeldBy
        <3>2. H \ {r} = H
            BY <2>3
        <3> QED
            BY <1>1, <2>1, <3>1, <3>2
    <2> QED
        BY <2>2, <2>3
<1>9. ASSUME NEW r \in Requests, ReturnsAgain(r)
      PROVE  credits'[a] + Cardinality(HeldBy(a)') = InitialCredits[a]
    <2>1. Owner[r] # a
        BY <1>9 DEF ReturnsAgain, BotOnly
    <2>2. HeldBy(a)' = H
        BY <1>9 DEF ReturnsAgain, HeldBy, HoldsCredit, Refunded
    <2> QED
        BY <1>1, <1>9, <2>1, <2>2 DEF ReturnsAgain
<1> QED
    BY <1>6, <1>7, <1>8, <1>9, StepEffect

(* No credit of an account that submits through the bot is ever created or *)
(* lost: it is on the account or held by exactly one unrefunded request.   *)
THEOREM Conserved == Spec => []CreditsConserved
<1>1. Init => CreditsConserved
    <2> SUFFICES ASSUME Init, NEW a \in Accounts
                 PROVE  credits[a] + Cardinality(HeldBy(a)) = InitialCredits[a]
        BY DEF CreditsConserved
    <2>1. HeldBy(a) = {}
        BY DEF Init, HeldBy, HoldsCredit
    <2> QED
        BY <2>1, FS_EmptySet, RequestLifecycleAssumption
           DEF Init, RequestLifecycleAssumption
<1>2. IInv /\ CreditsConserved /\ [Next]_vars => CreditsConserved'
    BY ConservedStep
<1> QED
    BY <1>1, <1>2, SpecIInv, PTL DEF Spec

-----------------------------------------------------------------------------
(* With the bot's handlers only, every step is a step of the wallet or     *)
(* leaves it alone: the asynchronous pipeline implements CreditWallet.     *)
THEOREM ImplementsWallet ==
    ASSUME \A r \in Requests : Surface[r] = "bot"
    PROVE  Spec => WalletSpec
<1>1. Init => Wallet!Init
    BY DEF Init, Wallet!Init, HoldsCredit
<1>2. IInv /\ [Next]_vars => [Wallet!Next]_(Wallet!vars)
    <2> SUFFICES ASSUME IInv, [Next]_vars
                 PROVE  Wallet!Next \/ UNCHANGED Wallet!vars
        OBVIOUS
    <2> DEFINE Held == {r \in Requests : HoldsCredit(r)}
               Settled == {r \in Requests : against[r] = "none"}
    <2>1. charge \in [Requests -> Charges] /\ DOMAIN against = Requests
        BY DEF IInv, TypeOK
    <2>2. CASE Quiet
        <3>1. Held' = Held /\ Settled' = Settled
            BY <2>2 DEF Quiet, Refunded
        <3> QED
            BY <2>2, <3>1 DEF Quiet, Wallet!vars
    <2>3. ASSUME NEW r \in Requests, Takes(r) PROVE Wallet!Charge(r)
        <3>a. credits[Owner[r]] \in Nat
            BY RequestLifecycleAssumption DEF IInv, TypeOK, RequestLifecycleAssumption
        <3>1. r \notin Held /\ r \notin Settled /\ credits[Owner[r]] > 0
            BY <2>3, <3>a DEF Takes, Refunded
        <3>2. Held' = Held \cup {r} /\ Settled' = Settled
            BY <2>1, <2>3 DEF Takes, HoldsCredit, Refunded
        <3> QED
            BY <2>3, <3>1, <3>2 DEF Takes, Wallet!Charge
    <2>4. ASSUME NEW r \in Requests, Returns(r)
          PROVE  Wallet!GiveBack(r) \/ Wallet!Release(r)
        <3>1. Settled' = Settled \cup {r} /\ r \notin Settled
            BY <2>1, <2>4 DEF Returns, Refunded
        <3>2. Held' = Held \ {r}
            BY <2>1, <2>4 DEF Returns, HoldsCredit
        <3>3. CASE r \in Held
            BY <2>4, <3>1, <3>2, <3>3 DEF Returns, Wallet!GiveBack
        <3>4. CASE r \notin Held
            <4>1. Held' = Held
                BY <3>2, <3>4
            <4> QED
                BY <2>4, <3>1, <3>4, <4>1 DEF Returns, Wallet!Release
        <3> QED
            BY <3>3, <3>4
    <2>5. ASSUME NEW r \in Requests PROVE ~ReturnsAgain(r)
        BY DEF ReturnsAgain
    <2> QED
        BY <2>2, <2>3, <2>4, <2>5, StepEffect DEF Wallet!Next
<1> QED
    BY <1>1, <1>2, SpecIInv, PTL DEF Spec, WalletSpec, Wallet!Spec
=============================================================================
