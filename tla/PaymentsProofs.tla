--------------------------- MODULE PaymentsProofs ---------------------------
(***************************************************************************)
(* Proofs about Payments for any number of payments, handlers and plans.   *)
(*                                                                         *)
(* CInv is about the crediting of payments, RInv about the subscriptions   *)
(* and their reminders, AInv about the balance that follows them; all rest *)
(* on the types Shape.                                                     *)
(***************************************************************************)
EXTENDS Payments, TLAPS

(* Types of what the two arguments below look at.                          *)
Shape ==
    /\ DOMAIN proc = Processes
    /\ now \in Nat /\ crashes \in Nat
    /\ Invoices \subseteq Payments
    /\ payments \in [Invoices -> [status : {"pending", "paid"}, plan : Plans]]
    /\ credited \in [Payments -> Nat]
    /\ subs \in Seq(Row)

(* A payment that a handler has read exists, and a renewal is planned for  *)
(* a row that is there, or for a new one.                                  *)
HandlerShape ==
    \A h \in Handlers :
        /\ proc[h].op \in {"mark", "plan", "write"} => proc[h].payment \in Invoices
        /\ proc[h].op = "write" =>
               /\ proc[h].plan \in SubscriptionPlans
               /\ proc[h].sub \in 0..Len(subs)
               /\ proc[h].status \in {"active", "grace"}
               /\ proc[h].ends \in Nat
               /\ proc[h].reminded \in BOOLEAN

JobShape ==
    LET x == proc[Sweeper] IN
    /\ x.op \notin {"plan", "write"}
    /\ x.op \in {"ended", "lapsed"} => x.ended \subseteq 1..Len(subs)
    /\ x.op = "ended" => x.at \in 0..now
    /\ x.op = "lapsed" => x.lapsed \subseteq 1..Len(subs)
    /\ x.op \in {"remind", "reminded"} => x.due \subseteq (1..Len(subs)) \X Nat
    /\ x.op = "reminded" => x.one \in x.due
    /\ sent \subseteq (1..Len(subs)) \X Nat

TInv == Shape /\ HandlerShape /\ JobShape

-----------------------------------------------------------------------------
(* Crediting                                                               *)

(* Where a handler is with its payment: it has read it as pending, or has  *)
(* marked it paid.                                                         *)
Read(h, p) == proc[h].op = "mark" /\ proc[h].payment = p
Marked(h, p) == proc[h].op \in {"plan", "write"} /\ proc[h].payment = p

(* Only a paid payment has been credited or is about to be, and a paid one *)
(* has, unless it is recorded as lost.                                     *)
PaidInv ==
    \A p \in Payments :
        IF p \in Invoices /\ payments[p].status = "paid"
        THEN credited[p] > 0 \/ p \in lost \/ \E h \in Handlers : Marked(h, p)
        ELSE credited[p] = 0 /\ \A h \in Handlers : ~Marked(h, p)

(* A payment that was never read by two handlers at once has at most one   *)
(* handler, which still has to credit it.                                  *)
OnceInv ==
    \A p \in Payments \ overlapped :
        /\ \A h, k \in Handlers : Carries(h, p) /\ Carries(k, p) => h = k
        /\ \A h \in Handlers : Read(h, p) => payments[p].status = "pending"
        /\ \A h \in Handlers : Carries(h, p) => credited[p] = 0
        /\ credited[p] <= 1

CInv == PaidInv /\ OnceInv

-----------------------------------------------------------------------------
(* Subscriptions: what holds of a row that was not overtaken               *)

(* What a renewal has read of a row is still so, and it moves the end on.  *)
FreshWrites ==
    \A h \in Handlers : \A i \in 1..Len(subs) :
        proc[h].op = "write" /\ proc[h].sub = i /\ i \notin overtaken =>
            /\ subs[i].status = proc[h].status
            /\ subs[i].reminded = proc[h].reminded
            /\ subs[i].ends < proc[h].ends

(* The rows the job is going to move have ended.                           *)
SweptEnded ==
    \A i \in 1..Len(subs) :
        /\ i \notin overtaken
        /\ \/ proc[Sweeper].op \in {"ended", "lapsed"} /\ i \in proc[Sweeper].ended
           \/ proc[Sweeper].op = "lapsed" /\ i \in proc[Sweeper].lapsed
        => subs[i].ends <= now

(* The ends the job is going to remind of are those of the rows, and the   *)
(* one it marks next has been reminded of.                                 *)
DueTrue ==
    /\ proc[Sweeper].op \in {"remind", "reminded"} =>
           \A d \in proc[Sweeper].due :
               d[1] \notin overtaken => subs[d[1]].ends = d[2]
    /\ proc[Sweeper].op = "reminded" => proc[Sweeper].one \in sent

(* While nothing has died, an end that was reminded of is in the past of   *)
(* its row, is marked, or is the one to be marked next; and it is not due. *)
SentMarked ==
    \A d \in sent :
        crashes = 0 /\ d[1] \notin overtaken =>
            /\ d[2] <= subs[d[1]].ends
            /\ subs[d[1]].ends = d[2] =>
                   \/ subs[d[1]].reminded
                   \/ proc[Sweeper].op = "reminded" /\ proc[Sweeper].one = d
            /\ proc[Sweeper].op = "remind" => d \notin proc[Sweeper].due
            /\ proc[Sweeper].op = "reminded" /\ d \in proc[Sweeper].due =>
                   proc[Sweeper].one = d

RInv ==
    /\ ActiveWhileRunning /\ FreshWrites /\ SweptEnded
    /\ DueTrue /\ ReminderNotSuppressed /\ SentMarked /\ RemindedOnce

-----------------------------------------------------------------------------
(* Proofs of the types                                                     *)

LEMMA GotoEffect ==
    ASSUME Shape, NEW q \in Processes, NEW x, Goto(q, x)
    PROVE  /\ DOMAIN proc' = Processes
           /\ proc'[q] = x
           /\ \A r \in Processes : r # q => proc'[r] = proc[r]
BY DEF Goto, Shape

LEMMA SubsRows ==
    ASSUME Shape
    PROVE  /\ DOMAIN subs = 1..Len(subs) /\ Len(subs) \in Nat
           /\ \A i \in 1..Len(subs) : subs[i] \in Row
BY DEF Shape

LEMMA CreditedTyped ==
    ASSUME Shape, NEW p \in Payments, credited' = [credited EXCEPT ![p] = @ + 1]
    PROVE  credited' \in [Payments -> Nat]
<1>1. credited[p] + 1 \in Nat
    BY DEF Shape
<1> QED
    BY <1>1 DEF Shape

(* A handler that leaves the rows alone.                                   *)
LEMMA HandlerTInv ==
    ASSUME TInv, NEW h \in Handlers, NEW x, Goto(h, x),
           UNCHANGED <<now, payments, subs, sent, crashes>>, credited' \in [Payments -> Nat],
           x.op \in {"mark", "plan"} => x.payment \in Invoices,
           x.op # "write"
    PROVE  TInv'
<1>1. Shape'
    BY GotoEffect, PaymentsAssumption DEF TInv, Shape, Invoices, Processes
<1>2. HandlerShape'
    BY GotoEffect DEF TInv, HandlerShape, Invoices, Processes
<1>3. JobShape'
    BY GotoEffect, PaymentsAssumption DEF TInv, JobShape, Processes
<1> QED
    BY <1>1, <1>2, <1>3 DEF TInv

LEMMA MaxOfTwo ==
    ASSUME NEW a \in Nat, NEW b \in Nat
    PROVE  Max({a, b}) \in Nat /\ a <= Max({a, b})
<1>1. \E m \in {a, b} : \A y \in {a, b} : m >= y
    OBVIOUS
<1> QED
    BY <1>1 DEF Max

(* What ReadSubscription plans: a new row, or a later end for a live one.  *)
LEMMA RenewalPlanned ==
    ASSUME TInv, NEW h \in Handlers, ReadSubscription(h)
    PROVE  LET x == proc'[h] IN
           /\ x.op = "write" /\ x.payment = proc[h].payment
           /\ proc[h].op = "plan" /\ x.payment \in Invoices
           /\ x.plan \in SubscriptionPlans /\ x.sub \in 0..Len(subs)
           /\ x.status \in {"active", "grace"}
           /\ x.ends \in Nat /\ x.reminded \in BOOLEAN
           /\ x.sub # 0 => /\ x.status = subs[x.sub].status
                            /\ x.reminded = subs[x.sub].reminded
                            /\ subs[x.sub].ends < x.ends
           /\ \A r \in Processes : r # h => proc'[r] = proc[r]
           /\ DOMAIN proc' = Processes
<1> DEFINE p    == proc[h].payment
           plan == payments[p].plan
           W(i, status, ends, reminded) ==
               [op |-> "write", payment |-> p, plan |-> plan, sub |-> i,
                status |-> status, ends |-> ends, reminded |-> reminded]
<1>1. p \in Invoices /\ plan \in SubscriptionPlans /\ proc[h].op = "plan"
    BY DEF ReadSubscription, TInv, HandlerShape
<1>2. CASE Goto(h, W(0, "active", now + Period, FALSE))
    <2>1. now + Period \in Nat
        BY PaymentsAssumption DEF TInv, Shape
    <2>2. 0 \in 0..Len(subs)
        BY SubsRows DEF TInv
    <2>3. h \in Processes
        BY DEF Processes
    <2>4. /\ DOMAIN proc' = Processes /\ proc'[h] = W(0, "active", now + Period, FALSE)
          /\ \A r \in Processes : r # h => proc'[r] = proc[r]
        BY <1>2, <2>3, GotoEffect DEF TInv
    <2>5. LET x == proc'[h] IN
          /\ x.op = "write" /\ x.payment = p /\ x.plan = plan /\ x.sub = 0
          /\ x.status = "active" /\ x.ends = now + Period /\ x.reminded = FALSE
        BY <2>4
    <2> QED
        BY <1>1, <2>1, <2>2, <2>4, <2>5
<1>3. ASSUME NEW i \in LiveRows(plan),
             Goto(h, W(i, subs[i].status, Max({subs[i].ends, now}) + Period,
                       subs[i].reminded))
      PROVE  LET x == proc'[h] IN
             /\ x = W(i, subs[i].status, Max({subs[i].ends, now}) + Period,
                      subs[i].reminded)
             /\ i \in 1..Len(subs) /\ subs[i].status \in {"active", "grace"}
             /\ Max({subs[i].ends, now}) + Period \in Nat
             /\ subs[i].reminded \in BOOLEAN
             /\ subs[i].ends < Max({subs[i].ends, now}) + Period
             /\ \A r \in Processes : r # h => proc'[r] = proc[r]
             /\ DOMAIN proc' = Processes
    <2>1. i \in 1..Len(subs) /\ subs[i] \in Row /\ IsLive(subs[i])
        BY SubsRows DEF LiveRows, TInv
    <2>2. now \in Nat /\ subs[i].ends \in Nat
        BY <2>1 DEF TInv, Shape, Row
    <2>3. Max({subs[i].ends, now}) \in Nat /\ subs[i].ends <= Max({subs[i].ends, now})
        BY <2>2, MaxOfTwo
    <2>4. /\ Max({subs[i].ends, now}) + Period \in Nat
          /\ subs[i].ends < Max({subs[i].ends, now}) + Period
        BY <2>2, <2>3, PaymentsAssumption
    <2>5. subs[i].status \in {"active", "grace"} /\ subs[i].reminded \in BOOLEAN
        BY <2>1 DEF IsLive, Row
    <2> QED
        BY <1>3, <2>1, <2>4, <2>5, GotoEffect DEF TInv, Processes
<1>4. \/ Goto(h, W(0, "active", now + Period, FALSE))
      \/ \E i \in LiveRows(plan) :
            Goto(h, W(i, subs[i].status, Max({subs[i].ends, now}) + Period,
                      subs[i].reminded))
    BY DEF ReadSubscription
<1>5. ASSUME NEW i \in LiveRows(plan),
             Goto(h, W(i, subs[i].status, Max({subs[i].ends, now}) + Period,
                       subs[i].reminded))
      PROVE  LET x == proc'[h] IN
             /\ x.op = "write" /\ x.payment = p /\ x.plan = plan /\ x.sub = i
             /\ x.status = subs[i].status /\ x.reminded = subs[i].reminded
             /\ x.sub \in 0..Len(subs)
             /\ x.status \in {"active", "grace"} /\ x.ends \in Nat
             /\ x.reminded \in BOOLEAN /\ subs[i].ends < x.ends
             /\ \A r \in Processes : r # h => proc'[r] = proc[r]
             /\ DOMAIN proc' = Processes
    <2>1. 1..Len(subs) \subseteq 0..Len(subs)
        BY SubsRows DEF TInv
    <2> QED
        BY <1>3, <1>5, <2>1
<1> QED
    BY <1>1, <1>2, <1>4, <1>5, GotoEffect DEF TInv, Processes

LEMMA ReadSubscriptionTInv ==
    ASSUME TInv, NEW h \in Handlers, ReadSubscription(h)
    PROVE  TInv'
<1>1. UNCHANGED <<now, payments, subs, sent, crashes, credited>>
    BY DEF ReadSubscription, rows, histories
<1>2. Shape'
    BY <1>1, RenewalPlanned DEF TInv, Shape, Invoices
<1>3. HandlerShape'
    BY <1>1, RenewalPlanned DEF TInv, HandlerShape, Invoices, Processes
<1>4. proc'[Sweeper] = proc[Sweeper]
    BY RenewalPlanned, PaymentsAssumption DEF Processes
<1>5. JobShape'
    BY <1>1, <1>4 DEF TInv, JobShape
<1> QED
    BY <1>2, <1>3, <1>5 DEF TInv

(* A renewal appends a row or replaces one: the others stay as they are.   *)
LEMMA RenewalWritten ==
    ASSUME TInv, NEW h \in Handlers, WriteSubscription(h)
    PROVE  LET x == proc[h] IN
           /\ subs' \in Seq(Row)
           /\ x.sub = 0 => /\ Len(subs') = Len(subs) + 1
                            /\ subs'[Len(subs) + 1] = NewRow(x)
           /\ x.sub # 0 => /\ Len(subs') = Len(subs) /\ x.sub \in 1..Len(subs)
                            /\ subs'[x.sub] = Renewed(subs[x.sub], x)
           /\ \A i \in 1..Len(subs) : i # x.sub => subs'[i] = subs[i]
<1> DEFINE x == proc[h]
<1>1. /\ x.op = "write" /\ subs' = SubsAfter(x)
      /\ x.plan \in SubscriptionPlans /\ x.sub \in 0..Len(subs)
      /\ x.ends \in Nat /\ x.reminded \in BOOLEAN
    BY DEF WriteSubscription, TInv, HandlerShape
<1>2. subs \in Seq(Row) /\ Len(subs) \in Nat
    BY SubsRows DEF TInv, Shape
<1>3. CASE x.sub = 0
    <2>1. NewRow(x) \in Row
        BY <1>1 DEF NewRow, Row
    <2>2. subs' = Append(subs, NewRow(x))
        BY <1>1, <1>3 DEF SubsAfter
    <2> QED
        BY <1>2, <1>3, <2>1, <2>2
<1>4. CASE x.sub # 0
    <2>1. x.sub \in 1..Len(subs)
        BY <1>1, <1>2, <1>4
    <2>2. subs[x.sub] \in Row
        BY <2>1, SubsRows DEF TInv
    <2>3. Renewed(subs[x.sub], x) \in Row
        BY <1>1, <2>2 DEF Renewed, Row
    <2>4. subs' = [subs EXCEPT ![x.sub] = Renewed(subs[x.sub], x)]
        BY <1>1, <1>4 DEF SubsAfter
    <2> QED
        BY <1>2, <1>4, <2>1, <2>3, <2>4
<1> QED
    BY <1>3, <1>4

LEMMA WriteSubscriptionTInv ==
    ASSUME TInv, NEW h \in Handlers, WriteSubscription(h)
    PROVE  TInv'
<1>1. UNCHANGED <<now, payments, sent, crashes>>
    BY DEF WriteSubscription
<1>2. credited' \in [Payments -> Nat]
    <2>1. proc[h].payment \in Payments
        BY DEF WriteSubscription, TInv, HandlerShape, Shape
    <2> QED
        BY <2>1, CreditedTyped DEF WriteSubscription, TInv
<1>3. Goto(h, [op |-> "recompute"])
    BY DEF WriteSubscription
<1>4. subs' \in Seq(Row) /\ Len(subs') \in Nat /\ Len(subs) <= Len(subs')
    BY RenewalWritten, SubsRows DEF TInv
<1>5. Shape'
    BY <1>1, <1>2, <1>3, <1>4, GotoEffect DEF TInv, Shape, Invoices, Processes
<1>6. 0..Len(subs) \subseteq 0..Len(subs') /\ 1..Len(subs) \subseteq 1..Len(subs')
    BY <1>4, SubsRows DEF TInv
<1>7. HandlerShape'
    BY <1>1, <1>3, <1>6, GotoEffect DEF TInv, HandlerShape, Invoices, Processes
<1>8. proc'[Sweeper] = proc[Sweeper]
    BY <1>3, GotoEffect, PaymentsAssumption DEF Processes, TInv
<1>9. JobShape'
    BY <1>1, <1>6, <1>8 DEF TInv, JobShape
<1> QED
    BY <1>5, <1>7, <1>9 DEF TInv

(* The two commits of fulfill_payment and the reads between them.          *)
LEMMA FulfillTInv ==
    ASSUME TInv, NEW h \in Handlers, Fulfill(h)
    PROVE  TInv'
<1> USE DEF rows, histories, Idle
<1>1. ASSUME NEW p \in Payments, ReadPayment(h, p) PROVE TInv'
    BY <1>1, HandlerTInv DEF ReadPayment, TInv, Shape
<1>2. CASE MarkPaid(h)
    <2> DEFINE p == proc[h].payment
    <2>1. p \in Invoices
        BY <1>2 DEF MarkPaid, TInv, HandlerShape
    <2>2. Invoices' = Invoices
          /\ payments' \in [Invoices -> [status : {"pending", "paid"}, plan : Plans]]
        BY <1>2, <2>1 DEF MarkPaid, TInv, Shape, Invoices
    <2>3. Goto(h, [op |-> "plan", payment |-> p])
        BY <1>2 DEF MarkPaid
    <2>4. Shape'
        BY <1>2, <2>2, <2>3, GotoEffect DEF MarkPaid, TInv, Shape, Processes
    <2>5. HandlerShape'
        BY <1>2, <2>1, <2>2, <2>3, GotoEffect DEF MarkPaid, TInv, HandlerShape, Processes
    <2>6. JobShape'
        BY <1>2, <2>3, GotoEffect, PaymentsAssumption
           DEF MarkPaid, TInv, JobShape, Processes
    <2> QED
        BY <2>4, <2>5, <2>6 DEF TInv
<1>3. CASE PlanWithdrawn(h)
    BY <1>3, HandlerTInv DEF PlanWithdrawn, TInv, Shape
<1>4. CASE ApplyPackagePayment(h)
    <2>1. proc[h].payment \in Payments
        BY <1>4 DEF ApplyPackagePayment, TInv, HandlerShape, Shape
    <2>2. credited' \in [Payments -> Nat]
        BY <1>4, <2>1, CreditedTyped DEF ApplyPackagePayment, TInv
    <2> QED
        BY <1>4, <2>2, HandlerTInv DEF ApplyPackagePayment
<1>5. CASE ReadSubscription(h)
    BY <1>5, ReadSubscriptionTInv
<1>6. CASE WriteSubscription(h)
    BY <1>6, WriteSubscriptionTInv
<1>7. CASE WriteRefused(h)
    BY <1>7, HandlerTInv DEF WriteRefused, TInv, Shape
<1>8. CASE RecomputeRead(h)
    BY <1>8, HandlerTInv DEF RecomputeRead, TInv, Shape
<1>9. CASE RecomputeWrite(h)
    <2>1. h # Sweeper
        BY PaymentsAssumption
    <2> QED
        BY <1>9, <2>1, HandlerTInv DEF RecomputeWrite, TInv, Shape
<1> QED
    BY <1>1, <1>2, <1>3, <1>4, <1>5, <1>6, <1>7, <1>8, <1>9 DEF Fulfill

(* The job leaves payments and the handlers alone.                         *)
LEMMA JobTInv ==
    ASSUME TInv, NEW x, Goto(Sweeper, x),
           UNCHANGED <<now, payments, crashes, credited>>,
           subs' \in Seq(Row), Len(subs') = Len(subs),
           JobShape'
    PROVE  TInv'
<1>1. /\ DOMAIN proc' = Processes
      /\ \A h \in Handlers : proc'[h] = proc[h]
    BY GotoEffect, PaymentsAssumption DEF TInv, Processes
<1>2. Shape'
    BY <1>1 DEF TInv, Shape, Invoices
<1>3. HandlerShape'
    BY <1>1 DEF TInv, HandlerShape, Invoices
<1> QED
    BY <1>2, <1>3 DEF TInv

(* The rows after the commit of the sweep: only their status changes.      *)
LEMMA Swept ==
    ASSUME TInv, SweepCommit
    PROVE  /\ subs' \in Seq(Row) /\ Len(subs') = Len(subs)
           /\ \A i \in 1..Len(subs) :
                 /\ subs'[i].ends = subs[i].ends
                 /\ subs'[i].reminded = subs[i].reminded
                 /\ subs'[i].status \in {subs[i].status, "grace", "expired"}
                 /\ subs'[i] # subs[i] =>
                       i \in proc[Sweeper].ended \cup proc[Sweeper].lapsed
<1> DEFINE x == proc[Sweeper]
           New(i) == IF i \in x.lapsed THEN [subs[i] EXCEPT !.status = "expired"]
                     ELSE IF i \in x.ended THEN [subs[i] EXCEPT !.status = "grace"]
                     ELSE subs[i]
<1>1. subs' = [i \in 1..Len(subs) |-> New(i)] /\ Len(subs) \in Nat
    BY SubsRows DEF SweepCommit, TInv
<1>2. ASSUME NEW i \in 1..Len(subs)
      PROVE  /\ New(i) \in Row
             /\ New(i).ends = subs[i].ends /\ New(i).reminded = subs[i].reminded
             /\ New(i).status \in {subs[i].status, "grace", "expired"}
             /\ New(i) # subs[i] => i \in x.ended \cup x.lapsed
    BY SubsRows DEF TInv, Row
<1> HIDE DEF New
<1>3. subs' \in Seq(Row) /\ Len(subs') = Len(subs)
    BY <1>1, <1>2
<1> QED
    BY <1>1, <1>2, <1>3

LEMMA ReminderMarked ==
    ASSUME TInv, MarkReminderSent
    PROVE  LET i == proc[Sweeper].one[1] IN
           /\ subs' \in Seq(Row) /\ Len(subs') = Len(subs)
           /\ i \in 1..Len(subs)
           /\ subs[i] \in Row
           /\ subs'[i] = [subs[i] EXCEPT !.reminded = TRUE]
           /\ \A j \in 1..Len(subs) : j # i => subs'[j] = subs[j]
<1> DEFINE i   == proc[Sweeper].one[1]
           row == [subs[i] EXCEPT !.reminded = TRUE]
<1>1. i \in 1..Len(subs)
    BY DEF MarkReminderSent, TInv, JobShape
<1>2. subs \in Seq(Row) /\ subs[i] \in Row
    BY <1>1, SubsRows DEF TInv, Shape
<1>3. row \in Row
    BY <1>2 DEF Row
<1>4. subs' = [subs EXCEPT ![i] = row]
    BY <1>1, <1>2 DEF MarkReminderSent
<1>5. row = [subs[i] EXCEPT !.reminded = TRUE]
    OBVIOUS
<1> HIDE DEF row
<1>6. /\ subs' \in Seq(Row) /\ Len(subs') = Len(subs)
      /\ subs'[i] = row
      /\ \A j \in 1..Len(subs) : j # i => subs'[j] = subs[j]
    BY <1>1, <1>2, <1>3, <1>4
<1> QED
    BY <1>1, <1>2, <1>5, <1>6

LEMMA LifecycleTInv ==
    ASSUME TInv, Lifecycle
    PROVE  TInv'
<1> USE DEF rows, histories, Idle
<1> DEFINE x == proc[Sweeper]
<1>a. Sweeper \in Processes /\ Shape /\ subs \in Seq(Row)
    BY DEF Processes, TInv, Shape
<1>1. CASE FindEnded
    <2>1. proc'[Sweeper] = [op |-> "ended", at |-> now,
                            ended |-> {i \in DOMAIN subs : Ended(subs[i])}]
        BY <1>1, <1>a, GotoEffect DEF FindEnded
    <2>2. JobShape'
        BY <1>1, <2>1, SubsRows, <1>a DEF FindEnded, TInv, JobShape, Shape
    <2> QED
        BY <1>1, <1>a, <2>2, JobTInv DEF FindEnded
<1>2. CASE FindLapsed
    <2> DEFINE lapsed == {i \in DOMAIN subs :
                             /\ subs[i].status = "grace" \/ i \in x.ended
                             /\ subs[i].ends <= x.at - Grace}
    <2>1. proc'[Sweeper] = [op |-> "lapsed", ended |-> x.ended, lapsed |-> lapsed]
        BY <1>2, <1>a, GotoEffect DEF FindLapsed
    <2>2. lapsed \subseteq 1..Len(subs)
        BY SubsRows, <1>a
    <2>3. JobShape'
        BY <1>2, <2>1, <2>2 DEF FindLapsed, TInv, JobShape
    <2> QED
        BY <1>2, <1>a, <2>3, JobTInv DEF FindLapsed
<1>3. CASE SweepCommit
    <2>1. proc'[Sweeper].op \in {"due", "recompute"}
        BY <1>3, <1>a, GotoEffect DEF SweepCommit
    <2>2. JobShape'
        BY <1>3, <2>1, Swept DEF SweepCommit, TInv, JobShape
    <2> QED
        BY <1>3, <2>2, Swept, JobTInv DEF SweepCommit
<1>4. CASE FindDue
    <2> DEFINE due == {i \in DOMAIN subs :
                          /\ subs[i].status = "active" /\ ~subs[i].reminded
                          /\ now < subs[i].ends /\ subs[i].ends <= now + Remind}
               y == IF due = {} THEN Idle
                    ELSE [op |-> "remind", due |-> {<<i, subs[i].ends>> : i \in due}]
    <2>1. Goto(Sweeper, y)
        BY <1>4 DEF FindDue
    <2>2. \A i \in due : i \in 1..Len(subs) /\ subs[i].ends \in Nat
        BY SubsRows, <1>a DEF Row
    <2>3. {<<i, subs[i].ends>> : i \in due} \subseteq (1..Len(subs)) \X Nat
        BY <2>2
    <2>4. proc'[Sweeper] = y
        BY <2>1, <1>a, GotoEffect
    <2>5. \/ y.op = "idle"
          \/ y.op = "remind" /\ y.due \subseteq (1..Len(subs)) \X Nat
        BY <2>3
    <2> HIDE DEF y
    <2>6. JobShape'
        BY <1>4, <2>4, <2>5 DEF FindDue, TInv, JobShape
    <2> QED
        BY <1>4, <1>a, <2>1, <2>6, JobTInv DEF FindDue
<1>5. CASE MarkReminderSent
    <2>1. /\ Goto(Sweeper, AfterReminder(x.one)) /\ x.op = "reminded"
          /\ UNCHANGED <<now, payments, crashes, credited, sent>>
        BY <1>5 DEF MarkReminderSent
    <2>2. JobShape'
        BY <1>5, <1>a, <2>1, ReminderMarked, GotoEffect DEF AfterReminder, TInv, JobShape
    <2> QED
        BY <1>5, <2>1, <2>2, ReminderMarked, JobTInv
<1>6. CASE RecomputeRead(Sweeper)
    <2>1. proc'[Sweeper].op = "balance"
        BY <1>6, <1>a, GotoEffect DEF RecomputeRead
    <2>2. JobShape'
        BY <1>6, <2>1 DEF RecomputeRead, TInv, JobShape
    <2> QED
        BY <1>6, <1>a, <2>2, JobTInv DEF RecomputeRead
<1>7. CASE RecomputeWrite(Sweeper)
    <2>1. proc'[Sweeper].op = "due"
        BY <1>7, <1>a, GotoEffect DEF RecomputeWrite
    <2>2. JobShape'
        BY <1>7, <2>1 DEF RecomputeWrite, TInv, JobShape
    <2> QED
        BY <1>7, <1>a, <2>2, JobTInv DEF RecomputeWrite
<1>8. ASSUME NEW d \in x.due, x.op = "remind", SendReminder(d) PROVE TInv'
    <2>1. proc'[Sweeper] = [op |-> "reminded", due |-> x.due, one |-> d]
        BY <1>8, <1>a, GotoEffect DEF SendReminder
    <2>2. JobShape'
        BY <1>8, <2>1 DEF SendReminder, TInv, JobShape
    <2> QED
        BY <1>8, <1>a, <2>2, JobTInv DEF SendReminder
<1>9. ASSUME NEW d \in x.due, x.op = "remind", SkipReminder(d) PROVE TInv'
    <2>1. proc'[Sweeper] = AfterReminder(d)
        BY <1>9, <1>a, GotoEffect DEF SkipReminder
    <2>2. JobShape'
        BY <1>9, <2>1 DEF SkipReminder, AfterReminder, TInv, JobShape
    <2> QED
        BY <1>9, <1>a, <2>2, JobTInv DEF SkipReminder
<1> QED
    BY <1>1, <1>2, <1>3, <1>4, <1>5, <1>6, <1>7, <1>8, <1>9 DEF Lifecycle

LEMMA CrashTInv ==
    ASSUME TInv, NEW q \in Processes, Crash(q)
    PROVE  TInv'
<1>1. /\ DOMAIN proc' = Processes /\ proc'[q].op = "idle"
      /\ \A r \in Processes : r # q => proc'[r] = proc[r]
      /\ UNCHANGED <<now, payments, subs, credited, sent>>
      /\ crashes' = crashes + 1
    BY GotoEffect DEF Crash, rows, Idle, TInv
<1>2. Shape'
    BY <1>1 DEF TInv, Shape, Invoices
<1>3. HandlerShape'
    BY <1>1 DEF TInv, HandlerShape, Invoices, Processes
<1>4. JobShape'
    BY <1>1 DEF TInv, JobShape, Processes
<1> QED
    BY <1>2, <1>3, <1>4 DEF TInv

(* A new invoice leaves the other payments as they are.                    *)
LEMMA Invoiced ==
    ASSUME TInv, NEW p \in Payments, NEW plan \in Plans, Invoice(p, plan)
    PROVE  /\ Invoices' = Invoices \cup {p} /\ p \notin Invoices
           /\ payments'[p] = [status |-> "pending", plan |-> plan]
           /\ \A r \in Invoices : payments'[r] = payments[r]
           /\ payments' \in [Invoices' -> [status : {"pending", "paid"}, plan : Plans]]
<1>1. Invoices' = Invoices \cup {p} /\ p \notin Invoices
    BY DEF Invoice, Invoices
<1>2. /\ payments'[p] = [status |-> "pending", plan |-> plan]
      /\ \A r \in Invoices : payments'[r] = payments[r]
    BY DEF Invoice
<1> QED
    BY <1>1, <1>2 DEF Invoice, TInv, Shape

LEMMA InvoiceTInv ==
    ASSUME TInv, NEW p \in Payments, NEW plan \in Plans, Invoice(p, plan)
    PROVE  TInv'
<1>1. UNCHANGED <<now, subs, proc, crashes, credited, sent>>
    BY DEF Invoice, histories
<1>2. Shape'
    BY <1>1, Invoiced DEF TInv, Shape
<1>3. HandlerShape'
    BY <1>1, Invoiced DEF TInv, HandlerShape
<1>4. JobShape'
    BY <1>1 DEF TInv, JobShape
<1> QED
    BY <1>2, <1>3, <1>4 DEF TInv

LEMMA TickTInv ==
    ASSUME TInv, Tick \/ UNCHANGED vars
    PROVE  TInv'
<1>1. /\ now' \in Nat /\ now <= now'
      /\ UNCHANGED <<payments, subs, proc, crashes, credited, sent>>
    BY DEF Tick, rows, histories, vars, TInv, Shape
<1>2. Shape'
    BY <1>1 DEF TInv, Shape, Invoices
<1>3. HandlerShape'
    BY <1>1 DEF TInv, HandlerShape, Invoices
<1>4. JobShape'
    BY <1>1 DEF TInv, JobShape, Shape
<1> QED
    BY <1>2, <1>3, <1>4 DEF TInv

LEMMA InitTInv == Init => TInv
<1> SUFFICES ASSUME Init PROVE TInv
    OBVIOUS
<1>1. Invoices = {} /\ subs \in Seq(Row)
    BY DEF Init, Invoices
<1>2. Shape
    BY <1>1 DEF Init, Shape, Invoices
<1>3. HandlerShape
    BY DEF Init, HandlerShape, Idle, Processes
<1>4. JobShape
    BY DEF Init, JobShape, Idle, Processes
<1> QED
    BY <1>2, <1>3, <1>4 DEF TInv

LEMMA NextTInv == TInv /\ [Next]_vars => TInv'
BY FulfillTInv, LifecycleTInv, CrashTInv, InvoiceTInv, TickTInv DEF Next

-----------------------------------------------------------------------------
(* Proofs of the crediting                                                 *)

LEMMA CarriesWhat ==
    \A h, p : Carries(h, p) <=> Read(h, p) \/ Marked(h, p)
BY DEF Carries, Read, Marked

(* Nothing that concerns crediting happens.                                *)
LEMMA CInvKept ==
    ASSUME TInv, CInv,
           UNCHANGED <<payments, credited, lost, overlapped>>,
           \A h \in Handlers, p \in Payments :
               Read(h, p)' = Read(h, p) /\ Marked(h, p)' = Marked(h, p)
    PROVE  CInv'
<1>1. PaidInv'
    BY DEF CInv, PaidInv, Invoices
<1>2. \A h \in Handlers, p \in Payments : Carries(h, p)' <=> Carries(h, p)
    BY DEF Carries, Read, Marked
<1>3. OnceInv'
    BY <1>2 DEF CInv, OnceInv
<1> QED
    BY <1>1, <1>3 DEF CInv

(* A handler is done with its payment, having credited it or not.          *)
LEMMA CInvSettled ==
    ASSUME TInv, CInv, NEW h \in Handlers, NEW p \in Payments, Marked(h, p),
           UNCHANGED <<payments, overlapped>>,
           \/ credited' = [credited EXCEPT ![p] = @ + 1] /\ lost' = lost
           \/ credited' = credited /\ lost' = lost \cup {p},
           \A q \in Payments : ~Read(h, q)' /\ ~Marked(h, q)',
           \A k \in Handlers \ {h}, q \in Payments :
               Read(k, q)' = Read(k, q) /\ Marked(k, q)' = Marked(k, q)
    PROVE  CInv'
<1>1. /\ \A q \in Payments : credited[q] \in Nat
      /\ \A q \in Payments : q # p => credited'[q] = credited[q]
      /\ credited'[p] \in {credited[p], credited[p] + 1}
      /\ credited'[p] > 0 \/ p \in lost'
      /\ lost \subseteq lost'
    BY DEF TInv, Shape
<1>2. p \in Invoices /\ payments[p].status = "paid"
    BY DEF CInv, PaidInv
<1>3. PaidInv'
    <2> SUFFICES ASSUME NEW q \in Payments
                 PROVE  IF q \in Invoices /\ payments[q].status = "paid"
                        THEN \/ credited'[q] > 0 \/ q \in lost'
                             \/ \E k \in Handlers : Marked(k, q)'
                        ELSE credited'[q] = 0 /\ \A k \in Handlers : ~Marked(k, q)'
        BY DEF PaidInv, Invoices
    <2>1. CASE q = p
        BY <1>1, <1>2, <2>1
    <2>2. CASE q # p
        <3>1. ~Marked(h, q)
            BY <2>2 DEF Marked
        <3>2. \A k \in Handlers : Marked(k, q)' <=> Marked(k, q)
            BY <3>1
        <3> QED
            BY <1>1, <2>2, <3>2 DEF CInv, PaidInv
    <2> QED
        BY <2>1, <2>2
<1>4. OnceInv'
    <2> SUFFICES ASSUME NEW q \in Payments \ overlapped
                 PROVE  /\ \A i, k \in Handlers :
                             Carries(i, q)' /\ Carries(k, q)' => i = k
                        /\ \A k \in Handlers : Read(k, q)' => payments[q].status = "pending"
                        /\ \A k \in Handlers : Carries(k, q)' => credited'[q] = 0
                        /\ credited'[q] <= 1
        BY DEF OnceInv
    <2>1. \A k \in Handlers : Carries(k, q)' => Carries(k, q) /\ k # h
        BY CarriesWhat DEF Carries, Read, Marked
    <2>2. \A k \in Handlers : Read(k, q)' => Read(k, q)
        BY DEF Read
    <2>3. CASE q = p
        <3>1. Carries(h, p) /\ credited[p] = 0
            BY <2>3, CarriesWhat DEF CInv, OnceInv
        <3>2. \A k \in Handlers : ~Carries(k, p)'
            BY <2>1, <2>3, <3>1 DEF CInv, OnceInv
        <3> QED
            BY <1>1, <2>2, <2>3, <3>1, <3>2 DEF CInv, OnceInv
    <2>4. CASE q # p
        BY <1>1, <2>1, <2>2, <2>4 DEF CInv, OnceInv
    <2> QED
        BY <2>3, <2>4
<1> QED
    BY <1>3, <1>4 DEF CInv

LEMMA ReadPaymentCInv ==
    ASSUME TInv, CInv, NEW h \in Handlers, NEW p \in Payments, ReadPayment(h, p)
    PROVE  CInv'
<1>1. /\ proc[h].op = "idle" /\ p \in Invoices /\ payments[p].status = "pending"
      /\ UNCHANGED <<payments, credited, lost>>
      /\ overlapped' = IF \E k \in Handlers : Carries(k, p)
                       THEN overlapped \cup {p} ELSE overlapped
    BY DEF ReadPayment, rows, Idle
<1>2. /\ proc'[h] = [op |-> "mark", payment |-> p]
      /\ \A k \in Handlers : k # h => proc'[k] = proc[k]
    BY GotoEffect DEF ReadPayment, TInv, Processes
<1>3. \A k \in Handlers, q \in Payments :
          /\ Marked(k, q)' <=> Marked(k, q)
          /\ Read(k, q)' <=> Read(k, q) \/ (k = h /\ q = p)
    BY <1>1, <1>2 DEF Marked, Read
<1>4. PaidInv'
    BY <1>1, <1>3 DEF CInv, PaidInv, Invoices
<1>5. \A k \in Handlers, q \in Payments :
          Carries(k, q)' <=> Carries(k, q) \/ (k = h /\ q = p)
    BY <1>1, <1>2 DEF Carries
<1>6. credited[p] = 0
    BY <1>1 DEF CInv, PaidInv
<1>7. OnceInv'
    BY <1>1, <1>3, <1>5, <1>6 DEF CInv, OnceInv
<1> QED
    BY <1>4, <1>7 DEF CInv

LEMMA MarkPaidCInv ==
    ASSUME TInv, CInv, NEW h \in Handlers, MarkPaid(h)
    PROVE  CInv'
<1> DEFINE p == proc[h].payment
<1>1. /\ proc[h].op = "mark" /\ p \in Invoices /\ p \in Payments
      /\ payments' = [payments EXCEPT ![p].status = "paid"]
      /\ UNCHANGED <<credited, lost, overlapped>>
    BY DEF MarkPaid, histories, TInv, Shape, HandlerShape
<1>2. /\ Invoices' = Invoices /\ payments'[p].status = "paid"
      /\ \A q \in Invoices : q # p => payments'[q] = payments[q]
    BY <1>1 DEF TInv, Shape, Invoices
<1>3. /\ proc'[h] = [op |-> "plan", payment |-> p]
      /\ \A k \in Handlers : k # h => proc'[k] = proc[k]
    BY GotoEffect DEF MarkPaid, TInv, Processes
<1>4. \A k \in Handlers, q \in Payments :
          /\ Marked(k, q)' <=> Marked(k, q) \/ (k = h /\ q = p)
          /\ Read(k, q)' <=> Read(k, q) /\ k # h
          /\ Carries(k, q)' <=> Carries(k, q)
    BY <1>1, <1>3 DEF Marked, Read, Carries
<1>5. PaidInv'
    BY <1>1, <1>2, <1>4 DEF CInv, PaidInv
<1>6. OnceInv'
    <2> SUFFICES ASSUME NEW q \in Payments \ overlapped
                 PROVE  /\ \A i, k \in Handlers :
                             Carries(i, q)' /\ Carries(k, q)' => i = k
                        /\ \A k \in Handlers : Read(k, q)' => payments'[q].status = "pending"
                        /\ \A k \in Handlers : Carries(k, q)' => credited'[q] = 0
                        /\ credited'[q] <= 1
        BY <1>1 DEF OnceInv
    <2>1. Read(h, p)
        BY <1>1 DEF Read
    <2>2. \A k \in Handlers : Read(k, q)' => payments'[q].status = "pending"
        <3> SUFFICES ASSUME NEW k \in Handlers, Read(k, q)'
                     PROVE  payments'[q].status = "pending"
            OBVIOUS
        <3>1. Read(k, q) /\ k # h /\ payments[q].status = "pending"
            BY <1>4 DEF CInv, OnceInv
        <3>2. q # p
            BY <2>1, <3>1, CarriesWhat DEF CInv, OnceInv
        <3>3. q \in Invoices
            BY <3>1 DEF Read, TInv, HandlerShape
        <3> QED
            BY <1>2, <3>1, <3>2, <3>3
    <2> QED
        BY <1>1, <1>4, <2>2 DEF CInv, OnceInv
<1> QED
    BY <1>5, <1>6 DEF CInv

LEMMA InvoiceCInv ==
    ASSUME TInv, CInv, NEW p \in Payments, NEW plan \in Plans, Invoice(p, plan)
    PROVE  CInv'
<1>1. UNCHANGED <<proc, credited, lost, overlapped>>
    BY DEF Invoice, histories
<1>2. /\ Invoices' = Invoices \cup {p} /\ p \notin Invoices
      /\ payments'[p].status = "pending"
      /\ \A r \in Invoices : payments'[r] = payments[r]
    <2>1. /\ Invoices' = Invoices \cup {p} /\ p \notin Invoices
          /\ payments'[p] = [status |-> "pending", plan |-> plan]
          /\ \A r \in Invoices : payments'[r] = payments[r]
        BY Invoiced
    <2> QED
        BY <2>1
<1>3. credited[p] = 0 /\ \A h \in Handlers : ~Marked(h, p)
    BY <1>2 DEF CInv, PaidInv
<1>4. \A h \in Handlers, q \in Payments :
          /\ Marked(h, q)' <=> Marked(h, q)
          /\ Read(h, q)' <=> Read(h, q)
          /\ Carries(h, q)' <=> Carries(h, q)
          /\ Read(h, q) => q \in Invoices
    BY <1>1 DEF Marked, Read, Carries, TInv, HandlerShape
<1>5. PaidInv'
    <2> SUFFICES ASSUME NEW q \in Payments
                 PROVE  IF q \in Invoices' /\ payments'[q].status = "paid"
                        THEN \/ credited[q] > 0 \/ q \in lost
                             \/ \E h \in Handlers : Marked(h, q)
                        ELSE credited[q] = 0 /\ \A h \in Handlers : ~Marked(h, q)
        BY <1>1, <1>4 DEF PaidInv
    <2>1. CASE q = p
        BY <1>2, <1>3, <2>1
    <2>2. CASE q # p
        BY <1>2, <2>2 DEF CInv, PaidInv
    <2> QED
        BY <2>1, <2>2
<1>6. OnceInv'
    BY <1>1, <1>2, <1>4 DEF CInv, OnceInv
<1> QED
    BY <1>5, <1>6 DEF CInv

(* Somebody's transaction ends; a handler that had marked the payment paid *)
(* loses it, one that had only read it leaves it pending.                  *)
LEMMA CrashCInv ==
    ASSUME TInv, CInv, NEW q \in Processes, Crash(q)
    PROVE  CInv'
<1>1. /\ UNCHANGED <<payments, credited, overlapped>>
      /\ lost' = IF proc[q].op \in {"plan", "write"}
                 THEN lost \cup {proc[q].payment} ELSE lost
      /\ proc'[q].op = "idle"
      /\ \A r \in Processes : r # q => proc'[r] = proc[r]
    BY GotoEffect DEF Crash, rows, Idle, TInv
<1>2. CASE q \notin Handlers
    <2>1. proc[q].op \notin {"plan", "write"}
        BY <1>2 DEF TInv, JobShape, Processes
    <2> QED
        BY <1>1, <1>2, <2>1, CInvKept DEF Read, Marked, Processes
<1>3. CASE q \in Handlers /\ proc[q].op \in {"plan", "write"}
    <2> DEFINE p == proc[q].payment
    <2>1. p \in Payments /\ Marked(q, p)
        BY <1>3 DEF TInv, HandlerShape, Shape, Marked
    <2> QED
        BY <1>1, <1>3, <2>1, CInvSettled DEF Read, Marked, Processes
<1>4. CASE q \in Handlers /\ proc[q].op \notin {"plan", "write"}
    <2>1. \A k \in Handlers, p \in Payments :
              /\ Marked(k, p)' <=> Marked(k, p)
              /\ Read(k, p)' <=> Read(k, p) /\ k # q
              /\ Carries(k, p)' => Carries(k, p)
        BY <1>1, <1>4 DEF Marked, Read, Carries, Processes
    <2>2. PaidInv'
        BY <1>1, <1>4, <2>1 DEF CInv, PaidInv, Invoices
    <2>3. OnceInv'
        BY <1>1, <2>1 DEF CInv, OnceInv
    <2> QED
        BY <2>2, <2>3 DEF CInv
<1> QED
    BY <1>2, <1>3, <1>4

LEMMA FulfillCInv ==
    ASSUME TInv, CInv, NEW h \in Handlers, Fulfill(h)
    PROVE  CInv'
<1> USE DEF rows, histories, Idle
<1> DEFINE p == proc[h].payment
<1>1. ASSUME NEW q \in Payments, ReadPayment(h, q) PROVE CInv'
    BY <1>1, ReadPaymentCInv
<1>2. CASE MarkPaid(h)
    BY <1>2, MarkPaidCInv
<1>3. ASSUME proc[h].op \in {"plan", "write"}, NEW x, Goto(h, x),
             x.op \in {"idle", "recompute"}, UNCHANGED <<payments, overlapped>>,
             \/ credited' = [credited EXCEPT ![p] = @ + 1] /\ lost' = lost
             \/ credited' = credited /\ lost' = lost \cup {p}
      PROVE  CInv'
    <2>1. p \in Payments /\ Marked(h, p)
        BY <1>3 DEF TInv, HandlerShape, Shape, Marked
    <2>2. proc'[h] = x /\ \A k \in Handlers : k # h => proc'[k] = proc[k]
        BY <1>3, GotoEffect DEF TInv, Processes
    <2>3. /\ \A q \in Payments : ~Read(h, q)' /\ ~Marked(h, q)'
          /\ \A k \in Handlers \ {h}, q \in Payments :
                Read(k, q)' = Read(k, q) /\ Marked(k, q)' = Marked(k, q)
        BY <1>3, <2>2 DEF Read, Marked
    <2> QED
        BY <1>3, <2>1, <2>3, CInvSettled
<1>4. CASE PlanWithdrawn(h)
    BY <1>3, <1>4 DEF PlanWithdrawn
<1>5. CASE ApplyPackagePayment(h)
    BY <1>3, <1>5 DEF ApplyPackagePayment
<1>6. CASE WriteSubscription(h)
    BY <1>3, <1>6 DEF WriteSubscription
<1>7. CASE WriteRefused(h)
    BY <1>3, <1>7 DEF WriteRefused
<1>8. CASE ReadSubscription(h)
    <2>1. \A k \in Handlers, q \in Payments :
              Read(k, q)' = Read(k, q) /\ Marked(k, q)' = Marked(k, q)
        BY <1>8, RenewalPlanned DEF Read, Marked, Processes
    <2> QED
        BY <1>8, <2>1, CInvKept DEF ReadSubscription
<1>9. CASE RecomputeRead(h) \/ RecomputeWrite(h)
    <2>1. /\ proc[h].op \in {"recompute", "balance"}
          /\ proc'[h].op \in {"balance", "due", "idle"}
          /\ \A k \in Handlers : k # h => proc'[k] = proc[k]
        BY <1>9, GotoEffect DEF RecomputeRead, RecomputeWrite, TInv, Processes
    <2>2. \A k \in Handlers, q \in Payments :
              Read(k, q)' = Read(k, q) /\ Marked(k, q)' = Marked(k, q)
        BY <2>1 DEF Read, Marked
    <2> QED
        BY <1>9, <2>2, CInvKept DEF RecomputeRead, RecomputeWrite
<1> QED
    BY <1>1, <1>2, <1>4, <1>5, <1>6, <1>7, <1>8, <1>9 DEF Fulfill

LEMMA LifecycleCInv ==
    ASSUME TInv, CInv, Lifecycle
    PROVE  CInv'
<1>1. UNCHANGED <<payments, credited, lost, overlapped>>
    BY DEF Lifecycle, FindEnded, FindLapsed, SweepCommit, FindDue,
       MarkReminderSent, RecomputeRead, RecomputeWrite, SendReminder,
       SkipReminder, rows, histories
<1>2. \A h \in Handlers : proc'[h] = proc[h]
    BY GotoEffect, PaymentsAssumption
       DEF Lifecycle, FindEnded, FindLapsed, SweepCommit, FindDue,
       MarkReminderSent, RecomputeRead, RecomputeWrite, SendReminder,
       SkipReminder, TInv, Processes
<1> QED
    BY <1>1, <1>2, CInvKept DEF Read, Marked

LEMMA InitCInv == Init => CInv
<1> SUFFICES ASSUME Init PROVE CInv
    OBVIOUS
<1>1. \A h \in Handlers : proc[h].op = "idle"
    BY DEF Init, Idle, Processes
<1>2. Invoices = {} /\ \A p \in Payments : credited[p] = 0
    BY DEF Init, Invoices
<1> QED
    BY <1>1, <1>2 DEF CInv, PaidInv, OnceInv, Read, Marked, Carries

LEMMA NextCInv == TInv /\ CInv /\ [Next]_vars => CInv'
<1>1. ASSUME TInv, CInv, Tick \/ UNCHANGED vars PROVE CInv'
    BY <1>1, CInvKept DEF Tick, vars, rows, histories, Read, Marked
<1> QED
    BY <1>1, FulfillCInv, LifecycleCInv, CrashCInv, InvoiceCInv DEF Next

LEMMA SpecCInv == Spec => [](TInv /\ CInv)
BY InitTInv, NextTInv, InitCInv, NextCInv, PTL DEF Spec

(* A payment is credited twice only if two notifications overlapped.       *)
THEOREM DoubleCreditIsARace == Spec => []CreditedTwiceNeedsOverlap
<1>1. TInv /\ CInv => CreditedTwiceNeedsOverlap
    BY DEF TInv, Shape, CInv, OnceInv, CreditedTwiceNeedsOverlap
<1> QED
    BY <1>1, SpecCInv, PTL

(* A paid payment is credited, carried or recorded as lost.                *)
THEOREM NoPaymentForgotten == Spec => []PaidIsCredited
<1>1. TInv /\ CInv => PaidIsCredited
    BY CarriesWhat DEF CInv, PaidInv, PaidIsCredited
<1> QED
    BY <1>1, SpecCInv, PTL

-----------------------------------------------------------------------------
(* Proofs about subscriptions and reminders                                *)

(* Nothing that concerns the rows and the job happens.                     *)
LEMMA RInvKept ==
    ASSUME TInv, RInv,
           UNCHANGED <<now, subs, overtaken, sent, repeated, crashes>>,
           proc'[Sweeper] = proc[Sweeper],
           \A h \in Handlers : proc'[h].op = "write" => proc'[h] = proc[h]
    PROVE  RInv'
<1>1. ActiveWhileRunning' /\ ReminderNotSuppressed' /\ RemindedOnce'
    BY DEF RInv, ActiveWhileRunning, ReminderNotSuppressed, RemindedOnce
<1>2. FreshWrites'
    BY DEF RInv, FreshWrites
<1>3. SweptEnded' /\ DueTrue' /\ SentMarked'
    BY DEF RInv, SweptEnded, DueTrue, SentMarked
<1> QED
    BY <1>1, <1>2, <1>3 DEF RInv

LEMMA ReadSubscriptionRInv ==
    ASSUME TInv, RInv, NEW h \in Handlers, ReadSubscription(h)
    PROVE  RInv'
<1>1. /\ UNCHANGED <<now, subs, overtaken, sent, repeated, crashes>>
      /\ proc'[Sweeper] = proc[Sweeper]
    BY RenewalPlanned, PaymentsAssumption DEF ReadSubscription, rows, histories, Processes
<1>2. ActiveWhileRunning' /\ ReminderNotSuppressed' /\ RemindedOnce'
    BY <1>1 DEF RInv, ActiveWhileRunning, ReminderNotSuppressed, RemindedOnce
<1>3. SweptEnded' /\ DueTrue' /\ SentMarked'
    BY <1>1 DEF RInv, SweptEnded, DueTrue, SentMarked
<1>4. FreshWrites'
    <2> SUFFICES ASSUME NEW k \in Handlers, NEW i \in 1..Len(subs),
                        proc'[k].op = "write", proc'[k].sub = i, i \notin overtaken
                 PROVE  /\ subs[i].status = proc'[k].status
                        /\ subs[i].reminded = proc'[k].reminded
                        /\ subs[i].ends < proc'[k].ends
        BY <1>1 DEF FreshWrites
    <2>1. CASE k = h
        <3>1. i # 0
            BY SubsRows DEF TInv
        <3> QED
            BY <2>1, <3>1, RenewalPlanned
    <2>2. CASE k # h
        <3>1. proc'[k] = proc[k]
            BY <2>2, RenewalPlanned DEF Processes
        <3> QED
            BY <3>1 DEF RInv, FreshWrites
    <2> QED
        BY <2>1, <2>2
<1> QED
    BY <1>2, <1>3, <1>4 DEF RInv

(* The row a renewal writes, if neither the job nor another renewal holds  *)
(* it, is active, is not marked, and ends later than before.               *)
LEMMA RenewedRow ==
    ASSUME TInv, RInv, NEW h \in Handlers, WriteSubscription(h),
           NEW i \in 1..Len(subs'), i = proc[h].sub \/ i \notin 1..Len(subs),
           i \notin overtaken'
    PROVE  /\ subs'[i].status = "active"
           /\ subs'[i].reminded = FALSE
           /\ i \in 1..Len(subs) => /\ subs[i].ends < subs'[i].ends
                                    /\ i \notin InSweep
                                    /\ i \notin InRenewal(Handlers \ {h})
<1> DEFINE x == proc[h]
<1>1. /\ x.op = "write" /\ x.sub \in 0..Len(subs) /\ i \notin overtaken
      /\ {x.sub} \cap (InSweep \cup InRenewal(Handlers \ {h})) \subseteq overtaken'
    BY DEF WriteSubscription, TInv, HandlerShape
<1>2. Len(subs) \in Nat
    BY SubsRows DEF TInv
<1>3. CASE x.sub = 0
    <2>1. i \notin 1..Len(subs) /\ Len(subs') = Len(subs) + 1
        BY <1>2, <1>3, RenewalWritten
    <2>2. i = Len(subs) + 1
        BY <1>2, <2>1
    <2>3. subs'[i] = NewRow(x)
        BY <1>3, <2>2, RenewalWritten
    <2> QED
        BY <2>1, <2>3 DEF NewRow
<1>4. CASE x.sub # 0
    <2>1. /\ i = x.sub /\ i \in 1..Len(subs)
          /\ subs'[i] = Renewed(subs[i], x)
        BY <1>4, RenewalWritten
    <2>2. /\ subs[i].status = x.status /\ subs[i].reminded = x.reminded
          /\ subs[i].ends < x.ends
        BY <1>1, <2>1 DEF RInv, FreshWrites
    <2>3. subs[i] \in Row
        BY <2>1, SubsRows DEF TInv
    <2>4. /\ subs'[i].ends = x.ends /\ subs'[i].status = "active"
          /\ subs'[i].reminded = FALSE
        BY <2>1, <2>2, <2>3 DEF Renewed, Row
    <2> QED
        BY <1>1, <2>1, <2>2, <2>4
<1> QED
    BY <1>3, <1>4

LEMMA WriteSubscriptionRInv ==
    ASSUME TInv, RInv, NEW h \in Handlers, WriteSubscription(h)
    PROVE  RInv'
<1> DEFINE x == proc[h]
           Old(i) == i \in 1..Len(subs) /\ i # x.sub
<1>1. /\ UNCHANGED <<now, sent, repeated, crashes>>
      /\ overtaken \subseteq overtaken'
    BY DEF WriteSubscription
<1>2. /\ proc'[h].op = "recompute"
      /\ \A r \in Processes : r # h => proc'[r] = proc[r]
      /\ proc'[Sweeper] = proc[Sweeper]
    BY GotoEffect, PaymentsAssumption DEF WriteSubscription, Processes, TInv
<1>3. /\ \A i \in 1..Len(subs) : i # x.sub => subs'[i] = subs[i]
      /\ Len(subs') \in Nat /\ Len(subs) \in Nat /\ Len(subs) <= Len(subs')
      /\ DOMAIN subs' = 1..Len(subs')
    BY RenewalWritten, SubsRows DEF TInv
<1>4. \A i \in 1..Len(subs') : ~Old(i) => i = x.sub \/ i \notin 1..Len(subs)
    OBVIOUS
<1>5. ActiveWhileRunning'
    <2> SUFFICES ASSUME NEW i \in 1..Len(subs'), subs'[i].ends > now, i \notin overtaken'
                 PROVE  subs'[i].status = "active"
        BY <1>1, <1>3 DEF ActiveWhileRunning
    <2>1. CASE Old(i)
        BY <1>1, <1>3, <2>1, SubsRows DEF TInv, RInv, ActiveWhileRunning
    <2> QED
        BY <2>1, <1>4, RenewedRow
<1>6. FreshWrites'
    <2> SUFFICES ASSUME NEW k \in Handlers, NEW i \in 1..Len(subs'),
                        proc'[k].op = "write", proc'[k].sub = i, i \notin overtaken'
                 PROVE  /\ subs'[i].status = proc'[k].status
                        /\ subs'[i].reminded = proc'[k].reminded
                        /\ subs'[i].ends < proc'[k].ends
        BY DEF FreshWrites
    <2>1. k # h /\ proc'[k] = proc[k]
        BY <1>2 DEF Processes
    <2>2. i \in 1..Len(subs)
        BY <1>3, <2>1 DEF TInv, HandlerShape
    <2>3. i # 0
        BY <1>3, <2>2
    <2>4. i \in InRenewal(Handlers \ {h})
        BY <2>1, <2>3 DEF InRenewal
    <2>5. i # x.sub
        BY <2>2, <2>4, RenewedRow
    <2> QED
        BY <1>1, <1>3, <2>1, <2>2, <2>5 DEF RInv, FreshWrites
<1>7. SweptEnded'
    <2> SUFFICES ASSUME NEW i \in 1..Len(subs'), i \notin overtaken',
                        \/ /\ proc[Sweeper].op \in {"ended", "lapsed"}
                           /\ i \in proc[Sweeper].ended
                        \/ /\ proc[Sweeper].op = "lapsed"
                           /\ i \in proc[Sweeper].lapsed
                 PROVE  subs'[i].ends <= now
        BY <1>1, <1>2 DEF SweptEnded
    <2>1. i \in 1..Len(subs) /\ i \in InSweep
        BY DEF InSweep, TInv, JobShape
    <2>2. i # x.sub
        BY <2>1, RenewedRow
    <2> QED
        BY <1>1, <1>3, <2>1, <2>2 DEF RInv, SweptEnded
<1>8. DueTrue'
    <2>1. ASSUME proc[Sweeper].op \in {"remind", "reminded"},
                 NEW d \in proc[Sweeper].due, d[1] \notin overtaken'
          PROVE  subs'[d[1]].ends = d[2]
        <3>1. d[1] \in 1..Len(subs) /\ d[1] \in InSweep
            BY <2>1 DEF InSweep, TInv, JobShape
        <3>2. \A i \in 1..Len(subs) : i \notin overtaken' /\ i \in InSweep => i # x.sub
            BY DEF WriteSubscription
        <3>3. d[1] # x.sub
            BY <2>1, <3>1, <3>2
        <3> QED
            BY <1>1, <1>3, <2>1, <3>1, <3>3 DEF RInv, DueTrue
    <2> QED
        BY <1>1, <1>2, <2>1 DEF RInv, DueTrue
<1>9. ReminderNotSuppressed'
    <2> SUFFICES ASSUME NEW i \in 1..Len(subs'), subs'[i].status = "active",
                        subs'[i].reminded, i \notin overtaken'
                 PROVE  <<i, subs'[i].ends>> \in sent
        BY <1>1, <1>3 DEF ReminderNotSuppressed
    <2>1. CASE Old(i)
        BY <1>1, <1>3, <2>1, SubsRows DEF TInv, RInv, ReminderNotSuppressed
    <2> QED
        BY <2>1, <1>4, RenewedRow
<1>10. SentMarked'
    <2> SUFFICES ASSUME NEW d \in sent, crashes = 0, d[1] \notin overtaken'
                 PROVE  /\ d[2] <= subs'[d[1]].ends
                        /\ subs'[d[1]].ends = d[2] =>
                              \/ subs'[d[1]].reminded
                              \/ /\ proc[Sweeper].op = "reminded"
                                 /\ proc[Sweeper].one = d
                        /\ proc[Sweeper].op = "remind" => d \notin proc[Sweeper].due
                        /\ proc[Sweeper].op = "reminded" /\ d \in proc[Sweeper].due =>
                              proc[Sweeper].one = d
        BY <1>1, <1>2 DEF SentMarked
    <2>1. d[1] \in 1..Len(subs) /\ d[2] \in Nat /\ d[1] \notin overtaken
        BY <1>1 DEF TInv, JobShape
    <2>2. CASE Old(d[1])
        BY <1>3, <2>1, <2>2 DEF RInv, SentMarked
    <2>3. CASE d[1] = x.sub
        <3>1. d[2] <= subs[d[1]].ends
            BY <2>1 DEF RInv, SentMarked
        <3>2. d[1] \in 1..Len(subs')
            BY <1>3, <2>1
        <3>3. subs[d[1]].ends < subs'[d[1]].ends
            BY <2>1, <2>3, <3>2, RenewedRow
        <3>4. subs[d[1]].ends \in Nat /\ subs'[d[1]].ends \in Nat
            <4>1. subs' \in Seq(Row)
                BY RenewalWritten
            <4>2. subs'[d[1]] \in Row
                BY <3>2, <4>1
            <4>3. subs[d[1]] \in Row
                BY <2>1, SubsRows DEF TInv
            <4> QED
                BY <4>2, <4>3 DEF Row
        <3>5. d[2] < subs'[d[1]].ends
            BY <2>1, <3>1, <3>3, <3>4
        <3>6. /\ proc[Sweeper].op = "remind" => d \notin proc[Sweeper].due
              /\ proc[Sweeper].op = "reminded" /\ d \in proc[Sweeper].due =>
                    proc[Sweeper].one = d
            BY <2>1 DEF RInv, SentMarked
        <3> QED
            BY <2>1, <3>4, <3>5, <3>6
    <2> QED
        BY <2>1, <2>2, <2>3
<1>11. RemindedOnce'
    BY <1>1 DEF RInv, RemindedOnce
<1> QED
    BY <1>5, <1>6, <1>7, <1>8, <1>9, <1>10, <1>11 DEF RInv

LEMMA FulfillRInv ==
    ASSUME TInv, RInv, NEW h \in Handlers, Fulfill(h)
    PROVE  RInv'
<1>1. ASSUME UNCHANGED <<now, subs, overtaken, sent, repeated, crashes>>,
             NEW y, Goto(h, y), y.op # "write"
      PROVE  RInv'
    <2>1. /\ proc'[h] = y /\ proc'[Sweeper] = proc[Sweeper]
          /\ \A k \in Handlers : k # h => proc'[k] = proc[k]
        BY <1>1, GotoEffect, PaymentsAssumption DEF TInv, Processes
    <2> QED
        BY <1>1, <2>1, RInvKept
<1> USE DEF rows, histories, Idle
<1>2. CASE \E p \in Payments : ReadPayment(h, p)
    BY <1>1, <1>2 DEF ReadPayment
<1>3. CASE MarkPaid(h)
    BY <1>1, <1>3 DEF MarkPaid
<1>4. CASE PlanWithdrawn(h) \/ ApplyPackagePayment(h) \/ WriteRefused(h)
    BY <1>1, <1>4 DEF PlanWithdrawn, ApplyPackagePayment, WriteRefused
<1>5. CASE RecomputeRead(h)
    BY <1>1, <1>5 DEF RecomputeRead
<1>6. CASE RecomputeWrite(h)
    BY <1>1, <1>6, PaymentsAssumption DEF RecomputeWrite
<1> QED
    BY <1>2, <1>3, <1>4, <1>5, <1>6, ReadSubscriptionRInv, WriteSubscriptionRInv
       DEF Fulfill

(* The job has moved on and the rows are as they were.                     *)
LEMMA JobRInv ==
    ASSUME TInv, RInv, NEW y, Goto(Sweeper, y),
           UNCHANGED <<now, subs, overtaken, crashes>>,
           sent \subseteq sent', RemindedOnce',
           SweptEnded', DueTrue', SentMarked'
    PROVE  RInv'
<1>1. \A h \in Handlers : proc'[h] = proc[h]
    BY GotoEffect, PaymentsAssumption DEF TInv, Processes
<1>2. ActiveWhileRunning' /\ ReminderNotSuppressed'
    BY DEF RInv, ActiveWhileRunning, ReminderNotSuppressed
<1>3. FreshWrites'
    BY <1>1 DEF RInv, FreshWrites
<1> QED
    BY <1>2, <1>3 DEF RInv

LEMMA SweepRInv ==
    ASSUME TInv, RInv, FindEnded \/ FindLapsed
    PROVE  RInv'
<1> USE DEF rows, histories, Idle
<1> DEFINE x == proc[Sweeper]
<1>a. Sweeper \in Processes /\ Shape
    BY DEF Processes, TInv
<1>1. CASE FindEnded
    <2>1. proc'[Sweeper] = [op |-> "ended", at |-> now,
                            ended |-> {i \in DOMAIN subs : Ended(subs[i])}]
        BY <1>1, <1>a, GotoEffect DEF FindEnded
    <2>2. x.op = "idle" /\ UNCHANGED <<now, subs, overtaken, crashes, sent, repeated>>
        BY <1>1 DEF FindEnded
    <2>3. SweptEnded'
        BY <2>1, <2>2 DEF SweptEnded, Ended
    <2>4. DueTrue' /\ SentMarked' /\ RemindedOnce'
        BY <2>1, <2>2 DEF RInv, DueTrue, SentMarked, RemindedOnce
    <2> QED
        BY <1>1, <2>2, <2>3, <2>4, JobRInv DEF FindEnded
<1>2. CASE FindLapsed
    <2> DEFINE lapsed == {i \in DOMAIN subs :
                             /\ subs[i].status = "grace" \/ i \in x.ended
                             /\ subs[i].ends <= x.at - Grace}
    <2>1. proc'[Sweeper] = [op |-> "lapsed", ended |-> x.ended, lapsed |-> lapsed]
        BY <1>2, <1>a, GotoEffect DEF FindLapsed
    <2>2. x.op = "ended" /\ UNCHANGED <<now, subs, overtaken, crashes, sent, repeated>>
        BY <1>2 DEF FindLapsed
    <2>3. \A i \in lapsed : subs[i].ends <= now
        <3>1. x.at \in Nat /\ x.at <= now /\ now \in Nat
            BY <2>2 DEF TInv, JobShape, Shape
        <3>2. \A i \in lapsed : subs[i].ends \in Nat
            BY <1>a, SubsRows DEF Row
        <3> QED
            BY <3>1, <3>2, PaymentsAssumption
    <2> HIDE DEF lapsed
    <2>4. SweptEnded'
        BY <2>1, <2>2, <2>3 DEF SweptEnded, RInv
    <2>5. DueTrue' /\ SentMarked' /\ RemindedOnce'
        BY <2>1, <2>2 DEF RInv, DueTrue, SentMarked, RemindedOnce
    <2> QED
        BY <1>2, <2>2, <2>4, <2>5, JobRInv DEF FindLapsed
<1> QED
    BY <1>1, <1>2

LEMMA SweepCommitRInv ==
    ASSUME TInv, RInv, SweepCommit
    PROVE  RInv'
<1> DEFINE x == proc[Sweeper]
           affected == x.ended \cup x.lapsed
<1>1. /\ x.op = "lapsed"
      /\ UNCHANGED <<now, crashes, sent, repeated>>
      /\ overtaken' = overtaken \cup (affected \cap InRenewal(Handlers))
    BY DEF SweepCommit
<1>2. /\ proc'[Sweeper].op \in {"due", "recompute"}
      /\ \A h \in Handlers : proc'[h] = proc[h]
    BY GotoEffect, PaymentsAssumption DEF SweepCommit, TInv, Processes
<1>3. /\ Len(subs') = Len(subs) /\ DOMAIN subs = 1..Len(subs)
      /\ DOMAIN subs' = 1..Len(subs) /\ Len(subs) \in Nat
      /\ \A i \in 1..Len(subs) :
            /\ subs'[i].ends = subs[i].ends /\ subs'[i].reminded = subs[i].reminded
            /\ subs'[i].status = "active" => subs[i].status = "active"
            /\ subs'[i] # subs[i] => i \in affected
    BY Swept, SubsRows DEF TInv
<1>4. ActiveWhileRunning'
    <2> SUFFICES ASSUME NEW i \in 1..Len(subs), subs[i].ends > now, i \notin overtaken'
                 PROVE  subs'[i].status = "active"
        BY <1>1, <1>3 DEF ActiveWhileRunning
    <2>1. i \notin affected
        <3>1. subs[i].ends \in Nat /\ now \in Nat
            BY SubsRows DEF TInv, Shape, Row
        <3>2. i \in affected => subs[i].ends <= now
            BY <1>1 DEF RInv, SweptEnded
        <3> QED
            BY <3>1, <3>2
    <2> QED
        BY <1>1, <1>3, <2>1 DEF RInv, ActiveWhileRunning
<1>5. FreshWrites'
    <2> SUFFICES ASSUME NEW h \in Handlers, NEW i \in 1..Len(subs),
                        proc[h].op = "write", proc[h].sub = i, i \notin overtaken'
                 PROVE  /\ subs'[i].status = proc[h].status
                        /\ subs'[i].reminded = proc[h].reminded
                        /\ subs'[i].ends < proc[h].ends
        BY <1>2, <1>3 DEF FreshWrites
    <2>1. i \in InRenewal(Handlers)
        BY <1>3 DEF InRenewal
    <2>2. subs'[i] = subs[i]
        BY <1>1, <1>3, <2>1
    <2> QED
        BY <1>1, <2>2 DEF RInv, FreshWrites
<1>6. SweptEnded' /\ DueTrue'
    BY <1>2 DEF SweptEnded, DueTrue
<1>7. ReminderNotSuppressed'
    BY <1>1, <1>3 DEF RInv, ReminderNotSuppressed
<1>8. SentMarked'
    BY <1>1, <1>2, <1>3 DEF RInv, SentMarked, TInv, JobShape
<1>9. RemindedOnce'
    BY <1>1 DEF RInv, RemindedOnce
<1> QED
    BY <1>4, <1>5, <1>6, <1>7, <1>8, <1>9 DEF RInv

LEMMA FindDueRInv ==
    ASSUME TInv, RInv, FindDue
    PROVE  RInv'
<1> USE DEF rows, histories, Idle
<1> DEFINE due == {i \in DOMAIN subs :
                      /\ subs[i].status = "active" /\ ~subs[i].reminded
                      /\ now < subs[i].ends /\ subs[i].ends <= now + Remind}
           ds == {<<i, subs[i].ends>> : i \in due}
           y == IF due = {} THEN Idle ELSE [op |-> "remind", due |-> ds]
<1>1. Goto(Sweeper, y) /\ proc[Sweeper].op = "due"
      /\ UNCHANGED <<now, subs, overtaken, crashes, sent, repeated>>
    BY DEF FindDue
<1>2. proc'[Sweeper] = y
    BY <1>1, GotoEffect DEF TInv, Processes
<1>3. \A d \in ds : d[1] \in DOMAIN subs /\ subs[d[1]].ends = d[2] /\ ~subs[d[1]].reminded
    OBVIOUS
<1>4. y.op = "idle" \/ (y.op = "remind" /\ y.due = ds)
    OBVIOUS
<1> HIDE DEF y, ds
<1>5. SweptEnded' /\ DueTrue'
    BY <1>1, <1>2, <1>3, <1>4 DEF SweptEnded, DueTrue
<1>6. SentMarked' /\ RemindedOnce'
    BY <1>1, <1>2, <1>3, <1>4 DEF RInv, SentMarked, RemindedOnce
<1> QED
    BY <1>1, <1>5, <1>6, JobRInv

LEMMA SendReminderRInv ==
    ASSUME TInv, RInv, NEW d \in proc[Sweeper].due, SendReminder(d)
    PROVE  RInv'
<1> DEFINE x == proc[Sweeper]
<1>1. /\ x.op = "remind"
      /\ sent' = sent \cup {d} /\ repeated' = repeated \cup ({d} \cap sent)
      /\ UNCHANGED <<now, subs, overtaken, crashes>>
      /\ Goto(Sweeper, [op |-> "reminded", due |-> x.due, one |-> d])
    BY DEF SendReminder, rows
<1>2. proc'[Sweeper] = [op |-> "reminded", due |-> x.due, one |-> d]
    BY <1>1, GotoEffect DEF TInv, Processes
<1>3. d[1] \in 1..Len(subs) /\ d[2] \in Nat
      /\ (d[1] \notin overtaken => subs[d[1]].ends = d[2])
    BY <1>1 DEF TInv, JobShape, RInv, DueTrue
<1>4. SweptEnded' /\ DueTrue'
    BY <1>1, <1>2 DEF RInv, SweptEnded, DueTrue
<1>5. RemindedOnce'
    <2>1. d \in sent => crashes > 0 \/ d[1] \in overtaken
        <3>1. crashes \in Nat
            BY DEF TInv, Shape
        <3>2. d \in sent /\ crashes = 0 /\ d[1] \notin overtaken => FALSE
            BY <1>1 DEF RInv, SentMarked
        <3> QED
            BY <3>1, <3>2
    <2> QED
        BY <1>1, <2>1 DEF RInv, RemindedOnce
<1>6. SentMarked'
    <2> SUFFICES ASSUME NEW e \in sent \cup {d}, crashes = 0, e[1] \notin overtaken
                 PROVE  /\ e[2] <= subs[e[1]].ends
                        /\ subs[e[1]].ends = e[2] => subs[e[1]].reminded \/ d = e
                        /\ e \in x.due => d = e
        BY <1>1, <1>2 DEF SentMarked
    <2>1. CASE e = d
        BY <1>3, <2>1
    <2>2. CASE e \in sent
        BY <1>1, <2>2 DEF RInv, SentMarked
    <2> QED
        BY <2>1, <2>2
<1> QED
    BY <1>1, <1>4, <1>5, <1>6, JobRInv

LEMMA SkipReminderRInv ==
    ASSUME TInv, RInv, NEW d \in proc[Sweeper].due, SkipReminder(d)
    PROVE  RInv'
<1> DEFINE y == AfterReminder(d)
<1>1. /\ proc[Sweeper].op = "remind" /\ Goto(Sweeper, y)
      /\ UNCHANGED <<now, subs, overtaken, crashes, sent, repeated>>
    BY DEF SkipReminder, rows, histories
<1>2. proc'[Sweeper] = y
    BY <1>1, GotoEffect DEF TInv, Processes
<1>3. \/ y.op = "idle"
      \/ y.op = "remind" /\ y.due \subseteq proc[Sweeper].due
    BY DEF AfterReminder, Idle
<1> HIDE DEF y
<1>4. SweptEnded' /\ DueTrue'
    BY <1>1, <1>2, <1>3 DEF RInv, SweptEnded, DueTrue
<1>5. SentMarked' /\ RemindedOnce'
    BY <1>1, <1>2, <1>3 DEF RInv, SentMarked, RemindedOnce
<1> QED
    BY <1>1, <1>4, <1>5, JobRInv

LEMMA MarkReminderSentRInv ==
    ASSUME TInv, RInv, MarkReminderSent
    PROVE  RInv'
<1> DEFINE x   == proc[Sweeper]
           one == x.one
           i   == one[1]
           y   == AfterReminder(one)
<1>1. /\ x.op = "reminded" /\ Goto(Sweeper, y)
      /\ UNCHANGED <<now, crashes, sent, repeated>>
      /\ overtaken' = overtaken \cup ({i} \cap InRenewal(Handlers))
    BY DEF MarkReminderSent
<1>2. /\ proc'[Sweeper] = y
      /\ \A h \in Handlers : proc'[h] = proc[h]
    BY <1>1, GotoEffect, PaymentsAssumption DEF TInv, Processes
<1>3. \/ y.op = "idle"
      \/ y.op = "remind" /\ y.due = x.due \ {one}
    BY DEF AfterReminder, Idle
<1>4. /\ one \in x.due /\ one \in sent /\ one = <<i, one[2]>>
      /\ i \in 1..Len(subs)
    BY <1>1 DEF TInv, JobShape, RInv, DueTrue
<1>5. /\ Len(subs') = Len(subs) /\ Len(subs) \in Nat
      /\ DOMAIN subs = 1..Len(subs) /\ DOMAIN subs' = 1..Len(subs)
      /\ \A j \in 1..Len(subs) :
            /\ subs'[j].ends = subs[j].ends /\ subs'[j].status = subs[j].status
            /\ j # i => subs'[j] = subs[j]
      /\ subs'[i].reminded = TRUE
    <2>1. /\ Len(subs') = Len(subs) /\ Len(subs) \in Nat
          /\ DOMAIN subs = 1..Len(subs) /\ DOMAIN subs' = 1..Len(subs)
          /\ \A j \in 1..Len(subs) : j # i => subs'[j] = subs[j]
        BY ReminderMarked, SubsRows DEF TInv
    <2>2. /\ subs'[i].ends = subs[i].ends /\ subs'[i].status = subs[i].status
          /\ subs'[i].reminded = TRUE
        BY ReminderMarked DEF Row
    <2> QED
        BY <2>1, <2>2
<1> HIDE DEF y, one, i
<1>6. ActiveWhileRunning'
    BY <1>1, <1>5 DEF RInv, ActiveWhileRunning
<1>7. FreshWrites'
    <2> SUFFICES ASSUME NEW h \in Handlers, NEW j \in 1..Len(subs),
                        proc[h].op = "write", proc[h].sub = j, j \notin overtaken'
                 PROVE  /\ subs'[j].status = proc[h].status
                        /\ subs'[j].reminded = proc[h].reminded
                        /\ subs'[j].ends < proc[h].ends
        BY <1>2, <1>5 DEF FreshWrites
    <2>1. j \in InRenewal(Handlers)
        BY <1>5 DEF InRenewal
    <2>2. j # i
        BY <1>1, <2>1
    <2> QED
        BY <1>1, <1>5, <2>2 DEF RInv, FreshWrites
<1>8. SweptEnded'
    BY <1>2, <1>3 DEF SweptEnded
<1>9. DueTrue'
    BY <1>1, <1>2, <1>3, <1>5 DEF RInv, DueTrue, TInv, JobShape
<1>10. ReminderNotSuppressed'
    <2> SUFFICES ASSUME NEW j \in 1..Len(subs), subs'[j].status = "active",
                        subs'[j].reminded, j \notin overtaken'
                 PROVE  <<j, subs'[j].ends>> \in sent
        BY <1>1, <1>5 DEF ReminderNotSuppressed
    <2>1. CASE j = i
        <3>1. subs[i].ends = one[2]
            BY <1>1, <1>4, <2>1 DEF RInv, DueTrue, one, i
        <3> QED
            BY <1>4, <1>5, <2>1, <3>1
    <2>2. CASE j # i
        BY <1>1, <1>5, <2>2 DEF RInv, ReminderNotSuppressed
    <2> QED
        BY <2>1, <2>2
<1>11. SentMarked'
    <2> SUFFICES ASSUME NEW e \in sent, crashes = 0, e[1] \notin overtaken
                 PROVE  /\ e[2] <= subs'[e[1]].ends
                        /\ subs'[e[1]].ends = e[2] => subs'[e[1]].reminded
                        /\ y.op = "remind" => e \notin y.due
                        /\ y.op # "reminded"
        BY <1>1, <1>2, <1>3 DEF SentMarked
    <2>1. e[1] \in 1..Len(subs)
        BY DEF TInv, JobShape
    <2>2. e[2] <= subs'[e[1]].ends
        BY <1>5, <2>1 DEF RInv, SentMarked
    <2>3. subs'[e[1]].ends = e[2] => subs'[e[1]].reminded
        <3>1. CASE e[1] = i
            BY <1>5, <3>1
        <3>2. CASE e[1] # i
            BY <1>1, <1>5, <2>1, <3>2 DEF RInv, SentMarked, one, i
        <3> QED
            BY <3>1, <3>2
    <2>4. e \in x.due => e = one
        BY <1>1 DEF RInv, SentMarked, one
    <2> QED
        BY <1>3, <2>2, <2>3, <2>4
<1>12. RemindedOnce'
    BY <1>1 DEF RInv, RemindedOnce
<1> QED
    BY <1>6, <1>7, <1>8, <1>9, <1>10, <1>11, <1>12 DEF RInv

LEMMA LifecycleRInv ==
    ASSUME TInv, RInv, Lifecycle
    PROVE  RInv'
<1>1. ASSUME RecomputeRead(Sweeper) \/ RecomputeWrite(Sweeper)
      PROVE  RInv'
    <2>1. /\ proc[Sweeper].op \in {"recompute", "balance"}
          /\ proc'[Sweeper].op \in {"balance", "due"}
          /\ UNCHANGED <<now, subs, overtaken, crashes, sent, repeated>>
        BY <1>1, GotoEffect
           DEF RecomputeRead, RecomputeWrite, rows, histories, TInv, Processes
    <2>2. SweptEnded' /\ DueTrue'
        BY <2>1 DEF SweptEnded, DueTrue
    <2>3. SentMarked' /\ RemindedOnce'
        BY <2>1 DEF RInv, SentMarked, RemindedOnce
    <2> QED
        BY <1>1, <2>1, <2>2, <2>3, JobRInv DEF RecomputeRead, RecomputeWrite
<1> QED
    BY <1>1, SweepRInv, SweepCommitRInv, FindDueRInv, SendReminderRInv,
       SkipReminderRInv, MarkReminderSentRInv DEF Lifecycle

LEMMA CrashRInv ==
    ASSUME TInv, RInv, NEW q \in Processes, Crash(q)
    PROVE  RInv'
<1>1. /\ UNCHANGED <<now, subs, overtaken, sent, repeated>>
      /\ crashes' = crashes + 1 /\ crashes \in Nat
      /\ proc'[q].op = "idle"
      /\ \A r \in Processes : r # q => proc'[r] = proc[r]
    BY GotoEffect DEF Crash, rows, Idle, TInv, Shape
<1>2. ActiveWhileRunning' /\ ReminderNotSuppressed'
    BY <1>1 DEF RInv, ActiveWhileRunning, ReminderNotSuppressed
<1>3. FreshWrites'
    BY <1>1 DEF RInv, FreshWrites, Processes
<1>4. SweptEnded' /\ DueTrue'
    BY <1>1 DEF RInv, SweptEnded, DueTrue, Processes
<1>5. SentMarked' /\ RemindedOnce'
    BY <1>1 DEF SentMarked, RemindedOnce
<1> QED
    BY <1>2, <1>3, <1>4, <1>5 DEF RInv

LEMMA TickRInv ==
    ASSUME TInv, RInv, Tick
    PROVE  RInv'
<1>1. /\ now' = now + 1 /\ now \in Nat
      /\ UNCHANGED <<subs, proc, overtaken, crashes, sent, repeated>>
      /\ \A i \in 1..Len(subs) : subs[i].ends \in Nat
      /\ DOMAIN subs = 1..Len(subs)
    BY SubsRows DEF Tick, rows, histories, TInv, Shape, Row
<1>2. ActiveWhileRunning'
    BY <1>1 DEF RInv, ActiveWhileRunning
<1>3. SweptEnded'
    BY <1>1 DEF RInv, SweptEnded
<1>4. FreshWrites' /\ DueTrue'
    BY <1>1 DEF RInv, FreshWrites, DueTrue
<1>5. ReminderNotSuppressed' /\ SentMarked' /\ RemindedOnce'
    BY <1>1 DEF RInv, ReminderNotSuppressed, SentMarked, RemindedOnce
<1> QED
    BY <1>2, <1>3, <1>4, <1>5 DEF RInv

LEMMA InitRInv == Init => RInv
<1> SUFFICES ASSUME Init PROVE RInv
    OBVIOUS
<1>1. subs = <<>> /\ Len(subs) = 0 /\ DOMAIN subs = {} /\ sent = {} /\ repeated = {}
    BY DEF Init
<1>2. proc[Sweeper].op = "idle"
    BY DEF Init, Idle, Processes
<1> QED
    BY <1>1, <1>2 DEF RInv, ActiveWhileRunning, FreshWrites, SweptEnded, DueTrue,
       ReminderNotSuppressed, SentMarked, RemindedOnce

LEMMA NextRInv == TInv /\ RInv /\ [Next]_vars => RInv'
<1>1. ASSUME TInv, RInv, UNCHANGED vars PROVE RInv'
    BY <1>1, RInvKept DEF vars, rows, histories
<1>2. ASSUME TInv, RInv, NEW p \in Payments, NEW plan \in Plans, Invoice(p, plan)
      PROVE  RInv'
    BY <1>2, RInvKept DEF Invoice, histories
<1> QED
    BY <1>1, <1>2, FulfillRInv, LifecycleRInv, CrashRInv, TickRInv DEF Next

LEMMA SpecRInv == Spec => [](TInv /\ RInv)
BY InitTInv, NextTInv, InitRInv, NextRInv, PTL DEF Spec

(* The job takes a running subscription away only when a renewal of it was *)
(* between its read and its commit.                                        *)
THEOREM RunningStaysActive == Spec => []ActiveWhileRunning
<1>1. RInv => ActiveWhileRunning
    BY DEF RInv
<1> QED
    BY <1>1, SpecRInv, PTL

(* No renewal is left without its reminder.                                *)
THEOREM ReminderKept == Spec => []ReminderNotSuppressed
<1>1. RInv => ReminderNotSuppressed
    BY DEF RInv
<1> QED
    BY <1>1, SpecRInv, PTL

(* No end is reminded of twice.                                            *)
THEOREM OneReminder == Spec => []RemindedOnce
<1>1. RInv => RemindedOnce
    BY DEF RInv
<1> QED
    BY <1>1, SpecRInv, PTL

-----------------------------------------------------------------------------
(* Access: the end of the access that the rows s promise.                  *)
LiveEnds(s) == {EffectiveEnd(s[i]) : i \in {j \in DOMAIN s : IsLive(s[j])}}
LatestEnd(s) == Max({0} \cup LiveEnds(s))

(* Who is about to write the balance has computed it from the rows it      *)
(* read; and the balance is that of the rows, unless somebody is on the    *)
(* way to write it.                                                        *)
Recomputing(q) == proc[q].op \in {"recompute", "balance"}
AInv ==
    /\ \A q \in Processes :
          proc[q].op = "balance" => proc[q].until = LatestEnd(proc[q].subs)
    /\ \/ drifted
       \/ \E q \in Processes : Recomputing(q)
       \/ until = LatestEnd(subs)

(* The two ways to write down the ends, with and without the case split.   *)
LEMMA EndsBySort ==
    LiveEnds(subs)
      = {subs[i].ends : i \in {j \in DOMAIN subs : subs[j].status = "active"}}
          \cup {subs[i].ends + Grace :
                   i \in {j \in DOMAIN subs : subs[j].status = "grace"}}
<1> DEFINE A == {j \in DOMAIN subs : subs[j].status = "active"}
           G == {j \in DOMAIN subs : subs[j].status = "grace"}
           V == {j \in DOMAIN subs : IsLive(subs[j])}
<1>1. V = A \cup G
    BY DEF IsLive
<1>2. \A i \in A : EffectiveEnd(subs[i]) = subs[i].ends
    BY DEF EffectiveEnd
<1>3. \A i \in G : EffectiveEnd(subs[i]) = subs[i].ends + Grace
    BY DEF EffectiveEnd
<1>4. LiveEnds(subs) = {EffectiveEnd(subs[i]) : i \in A \cup G}
    BY <1>1 DEF LiveEnds
<1> HIDE DEF A, G, V
<1>5. {EffectiveEnd(subs[i]) : i \in A \cup G}
        = {subs[i].ends : i \in A} \cup {subs[i].ends + Grace : i \in G}
    BY <1>2, <1>3
<1> QED
    BY <1>4, <1>5 DEF A, G

(* The balance depends on the ends and states of the rows only.            *)
LEMMA SameEnds ==
    ASSUME NEW s, NEW t, DOMAIN s = DOMAIN t,
           \A i \in DOMAIN s : s[i].ends = t[i].ends /\ s[i].status = t[i].status
    PROVE  LatestEnd(s) = LatestEnd(t)
<1>1. \A i \in DOMAIN s :
          /\ IsLive(s[i]) <=> IsLive(t[i])
          /\ EffectiveEnd(s[i]) = EffectiveEnd(t[i])
    BY DEF IsLive, EffectiveEnd
<1>2. LiveEnds(s) = LiveEnds(t)
    BY <1>1 DEF LiveEnds
<1> QED
    BY <1>2 DEF LatestEnd

(* A process that has nothing to do with the balance.                      *)
LEMMA AInvKept ==
    ASSUME TInv, AInv, NEW q \in Processes, NEW x, Goto(q, x),
           ~Recomputing(q), x.op # "balance",
           LatestEnd(subs') = LatestEnd(subs), until' = until,
           drifted' = drifted
    PROVE  AInv'
<1>1. /\ proc'[q] = x
      /\ \A r \in Processes : r # q => proc'[r] = proc[r]
    BY GotoEffect DEF TInv
<1>2. \A r \in Processes : Recomputing(r) => proc'[r] = proc[r]
    BY <1>1
<1> QED
    BY <1>1, <1>2 DEF AInv, Recomputing

(* A process that has changed the rows goes on to recompute the balance.   *)
LEMMA AInvOwed ==
    ASSUME TInv, AInv, NEW q \in Processes, Goto(q, [op |-> "recompute"])
    PROVE  AInv'
<1>1. /\ proc'[q] = [op |-> "recompute"]
      /\ \A r \in Processes : r # q => proc'[r] = proc[r]
    BY GotoEffect DEF TInv
<1> QED
    BY <1>1 DEF AInv, Recomputing

LEMMA RecomputeAInv ==
    ASSUME TInv, AInv, NEW q \in Processes, RecomputeRead(q) \/ RecomputeWrite(q)
    PROVE  AInv'
<1>1. CASE RecomputeRead(q)
    <2>1. /\ proc'[q] = [op |-> "balance", read |-> until, subs |-> subs,
                         until |-> EffectiveUntil]
          /\ \A r \in Processes : r # q => proc'[r] = proc[r]
        BY <1>1, GotoEffect DEF RecomputeRead, TInv
    <2>2. EffectiveUntil = LatestEnd(subs)
        BY DEF EffectiveUntil, LatestEnd, LiveEnds
    <2>3. \A r \in Processes : proc'[r].op = "balance" =>
              proc'[r].until = LatestEnd(proc'[r].subs)
        BY <2>1, <2>2 DEF AInv
    <2> QED
        BY <2>1, <2>3 DEF AInv, Recomputing
<1>2. CASE RecomputeWrite(q)
    <2> DEFINE x == proc[q]
               y == IF q = Sweeper THEN [op |-> "due"] ELSE Idle
    <2>1. /\ x.op = "balance" /\ subs' = subs
          /\ until' = IF x.until = x.read THEN until ELSE x.until
          /\ drifted' = (drifted \/ x.read # until \/ x.subs # subs)
          /\ Goto(q, y)
        BY <1>2 DEF RecomputeWrite
    <2>2. proc'[q] = y /\ y.op # "balance"
          /\ \A r \in Processes : r # q => proc'[r] = proc[r]
        BY <2>1, GotoEffect DEF TInv, Idle
    <2>3. x.until = LatestEnd(x.subs)
        BY <2>1 DEF AInv
    <2>4. drifted' \/ until' = LatestEnd(subs')
        BY <2>1, <2>3
    <2>5. \A r \in Processes : proc'[r].op = "balance" =>
              proc'[r].until = LatestEnd(proc'[r].subs)
        BY <2>2 DEF AInv
    <2> QED
        BY <2>4, <2>5 DEF AInv
<1> QED
    BY <1>1, <1>2

LEMMA FulfillAInv ==
    ASSUME TInv, AInv, NEW h \in Handlers, Fulfill(h)
    PROVE  AInv'
<1> USE DEF rows, histories, Idle
<1>a. h \in Processes
    BY DEF Processes
<1>1. ASSUME NEW p \in Payments, ReadPayment(h, p) PROVE AInv'
    BY <1>1, <1>a, AInvKept DEF ReadPayment, Recomputing
<1>2. CASE MarkPaid(h)
    BY <1>2, <1>a, AInvKept DEF MarkPaid, Recomputing
<1>3. CASE PlanWithdrawn(h)
    BY <1>3, <1>a, AInvKept DEF PlanWithdrawn, Recomputing
<1>4. CASE ApplyPackagePayment(h)
    BY <1>4, <1>a, AInvKept DEF ApplyPackagePayment, Recomputing
<1>5. CASE ReadSubscription(h)
    <2>1. proc[h].op = "plan" /\ proc'[h].op = "write"
          /\ UNCHANGED <<subs, until, drifted>>
          /\ \A r \in Processes : r # h => proc'[r] = proc[r]
        BY <1>5, RenewalPlanned DEF ReadSubscription
    <2> QED
        BY <2>1 DEF AInv, Recomputing
<1>6. CASE WriteSubscription(h)
    BY <1>6, <1>a, AInvOwed DEF WriteSubscription
<1>7. CASE WriteRefused(h)
    BY <1>7, <1>a, AInvKept DEF WriteRefused, Recomputing
<1>8. CASE RecomputeRead(h) \/ RecomputeWrite(h)
    BY <1>8, <1>a, RecomputeAInv
<1> QED
    BY <1>1, <1>2, <1>3, <1>4, <1>5, <1>6, <1>7, <1>8 DEF Fulfill

LEMMA LifecycleAInv ==
    ASSUME TInv, AInv, Lifecycle
    PROVE  AInv'
<1> USE DEF rows, histories, Idle
<1> DEFINE x == proc[Sweeper]
<1>a. Sweeper \in Processes
    BY DEF Processes
<1>1. CASE FindEnded
    BY <1>1, <1>a, AInvKept DEF FindEnded, Recomputing
<1>2. CASE FindLapsed
    BY <1>2, <1>a, AInvKept DEF FindLapsed, Recomputing
<1>3. CASE SweepCommit
    <2>1. CASE x.ended \cup x.lapsed = {}
        <3>1. \A i \in 1..Len(subs) : subs'[i] = subs[i]
            BY <1>3, <2>1, Swept
        <3>2. DOMAIN subs = 1..Len(subs) /\ DOMAIN subs' = 1..Len(subs)
            BY <1>3, Swept, SubsRows DEF TInv
        <3>3. LatestEnd(subs') = LatestEnd(subs)
            BY <3>1, <3>2, SameEnds
        <3> QED
            BY <1>3, <1>a, <2>1, <3>3, AInvKept DEF SweepCommit, Recomputing
    <2>2. CASE x.ended \cup x.lapsed # {}
        BY <1>3, <1>a, <2>2, AInvOwed DEF SweepCommit
    <2> QED
        BY <2>1, <2>2
<1>4. CASE FindDue
    BY <1>4, <1>a, AInvKept DEF FindDue, Recomputing
<1>5. CASE MarkReminderSent
    <2>1. /\ DOMAIN subs = 1..Len(subs) /\ DOMAIN subs' = 1..Len(subs)
          /\ \A j \in 1..Len(subs) :
                /\ subs'[j].ends = subs[j].ends
                /\ subs'[j].status = subs[j].status
        BY <1>5, ReminderMarked, SubsRows DEF TInv, Row
    <2>2. LatestEnd(subs') = LatestEnd(subs)
        BY <2>1, SameEnds
    <2> QED
        BY <1>5, <1>a, <2>2, AInvKept
           DEF MarkReminderSent, AfterReminder, Recomputing
<1>6. CASE RecomputeRead(Sweeper) \/ RecomputeWrite(Sweeper)
    BY <1>6, <1>a, RecomputeAInv
<1>7. ASSUME NEW d \in x.due, SendReminder(d) \/ SkipReminder(d) PROVE AInv'
    BY <1>7, <1>a, AInvKept
       DEF SendReminder, SkipReminder, AfterReminder, Recomputing
<1> QED
    BY <1>1, <1>2, <1>3, <1>4, <1>5, <1>6, <1>7 DEF Lifecycle

(* Who dies on the way to write the balance leaves it to drift.            *)
LEMMA CrashAInv ==
    ASSUME TInv, AInv, NEW q \in Processes, Crash(q)
    PROVE  AInv'
<1>1. /\ proc'[q].op = "idle" /\ UNCHANGED <<subs, until>>
      /\ drifted' = (drifted \/ Recomputing(q))
      /\ \A r \in Processes : r # q => proc'[r] = proc[r]
    BY GotoEffect DEF Crash, rows, Idle, TInv, Recomputing
<1>2. CASE Recomputing(q)
    BY <1>1, <1>2 DEF AInv
<1>3. CASE ~Recomputing(q)
    BY <1>1, <1>3 DEF AInv, Recomputing
<1> QED
    BY <1>2, <1>3

LEMMA InitAInv == Init => AInv
<1> SUFFICES ASSUME Init PROVE AInv
    OBVIOUS
<1>1. subs = <<>> /\ until = 0 /\ \A q \in Processes : proc[q].op = "idle"
    BY DEF Init, Idle
<1>2. {j \in DOMAIN subs : IsLive(subs[j])} = {}
    BY <1>1
<1>3. {0} \cup LiveEnds(subs) = {0}
    BY <1>2 DEF LiveEnds
<1>4. Max({0}) = 0
    BY DEF Max
<1> QED
    BY <1>1, <1>3, <1>4 DEF AInv, LatestEnd

LEMMA NextAInv == TInv /\ AInv /\ [Next]_vars => AInv'
<1>1. ASSUME TInv, AInv, UNCHANGED <<subs, until, drifted, proc>> PROVE AInv'
    BY <1>1 DEF AInv, Recomputing
<1>2. ASSUME TInv, AInv, NEW p \in Payments, NEW plan \in Plans, Invoice(p, plan)
      PROVE  AInv'
    BY <1>1, <1>2 DEF Invoice, histories
<1>3. ASSUME TInv, AInv, Tick \/ UNCHANGED vars PROVE AInv'
    BY <1>1, <1>3 DEF Tick, vars, rows, histories
<1> QED
    BY <1>2, <1>3, FulfillAInv, LifecycleAInv, CrashAInv DEF Next

(* The end of the access that is paid for is the one the rows promise,     *)
(* when nobody is on the way to correct it and nobody has died there.      *)
THEOREM AccessIsCurrent == Spec => []AccessFollowsRows
<1>1. AInv => AccessFollowsRows
    <2> SUFFICES ASSUME AInv, ~drifted, \A q \in Processes : ~Recomputing(q)
                 PROVE  AccessFollowsRows
        BY DEF AccessFollowsRows, Recomputing
    <2>1. until = LatestEnd(subs)
        BY DEF AInv
    <2> DEFINE A == {subs[i].ends :
                        i \in {j \in DOMAIN subs : subs[j].status = "active"}}
               G == {subs[i].ends + Grace :
                        i \in {j \in DOMAIN subs : subs[j].status = "grace"}}
    <2>2. {0} \cup LiveEnds(subs) = {0} \cup A \cup G
        BY EndsBySort
    <2>3. until = Max({0} \cup A \cup G)
        BY <2>1, <2>2 DEF LatestEnd
    <2> QED
        BY <2>3 DEF AccessFollowsRows
<1>2. Init => TInv /\ AInv
    BY InitTInv, InitAInv
<1>3. TInv /\ AInv /\ [Next]_vars => (TInv /\ AInv)'
    BY NextTInv, NextAInv
<1> QED
    BY <1>1, <1>2, <1>3, PTL DEF Spec
=============================================================================
