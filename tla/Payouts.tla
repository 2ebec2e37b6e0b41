------------------------------- MODULE Payouts -------------------------------
(***************************************************************************)
(* What the platform owes one tenant: a superadmin has the paid payments   *)
(* of a period summed into a payout, and marks it paid later.              *)
(*                                                                         *)
(* A payment is stamped with the time before the transaction that makes it *)
(* paid is committed, by every delivery of it that has read it as pending: *)
(* the one that commits last has its stamp stay.  A calculation looks for  *)
(* a payout, sums the payments it sees and inserts the row, and two        *)
(* calculations may run at once.                                           *)
(***************************************************************************)
EXTENDS Integers, FiniteSets, Functions

CONSTANTS
    Sales,          \* payments of the tenant
    Amount,         \* amount_cents of each
    Periods,        \* periods somebody asks for: <<start, end>>
    Deliveries,     \* handlers of payment messages, and of repeated ones
    Admins,         \* superadmins whose requests may overlap
    FeePct,         \* platform_fee_pct
    LastDay         \* bound: the clock stops here

VARIABLES
    day,            \* the clock
    sale,           \* the row of each payment
    delivery,       \* stamps that are not committed: by whom, of which payment
    payout,         \* the row of each period
    calculation,    \* what each admin's request has read
    late,           \* history: payments that came into a period after its sum
    moved           \* history: payments that left a period after its sum

vars == <<day, sale, delivery, payout, calculation, late, moved>>

NoPeriod == <<0, 0>>
Unpaid == [status |-> "pending", paidAt |-> 0]
NoPayout == [status |-> "none", gross |-> 0, fee |-> 0, net |-> 0]
Waiting == [pc |-> "idle", period |-> NoPeriod, gross |-> 0]

Init ==
    /\ day = 0
    /\ sale = [s \in Sales |-> Unpaid]
    /\ delivery = {}
    /\ payout = [p \in Periods |-> NoPayout]
    /\ calculation = [a \in Admins |-> Waiting]
    /\ late = [p \in Periods |-> {}]
    /\ moved = [p \in Periods |-> {}]

Sum(sales) == SumFunctionOnSet(Amount, sales)
(* Seeded fault: the end of a period belongs to it.                         *)
Within_Closed(t, period) == period[1] <= t /\ t <= period[2]

Within(t, period) == period[1] <= t /\ t < period[2]

\* The payments that a query of a period sees.
PaidWithin(period) ==
    {s \in Sales : sale[s].status = "paid" /\ Within(sale[s].paidAt, period)}

NextDay ==
    /\ day < LastDay /\ day' = day + 1
    /\ UNCHANGED <<sale, delivery, payout, calculation, late, moved>>

\* fulfill_payment reads the payment as pending and stamps it; it takes no
\* lock, and another delivery may do the same.
Stamp(d, s) ==
    /\ sale[s].status = "pending"
    /\ \A e \in delivery : e.by # d
    /\ delivery' = delivery \cup {[by |-> d, of |-> s, paidAt |-> day]}
    /\ UNCHANGED <<day, sale, payout, calculation, late, moved>>

Summed(period) ==
    \/ payout[period] # NoPayout
    \/ \E a \in Admins : /\ calculation[a].pc = "summed"
                         /\ calculation[a].period = period

\* The commit writes the stamp, over that of a delivery that was faster.
Commit(e) ==
    /\ sale' = [sale EXCEPT ![e.of] = [status |-> "paid", paidAt |-> e.paidAt]]
    /\ delivery' = delivery \ {e}
    /\ LET In(p) == e.of \in PaidWithin(p)
           Into(p) == Within(e.paidAt, p)
       IN
       /\ late' = [p \in Periods |->
                     IF Summed(p) /\ Into(p) /\ ~In(p)
                     THEN late[p] \cup {e.of} ELSE late[p]]
       /\ moved' = [p \in Periods |->
                      IF Summed(p) /\ In(p) /\ ~Into(p)
                      THEN moved[p] \cup {e.of} ELSE moved[p]]
    /\ UNCHANGED <<day, payout, calculation>>

\* The commit is refused, or the process dies before it.
CommitFails(e) ==
    /\ delivery' = delivery \ {e}
    /\ UNCHANGED <<day, sale, payout, calculation, late, moved>>

-----------------------------------------------------------------------------
Becomes(a, pc, period, gross) ==
    calculation' = [calculation EXCEPT
                      ![a] = [pc |-> pc, period |-> period, gross |-> gross]]

\* calculate, and calculate_payout up to the sum: 400 for a period that ends
\* before it starts, 409 for one that has its payout.
Calculate(a, period) ==
    /\ calculation[a].pc = "idle"
    /\ period[1] < period[2]
    /\ payout[period] = NoPayout
    /\ Becomes(a, "summed", period, Sum(PaidWithin(period)))
    /\ UNCHANGED <<day, sale, delivery, payout, late, moved>>

\* The row is inserted; uq_payout_tenant_period refuses a second one.
InsertPayout(a) ==
    LET c == calculation[a]
        fee == (c.gross * FeePct) \div 100
    IN
    /\ c.pc = "summed"
    /\ payout' = IF payout[c.period] # NoPayout THEN payout
                 ELSE [payout EXCEPT ![c.period] =
                         [status |-> "calculated", gross |-> c.gross,
                          fee |-> fee, net |-> c.gross - fee]]
    /\ Becomes(a, "idle", NoPeriod, 0)
    /\ UNCHANGED <<day, sale, delivery, late, moved>>

\* mark_paid, again and again if asked.
MarkPaid(period) ==
    /\ payout[period] # NoPayout
    /\ payout' = [payout EXCEPT ![period].status = "paid"]
    /\ UNCHANGED <<day, sale, delivery, calculation, late, moved>>

Next ==
    \/ NextDay
    \/ \E d \in Deliveries, s \in Sales : Stamp(d, s)
    \/ \E e \in delivery : Commit(e) \/ CommitFails(e)
    \/ \E a \in Admins :
          InsertPayout(a) \/ \E p \in Periods : Calculate(a, p)
    \/ \E p \in Periods : MarkPaid(p)

Spec == Init /\ [][Next]_vars

-----------------------------------------------------------------------------
Disjoint(p, q) == p[2] <= q[1] \/ q[2] <= p[1]

(* Whatever periods that do not overlap the platform pays out, the tenant  *)
(* is paid for every payment in them once, and for none twice, but for     *)
(* two kinds of payments: one that came into its period after the sum is   *)
(* in no payout of it, and one that a second delivery moved out of its     *)
(* period after the sum may be in the payout of two                        *)
(* (domain/payouts.py 23-64, domain/billing.py 222-230).                   *)
PaymentsPaidOutOnce ==
    \A ps \in SUBSET {p \in Periods : payout[p] # NoPayout} :
       (\A p, q \in ps : p = q \/ Disjoint(p, q)) =>
          LET owed == Sum(UNION {PaidWithin(p) : p \in ps})
              intime == Sum(UNION {PaidWithin(p) \ late[p] : p \in ps})
              twice == SumFunctionOnSet([p \in ps |-> Sum(moved[p])], ps)
              gross == SumFunctionOnSet([p \in ps |-> payout[p].gross], ps)
              net == SumFunctionOnSet([p \in ps |-> payout[p].net], ps)
          IN
          /\ intime <= gross /\ gross <= owed + twice
          /\ net >= gross - (((owed + twice) * FeePct) \div 100)
=============================================================================
