---------------------------- MODULE CreditLedger ----------------------------
(***************************************************************************)
(* One account's credits are stored twice: the AccountPackage ledger (how  *)
(* many requests each package has left) and the counter                    *)
(* AccountBalance.package_credits.  Seven operations of domain/quota.py,   *)
(* domain/billing.py, domain/accounts.py and domain/gifts.py change both.  *)
(*                                                                         *)
(* Under READ COMMITTED an operation reads first and writes later.  It is  *)
(* modelled in two steps: Begin reads and plans the writes, Commit applies *)
(* them, as the absolute values the ORM sends.  Operations that select the *)
(* balance FOR UPDATE hold its row lock from Begin to Commit; the others   *)
(* meet the lock only when they write.                                     *)
(***************************************************************************)
EXTENDS Integers, FiniteSetsExt, Functions

CONSTANTS
    Txns,            \* concurrent transactions
    Ops,             \* the operations they may run
    Packages,        \* ledger row ids, numbered in order of purchase
    ExpiryRank,      \* position of each package in order of expiry
    FirstPackage,    \* size of the one package there is at the start
    Amounts,         \* credits granted, given away or deducted at once
    MaxCounter,      \* bound: grants and refunds keep to it, in counter and rows
    MaxCharges       \* bound: charges open at once

AllOps == {"consume", "refund", "gift", "grant", "adjust", "recompute"}

ASSUME CreditLedgerAssumption ==
    /\ Ops \subseteq AllOps \cup {"expire"}
    /\ Packages \subseteq Nat \ {0} /\ 1 \in Packages
    /\ ExpiryRank \in [Packages -> Nat]
    /\ \A p, q \in Packages : ExpiryRank[p] = ExpiryRank[q] => p = q
    /\ MaxCounter \in Nat /\ MaxCharges \in Nat
    /\ FirstPackage \in 0..MaxCounter
    /\ Amounts \subseteq Nat \ {0}

VARIABLES
    counter,   \* AccountBalance.package_credits
    left,      \* AccountPackage.requests_remaining of the rows that exist
    expired,   \* packages whose expires_at has passed
    charges,   \* consumed credits whose request has not been refunded
    lock,      \* the transactions that hold the balance's row lock
    txn,       \* what each transaction has read and plans to write
    stale      \* history: some transaction wrote over a change it had not seen

vars == <<counter, left, expired, charges, lock, txn, stale>>

Rows == DOMAIN left
Valid == Rows \ expired

(* What is left in the rows `ps` of a ledger.                              *)
Total(ledger, ps) == FoldFunctionOnSet(+, 0, ledger, ps)

(* _sum_valid_packages                                                     *)
SumValid(ledger) == Total(ledger, DOMAIN ledger \ expired)

Init ==
    /\ counter = FirstPackage
    /\ left = [p \in {1} |-> FirstPackage]
    /\ expired = {}
    /\ charges = 0
    /\ lock = {}
    /\ txn = [t \in Txns |-> [op |-> "none"]]
    /\ stale = FALSE

-----------------------------------------------------------------------------
(* What an operation plans to write, from what it reads.                   *)

(* Seeded fault: FIFO the wrong way round, newest expiry first, and from   *)
(* the first package only.                                                 *)
Drained_OneRow(n) ==
    [p \in Rows |->
        IF p = Max(Valid \cup {0}) THEN left[p] - Min({left[p], n}) ELSE left[p]]

(* The valid rows after n credits are drained from them, oldest-expiring   *)
(* first: _oldest_valid_package in a loop, taking what each row has.       *)
Drained(n) ==
    [p \in Rows |->
        LET earlier == {q \in Valid : ExpiryRank[q] < ExpiryRank[p]}
            wanted  == Max({0, n - Total(left, earlier)})
        IN  IF p \in Valid THEN left[p] - Min({left[p], wanted}) ELSE left[p]]

(* _newest_valid_package gets n more; without a valid row nothing does.    *)
ToppedUp(n) ==
    IF Valid = {} THEN left ELSE [left EXCEPT ![Max(Valid)] = @ + n]

(* What a transaction has read (seen, ledger) and will write: the counter, *)
(* the rows that differ from the ledger it read, and a new row of `insert` *)
(* credits unless that is 0.                                               *)
Plan(op, newCounter, rows, insert) ==
    [op |-> op, seen |-> counter, ledger |-> left, counter |-> newCounter,
     rows |-> rows, insert |-> insert]

(* Seeded fault: consume_quota reads the balance without FOR UPDATE.       *)
Locks_NotConsume(op) == op \in {"refund", "gift"}

(* The operations that read the balance FOR UPDATE.                        *)
Locks(op) == op \in {"consume", "refund", "gift"}

Begin(t, plan) ==
    /\ plan.op \in Ops
    /\ txn[t].op = "none"
    /\ Locks(plan.op) => lock = {}
    /\ lock' = IF Locks(plan.op) THEN {t} ELSE lock
    /\ txn' = [txn EXCEPT ![t] = plan]
    /\ UNCHANGED <<counter, left, expired, charges, stale>>

(* consume_quota: one credit off the counter, whatever the rows hold.      *)
Consume(t) ==
    /\ counter >= 1
    /\ charges < MaxCharges
    /\ Begin(t, Plan("consume", counter - 1, Drained(1), 0))

(* refund_quota of a request that was charged to packages.                 *)
Refund(t) ==
    /\ charges > 0
    /\ counter < MaxCounter /\ Total(left, Rows) < MaxCounter
    /\ Begin(t, Plan("refund", counter + 1, ToppedUp(1), 0))

(* create_gift: the counter must cover the amount; the rows are drained    *)
(* and the counter becomes their sum (adjust_package_credits).             *)
Gift(t, n) ==
    /\ counter >= n
    /\ Begin(t, Plan("gift", SumValid(Drained(n)), Drained(n), 0))

(* Seeded fault: the counter is set to the amount granted.                 *)
Grant_Overwrites(t, n) ==
    /\ counter + n <= MaxCounter
    /\ Begin(t, Plan("grant", n, left, n))

(* grant_credits: a new row, and the counter that was read plus n.         *)
Grant(t, n) ==
    /\ counter + n <= MaxCounter
    /\ Begin(t, Plan("grant", counter + n, left, n))

(* Seeded fault: the deduction is subtracted from the counter although the *)
(* rows clamp it.                                                          *)
Adjust_Subtracts(t, n) ==
    Begin(t, Plan("adjust", counter - n, Drained(n), 0))

(* adjust_package_credits with a negative delta, clamped at what is there. *)
Adjust(t, n) == Begin(t, Plan("adjust", SumValid(Drained(n)), Drained(n), 0))

(* recompute_account_balance                                               *)
Recompute(t) == Begin(t, Plan("recompute", SumValid(left), left, 0))

-----------------------------------------------------------------------------
(* The rows a transaction changed are written as it planned them, the      *)
(* others are left alone, and a new row gets the next id.                  *)
Written(x) ==
    [p \in Rows |-> IF p \in DOMAIN x.ledger /\ x.rows[p] # x.ledger[p]
                    THEN x.rows[p] ELSE left[p]]

NextId == Min(Packages \ Rows)

(* The writes reach the balance row when no other transaction locks it.    *)
(* An attribute that ends at the value it was loaded with is not sent.     *)
Commit(t) ==
    LET x == txn[t] IN
    /\ x.op # "none"
    /\ lock \subseteq {t}
    /\ counter' = IF x.counter = x.seen THEN counter ELSE x.counter
    /\ \/ x.insert = 0 /\ left' = Written(x)
       \/ /\ x.insert > 0 /\ Rows # Packages
          /\ left' = [p \in Rows \cup {NextId} |->
                        IF p = NextId THEN x.insert ELSE Written(x)[p]]
    /\ charges' = CASE x.op = "consume" -> charges + 1
                    [] x.op = "refund" -> charges - 1
                    [] OTHER -> charges
    /\ stale' = (stale \/ x.seen # counter \/ x.ledger # left)
    /\ lock' = lock \ {t}
    /\ txn' = [txn EXCEPT ![t] = [op |-> "none"]]
    /\ UNCHANGED expired

(* A transaction fails, or the database picks it as a deadlock victim.     *)
Abort(t) ==
    /\ txn[t].op # "none"
    /\ lock' = lock \ {t}
    /\ txn' = [txn EXCEPT ![t] = [op |-> "none"]]
    /\ UNCHANGED <<counter, left, expired, charges, stale>>

(* Time passes expires_at of the valid package that expires first.         *)
Expire(p) ==
    /\ "expire" \in Ops
    /\ p \in Valid
    /\ \A q \in Valid : ExpiryRank[p] <= ExpiryRank[q]
    /\ expired' = expired \cup {p}
    /\ UNCHANGED <<counter, left, charges, lock, txn, stale>>

Next ==
    \/ \E t \in Txns :
        \/ Consume(t) \/ Refund(t) \/ Recompute(t) \/ Commit(t) \/ Abort(t)
        \/ \E n \in Amounts : Gift(t, n) \/ Grant(t, n) \/ Adjust(t, n)
    \/ \E p \in Packages : Expire(p)

Spec == Init /\ [][Next]_vars

-----------------------------------------------------------------------------
(* Properties                                                              *)

(* Counter, rows and plans are numbers of credits: none goes below zero    *)
(* (domain/quota.py, domain/billing.py, domain/accounts.py).               *)
TypeOK ==
    /\ counter \in Nat
    /\ Rows \subseteq Packages /\ \A p \in Rows : left[p] \in Nat
    /\ expired \subseteq Rows
    /\ charges \in Nat
    /\ lock \subseteq Txns
    /\ \A t \in Txns : txn[t].op \in AllOps \cup {"none"}
    /\ stale \in BOOLEAN

(* What consume_quota, refund_quota and create_gift read under FOR UPDATE  *)
(* is still true when they commit, whatever the unlocked operations do.    *)
LockedReadIsFresh ==
    \A t \in Txns :
        txn[t].op \in {"consume", "refund", "gift"} =>
            txn[t].seen = counter /\ txn[t].ledger = left

(* At its commit a charge takes exactly one credit off the counter that    *)
(* others see, and a refund puts exactly one back, whatever they did since *)
(* it began.  A grant that had read the counter before may still write     *)
(* over both afterwards (CounterMatchesLedger).                            *)
ChargeTakesOne ==
    [][/\ charges' = charges + 1 => counter' = counter - 1
       /\ charges' = charges - 1 => counter' = counter + 1]_vars

(* The counter is the sum of the valid packages, unless a package expired  *)
(* or a transaction overwrote a change that it had not read.               *)
DriftNeedsRace == stale \/ expired # {} \/ counter = SumValid(left)

(* The same without the exceptions, as adjust_package_credits documents    *)
(* it.                                                                     *)
CounterMatchesLedger == expired = {} => counter = SumValid(left)
=============================================================================
