------------------------- MODULE CreditLedgerProofs -------------------------
(***************************************************************************)
(* For any number of concurrent transactions, packages and amounts: the    *)
(* balance row's lock makes charges and refunds exact, although the other  *)
(* operations write the same row without having locked it when they read,  *)
(* and the counter equals the rows unless one of these overwrote what it   *)
(* had not read, or a package expired.                                     *)
(***************************************************************************)
EXTENDS CreditLedger, Sums, TLAPS

LockHeld ==
    \A t \in Txns : Locks(txn[t].op) => lock = {t}

(* A planned charge is one less than what was read, a refund one more.     *)
PlansByOne ==
    \A t \in Txns :
        /\ txn[t].op = "consume" => txn[t].counter = txn[t].seen - 1
        /\ txn[t].op = "refund" => txn[t].counter = txn[t].seen + 1

LInv ==
    /\ DOMAIN txn = Txns
    /\ charges \in Int
    /\ LockHeld
    /\ PlansByOne
    /\ LockedReadIsFresh

LEMMA InitLInv == Init => LInv
BY DEF Init, LInv, LockHeld, PlansByOne, LockedReadIsFresh, Locks

(* Begin keeps the invariant when the plan read the current state and      *)
(* moves the counter as its operation says.                                *)
LEMMA BeginLInv ==
    ASSUME LInv, NEW t \in Txns, NEW plan, Begin(t, plan),
           plan.seen = counter, plan.ledger = left,
           plan.op = "consume" => plan.counter = plan.seen - 1,
           plan.op = "refund" => plan.counter = plan.seen + 1
    PROVE  LInv'
<1>1. txn' = [txn EXCEPT ![t] = plan] /\ DOMAIN txn = Txns
    BY DEF Begin, LInv
<1>2. counter' = counter /\ left' = left /\ charges' = charges
    BY DEF Begin
<1>3. \A u \in Txns : txn'[u] = IF u = t THEN plan ELSE txn[u]
    BY <1>1
<1>4. DOMAIN txn' = Txns /\ charges' \in Int
    BY <1>1, <1>2 DEF LInv
<1>5. LockHeld'
    <2>1. CASE Locks(plan.op)
        <3>1. lock = {} /\ lock' = {t}
            BY <2>1 DEF Begin
        <3>2. \A u \in Txns : ~Locks(txn[u].op)
            BY <3>1 DEF LInv, LockHeld
        <3> QED
            BY <1>3, <3>1, <3>2 DEF LockHeld, Locks
    <2>2. CASE ~Locks(plan.op)
        <3>1. lock' = lock
            BY <2>2 DEF Begin
        <3> QED
            BY <1>3, <2>2, <3>1 DEF LInv, LockHeld, Locks
    <2> QED
        BY <2>1, <2>2
<1>6. PlansByOne'
    BY <1>3 DEF LInv, PlansByOne
<1>7. LockedReadIsFresh'
    BY <1>2, <1>3 DEF LInv, LockedReadIsFresh, Locks
<1> QED
    BY <1>4, <1>5, <1>6, <1>7 DEF LInv

LEMMA OperationLInv ==
    ASSUME LInv, NEW t \in Txns,
           \/ Consume(t) \/ Refund(t) \/ Recompute(t)
           \/ \E n \in Amounts : Gift(t, n) \/ Grant(t, n) \/ Adjust(t, n)
    PROVE  LInv' /\ charges' = charges
<1>1. ASSUME NEW plan, Begin(t, plan) PROVE charges' = charges
    BY <1>1 DEF Begin
<1>2. CASE Consume(t)
    <2> DEFINE plan == Plan("consume", counter - 1, Drained(1), 0)
    <2>1. Begin(t, plan)
        BY <1>2 DEF Consume
    <2>2. plan.seen = counter /\ plan.ledger = left /\ plan.op = "consume"
          /\ plan.counter = plan.seen - 1
        BY DEF Plan
    <2> QED
        BY <1>1, <2>1, <2>2, BeginLInv
<1>3. CASE Refund(t)
    <2> DEFINE plan == Plan("refund", counter + 1, ToppedUp(1), 0)
    <2>1. Begin(t, plan)
        BY <1>3 DEF Refund
    <2>2. plan.seen = counter /\ plan.ledger = left /\ plan.op = "refund"
          /\ plan.counter = plan.seen + 1
        BY DEF Plan
    <2> QED
        BY <1>1, <2>1, <2>2, BeginLInv
<1>4. CASE Recompute(t)
    <2> DEFINE plan == Plan("recompute", SumValid(left), left, 0)
    <2>1. Begin(t, plan)
        BY <1>4 DEF Recompute
    <2>2. plan.seen = counter /\ plan.ledger = left /\ plan.op = "recompute"
        BY DEF Plan
    <2> QED
        BY <1>1, <2>1, <2>2, BeginLInv
<1>5. ASSUME NEW n \in Amounts, Gift(t, n) PROVE LInv' /\ charges' = charges
    <2> DEFINE plan == Plan("gift", SumValid(Drained(n)), Drained(n), 0)
    <2>1. Begin(t, plan)
        BY <1>5 DEF Gift
    <2>2. plan.seen = counter /\ plan.ledger = left /\ plan.op = "gift"
        BY DEF Plan
    <2> QED
        BY <1>1, <2>1, <2>2, BeginLInv
<1>6. ASSUME NEW n \in Amounts, Grant(t, n) PROVE LInv' /\ charges' = charges
    <2> DEFINE plan == Plan("grant", counter + n, left, n)
    <2>1. Begin(t, plan)
        BY <1>6 DEF Grant
    <2>2. plan.seen = counter /\ plan.ledger = left /\ plan.op = "grant"
        BY DEF Plan
    <2> QED
        BY <1>1, <2>1, <2>2, BeginLInv
<1>7. ASSUME NEW n \in Amounts, Adjust(t, n) PROVE LInv' /\ charges' = charges
    <2> DEFINE plan == Plan("adjust", SumValid(Drained(n)), Drained(n), 0)
    <2>1. Begin(t, plan)
        BY <1>7 DEF Adjust
    <2>2. plan.seen = counter /\ plan.ledger = left /\ plan.op = "adjust"
        BY DEF Plan
    <2> QED
        BY <1>1, <2>1, <2>2, BeginLInv
<1> QED
    BY <1>2, <1>3, <1>4, <1>5, <1>6, <1>7

(* Once a transaction has ended, the only ones that may hold the lock are  *)
(* the others, and while t commits nobody else does.                       *)
LEMMA CommitLInv ==
    ASSUME LInv, NEW t \in Txns, Commit(t)
    PROVE  LInv'
<1>1. \A u \in Txns : u # t => ~Locks(txn[u].op)
    BY DEF Commit, LInv, LockHeld
<1>2. \A u \in Txns : txn'[u] = IF u = t THEN [op |-> "none"] ELSE txn[u]
    BY DEF Commit, LInv
<1>3. \A u \in Txns : ~Locks(txn'[u].op)
    BY <1>1, <1>2 DEF Locks
<1>4. DOMAIN txn' = Txns /\ charges' \in Int
    BY DEF Commit, LInv
<1>5. PlansByOne'
    BY <1>2 DEF LInv, PlansByOne
<1> QED
    BY <1>3, <1>4, <1>5 DEF LInv, LockHeld, LockedReadIsFresh, Locks

LEMMA AbortLInv ==
    ASSUME LInv, NEW t \in Txns, Abort(t)
    PROVE  LInv'
<1>1. \A u \in Txns : txn'[u] = IF u = t THEN [op |-> "none"] ELSE txn[u]
    BY DEF Abort, LInv
<1>2. \A u \in Txns : Locks(txn'[u].op) => lock' = {u} /\ u # t
    BY <1>1 DEF Abort, LInv, LockHeld, Locks
<1>3. DOMAIN txn' = Txns /\ UNCHANGED <<counter, left, charges>>
    BY DEF Abort, LInv
<1>4. PlansByOne'
    BY <1>1 DEF LInv, PlansByOne
<1> QED
    BY <1>1, <1>2, <1>3, <1>4 DEF LInv, LockHeld, LockedReadIsFresh, Locks

LEMMA NextLInv == LInv /\ [Next]_vars => LInv'
<1> SUFFICES ASSUME LInv, [Next]_vars PROVE LInv'
    OBVIOUS
<1>1. ASSUME NEW p \in Packages, Expire(p) PROVE LInv'
    BY <1>1 DEF Expire, LInv, LockHeld, PlansByOne, LockedReadIsFresh, Locks
<1>2. CASE UNCHANGED vars
    BY <1>2 DEF vars, LInv, LockHeld, PlansByOne, LockedReadIsFresh, Locks
<1> QED
    BY <1>1, <1>2, OperationLInv, CommitLInv, AbortLInv DEF Next

LEMMA SpecLInv == Spec => []LInv
BY InitLInv, NextLInv, PTL DEF Spec

(* What an operation reads under the lock is current until it commits.     *)
THEOREM FreshUnderLock == Spec => []LockedReadIsFresh
<1>1. LInv => LockedReadIsFresh
    BY DEF LInv
<1> QED
    BY <1>1, SpecLInv, PTL

LEMMA CommitTakesOne ==
    ASSUME LInv, NEW t \in Txns, Commit(t)
    PROVE  /\ charges' = charges + 1 => counter' = counter - 1
           /\ charges' = charges - 1 => counter' = counter + 1
<1> DEFINE x == txn[t]
<1>1. charges \in Int
    BY DEF LInv
<1>2. CASE x.op = "consume"
    <2>1. x.seen = counter /\ x.counter = x.seen - 1
        BY <1>2 DEF LInv, LockedReadIsFresh, PlansByOne, Locks
    <2>2. counter' = counter - 1
        BY <2>1 DEF Commit
    <2>3. charges' = charges + 1
        BY <1>2 DEF Commit
    <2> QED
        BY <1>1, <2>2, <2>3
<1>3. CASE x.op = "refund"
    <2>1. x.seen = counter /\ x.counter = x.seen + 1
        BY <1>3 DEF LInv, LockedReadIsFresh, PlansByOne, Locks
    <2>2. counter' = counter + 1
        BY <2>1 DEF Commit
    <2>3. charges' = charges - 1
        BY <1>3 DEF Commit
    <2> QED
        BY <1>1, <2>2, <2>3
<1>4. CASE x.op \notin {"consume", "refund"}
    <2>1. charges' = charges
        BY <1>4 DEF Commit
    <2> QED
        BY <1>1, <2>1
<1> QED
    BY <1>2, <1>3, <1>4

(* What a charge takes and a refund gives is taken off and put on the      *)
(* counter that others see, at its commit and under any interleaving.      *)
THEOREM ChargesExact == Spec => ChargeTakesOne
<1> DEFINE Exact == /\ charges' = charges + 1 => counter' = counter - 1
                    /\ charges' = charges - 1 => counter' = counter + 1
<1>1. LInv /\ [Next]_vars => [Exact]_vars
    <2> SUFFICES ASSUME LInv, [Next]_vars PROVE Exact \/ UNCHANGED vars
        OBVIOUS
    <2>1. charges \in Int
        BY DEF LInv
    <2>2. CASE charges' = charges
        BY <2>1, <2>2
    <2>3. ASSUME NEW t \in Txns, Abort(t) PROVE charges' = charges
        BY <2>3 DEF Abort
    <2>4. ASSUME NEW p \in Packages, Expire(p) PROVE charges' = charges
        BY <2>4 DEF Expire
    <2> QED
        BY <2>2, <2>3, <2>4, OperationLInv, CommitTakesOne DEF Next
<1> QED
    BY <1>1, SpecLInv, PTL DEF Spec, ChargeTakesOne

-----------------------------------------------------------------------------
(* Counter and rows: what an operation plans keeps them equal if they were *)
(* equal in what it read, and what it writes is what it planned unless it  *)
(* writes over a change.                                                   *)

IsLedger(l) ==
    /\ DOMAIN l \subseteq Packages /\ IsFiniteSet(DOMAIN l)
    /\ 1 \in DOMAIN l
    /\ l = [p \in DOMAIN l |-> l[p]]
    /\ \A p \in DOMAIN l : l[p] \in Nat

Held(l) == SumFunctionOnSet(l, DOMAIN l)

PlanShape(x) ==
    /\ x.seen \in Int /\ x.counter \in Int /\ x.insert \in Nat
    /\ IsLedger(x.ledger) /\ DOMAIN x.ledger \subseteq Rows
    /\ IsLedger(x.rows) /\ DOMAIN x.rows = DOMAIN x.ledger

PlanAddsUp(x) ==
    expired = {} /\ x.seen = Held(x.ledger) => x.counter = Held(x.rows) + x.insert

PlansAddUp ==
    \A t \in Txns : txn[t].op # "none" => PlanShape(txn[t]) /\ PlanAddsUp(txn[t])

DInv ==
    /\ counter \in Int /\ stale \in BOOLEAN
    /\ IsLedger(left) /\ DOMAIN txn = Txns
    /\ PlansAddUp
    /\ stale \/ expired # {} \/ counter = Held(left)

LEMMA TotalIs ==
    ASSUME NEW l, NEW ps
    PROVE  Total(l, ps) = SumFunctionOnSet(l, ps)
BY DEF Total, SumFunctionOnSet

LEMMA SumValidIs ==
    ASSUME NEW l, expired = {}
    PROVE  SumValid(l) = Held(l)
<1>1. DOMAIN l \ expired = DOMAIN l
    OBVIOUS
<1> QED
    BY <1>1, TotalIs DEF SumValid, Held

LEMMA TotalNat ==
    ASSUME NEW l, IsLedger(l), NEW ps, ps \subseteq DOMAIN l
    PROVE  Total(l, ps) \in Nat /\ \A p \in ps : l[p] <= Total(l, ps)
<1>1. IsFiniteSet(ps) /\ \A p \in ps : l[p] \in Nat
    BY FS_Subset DEF IsLedger
<1>2. Total(l, ps) \in Nat
    BY <1>1, SumNat, TotalIs
<1>3. ASSUME NEW p \in ps PROVE l[p] <= Total(l, ps)
    <2>1. {p} \in SUBSET ps /\ l[p] \in Int
        BY <1>1
    <2>2. SumFunctionOnSet(l, {p}) <= SumFunctionOnSet(l, ps)
        BY <1>1, <2>1, SumWithin
    <2> QED
        BY <2>1, <2>2, SumOne, TotalIs
<1> QED
    BY <1>2, <1>3

(* One row of a ledger changes by some number of credits.                  *)
LEMMA RowMoves ==
    ASSUME NEW l, IsLedger(l), NEW m, DOMAIN m = DOMAIN l,
           NEW p \in DOMAIN l, NEW n \in Int, m[p] = l[p] + n,
           \A q \in DOMAIN l : q # p => m[q] = l[q]
    PROVE  Held(m) = Held(l) + n
<1> DEFINE ps == DOMAIN l \ {p}
<1>1. IsFiniteSet(ps) /\ IsFiniteSet(DOMAIN l) /\ \A q \in DOMAIN l : l[q] \in Int
    BY FS_Subset DEF IsLedger
<1>2. \A q \in DOMAIN l : m[q] \in Int
    BY <1>1
<1>3. Held(l) = l[p] + SumFunctionOnSet(l, ps)
    BY <1>1, SumMember DEF Held
<1>4. Held(m) = m[p] + SumFunctionOnSet(m, ps)
    BY <1>1, <1>2, SumMember DEF Held
<1>5. SumFunctionOnSet(l, ps) = SumFunctionOnSet(m, ps)
    BY <1>1, SumSame
<1>6. SumFunctionOnSet(l, ps) \in Int
    BY <1>1, SumMember
<1> QED
    BY <1>1, <1>3, <1>4, <1>5, <1>6

LEMMA Taken ==
    ASSUME NEW a \in Nat, NEW b \in Nat
    PROVE  /\ Min({a, b}) \in 0..a /\ a - Min({a, b}) \in Nat
           /\ b = 0 => Min({a, b}) = 0
           /\ a >= 1 /\ b = 1 => Min({a, b}) = 1
<1>1. Min({a, b}) = IF a <= b THEN a ELSE b
    BY OfTwo
<1> QED
    BY <1>1

(* What one row loses when n credits are drained.                          *)
Wanted(n, p) ==
    Max({0, n - Total(left, {q \in Valid : ExpiryRank[q] < ExpiryRank[p]})})

LEMMA DrainedRow ==
    ASSUME IsLedger(left), NEW n \in Nat, NEW p \in Rows
    PROVE  /\ Drained(n)[p] = IF p \in Valid THEN left[p] - Min({left[p], Wanted(n, p)})
                              ELSE left[p]
           /\ Wanted(n, p) \in Nat
           /\ Min({left[p], Wanted(n, p)}) \in 0..left[p]
           /\ left[p] - Min({left[p], Wanted(n, p)}) \in Nat
<1> DEFINE earlier == {q \in Valid : ExpiryRank[q] < ExpiryRank[p]}
<1>1. Drained(n)[p] = IF p \in Valid THEN left[p] - Min({left[p], Wanted(n, p)})
                      ELSE left[p]
    BY DEF Drained, Wanted
<1>2. earlier \subseteq DOMAIN left
    BY DEF Valid, Rows
<1>3. Total(left, earlier) \in Nat
    BY <1>2, TotalNat
<1>4. Wanted(n, p) = Max({0, n - Total(left, earlier)})
    BY DEF Wanted
<1> HIDE DEF earlier
<1>5. Wanted(n, p) \in Nat
    BY <1>3, <1>4, OfTwo
<1>6. left[p] \in Nat
    BY DEF IsLedger, Rows
<1>7. /\ Min({left[p], Wanted(n, p)}) \in 0..left[p]
      /\ left[p] - Min({left[p], Wanted(n, p)}) \in Nat
    BY ONLY <1>5, <1>6, Taken
<1> QED
    BY <1>1, <1>5, <1>7

LEMMA DrainedLedger ==
    ASSUME IsLedger(left), NEW n \in Nat
    PROVE  IsLedger(Drained(n)) /\ DOMAIN Drained(n) = Rows
<1>1. DOMAIN Drained(n) = Rows /\ Drained(n) = [p \in Rows |-> Drained(n)[p]]
    BY DEF Drained
<1>2. ASSUME NEW p \in Rows PROVE Drained(n)[p] \in Nat
    <2>1. left[p] \in Nat
        BY DEF IsLedger, Rows
    <2> QED
        BY <2>1, DrainedRow
<1> QED
    BY <1>1, <1>2 DEF IsLedger, Rows

(* With a credit in the rows, one credit is drained: from the row with     *)
(* credits that expires first.                                             *)
LEMMA DrainedOne ==
    ASSUME IsLedger(left), expired = {}, Held(left) >= 1
    PROVE  Held(Drained(1)) = Held(left) + (-1)
<1>a. Valid = Rows /\ Rows \subseteq Packages
    BY DEF Valid, Rows, IsLedger
<1>b. \A p \in Rows : left[p] \in Nat /\ ExpiryRank[p] \in Nat
    BY <1>a, CreditLedgerAssumption DEF IsLedger, Rows
<1> DEFINE full == {p \in Rows : left[p] # 0}
<1>1. full # {}
    <2>1. SUFFICES ASSUME full = {} PROVE FALSE
        OBVIOUS
    <2>2. \A p \in Rows : left[p] = 0
        BY <2>1
    <2>3. Held(left) = 0
        BY <2>2, SumZero DEF Held, IsLedger, Rows
    <2> QED
        BY <2>3
<1>2. PICK p \in full : \A q \in full : ExpiryRank[p] <= ExpiryRank[q]
    <2> DEFINE ranks == {ExpiryRank[q] : q \in full}
    <2>1. ranks \subseteq Nat /\ ranks # {}
        BY <1>b, <1>1
    <2>2. Min(ranks) \in ranks /\ \A n \in ranks : Min(ranks) <= n
        BY ONLY <2>1, LeastNumber
    <2>3. PICK r \in full : ExpiryRank[r] = Min(ranks)
        BY <2>2
    <2>4. \A q \in full : ExpiryRank[r] <= ExpiryRank[q]
        BY <2>2, <2>3
    <2> QED
        BY <2>4
<1>3. p \in Rows /\ left[p] \in Nat /\ left[p] >= 1
    BY <1>b
<1>4. Drained(1)[p] = left[p] + (-1)
    <2> DEFINE earlier == {q \in Valid : ExpiryRank[q] < ExpiryRank[p]}
    <2>1. ASSUME NEW q \in earlier PROVE left[q] = 0
        BY <1>a, <1>b, <1>2, <1>3
    <2>2. IsFiniteSet(earlier)
        BY <1>a, FS_Subset DEF IsLedger, Rows
    <2>3. Total(left, earlier) = 0
        BY <2>1, <2>2, SumZero, TotalIs
    <2>4. Wanted(1, p) = Max({0, 1 - 0})
        BY <2>3 DEF Wanted
    <2>5. Wanted(1, p) = 1
        BY <2>4, OfTwo
    <2>6. Min({left[p], 1}) = 1
        BY ONLY <1>3, Taken
    <2> QED
        BY <1>a, <1>3, <2>5, <2>6, DrainedRow
<1>5. ASSUME NEW q \in Rows, q # p PROVE Drained(1)[q] = left[q]
    <2>1. CASE left[q] = 0
        <3>1. Min({left[q], Wanted(1, q)}) = 0
            BY <1>5, <2>1, DrainedRow
        <3> QED
            BY <1>a, <1>5, <2>1, <3>1, DrainedRow
    <2>2. CASE left[q] # 0
        <3> DEFINE earlier == {r \in Valid : ExpiryRank[r] < ExpiryRank[q]}
        <3>1. ExpiryRank[p] # ExpiryRank[q]
            BY <1>a, <1>3, <1>5, CreditLedgerAssumption
        <3>2. p \in earlier
            BY <1>a, <1>b, <1>2, <1>3, <1>5, <2>2, <3>1
        <3>3. Total(left, earlier) \in Nat /\ left[p] <= Total(left, earlier)
            BY <3>2, TotalNat DEF Valid, Rows
        <3>4. Wanted(1, q) = Max({0, 1 - Total(left, earlier)})
            BY DEF Wanted
        <3> HIDE DEF earlier
        <3>5. Wanted(1, q) = 0
            BY <1>3, <3>3, <3>4, OfTwo
        <3>6. Min({left[q], 0}) = 0
            <4>1. left[q] \in Nat
                BY <1>b
            <4> QED
                BY ONLY <4>1, Taken
        <3> QED
            BY <1>a, <1>b, <1>5, <3>5, <3>6, DrainedRow
    <2> QED
        BY <2>1, <2>2
<1>6. DOMAIN Drained(1) = DOMAIN left
    BY DrainedLedger DEF Rows
<1> QED
    BY <1>3, <1>4, <1>5, <1>6, RowMoves DEF Rows

(* A refund goes to the row that was bought last: there is one.            *)
LEMMA ToppedUpLedger ==
    ASSUME IsLedger(left)
    PROVE  /\ IsLedger(ToppedUp(1)) /\ DOMAIN ToppedUp(1) = Rows
           /\ expired = {} => Held(ToppedUp(1)) = Held(left) + 1
<1>1. CASE Valid = {}
    <2>1. ToppedUp(1) = left
        BY <1>1 DEF ToppedUp
    <2>2. expired # {}
        BY <1>1 DEF Valid, Rows, IsLedger
    <2> QED
        BY <2>1, <2>2 DEF Rows
<1>2. CASE Valid # {}
    <2> DEFINE p == Max(Valid)
               m == [left EXCEPT ![p] = @ + 1]
    <2>1. Valid \subseteq Rows /\ Valid \subseteq Nat /\ IsFiniteSet(Valid)
        BY FS_Subset, CreditLedgerAssumption DEF Valid, Rows, IsLedger
    <2>2. p \in Valid
        BY ONLY <1>2, <2>1, GreatestNumber
    <2>3. p \in Rows
        BY <2>1, <2>2
    <2>4. ToppedUp(1) = m
        BY <1>2 DEF ToppedUp
    <2> HIDE DEF p
    <2>5. left[p] \in Nat
        BY <2>3 DEF IsLedger, Rows
    <2>6. /\ DOMAIN m = Rows /\ m = [q \in Rows |-> m[q]]
          /\ m[p] = left[p] + 1 /\ \A q \in Rows : q # p => m[q] = left[q]
        BY <2>3 DEF IsLedger, Rows
    <2> HIDE DEF m
    <2>7. IsLedger(m)
        BY <2>5, <2>6 DEF IsLedger, Rows
    <2>8. Held(m) = Held(left) + 1
        BY <2>3, <2>6, RowMoves DEF Rows
    <2> QED
        BY <2>4, <2>6, <2>7, <2>8
<1> QED
    BY <1>1, <1>2

LEMMA HeldNat ==
    ASSUME NEW l, IsLedger(l)
    PROVE  Held(l) \in Nat
BY SumNat DEF Held, IsLedger

LEMMA SumValidNat ==
    ASSUME NEW l, IsLedger(l)
    PROVE  SumValid(l) \in Nat
<1>1. DOMAIN l \ expired \subseteq DOMAIN l
    OBVIOUS
<1> QED
    BY <1>1, TotalNat DEF SumValid

LEMMA BeginDInv ==
    ASSUME DInv, NEW t \in Txns, NEW op, NEW c \in Int, NEW m, NEW n \in Nat,
           Begin(t, Plan(op, c, m, n)), IsLedger(m), DOMAIN m = Rows,
           expired = {} /\ counter = Held(left) => c = Held(m) + n
    PROVE  DInv'
<1> DEFINE plan == Plan(op, c, m, n)
<1>1. /\ plan.seen = counter /\ plan.ledger = left /\ plan.counter = c
      /\ plan.rows = m /\ plan.insert = n
    BY DEF Plan
<1>2. Begin(t, plan)
    OBVIOUS
<1> HIDE DEF plan
<1>3. PlanShape(plan) /\ PlanAddsUp(plan)
    BY <1>1 DEF DInv, PlanShape, PlanAddsUp, Rows
<1>4. /\ txn' = [txn EXCEPT ![t] = plan] /\ DOMAIN txn = Txns
      /\ UNCHANGED <<counter, left, expired, stale>>
    BY <1>2 DEF Begin, DInv
<1>5. \A u \in Txns : txn'[u] = IF u = t THEN plan ELSE txn[u]
    BY <1>4
<1>6. \A u \in Txns : txn'[u].op # "none" =>
          PlanShape(txn'[u]) /\ PlanAddsUp(txn'[u])
    BY <1>3, <1>5 DEF DInv, PlansAddUp
<1>7. PlansAddUp'
    BY <1>4, <1>6 DEF PlansAddUp, PlanShape, PlanAddsUp, Rows
<1> QED
    BY <1>4, <1>7 DEF DInv

LEMMA OperationDInv ==
    ASSUME DInv, NEW t \in Txns,
           \/ Consume(t) \/ Refund(t) \/ Recompute(t)
           \/ \E n \in Amounts : Gift(t, n) \/ Grant(t, n) \/ Adjust(t, n)
    PROVE  DInv'
<1>a. IsLedger(left) /\ counter \in Int /\ DOMAIN left = Rows
    BY DEF DInv, Rows
<1>b. \A n \in Amounts : n \in Nat
    BY CreditLedgerAssumption
<1>1. CASE Consume(t)
    <2>1. counter >= 1 /\ Begin(t, Plan("consume", counter - 1, Drained(1), 0))
        BY <1>1 DEF Consume
    <2>2. IsLedger(Drained(1)) /\ DOMAIN Drained(1) = Rows
        BY <1>a, DrainedLedger
    <2>3. expired = {} /\ counter = Held(left)
             => counter - 1 = Held(Drained(1)) + 0
        BY <1>a, <2>1, DrainedOne
    <2>4. counter - 1 \in Int
        BY <1>a
    <2> QED
        BY <2>1, <2>2, <2>3, <2>4, BeginDInv
<1>2. CASE Refund(t)
    <2>1. Begin(t, Plan("refund", counter + 1, ToppedUp(1), 0))
        BY <1>2 DEF Refund
    <2>2. IsLedger(ToppedUp(1)) /\ DOMAIN ToppedUp(1) = Rows
        BY <1>a, ToppedUpLedger
    <2>3. expired = {} /\ counter = Held(left)
             => counter + 1 = Held(ToppedUp(1)) + 0
        BY <1>a, ToppedUpLedger
    <2>4. counter + 1 \in Int
        BY <1>a
    <2> QED
        BY <2>1, <2>2, <2>3, <2>4, BeginDInv
<1>3. CASE Recompute(t)
    <2>1. Begin(t, Plan("recompute", SumValid(left), left, 0))
        BY <1>3 DEF Recompute
    <2>2. SumValid(left) \in Int /\ Held(left) \in Nat
        BY <1>a, SumValidNat, HeldNat
    <2>3. expired = {} => SumValid(left) = Held(left) + 0
        BY <2>2, SumValidIs
    <2> QED
        BY <1>a, <2>1, <2>2, <2>3, BeginDInv
<1>4. ASSUME NEW n \in Amounts, NEW op,
             Begin(t, Plan(op, SumValid(Drained(n)), Drained(n), 0))
      PROVE  DInv'
    <2>1. IsLedger(Drained(n)) /\ DOMAIN Drained(n) = Rows
        BY <1>a, <1>b, DrainedLedger
    <2>2. SumValid(Drained(n)) \in Int /\ Held(Drained(n)) \in Nat
        BY <2>1, SumValidNat, HeldNat
    <2>3. expired = {} => SumValid(Drained(n)) = Held(Drained(n)) + 0
        BY <2>2, SumValidIs
    <2> QED
        BY <1>4, <2>1, <2>2, <2>3, BeginDInv
<1>5. ASSUME NEW n \in Amounts, Gift(t, n) \/ Adjust(t, n) PROVE DInv'
    BY <1>4, <1>5 DEF Gift, Adjust
<1>6. ASSUME NEW n \in Amounts, Grant(t, n) PROVE DInv'
    <2>1. Begin(t, Plan("grant", counter + n, left, n))
        BY <1>6 DEF Grant
    <2>2. counter + n \in Int /\ n \in Nat
        BY <1>a, <1>b
    <2> QED
        BY <1>a, <2>1, <2>2, BeginDInv
<1> QED
    BY <1>1, <1>2, <1>3, <1>5, <1>6

(* What a commit makes of the rows: those that are there are kept, and so  *)
(* is every number of credits.                                             *)
LEMMA WrittenLedger ==
    ASSUME IsLedger(left), NEW x, PlanShape(x)
    PROVE  /\ IsLedger(Written(x)) /\ DOMAIN Written(x) = Rows
           /\ x.ledger = left => Written(x) = x.rows
<1>1. DOMAIN Written(x) = Rows /\ Written(x) = [p \in Rows |-> Written(x)[p]]
    BY DEF Written
<1>2. ASSUME NEW p \in Rows PROVE Written(x)[p] \in Nat
    BY DEF Written, PlanShape, IsLedger, Rows
<1>3. IsLedger(Written(x))
    BY <1>1, <1>2 DEF IsLedger, Rows
<1>4. ASSUME x.ledger = left PROVE Written(x) = x.rows
    <2>1. DOMAIN x.rows = Rows /\ x.rows = [p \in Rows |-> x.rows[p]]
        BY <1>4 DEF PlanShape, IsLedger, Rows
    <2>2. ASSUME NEW p \in Rows PROVE Written(x)[p] = x.rows[p]
        BY <1>4 DEF Written, Rows
    <2> QED
        BY <1>1, <2>1, <2>2
<1> QED
    BY <1>1, <1>3, <1>4

(* A new row of n credits.                                                 *)
LEMMA RowAdded ==
    ASSUME NEW l, IsLedger(l), NEW id \in Packages \ DOMAIN l, NEW n \in Nat,
           NEW m, m = [p \in DOMAIN l \cup {id} |-> IF p = id THEN n ELSE l[p]]
    PROVE  IsLedger(m) /\ Held(m) = Held(l) + n
<1>1. DOMAIN m = DOMAIN l \cup {id} /\ m[id] = n
      /\ \A p \in DOMAIN l : m[p] = l[p]
    OBVIOUS
<1>2. IsFiniteSet(DOMAIN l) /\ \A p \in DOMAIN l : l[p] \in Int
    BY DEF IsLedger
<1>3. IsFiniteSet(DOMAIN m)
    BY <1>1, <1>2, FS_AddElement
<1>4. \A p \in DOMAIN m : m[p] \in Nat
    BY <1>1 DEF IsLedger
<1>5. m = [p \in DOMAIN m |-> m[p]]
    OBVIOUS
<1>6. IsLedger(m)
    BY <1>1, <1>3, <1>4, <1>5 DEF IsLedger
<1>7. Held(m) = n + SumFunctionOnSet(m, DOMAIN m \ {id})
    <2>1. \A p \in DOMAIN m : m[p] \in Int
        BY <1>4
    <2> QED
        BY <1>1, <1>3, <2>1, SumMember DEF Held
<1>8. DOMAIN m \ {id} = DOMAIN l
    BY <1>1
<1>9. SumFunctionOnSet(m, DOMAIN l) = Held(l)
    BY <1>1, <1>2, SumSame DEF Held
<1>10. Held(l) \in Nat
    BY HeldNat
<1> QED
    BY <1>6, <1>7, <1>8, <1>9, <1>10

LEMMA CommitDInv ==
    ASSUME DInv, NEW t \in Txns, Commit(t)
    PROVE  DInv'
<1> DEFINE x == txn[t]
<1>1. /\ x.op # "none" /\ expired' = expired
      /\ counter' = IF x.counter = x.seen THEN counter ELSE x.counter
      /\ stale' = (stale \/ x.seen # counter \/ x.ledger # left)
      /\ txn' = [txn EXCEPT ![t] = [op |-> "none"]]
    BY DEF Commit
<1>2. PlanShape(x) /\ PlanAddsUp(x) /\ IsLedger(left)
    BY <1>1 DEF DInv, PlansAddUp
<1>3. /\ IsLedger(Written(x)) /\ DOMAIN Written(x) = Rows
      /\ x.ledger = left => Written(x) = x.rows
    BY <1>2, WrittenLedger
<1>4. /\ IsLedger(left') /\ Rows \subseteq Rows'
      /\ Held(left') = Held(Written(x)) + x.insert
    <2>1. CASE x.insert = 0 /\ left' = Written(x)
        <3>1. Held(Written(x)) \in Nat
            BY <1>3, HeldNat
        <3> QED
            BY <1>3, <2>1, <3>1 DEF Rows
    <2>2. CASE /\ x.insert > 0 /\ Rows # Packages
               /\ left' = [p \in Rows \cup {NextId} |->
                             IF p = NextId THEN x.insert ELSE Written(x)[p]]
        <3> DEFINE free == Packages \ Rows
        <3>1. free \subseteq Nat /\ free # {}
            BY <1>2, <2>2, CreditLedgerAssumption DEF IsLedger, Rows
        <3>2. Min(free) \in free
            BY ONLY <3>1, LeastNumber
        <3>3. NextId \in Packages \ DOMAIN Written(x)
            BY <1>3, <3>2 DEF NextId
        <3>4. left' = [p \in DOMAIN Written(x) \cup {NextId} |->
                         IF p = NextId THEN x.insert ELSE Written(x)[p]]
            BY <1>3, <2>2
        <3>5. x.insert \in Nat
            BY <1>2 DEF PlanShape
        <3>6. IsLedger(left') /\ Held(left') = Held(Written(x)) + x.insert
            BY <1>3, <3>3, <3>4, <3>5, RowAdded
        <3>7. Rows \subseteq Rows'
            BY <2>2 DEF Rows
        <3> QED
            BY <3>6, <3>7
    <2> QED
        BY <2>1, <2>2 DEF Commit
<1>5. counter' \in Int /\ stale' \in BOOLEAN
    BY <1>1, <1>2 DEF DInv, PlanShape
<1>6. DOMAIN txn' = Txns
      /\ \A u \in Txns : txn'[u] = IF u = t THEN [op |-> "none"] ELSE txn[u]
    BY <1>1 DEF DInv
<1>7. PlansAddUp'
    <2>1. \A u \in Txns : txn'[u].op # "none" =>
              txn'[u] = txn[u] /\ PlanShape(txn[u]) /\ PlanAddsUp(txn[u])
        BY <1>6 DEF DInv, PlansAddUp
    <2> QED
        BY <1>1, <1>4, <2>1 DEF PlansAddUp, PlanShape, PlanAddsUp
<1>8. stale' \/ expired' # {} \/ counter' = Held(left')
    <2> SUFFICES ASSUME ~stale', expired = {} PROVE counter' = Held(left')
        BY <1>1
    <2>1. ~stale /\ x.seen = counter /\ x.ledger = left
        BY <1>1, <1>5 DEF DInv
    <2>2. counter = Held(left)
        BY <2>1 DEF DInv
    <2>3. x.counter = Held(x.rows) + x.insert
        BY <1>2, <2>1, <2>2 DEF PlanAddsUp
    <2>4. counter' = x.counter
        BY <1>1, <2>1
    <2> QED
        BY <1>3, <1>4, <2>1, <2>3, <2>4
<1> QED
    BY <1>4, <1>5, <1>6, <1>7, <1>8 DEF DInv

LEMMA NextDInv == DInv /\ [Next]_vars => DInv'
<1> SUFFICES ASSUME DInv, [Next]_vars PROVE DInv'
    OBVIOUS
<1>1. ASSUME NEW t \in Txns, Abort(t) PROVE DInv'
    <2>1. UNCHANGED <<counter, left, expired, stale>> /\ DOMAIN txn' = Txns
        BY <1>1 DEF Abort, DInv
    <2>2. \A u \in Txns : txn'[u] = IF u = t THEN [op |-> "none"] ELSE txn[u]
        BY <1>1 DEF Abort, DInv
    <2>3. PlansAddUp'
        BY <2>1, <2>2 DEF DInv, PlansAddUp, PlanShape, PlanAddsUp, Rows
    <2> QED
        BY <2>1, <2>3 DEF DInv
<1>2. ASSUME NEW p \in Packages, Expire(p) PROVE DInv'
    <2>1. UNCHANGED <<counter, left, txn, stale>> /\ expired' # {}
        BY <1>2 DEF Expire
    <2> QED
        BY <2>1 DEF DInv, PlansAddUp, PlanShape, PlanAddsUp, Rows
<1>3. CASE UNCHANGED vars
    BY <1>3 DEF vars, DInv, PlansAddUp, PlanShape, PlanAddsUp, Rows
<1> QED
    BY <1>1, <1>2, <1>3, OperationDInv, CommitDInv DEF Next

LEMMA InitDInv == Init => DInv
<1> SUFFICES ASSUME Init PROVE DInv
    OBVIOUS
<1>1. /\ counter = FirstPackage /\ FirstPackage \in Nat
      /\ left = [p \in {1} |-> FirstPackage] /\ DOMAIN left = {1}
      /\ left[1] = FirstPackage
    BY CreditLedgerAssumption DEF Init
<1>2. IsLedger(left)
    BY <1>1, FS_Singleton, CreditLedgerAssumption DEF IsLedger
<1>3. Held(left) = FirstPackage
    BY <1>1, SumOne DEF Held
<1>4. DOMAIN txn = Txns /\ stale \in BOOLEAN
      /\ \A t \in Txns : txn[t].op = "none"
    BY DEF Init
<1>5. PlansAddUp
    BY <1>4 DEF PlansAddUp
<1>6. counter \in Int /\ counter = Held(left)
    BY <1>1, <1>3
<1> QED
    BY <1>2, <1>4, <1>5, <1>6 DEF DInv

(* The counter is what the valid packages hold, whatever charges, refunds, *)
(* gifts, grants and corrections run at once, as long as no package has    *)
(* expired and nobody has written over what it had not read.               *)
THEOREM DriftIsExplained == Spec => []DriftNeedsRace
<1>1. DInv => DriftNeedsRace
    BY SumValidIs DEF DInv, DriftNeedsRace
<1> QED
    BY <1>1, InitDInv, NextDInv, PTL DEF Spec
=============================================================================
