---------------------------- MODULE CreditWallet ----------------------------
(***************************************************************************)
(* What the quota layer promises about package credits, whatever the bot   *)
(* handlers and the background worker do: a request takes at most one      *)
(* credit from its account, the credit is either still held by the request *)
(* or back on the account, and it goes back at most once.                  *)
(*                                                                         *)
(* RequestLifecycle is shown to implement this specification.              *)
(***************************************************************************)
EXTENDS Integers

CONSTANTS
    Requests,        \* submissions made by users
    Owner,           \* the account of each submission
    InitialCredits   \* credits of each account before the first submission

VARIABLES
    balance,   \* credits an account may still spend
    held,      \* requests that hold the credit they were charged
    settled    \* requests whose charge was given back

vars == <<balance, held, settled>>

Init ==
    /\ balance = InitialCredits
    /\ held = {}
    /\ settled = {}

(* A request takes a credit: only once, and only one that is there.        *)
Charge(r) ==
    /\ r \notin held
    /\ r \notin settled
    /\ balance[Owner[r]] > 0
    /\ balance' = [balance EXCEPT ![Owner[r]] = @ - 1]
    /\ held' = held \cup {r}
    /\ UNCHANGED settled

(* A request that holds a credit gives it back, for good.                  *)
GiveBack(r) ==
    /\ r \in held
    /\ balance' = [balance EXCEPT ![Owner[r]] = @ + 1]
    /\ held' = held \ {r}
    /\ settled' = settled \cup {r}

(* A request that was paid by a subscription is settled without a credit.  *)
Release(r) ==
    /\ r \notin held
    /\ r \notin settled
    /\ settled' = settled \cup {r}
    /\ UNCHANGED <<balance, held>>

Next == \E r \in Requests : Charge(r) \/ GiveBack(r) \/ Release(r)

Spec == Init /\ [][Next]_vars
=============================================================================
