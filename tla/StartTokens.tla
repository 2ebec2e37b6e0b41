---------------------------- MODULE StartTokens ----------------------------
(***************************************************************************)
(* Deep-link tokens: gifts of credits and referral codes.  A row of        *)
(* start_tokens is made by create_gift or generate_referral_code; a user   *)
(* who opens the link runs resolve_start_token and then the handler of the *)
(* token's kind in one transaction; an expired gift goes back to its       *)
(* sender when the sender opens the gift screen (sweep_expired_gifts); a   *)
(* referral is rewarded after a spend of the referee                       *)
(* (maybe_payout_referral).                                                *)
(*                                                                         *)
(* A transaction is modelled as a session that reads in one step and       *)
(* writes at its commit in another, with a step for the row lock between   *)
(* them where the code takes one.  One bot worker handles its updates one  *)
(* by one; several sessions run at a time when there are several of them,  *)
(* and beside the API and the task worker, which spend quota too.          *)
(***************************************************************************)
EXTENDS Integers, Sequences

CONSTANTS
    Accounts,
    Codes,      \* codes the generators may draw
    Sessions,   \* concurrent transactions
    MaxUses     \* bound: rows of start_token_uses

ASSUME StartTokensAssumption == MaxUses \in Nat

VARIABLES
    tokens,     \* the rows of start_tokens, by code
    expired,    \* gifts whose expires_at has passed
    uses,       \* the rows of start_token_uses, in order of insertion
    paid,       \* accounts with a payment in status paid
    session,    \* what each transaction has read and is going to do
    credited,   \* history: how often a gift was credited to somebody
    raced       \* history: gifts settled while another session had read them

vars == <<tokens, expired, uses, paid, session, credited, raced>>

Rows == DOMAIN tokens
Idle == [op |-> "none"]

Token == [kind : {"gift", "referral"}, owner : Accounts,
          status : {"active", "claimed", "refunded"}, used : Nat]

(* A use is claimed when a gift is, or when a referral is rewarded;        *)
(* `rewards` is a history of the grants made for it.                       *)
Use == [code : Codes, account : Accounts, claimed : BOOLEAN, rewards : Nat]

Session ==
    {Idle}
    \cup [op : {"referral", "attribute", "gift", "claim"},
          account : Accounts, code : Codes, used : Nat]
    \cup [op : {"sweep"}, codes : SUBSET Codes]
    \cup [op : {"invite"}, account : Accounts]
    \cup [op : {"payout"}, use : Nat]

Init ==
    /\ tokens = [c \in {} |-> Idle]
    /\ expired = {}
    /\ uses = <<>>
    /\ paid = {}
    /\ session = [s \in Sessions |-> Idle]
    /\ credited = [c \in Codes |-> 0]
    /\ raced = {}

IsGift(c) == tokens[c].kind = "gift"
Begin(s, x) == session' = [session EXCEPT ![s] = x]
End(s) == session' = [session EXCEPT ![s] = Idle]

(* The gifts whose token a session has read and may settle.                *)
Holds(s) ==
    IF session[s].op \in {"gift", "claim"} THEN {session[s].code}
    ELSE IF session[s].op = "sweep" THEN session[s].codes ELSE {}

HeldByOthers(s) == UNION {Holds(t) : t \in Sessions \ {s}}

(* Row locks of start_tokens and of accounts, held to the commit.          *)
TokenLocked(c) ==
    \E s \in Sessions : session[s].op = "claim" /\ session[s].code = c
AccountLocked(a) ==
    \E s \in Sessions : session[s].op = "attribute" /\ session[s].account = a

-----------------------------------------------------------------------------
(* Making tokens                                                           *)

NewToken(c, kind, a) ==
    tokens' = [d \in Rows \cup {c} |->
                  IF d = c THEN [kind |-> kind, owner |-> a,
                                 status |-> "active", used |-> 0]
                  ELSE tokens[d]]

(* create_gift.  CreditLedger models the debit, under the balance's lock.  *)
CreateGift(a, c) ==
    /\ c \notin Rows
    /\ NewToken(c, "gift", a)
    /\ UNCHANGED <<expired, uses, paid, session, credited, raced>>

(* generate_referral_code looks for a code of the account, ...             *)
LookUpCode(s, a) ==
    /\ session[s] = Idle
    /\ \A c \in Rows : ~IsGift(c) => tokens[c].owner # a
    /\ Begin(s, [op |-> "invite", account |-> a])
    /\ UNCHANGED <<tokens, expired, uses, paid, credited, raced>>

(* ... and having found none inserts one.                                  *)
CreateCode(s, c) ==
    /\ session[s].op = "invite"
    /\ c \notin Rows
    /\ NewToken(c, "referral", session[s].account)
    /\ End(s)
    /\ UNCHANGED <<expired, uses, paid, credited, raced>>

(* Time passes expires_at; only gifts have one.                            *)
Expire(c) ==
    /\ c \in Rows \ expired
    /\ IsGift(c)
    /\ expired' = expired \cup {c}
    /\ UNCHANGED <<tokens, uses, paid, session, credited, raced>>

-----------------------------------------------------------------------------
(* Opening a link                                                          *)

(* resolve_start_token, and the self checks of both handlers.  A gift has  *)
(* max_uses = 1, a referral code none.                                     *)
ResolveStartToken(s, a, c) ==
    /\ session[s] = Idle
    /\ c \in Rows \ expired
    /\ tokens[c].status = "active"
    /\ IsGift(c) => tokens[c].used < 1
    /\ tokens[c].owner # a
    /\ Begin(s, [op |-> IF IsGift(c) THEN "gift" ELSE "referral",
                 account |-> a, code |-> c, used |-> tokens[c].used])
    /\ UNCHANGED <<tokens, expired, uses, paid, credited, raced>>

(* Seeded fault: the account row is not locked.                            *)
LockAccount_Unserialized(s) ==
    /\ session[s].op = "referral"
    /\ \A i \in DOMAIN uses : uses[i].account # session[s].account
    /\ Begin(s, [session[s] EXCEPT !.op = "attribute"])
    /\ UNCHANGED <<tokens, expired, uses, paid, credited, raced>>

(* handle_referral_token locks the account row, then looks for any use of  *)
(* the account: one makes it return, two make one_or_none raise.           *)
LockAccount(s) ==
    LET a == session[s].account IN
    /\ session[s].op = "referral"
    /\ ~AccountLocked(a)
    /\ \/ /\ \A i \in DOMAIN uses : uses[i].account # a
          /\ Begin(s, [session[s] EXCEPT !.op = "attribute"])
       \/ /\ \E i \in DOMAIN uses : uses[i].account = a
          /\ End(s)
    /\ UNCHANGED <<tokens, expired, uses, paid, credited, raced>>

(* The use is inserted; used_count is the value that was read, plus one.   *)
Attribute(s) ==
    LET x == session[s] IN
    /\ x.op = "attribute"
    /\ Len(uses) < MaxUses
    /\ uses' = Append(uses, [code |-> x.code, account |-> x.account,
                             claimed |-> FALSE, rewards |-> 0])
    /\ tokens' = [tokens EXCEPT ![x.code].used = x.used + 1]
    /\ End(s)
    /\ UNCHANGED <<expired, paid, credited, raced>>

(* handle_gift_token selects the token FOR UPDATE.  The object is already  *)
(* in the session and keeps the attributes it was loaded with, so the      *)
(* checks after the lock repeat what resolve_start_token saw.              *)
LockToken(s) ==
    /\ session[s].op = "gift"
    /\ ~TokenLocked(session[s].code)
    /\ Begin(s, [session[s] EXCEPT !.op = "claim"])
    /\ UNCHANGED <<tokens, expired, uses, paid, credited, raced>>

(* Seeded fault: used_count is incremented by the database.                *)
ClaimGift_Increments(s) ==
    LET c == session[s].code IN
    /\ session[s].op = "claim"
    /\ tokens' = [tokens EXCEPT ![c].status = "claimed", ![c].used = @ + 1]
    /\ End(s)
    /\ UNCHANGED <<expired, uses, paid, credited, raced>>

(* Seeded fault: the token is left active.                                 *)
ClaimGift_StaysActive(s) ==
    LET x == session[s] IN
    /\ x.op = "claim"
    /\ credited' = [credited EXCEPT ![x.code] = @ + 1]
    /\ End(s)
    /\ UNCHANGED <<tokens, expired, uses, paid, raced>>

(* The recipient is credited and the token closed, in one transaction.     *)
ClaimGift(s) ==
    LET x == session[s] IN
    /\ x.op = "claim"
    /\ Len(uses) < MaxUses
    /\ uses' = Append(uses, [code |-> x.code, account |-> x.account,
                             claimed |-> TRUE, rewards |-> 0])
    /\ credited' = [credited EXCEPT ![x.code] = @ + 1]
    /\ tokens' = [tokens EXCEPT ![x.code].status = "claimed",
                                ![x.code].used = x.used + 1]
    /\ raced' = raced \cup (HeldByOthers(s) \cap {x.code})
    /\ End(s)
    /\ UNCHANGED <<expired, paid>>

-----------------------------------------------------------------------------
(* The sender opens the gift screen                                        *)

(* sweep_expired_gifts reads its candidates without a lock ...             *)
FindExpiredGifts(s, a) ==
    LET candidates == {c \in Rows \cap expired :
                          tokens[c].owner = a /\ tokens[c].status = "active"}
    IN  /\ session[s] = Idle
        /\ candidates # {}
        /\ Begin(s, [op |-> "sweep", codes |-> candidates])
        /\ UNCHANGED <<tokens, expired, uses, paid, credited, raced>>

(* Seeded fault: the status changes, the credits stay where they are.      *)
RefundGifts_NotCredited(s) ==
    /\ session[s].op = "sweep"
    /\ tokens' = [c \in Rows |-> IF c \in session[s].codes
                                 THEN [tokens[c] EXCEPT !.status = "refunded"]
                                 ELSE tokens[c]]
    /\ End(s)
    /\ UNCHANGED <<expired, uses, paid, credited, raced>>

(* ... and gives every one of them back to the sender.                     *)
RefundGifts(s) ==
    LET codes == session[s].codes IN
    /\ session[s].op = "sweep"
    /\ \A c \in codes : ~TokenLocked(c)
    /\ tokens' = [c \in Rows |-> IF c \in codes
                                 THEN [tokens[c] EXCEPT !.status = "refunded"]
                                 ELSE tokens[c]]
    /\ credited' = [c \in Codes |-> IF c \in codes THEN credited[c] + 1
                                    ELSE credited[c]]
    /\ raced' = raced \cup (HeldByOthers(s) \cap codes)
    /\ End(s)
    /\ UNCHANGED <<expired, uses, paid>>

-----------------------------------------------------------------------------
(* The referee pays and spends                                             *)

(* A payment of the account becomes paid.                                  *)
Pay(a) ==
    /\ a \notin paid
    /\ paid' = paid \cup {a}
    /\ UNCHANGED <<tokens, expired, uses, session, credited, raced>>

(* maybe_payout_referral, after consume_quota took a package credit: an    *)
(* unclaimed use of the account and its payment are read ...               *)
FindAttribution(s, i) ==
    /\ session[s] = Idle
    /\ i \in DOMAIN uses
    /\ ~uses[i].claimed
    /\ ~IsGift(uses[i].code)
    /\ uses[i].account \in paid
    /\ Begin(s, [op |-> "payout", use |-> i])
    /\ UNCHANGED <<tokens, expired, uses, paid, credited, raced>>

(* Seeded fault: the claim does not look at claimed_at again.              *)
PayoutReferral_NoGate(s) ==
    LET i == session[s].use IN
    /\ session[s].op = "payout"
    /\ uses' = [uses EXCEPT ![i].claimed = TRUE, ![i].rewards = @ + 1]
    /\ End(s)
    /\ UNCHANGED <<tokens, expired, paid, credited, raced>>

(* ... then UPDATE ... WHERE claimed_at IS NULL decides who grants the     *)
(* reward, which the tenant may have set to zero.                          *)
PayoutReferral(s) ==
    LET i == session[s].use IN
    /\ session[s].op = "payout"
    /\ \/ /\ ~uses[i].claimed
          /\ \E granted \in {0, 1} :
                uses' = [uses EXCEPT ![i].claimed = TRUE,
                                     ![i].rewards = @ + granted]
       \/ /\ uses[i].claimed
          /\ UNCHANGED uses
    /\ End(s)
    /\ UNCHANGED <<tokens, expired, paid, credited, raced>>

(* Any of the transactions fails or loses its process.                     *)
Abort(s) ==
    /\ session[s] # Idle
    /\ End(s)
    /\ UNCHANGED <<tokens, expired, uses, paid, credited, raced>>

Next ==
    \/ \E a \in Accounts, c \in Codes : CreateGift(a, c)
    \/ \E c \in Codes : Expire(c)
    \/ \E a \in Accounts : Pay(a)
    \/ \E s \in Sessions :
        \/ \E a \in Accounts : LookUpCode(s, a) \/ FindExpiredGifts(s, a)
        \/ \E c \in Codes : CreateCode(s, c)
        \/ \E a \in Accounts, c \in Codes : ResolveStartToken(s, a, c)
        \/ \E i \in DOMAIN uses : FindAttribution(s, i)
        \/ LockAccount(s) \/ Attribute(s) \/ LockToken(s) \/ ClaimGift(s)
        \/ RefundGifts(s) \/ PayoutReferral(s) \/ Abort(s)

Spec == Init /\ [][Next]_vars

-----------------------------------------------------------------------------
(* Properties                                                              *)

(* Types of the rows (db/models.py); used_count of a gift stays within     *)
(* max_uses, even when the gift is claimed twice.                          *)
TypeOK ==
    /\ Rows \subseteq Codes
    /\ tokens \in [Rows -> Token]
    /\ \A c \in Rows : IsGift(c) => tokens[c].used <= 1
    /\ expired \subseteq Rows
    /\ uses \in Seq(Use)
    /\ paid \subseteq Accounts
    /\ session \in [Sessions -> Session]
    /\ credited \in [Codes -> Nat]
    /\ raced \subseteq Codes

(* handle_referral_token attributes an account to one referrer, however    *)
(* many links are opened at the same time, by whichever codes.             *)
AttributedOnce ==
    \A i, j \in DOMAIN uses :
        /\ uses[i].account = uses[j].account
        /\ ~IsGift(uses[i].code) /\ ~IsGift(uses[j].code)
        => i = j

(* maybe_payout_referral rewards an attribution once, however many spends  *)
(* of the referee evaluate it at the same time.                            *)
RewardedOnce == \A i \in DOMAIN uses : uses[i].rewards <= 1

(* The credits of a gift are never lost: the sender was debited when the   *)
(* gift was made, and the token is closed only by a transaction that       *)
(* credits somebody (handle_gift_token, sweep_expired_gifts).              *)
GiftNeverLost ==
    \A c \in Rows :
        IsGift(c) => (tokens[c].status = "active" <=> credited[c] = 0)

(* A gift is credited more than once only by transactions that overlapped  *)
(* on it: whoever opens a settled gift later gets nothing.                 *)
PaidTwiceNeedsRace == \A c \in Codes : credited[c] > 1 => c \in raced

(* handle_gift_token lets one recipient claim a gift: of two concurrent    *)
(* claims the one that gets the row lock first wins, as the design says.   *)
GiftClaimedOnce ==
    \A i, j \in DOMAIN uses :
        uses[i].code = uses[j].code /\ IsGift(uses[i].code) => i = j
=============================================================================
