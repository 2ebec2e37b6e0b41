---------------------------- MODULE AccountProofs ----------------------------
(***************************************************************************)
(* What holds of the people and what they own, for any number of them:     *)
(* StartTokens (one referrer for each referee, one reward for each of them *)
(* and gifts that are credited twice only by transactions that             *)
(* overlapped), SignIn (a login has one token that works, and a person one *)
(* account for each way to sign in, but for the overlaps that are on       *)
(* record), PlanSales (an invoice offers what somebody meant and is        *)
(* credited as it offered, but for the edits on record), BirthProfile (a   *)
(* profile has the coordinates and the timezone of its place, and an edit  *)
(* undoes no other change), Divination (no flagged question is charged,    *)
(* and a job tells what was drawn) and GiftScreen (no credit is lost or    *)
(* made).  Each part has its inductive invariant; a step of another part   *)
(* leaves it as it is (the lemmas named ...Run or ...Runs).                *)
(***************************************************************************)
EXTENDS MCPlatform, Sums, FiniteSetTheorems, SequenceTheorems, TLAPS

-----------------------------------------------------------------------------
(* StartTokens.                                                            *)

(* What a session has read about a token or a use stays true: rows are     *)
(* never deleted and a token never changes its kind.                       *)
SessionOK(s) ==
    /\ session[s].op \in {"gift", "claim"} =>
            /\ session[s].code \in Rows
            /\ IsGift(session[s].code)
            /\ session[s].used = 0
    /\ session[s].op \in {"referral", "attribute"} =>
            session[s].code \in Rows /\ ~IsGift(session[s].code)
    /\ session[s].op = "sweep" => session[s].codes \subseteq Rows
    /\ session[s].op = "payout" => session[s].use \in DOMAIN uses

Resolved ==
    /\ \A i \in DOMAIN uses : uses[i].code \in Rows
    /\ \A s \in Sessions : SessionOK(s)

Shape == TypeOK /\ Resolved

LEMMA InitShape == Init => Shape
<1> SUFFICES ASSUME Init PROVE Shape
    OBVIOUS
<1>1. Rows = {} /\ DOMAIN uses = {}
    BY DEF Init, Rows
<1>2. uses \in Seq(Use)
    BY DEF Init
<1>3. TypeOK
    BY <1>1, <1>2 DEF Init, TypeOK, Session, Idle, Token, IsGift, Rows
<1>4. Resolved
    BY <1>1 DEF Init, Resolved, SessionOK, Idle
<1> QED
    BY <1>3, <1>4 DEF Shape

(* A new row of start_tokens leaves the others as they were.               *)
LEMMA NewTokenRows ==
    ASSUME Shape, NEW c \in Codes, c \notin Rows, NEW a \in Accounts,
           NEW k \in {"gift", "referral"}, NewToken(c, k, a)
    PROVE  /\ Rows' = Rows \cup {c}
           /\ \A d \in Rows : tokens'[d] = tokens[d] /\ IsGift(d)' = IsGift(d)
           /\ tokens'[c] = [kind |-> k, owner |-> a, status |-> "active",
                            used |-> 0]
           /\ tokens' \in [Rows' -> Token]
           /\ \A d \in Rows' : IsGift(d)' => tokens'[d].used <= 1
<1>1. Rows' = Rows \cup {c}
    BY DEF NewToken, Rows
<1>2. \A d \in Rows : tokens'[d] = tokens[d] /\ IsGift(d)' = IsGift(d)
    BY DEF NewToken, Rows, IsGift
<1>3. tokens'[c] = [kind |-> k, owner |-> a, status |-> "active", used |-> 0]
    BY DEF NewToken, Rows
<1>4. tokens'[c] \in Token
    BY <1>3 DEF Token
<1>5. tokens' \in [Rows' -> Token]
    <2>1. tokens' = [d \in Rows' |-> tokens'[d]]
        BY <1>1 DEF NewToken, Rows
    <2>2. \A d \in Rows : tokens[d] \in Token
        BY DEF Shape, TypeOK
    <2>3. \A d \in Rows' : tokens'[d] \in Token
        BY <1>1, <1>2, <1>4, <2>2
    <2> QED
        BY <2>1, <2>3
<1>6. \A d \in Rows' : IsGift(d)' => tokens'[d].used <= 1
    BY <1>1, <1>2, <1>3 DEF Shape, TypeOK
<1> QED
    BY <1>1, <1>2, <1>3, <1>5, <1>6

(* A commit that changes fields of rows, and neither adds one nor changes  *)
(* a kind.                                                                 *)
SameKinds == Rows' = Rows /\ \A c \in Rows : tokens'[c].kind = tokens[c].kind

(* What a session holds survives every step that keeps the rows and their  *)
(* kinds and does not shorten `uses`.                                      *)
LEMMA SessionKept ==
    ASSUME Shape, NEW s \in Sessions, session'[s] = session[s],
           Rows \subseteq Rows',
           \A c \in Rows : IsGift(c)' = IsGift(c),
           DOMAIN uses \subseteq DOMAIN uses'
    PROVE  SessionOK(s)'
<1>1. SessionOK(s)
    BY DEF Shape, Resolved
<1> QED
    BY <1>1 DEF SessionOK

LEMMA IdleOK == ASSUME NEW s \in Sessions, session'[s] = Idle PROVE SessionOK(s)'
BY DEF SessionOK, Idle

LEMMA NextShape ==
    ASSUME Shape, [Next]_vars
    PROVE  Shape'
<1> USE DEF Shape
<1> DEFINE Same == UNCHANGED <<tokens, expired, uses, paid, credited, raced>>
(* A step that begins or continues a session and writes nothing.           *)
<1>1. ASSUME NEW s \in Sessions, NEW x \in Session, Begin(s, x), Same,
             SessionOK(s)'
      PROVE  Shape'
    <2>1. session' \in [Sessions -> Session]
        BY <1>1 DEF TypeOK, Begin
    <2>2. TypeOK'
        BY <1>1, <2>1 DEF TypeOK, Rows, IsGift
    <2>3. \A t \in Sessions \ {s} : SessionOK(t)'
        BY <1>1 DEF Resolved, SessionOK, TypeOK, Begin, Rows, IsGift
    <2>4. Resolved'
        BY <1>1, <2>3 DEF Resolved, Rows
    <2> QED
        BY <2>2, <2>4
(* A commit: the session ends, rows and uses change as the lemmas say.     *)
<1>2. ASSUME NEW s \in Sessions, End(s),
             Rows \subseteq Rows', Rows' \subseteq Codes,
             \A c \in Rows : IsGift(c)' = IsGift(c),
             DOMAIN uses \subseteq DOMAIN uses', uses' \in Seq(Use),
             \A i \in DOMAIN uses' : uses'[i].code \in Rows',
             tokens' \in [Rows' -> Token],
             \A c \in Rows' : IsGift(c)' => tokens'[c].used <= 1,
             expired' = expired, paid' = paid,
             credited' \in [Codes -> Nat], raced' \subseteq Codes
      PROVE  Shape'
    <2>1. session' \in [Sessions -> Session] /\ session'[s] = Idle
        BY <1>2 DEF TypeOK, End, Session
    <2>2. TypeOK'
        BY <1>2, <2>1 DEF TypeOK
    <2>3. \A t \in Sessions \ {s} : session'[t] = session[t]
        BY <1>2 DEF TypeOK, End
    <2>4. \A t \in Sessions \ {s} : SessionOK(t)'
        BY <1>2, <2>3, SessionKept
    <2>5. SessionOK(s)'
        BY <2>1, IdleOK
    <2>6. Resolved'
        BY <1>2, <2>4, <2>5 DEF Resolved
    <2> QED
        BY <2>2, <2>6
<1>3. ASSUME NEW s \in Sessions PROVE session[s] \in Session
    BY <1>3 DEF TypeOK
<1>4. ASSUME NEW a \in Accounts, NEW c \in Codes, CreateGift(a, c) PROVE Shape'
    <2>1. NewToken(c, "gift", a) /\ c \notin Rows
          /\ UNCHANGED <<expired, uses, paid, session, credited, raced>>
        BY <1>4 DEF CreateGift
    <2>2. /\ Rows' = Rows \cup {c} /\ tokens' \in [Rows' -> Token]
          /\ \A d \in Rows : IsGift(d)' = IsGift(d)
          /\ \A d \in Rows' : IsGift(d)' => tokens'[d].used <= 1
        BY <2>1, NewTokenRows
    <2>3. TypeOK'
        BY <2>1, <2>2 DEF TypeOK
    <2>4. \A s \in Sessions : SessionOK(s)'
        BY <2>1, <2>2, SessionKept
    <2> QED
        BY <2>1, <2>2, <2>3, <2>4 DEF Resolved
<1>5. ASSUME NEW c \in Codes, Expire(c) PROVE Shape'
    <2>1. TypeOK'
        BY <1>5 DEF Expire, TypeOK, Rows, IsGift
    <2>2. Resolved'
        BY <1>5 DEF Expire, Resolved, SessionOK, Rows, IsGift
    <2> QED
        BY <2>1, <2>2
<1>6. ASSUME NEW a \in Accounts, Pay(a) PROVE Shape'
    <2>1. TypeOK'
        BY <1>6 DEF Pay, TypeOK, Rows, IsGift
    <2>2. Resolved'
        BY <1>6 DEF Pay, Resolved, SessionOK, Rows, IsGift
    <2> QED
        BY <2>1, <2>2
<1>7. ASSUME NEW s \in Sessions, NEW a \in Accounts, LookUpCode(s, a)
      PROVE  Shape'
    <2> DEFINE x == [op |-> "invite", account |-> a]
    <2>1. x \in Session /\ Begin(s, x) /\ Same
        BY <1>7 DEF LookUpCode, Session
    <2>2. session'[s] = x
        BY <2>1 DEF Begin, TypeOK
    <2>3. SessionOK(s)'
        BY <2>2 DEF SessionOK
    <2> QED
        BY <1>1, <2>1, <2>3
<1>8. ASSUME NEW s \in Sessions, NEW a \in Accounts, FindExpiredGifts(s, a)
      PROVE  Shape'
    <2> DEFINE codes == {c \in Rows \cap expired :
                            tokens[c].owner = a /\ tokens[c].status = "active"}
               x == [op |-> "sweep", codes |-> codes]
    <2>1. Begin(s, x) /\ Same
        BY <1>8 DEF FindExpiredGifts
    <2>2. codes \in SUBSET Codes
        BY DEF TypeOK
    <2>3. x \in Session
        BY <2>2 DEF Session
    <2>4. session'[s] = x
        BY <2>1 DEF Begin, TypeOK
    <2>5. SessionOK(s)'
        BY <2>1, <2>4 DEF SessionOK, Rows
    <2> QED
        BY <1>1, <2>1, <2>3, <2>5
<1>9. ASSUME NEW s \in Sessions, NEW c \in Codes, CreateCode(s, c)
      PROVE  Shape'
    <2>1. session[s].op = "invite"
        BY <1>9 DEF CreateCode
    <2>2. session[s].account \in Accounts
        BY <1>3, <2>1 DEF Session, Idle
    <2>3. NewToken(c, "referral", session[s].account) /\ c \notin Rows /\ End(s)
          /\ UNCHANGED <<expired, uses, paid, credited, raced>>
        BY <1>9 DEF CreateCode
    <2>4. /\ Rows' = Rows \cup {c} /\ tokens' \in [Rows' -> Token]
          /\ \A d \in Rows : IsGift(d)' = IsGift(d)
          /\ \A d \in Rows' : IsGift(d)' => tokens'[d].used <= 1
        BY <2>2, <2>3, NewTokenRows
    <2>5. Rows' \subseteq Codes /\ uses' \in Seq(Use)
          /\ credited' \in [Codes -> Nat] /\ raced' \subseteq Codes
          /\ expired' = expired /\ paid' = paid /\ uses' = uses
        BY <2>3, <2>4 DEF TypeOK
    <2>6. \A i \in DOMAIN uses' : uses'[i].code \in Rows'
        BY <2>4, <2>5 DEF Resolved
    <2> QED
        BY <1>2, <2>3, <2>4, <2>5, <2>6
<1>10. ASSUME NEW s \in Sessions, NEW a \in Accounts, NEW c \in Codes,
              ResolveStartToken(s, a, c)
       PROVE  Shape'
    <2> DEFINE x == [op |-> IF IsGift(c) THEN "gift" ELSE "referral",
                     account |-> a, code |-> c, used |-> tokens[c].used]
    <2>1. Begin(s, x) /\ Same /\ c \in Rows /\ (IsGift(c) => tokens[c].used < 1)
        BY <1>10 DEF ResolveStartToken
    <2>2. tokens[c].used \in Nat
        BY <2>1 DEF TypeOK, Token
    <2>3. x \in Session
        BY <2>2 DEF Session
    <2>4. session'[s] = x
        BY <2>1 DEF Begin, TypeOK
    <2>5. IsGift(c) => x.used = 0
        BY <2>1, <2>2
    <2>6. Rows' = Rows /\ IsGift(c)' = IsGift(c)
        BY <2>1 DEF Rows, IsGift
    <2>7. SessionOK(s)'
        BY <2>1, <2>4, <2>5, <2>6 DEF SessionOK
    <2> QED
        BY <1>1, <2>1, <2>3, <2>7
<1>11. ASSUME NEW s \in Sessions, NEW i \in DOMAIN uses, FindAttribution(s, i)
       PROVE  Shape'
    <2> DEFINE x == [op |-> "payout", use |-> i]
    <2>1. Begin(s, x) /\ Same
        BY <1>11 DEF FindAttribution
    <2>2. i \in Nat
        BY DEF TypeOK
    <2>3. x \in Session
        BY <2>2 DEF Session
    <2>4. session'[s] = x
        BY <2>1 DEF Begin, TypeOK
    <2>5. SessionOK(s)'
        BY <2>1, <2>4 DEF SessionOK
    <2> QED
        BY <1>1, <2>1, <2>3, <2>5
<1>12. ASSUME NEW s \in Sessions, End(s), Same PROVE Shape'
    <2>1. Idle \in Session /\ Begin(s, Idle)
        BY <1>12 DEF Session, Begin, End
    <2>2. session'[s] = Idle
        BY <2>1 DEF Begin, TypeOK
    <2> QED
        BY <1>1, <1>12, <2>1, <2>2, IdleOK
<1>13. ASSUME NEW s \in Sessions, LockAccount(s) PROVE Shape'
    <2>1. CASE End(s)
        BY <1>12, <1>13, <2>1 DEF LockAccount
    <2>2. CASE Begin(s, [session[s] EXCEPT !.op = "attribute"])
        <3> DEFINE x == [session[s] EXCEPT !.op = "attribute"]
        <3>1. session[s].op = "referral" /\ Same
            BY <1>13 DEF LockAccount
        <3>2. x \in Session /\ x.op = "attribute" /\ x.code = session[s].code
            BY <1>3, <3>1 DEF Session, Idle
        <3>3. session'[s] = x
            BY <2>2 DEF Begin, TypeOK
        <3>4. session[s].code \in Rows /\ ~IsGift(session[s].code)
            BY <3>1 DEF Resolved, SessionOK
        <3>5. SessionOK(s)'
            BY <3>1, <3>2, <3>3, <3>4 DEF SessionOK, Rows, IsGift
        <3> QED
            BY <1>1, <2>2, <3>1, <3>2, <3>5
    <2> QED
        BY <1>13, <2>1, <2>2 DEF LockAccount
<1>14. ASSUME NEW s \in Sessions, LockToken(s) PROVE Shape'
    <2> DEFINE x == [session[s] EXCEPT !.op = "claim"]
    <2>1. session[s].op = "gift" /\ Same /\ Begin(s, x)
        BY <1>14 DEF LockToken
    <2>2. x \in Session /\ x.op = "claim" /\ x.code = session[s].code
          /\ x.used = session[s].used
        BY <1>3, <2>1 DEF Session, Idle
    <2>3. session'[s] = x
        BY <2>1 DEF Begin, TypeOK
    <2>4. session[s].code \in Rows /\ IsGift(session[s].code)
          /\ session[s].used = 0
        BY <2>1 DEF Resolved, SessionOK
    <2>5. SessionOK(s)'
        BY <2>1, <2>2, <2>3, <2>4 DEF SessionOK, Rows, IsGift
    <2> QED
        BY <1>1, <2>1, <2>2, <2>5
<1>15. ASSUME NEW s \in Sessions, Abort(s) PROVE Shape'
    BY <1>12, <1>15 DEF Abort
(* Both handlers append a use for the token their session resolved.        *)
<1>16. ASSUME NEW s \in Sessions, NEW u \in Use, u.code \in Rows',
              uses' = Append(uses, u), Rows \subseteq Rows'
       PROVE  /\ uses' \in Seq(Use)
              /\ DOMAIN uses \subseteq DOMAIN uses'
              /\ \A i \in DOMAIN uses' : uses'[i].code \in Rows'
    <2>1. uses \in Seq(Use) /\ \A i \in DOMAIN uses : uses[i].code \in Rows
        BY DEF TypeOK, Resolved
    <2> QED
        BY <1>16, <2>1
<1>17. ASSUME NEW s \in Sessions, Attribute(s) PROVE Shape'
    <2> DEFINE x == session[s]
               u == [code |-> x.code, account |-> x.account,
                     claimed |-> FALSE, rewards |-> 0]
    <2>1. x.op = "attribute" /\ End(s) /\ uses' = Append(uses, u)
          /\ tokens' = [tokens EXCEPT ![x.code].used = x.used + 1]
          /\ UNCHANGED <<expired, paid, credited, raced>>
        BY <1>17 DEF Attribute
    <2>2. x.code \in Codes /\ x.account \in Accounts /\ x.used \in Nat
        BY <1>3, <2>1 DEF Session, Idle
    <2>3. x.code \in Rows /\ ~IsGift(x.code)
        BY <2>1 DEF Resolved, SessionOK
    <2>4. u \in Use
        BY <2>2 DEF Use
    <2> DEFINE row == [tokens[x.code] EXCEPT !.used = x.used + 1]
    <2>5. Rows' = Rows /\ tokens'[x.code] = row
          /\ \A c \in Rows \ {x.code} : tokens'[c] = tokens[c]
        BY <2>1, <2>3 DEF Rows
    <2>6. \A c \in Rows : tokens[c] \in Token /\ tokens'[c] \in Token
              /\ tokens'[c].kind = tokens[c].kind
        <3>1. \A c \in Rows : tokens[c] \in Token
            BY DEF TypeOK
        <3>2. row \in Token /\ row.kind = tokens[x.code].kind
            BY <2>2, <2>3, <3>1 DEF Token
        <3> QED
            BY <2>5, <3>1, <3>2
    <2>7. tokens' \in [Rows' -> Token]
        BY <2>1, <2>5, <2>6 DEF Rows
    <2>8. \A c \in Rows : IsGift(c)' = IsGift(c)
        BY <2>6 DEF IsGift
    <2>9. \A c \in Rows' : IsGift(c)' => tokens'[c].used <= 1
        BY <2>3, <2>5, <2>8 DEF TypeOK
    <2>10. /\ uses' \in Seq(Use) /\ DOMAIN uses \subseteq DOMAIN uses'
           /\ \A i \in DOMAIN uses' : uses'[i].code \in Rows'
        BY <1>16, <2>1, <2>3, <2>4, <2>5
    <2>11. Rows' \subseteq Codes /\ credited' \in [Codes -> Nat]
           /\ raced' \subseteq Codes /\ expired' = expired /\ paid' = paid
        BY <2>1, <2>5 DEF TypeOK
    <2>12. Rows \subseteq Rows'
        BY <2>5
    <2> QED
        BY <1>2, <2>1, <2>7, <2>8, <2>9, <2>10, <2>11, <2>12
<1>18. ASSUME NEW s \in Sessions, ClaimGift(s) PROVE Shape'
    <2> DEFINE x == session[s]
               u == [code |-> x.code, account |-> x.account,
                     claimed |-> TRUE, rewards |-> 0]
    <2>1. x.op = "claim" /\ End(s) /\ uses' = Append(uses, u)
          /\ tokens' = [tokens EXCEPT ![x.code].status = "claimed",
                                      ![x.code].used = x.used + 1]
          /\ credited' = [credited EXCEPT ![x.code] = @ + 1]
          /\ raced' = raced \cup (HeldByOthers(s) \cap {x.code})
          /\ UNCHANGED <<expired, paid>>
        BY <1>18 DEF ClaimGift
    <2>2. x.code \in Codes /\ x.account \in Accounts
        BY <1>3, <2>1 DEF Session, Idle
    <2>3. x.code \in Rows /\ IsGift(x.code) /\ x.used = 0
        BY <2>1 DEF Resolved, SessionOK
    <2>4. u \in Use
        BY <2>2 DEF Use
    <2> DEFINE row == [tokens[x.code] EXCEPT !.status = "claimed",
                                             !.used = x.used + 1]
    <2>5. Rows' = Rows /\ tokens'[x.code] = row
          /\ \A c \in Rows \ {x.code} : tokens'[c] = tokens[c]
        BY <2>1, <2>3 DEF Rows
    <2>6. \A c \in Rows : tokens[c] \in Token /\ tokens'[c] \in Token
              /\ tokens'[c].kind = tokens[c].kind
        <3>1. \A c \in Rows : tokens[c] \in Token
            BY DEF TypeOK
        <3>2. row \in Token /\ row.kind = tokens[x.code].kind
            <4>1. x.used + 1 \in Nat /\ tokens[x.code] \in Token
                BY <2>3, <3>1
            <4> QED
                BY <4>1 DEF Token
        <3> QED
            BY <2>5, <3>1, <3>2
    <2>7. tokens' \in [Rows' -> Token]
        BY <2>1, <2>5, <2>6 DEF Rows
    <2>8. \A c \in Rows : IsGift(c)' = IsGift(c)
        BY <2>6 DEF IsGift
    <2>9. \A c \in Rows' : IsGift(c)' => tokens'[c].used <= 1
        <3>1. tokens[x.code] \in Token
            BY <2>3, <2>6
        <3>2. tokens'[x.code].used = 1
            BY <2>3, <2>5, <3>1 DEF Token
        <3>3. \A c \in Rows \ {x.code} : IsGift(c)' => tokens'[c].used <= 1
            BY <2>5, <2>8 DEF TypeOK
        <3>4. tokens'[x.code].used <= 1
            BY <3>2
        <3> QED
            BY <2>5, <3>3, <3>4
    <2>10. /\ uses' \in Seq(Use) /\ DOMAIN uses \subseteq DOMAIN uses'
           /\ \A i \in DOMAIN uses' : uses'[i].code \in Rows'
        BY <1>16, <2>1, <2>3, <2>4, <2>5
    <2>11. Rows' \subseteq Codes /\ credited' \in [Codes -> Nat]
           /\ raced' \subseteq Codes /\ expired' = expired /\ paid' = paid
        BY <2>1, <2>2, <2>5 DEF TypeOK
    <2>12. Rows \subseteq Rows'
        BY <2>5
    <2> QED
        BY <1>2, <2>1, <2>7, <2>8, <2>9, <2>10, <2>11, <2>12
<1>19. ASSUME NEW s \in Sessions, RefundGifts(s) PROVE Shape'
    <2> DEFINE codes == session[s].codes
    <2>1. session[s].op = "sweep" /\ End(s)
          /\ tokens' = [c \in Rows |-> IF c \in codes
                            THEN [tokens[c] EXCEPT !.status = "refunded"]
                            ELSE tokens[c]]
          /\ credited' = [c \in Codes |-> IF c \in codes THEN credited[c] + 1
                                          ELSE credited[c]]
          /\ raced' = raced \cup (HeldByOthers(s) \cap codes)
          /\ UNCHANGED <<expired, uses, paid>>
        BY <1>19 DEF RefundGifts
    <2>2. codes \subseteq Codes
        BY <1>3, <2>1 DEF Session, Idle
    <2>3. Rows' = Rows
        BY <2>1 DEF Rows
    <2>4. \A c \in Rows : tokens[c] \in Token /\ tokens'[c] \in Token
              /\ tokens'[c].kind = tokens[c].kind
              /\ tokens'[c].used = tokens[c].used
        BY <2>1 DEF TypeOK, Token
    <2>5. tokens' \in [Rows' -> Token]
        BY <2>1, <2>3, <2>4
    <2>6. \A c \in Rows : IsGift(c)' = IsGift(c)
        BY <2>4 DEF IsGift
    <2>7. \A c \in Rows' : IsGift(c)' => tokens'[c].used <= 1
        BY <2>3, <2>4, <2>6 DEF TypeOK
    <2>8. credited' \in [Codes -> Nat] /\ raced' \subseteq Codes
        BY <2>1, <2>2 DEF TypeOK
    <2>9. Rows' \subseteq Codes /\ uses' \in Seq(Use) /\ uses' = uses
          /\ expired' = expired /\ paid' = paid /\ Rows \subseteq Rows'
        BY <2>1, <2>3 DEF TypeOK
    <2>10. \A i \in DOMAIN uses' : uses'[i].code \in Rows'
        BY <2>3, <2>9 DEF Resolved
    <2> QED
        BY <1>2, <2>1, <2>5, <2>6, <2>7, <2>8, <2>9, <2>10
<1>20. ASSUME NEW s \in Sessions, PayoutReferral(s) PROVE Shape'
    <2> DEFINE i == session[s].use
    <2>1. session[s].op = "payout" /\ End(s)
          /\ UNCHANGED <<tokens, expired, paid, credited, raced>>
        BY <1>20 DEF PayoutReferral
    <2>2. i \in DOMAIN uses
        BY <2>1 DEF Resolved, SessionOK
    <2>3. uses' \in Seq(Use) /\ DOMAIN uses' = DOMAIN uses
          /\ \A j \in DOMAIN uses : uses'[j].code = uses[j].code
        <3>1. CASE uses' = uses
            BY <3>1 DEF TypeOK
        <3>2. CASE uses' # uses
            <4>1. PICK granted \in {0, 1} :
                     uses' = [uses EXCEPT ![i].claimed = TRUE,
                                          ![i].rewards = @ + granted]
                BY <1>20, <3>2 DEF PayoutReferral
            <4> DEFINE u == [uses[i] EXCEPT !.claimed = TRUE,
                                            !.rewards = @ + granted]
            <4>2. uses \in Seq(Use) /\ uses[i] \in Use
                BY <2>2 DEF TypeOK
            <4>3. u \in Use /\ u.code = uses[i].code
                <5>1. uses[i].rewards + granted \in Nat
                    BY <4>1, <4>2 DEF Use
                <5> QED
                    BY <4>2, <5>1 DEF Use
            <4>4. uses' = [uses EXCEPT ![i] = u]
                BY <2>2, <4>1
            <4> QED
                BY <2>2, <4>2, <4>3, <4>4, ExceptSeq
        <3> QED
            BY <3>1, <3>2
    <2>4. Rows' = Rows /\ \A c \in Rows : IsGift(c)' = IsGift(c)
        BY <2>1 DEF Rows, IsGift
    <2>5. tokens' \in [Rows' -> Token] /\ Rows' \subseteq Codes
          /\ credited' \in [Codes -> Nat] /\ raced' \subseteq Codes
          /\ \A c \in Rows' : IsGift(c)' => tokens'[c].used <= 1
        BY <2>1, <2>4 DEF TypeOK
    <2>6. \A j \in DOMAIN uses' : uses'[j].code \in Rows'
        BY <2>3, <2>4 DEF Resolved
    <2> QED
        BY <1>2, <2>1, <2>3, <2>4, <2>5, <2>6
<1>21. CASE UNCHANGED vars
    BY <1>21 DEF vars, TypeOK, Resolved, SessionOK, Rows, IsGift
<1> QED
    BY <1>4, <1>5, <1>6, <1>7, <1>8, <1>9, <1>10, <1>11, <1>13, <1>14, <1>15,
       <1>17, <1>18, <1>19, <1>20, <1>21 DEF Next

LEMMA ShapeHolds == Spec => []Shape
BY InitShape, NextShape, PTL DEF Spec

(* Types of the rows and of what the transactions hold, for every instance *)
(* (db/models.py).                                                         *)
THEOREM TypeCorrect == Spec => []TypeOK
<1>1. Shape => TypeOK
    BY DEF Shape
<1> QED
    BY <1>1, ShapeHolds, PTL

-----------------------------------------------------------------------------
(* Rows stay and keep their kind, whatever step is taken.                  *)
LEMMA RowsStay ==
    ASSUME Shape, [Next]_vars
    PROVE  Rows \subseteq Rows' /\ \A c \in Rows : tokens'[c].kind = tokens[c].kind
<1>1. CASE tokens' = tokens
    BY <1>1 DEF Rows
<1>2. CASE \E c \in Codes, k \in {"gift", "referral"} : \E a :
              c \notin Rows /\ NewToken(c, k, a)
    BY <1>2 DEF NewToken, Rows
<1>3. CASE \E s \in Sessions : Attribute(s) \/ ClaimGift(s) \/ RefundGifts(s)
    <2>1. Rows' = Rows /\ \A c \in Rows : tokens[c] \in Token
        BY <1>3 DEF Attribute, ClaimGift, RefundGifts, Rows, Shape, TypeOK
    <2>2. \A c \in Rows : tokens'[c].kind = tokens[c].kind
        <3>1. CASE \E s \in Sessions : Attribute(s)
            BY <2>1, <3>1 DEF Attribute, Rows, Token
        <3>2. CASE \E s \in Sessions : ClaimGift(s)
            BY <2>1, <3>2 DEF ClaimGift, Rows, Token
        <3>3. CASE \E s \in Sessions : RefundGifts(s)
            BY <2>1, <3>3 DEF RefundGifts, Rows, Token
        <3> QED
            BY <1>3, <3>1, <3>2, <3>3
    <2> QED
        BY <2>1, <2>2
<1> QED
    BY <1>1, <1>2, <1>3 DEF Next, vars, CreateGift, CreateCode, Expire, Pay,
       LookUpCode, FindExpiredGifts, ResolveStartToken, FindAttribution,
       LockAccount, LockToken, PayoutReferral, Abort

(* PayoutReferral changes the flags of one use, and nothing else of it.    *)
LEMMA PayoutUses ==
    ASSUME Shape, NEW s \in Sessions, PayoutReferral(s)
    PROVE  /\ DOMAIN uses' = DOMAIN uses
           /\ \A i \in DOMAIN uses :
                 /\ uses'[i].code = uses[i].code
                 /\ uses'[i].account = uses[i].account
                 /\ \/ uses'[i] = uses[i]
                    \/ /\ ~uses[i].claimed /\ uses'[i].claimed
                       /\ \/ uses'[i].rewards = uses[i].rewards
                          \/ uses'[i].rewards = uses[i].rewards + 1
<1> DEFINE i == session[s].use
<1>1. i \in DOMAIN uses /\ uses \in Seq(Use)
    BY DEF PayoutReferral, Shape, Resolved, SessionOK, TypeOK
<1>2. \A j \in DOMAIN uses : uses[j] \in Use
    BY <1>1
<1>3. CASE uses' = uses
    BY <1>3
<1>4. CASE uses' # uses
    <2>1. ~uses[i].claimed
        BY <1>4 DEF PayoutReferral
    <2>2. PICK granted \in {0, 1} :
             uses' = [uses EXCEPT ![i].claimed = TRUE, ![i].rewards = @ + granted]
        BY <1>4 DEF PayoutReferral
    <2> DEFINE u == [uses[i] EXCEPT !.claimed = TRUE, !.rewards = @ + granted]
    <2>3. uses' = [uses EXCEPT ![i] = u]
        BY <1>1, <2>2
    <2>4. u.code = uses[i].code /\ u.account = uses[i].account /\ u.claimed
          /\ u.rewards = uses[i].rewards + granted
        BY <1>1, <1>2 DEF Use
    <2>5. uses[i].rewards + 0 = uses[i].rewards
        BY <1>1, <1>2 DEF Use
    <2> QED
        BY <1>1, <2>1, <2>2, <2>3, <2>4, <2>5
<1> QED
    BY <1>3, <1>4

-----------------------------------------------------------------------------
(* The account's row lock serialises attributions: at most one session is  *)
(* about to attribute an account, and it has seen that nobody did before.  *)
ReferralUse(i, a) ==
    uses[i].account = a /\ tokens[uses[i].code].kind # "gift"
Attributing(s) == session[s].op = "attribute"

Serialized ==
    /\ \A s, t \in Sessions :
          /\ Attributing(s) /\ Attributing(t)
          /\ session[s].account = session[t].account
          => s = t
    /\ \A s \in Sessions :
          Attributing(s) =>
            \A i \in DOMAIN uses : ~ReferralUse(i, session[s].account)

AInv == AttributedOnce /\ Serialized

LEMMA InitAInv == Init => AInv
BY DEF Init, AInv, AttributedOnce, Serialized, Attributing, Idle

(* A step that starts no attribution and adds no referral use.             *)
LEMMA QuietAInv ==
    ASSUME Shape, AInv, [Next]_vars,
           \A s \in Sessions : Attributing(s)' => session'[s] = session[s],
           \A i \in DOMAIN uses' :
              tokens'[uses'[i].code].kind # "gift" =>
                 /\ i \in DOMAIN uses
                 /\ uses'[i].code = uses[i].code
                 /\ uses'[i].account = uses[i].account
    PROVE  AInv'
<1>1. \A i \in DOMAIN uses' : \A a :
         ReferralUse(i, a)' => i \in DOMAIN uses /\ ReferralUse(i, a)
    <2> SUFFICES ASSUME NEW i \in DOMAIN uses', NEW a,
                        uses'[i].account = a,
                        tokens'[uses'[i].code].kind # "gift"
                 PROVE  i \in DOMAIN uses /\ uses[i].account = a
                        /\ tokens[uses[i].code].kind # "gift"
        BY DEF ReferralUse
    <2>1. i \in DOMAIN uses /\ uses'[i].code = uses[i].code
          /\ uses'[i].account = uses[i].account
        OBVIOUS
    <2>2. uses[i].code \in Rows
        BY <2>1 DEF Shape, Resolved
    <2> QED
        BY <2>1, <2>2, RowsStay
<1>2. AttributedOnce'
    <2> SUFFICES ASSUME NEW i \in DOMAIN uses', NEW j \in DOMAIN uses',
                        NEW a, ReferralUse(i, a)', ReferralUse(j, a)'
                 PROVE  i = j
        BY DEF AttributedOnce, ReferralUse, IsGift
    <2>1. ReferralUse(i, a) /\ ReferralUse(j, a)
          /\ i \in DOMAIN uses /\ j \in DOMAIN uses
        BY <1>1
    <2> QED
        BY <2>1 DEF AInv, AttributedOnce, ReferralUse, IsGift
<1>3. Serialized'
    BY <1>1 DEF AInv, Serialized, Attributing
<1> QED
    BY <1>2, <1>3 DEF AInv

LEMMA NextAInv == ASSUME Shape, AInv, [Next]_vars PROVE AInv'
<1>1. session \in [Sessions -> Session] /\ uses \in Seq(Use)
    BY DEF Shape, TypeOK
<1>2. ASSUME UNCHANGED uses,
             \A s \in Sessions : Attributing(s)' => session'[s] = session[s]
      PROVE  AInv'
    BY <1>2, QuietAInv
<1>3. ASSUME NEW s \in Sessions, NEW x, Begin(s, x), x.op # "attribute"
      PROVE  \A t \in Sessions : Attributing(t)' => session'[t] = session[t]
    BY <1>1, <1>3 DEF Begin, Attributing
<1>4. ASSUME NEW s \in Sessions, End(s)
      PROVE  \A t \in Sessions : Attributing(t)' => session'[t] = session[t]
    BY <1>1, <1>4 DEF End, Idle, Attributing
<1>5. ASSUME NEW a \in Accounts, NEW c \in Codes, CreateGift(a, c) PROVE AInv'
    BY <1>2, <1>5 DEF CreateGift
<1>6. ASSUME NEW c \in Codes, Expire(c) PROVE AInv'
    BY <1>2, <1>6 DEF Expire
<1>7. ASSUME NEW a \in Accounts, Pay(a) PROVE AInv'
    BY <1>2, <1>7 DEF Pay
<1>8. ASSUME NEW s \in Sessions, NEW a \in Accounts,
             LookUpCode(s, a) \/ FindExpiredGifts(s, a)
      PROVE  AInv'
    BY <1>2, <1>3, <1>8 DEF LookUpCode, FindExpiredGifts
<1>9. ASSUME NEW s \in Sessions, NEW c \in Codes, CreateCode(s, c) PROVE AInv'
    BY <1>2, <1>4, <1>9 DEF CreateCode
<1>10. ASSUME NEW s \in Sessions, NEW a \in Accounts, NEW c \in Codes,
              ResolveStartToken(s, a, c)
       PROVE  AInv'
    BY <1>2, <1>3, <1>10 DEF ResolveStartToken
<1>11. ASSUME NEW s \in Sessions, NEW i \in DOMAIN uses, FindAttribution(s, i)
       PROVE  AInv'
    BY <1>2, <1>3, <1>11 DEF FindAttribution
<1>12. ASSUME NEW s \in Sessions, LockAccount(s) PROVE AInv'
    <2>1. CASE End(s)
        BY <1>2, <1>4, <1>12, <2>1 DEF LockAccount
    <2>2. CASE ~End(s)
        <3> DEFINE x == [session[s] EXCEPT !.op = "attribute"]
                   a == session[s].account
        <3>1. /\ session[s].op = "referral" /\ ~AccountLocked(a)
              /\ \A i \in DOMAIN uses : uses[i].account # a
              /\ Begin(s, x) /\ uses' = uses /\ tokens' = tokens
            BY <1>12, <2>2 DEF LockAccount
        <3>2. x.account = a
            BY <1>1, <3>1 DEF Session, Idle
        <3>3. session'[s] = x
              /\ \A t \in Sessions \ {s} : session'[t] = session[t]
            BY <1>1, <3>1 DEF Begin
        <3>4. \A t \in Sessions : Attributing(t) => session[t].account # a
            BY <3>1 DEF AccountLocked, Attributing
        <3>5. AttributedOnce'
            BY <3>1 DEF AInv, AttributedOnce, IsGift
        <3>6. Serialized'
            <4>1. \A t \in Sessions : Attributing(t)' =>
                     \/ t = s
                     \/ /\ t # s /\ session'[t] = session[t]
                        /\ Attributing(t) /\ session[t].account # a
                BY <3>3, <3>4 DEF Attributing
            <4>2. \A i \in DOMAIN uses : \A b : ~ReferralUse(i, b) => ~ReferralUse(i, b)'
                BY <3>1 DEF ReferralUse
            <4>3. \A i \in DOMAIN uses : ~ReferralUse(i, a)
                BY <3>1 DEF ReferralUse
            <4>4. session'[s].account = a
                BY <3>2, <3>3
            <4>5. ASSUME NEW t1 \in Sessions, NEW t2 \in Sessions,
                         Attributing(t1)', Attributing(t2)',
                         session'[t1].account = session'[t2].account
                  PROVE  t1 = t2
                BY <4>1, <4>4, <4>5 DEF AInv, Serialized
            <4>6. ASSUME NEW t \in Sessions, Attributing(t)',
                         NEW i \in DOMAIN uses'
                  PROVE  ~(uses'[i].account = session'[t].account
                           /\ tokens'[uses'[i].code].kind # "gift")
                <5>1. CASE t = s
                    BY <3>1, <4>3, <4>4, <5>1 DEF ReferralUse
                <5>2. CASE t # s
                    BY <3>1, <4>1, <4>6, <5>2 DEF AInv, Serialized, ReferralUse
                <5> QED
                    BY <5>1, <5>2
            <4> QED
                BY <4>5, <4>6 DEF Serialized, ReferralUse
        <3> QED
            BY <3>5, <3>6 DEF AInv
    <2> QED
        BY <2>1, <2>2
<1>13. ASSUME NEW s \in Sessions, Attribute(s) PROVE AInv'
    <2> DEFINE x == session[s]
               u == [code |-> x.code, account |-> x.account,
                     claimed |-> FALSE, rewards |-> 0]
    <2>1. Attributing(s) /\ uses' = Append(uses, u) /\ End(s)
        BY <1>13 DEF Attribute, Attributing
    <2>2. /\ DOMAIN uses' = DOMAIN uses \cup {Len(uses) + 1}
          /\ Len(uses) + 1 \notin DOMAIN uses
          /\ \A i \in DOMAIN uses : uses'[i] = uses[i]
          /\ uses'[Len(uses) + 1] = u
        BY <1>1, <2>1
    <2>3. \A i \in DOMAIN uses : \A a : ReferralUse(i, a)' => ReferralUse(i, a)
        <3> SUFFICES ASSUME NEW i \in DOMAIN uses, NEW a,
                            uses'[i].account = a,
                            tokens'[uses'[i].code].kind # "gift"
                     PROVE  uses[i].account = a
                            /\ tokens[uses[i].code].kind # "gift"
            BY DEF ReferralUse
        <3>1. uses'[i] = uses[i] /\ uses[i].code \in Rows
            BY <2>2 DEF Shape, Resolved
        <3> QED
            BY <3>1, RowsStay
    <2>4. \A i \in DOMAIN uses : ~ReferralUse(i, x.account)
        BY <2>1 DEF AInv, Serialized
    <2> DEFINE n == Len(uses) + 1
    <2>5. AttributedOnce'
        <3> SUFFICES ASSUME NEW i \in DOMAIN uses', NEW j \in DOMAIN uses',
                            NEW a, ReferralUse(i, a)', ReferralUse(j, a)'
                     PROVE  i = j
            BY DEF AttributedOnce, ReferralUse, IsGift
        <3>1. CASE i \in DOMAIN uses /\ j \in DOMAIN uses
            BY <2>3, <3>1 DEF AInv, AttributedOnce, ReferralUse, IsGift
        <3>2. ASSUME i = n \/ j = n PROVE a = x.account
            BY <2>2, <3>2 DEF ReferralUse
        <3>3. CASE i = n \/ j = n
            BY <2>2, <2>3, <2>4, <3>2, <3>3
        <3> QED
            BY <2>2, <3>1, <3>3
    <2>6. session'[s] = Idle /\ \A t \in Sessions \ {s} : session'[t] = session[t]
        BY <1>1, <2>1 DEF End
    <2>7. \A t \in Sessions : Attributing(t)' =>
             t # s /\ Attributing(t) /\ session'[t] = session[t]
        BY <2>6 DEF Attributing, Idle
    <2>8. \A t \in Sessions \ {s} :
             Attributing(t) => session[t].account # x.account
        BY <2>1 DEF AInv, Serialized
    <2>9. Serialized'
        <3>1. ASSUME NEW t \in Sessions, Attributing(t)', NEW i \in DOMAIN uses',
                     uses'[i].account = session'[t].account,
                     tokens'[uses'[i].code].kind # "gift"
              PROVE  FALSE
            <4>1. session'[t] = session[t] /\ Attributing(t) /\ t # s
                BY <2>7, <3>1
            <4>2. CASE i \in DOMAIN uses
                <5>1. ReferralUse(i, session[t].account)
                    BY <2>3, <3>1, <4>1, <4>2 DEF ReferralUse
                <5> QED
                    BY <4>1, <4>2, <5>1 DEF AInv, Serialized
            <4>3. CASE i = n
                BY <2>2, <2>8, <3>1, <4>1, <4>3
            <4> QED
                BY <2>2, <4>2, <4>3
        <3>2. ASSUME NEW t1 \in Sessions, NEW t2 \in Sessions,
                     Attributing(t1)', Attributing(t2)',
                     session'[t1].account = session'[t2].account
              PROVE  t1 = t2
            BY <2>7, <3>2 DEF AInv, Serialized
        <3> QED
            BY <3>1, <3>2 DEF Serialized, ReferralUse
    <2> QED
        BY <2>5, <2>9 DEF AInv
<1>14. ASSUME NEW s \in Sessions, LockToken(s) PROVE AInv'
    <2> DEFINE x == [session[s] EXCEPT !.op = "claim"]
    <2>1. session[s].op = "gift" /\ Begin(s, x) /\ uses' = uses
        BY <1>14 DEF LockToken
    <2>2. x.op = "claim"
        BY <1>1, <2>1 DEF Session, Idle
    <2> QED
        BY <1>2, <1>3, <2>1, <2>2
<1>15. ASSUME NEW s \in Sessions, ClaimGift(s) PROVE AInv'
    <2> DEFINE x == session[s]
               u == [code |-> x.code, account |-> x.account,
                     claimed |-> TRUE, rewards |-> 0]
    <2>1. x.op = "claim" /\ uses' = Append(uses, u) /\ End(s)
        BY <1>15 DEF ClaimGift
    <2>2. /\ DOMAIN uses' = DOMAIN uses \cup {Len(uses) + 1}
          /\ \A i \in DOMAIN uses : uses'[i] = uses[i]
          /\ uses'[Len(uses) + 1] = u
        BY <1>1, <2>1
    <2>3. x.code \in Rows /\ tokens[x.code].kind = "gift"
        BY <2>1 DEF Shape, Resolved, SessionOK, IsGift
    <2>4. tokens'[x.code].kind = "gift"
        BY <2>3, RowsStay
    <2>5. tokens'[uses'[Len(uses) + 1].code].kind = "gift"
        BY <2>2, <2>4
    <2>6. \A i \in DOMAIN uses' : tokens'[uses'[i].code].kind # "gift" =>
             i \in DOMAIN uses /\ uses'[i] = uses[i]
        BY <2>2, <2>5
    <2> QED
        BY <1>4, <2>1, <2>6, QuietAInv
<1>16. ASSUME NEW s \in Sessions, RefundGifts(s) PROVE AInv'
    BY <1>2, <1>4, <1>16 DEF RefundGifts
<1>17. ASSUME NEW s \in Sessions, PayoutReferral(s) PROVE AInv'
    <2>1. End(s)
        BY <1>17 DEF PayoutReferral
    <2> QED
        BY <1>4, <1>17, <2>1, PayoutUses, QuietAInv
<1>18. ASSUME NEW s \in Sessions, Abort(s) PROVE AInv'
    BY <1>2, <1>4, <1>18 DEF Abort
<1>19. CASE UNCHANGED vars
    BY <1>2, <1>19 DEF vars
<1> QED
    BY <1>5, <1>6, <1>7, <1>8, <1>9, <1>10, <1>11, <1>12, <1>13, <1>14, <1>15,
       <1>16, <1>17, <1>18, <1>19 DEF Next

(* However many referral links a user opens at the same time, one referrer *)
(* gets the attribution (handle_referral_token's lock of the account row). *)
THEOREM OneReferrer == Spec => []AttributedOnce
<1>1. Init => AInv
    BY InitAInv
<1>2. Shape /\ AInv /\ [Next]_vars => AInv'
    BY NextAInv
<1>3. AInv => AttributedOnce
    BY DEF AInv
<1> QED
    BY <1>1, <1>2, <1>3, ShapeHolds, PTL DEF Spec

-----------------------------------------------------------------------------
(* A use that was rewarded is claimed, and a claimed use is not rewarded.  *)
RInv ==
    \A i \in DOMAIN uses :
        uses[i].rewards <= 1 /\ (~uses[i].claimed => uses[i].rewards = 0)

LEMMA NextRInv == ASSUME Shape, RInv, [Next]_vars PROVE RInv'
<1>1. uses \in Seq(Use) /\ \A i \in DOMAIN uses : uses[i] \in Use
    BY DEF Shape, TypeOK
<1>2. CASE uses' = uses
    BY <1>2 DEF RInv
<1>3. ASSUME NEW u, uses' = Append(uses, u), u.rewards = 0 PROVE RInv'
    <2>1. DOMAIN uses' = DOMAIN uses \cup {Len(uses) + 1}
          /\ (\A i \in DOMAIN uses : uses'[i] = uses[i])
          /\ uses'[Len(uses) + 1] = u
        BY <1>1, <1>3
    <2> QED
        BY <1>3, <2>1 DEF RInv
<1>4. ASSUME NEW s \in Sessions, Attribute(s) PROVE RInv'
    <2> DEFINE u == [code |-> session[s].code, account |-> session[s].account,
                     claimed |-> FALSE, rewards |-> 0]
    <2>1. uses' = Append(uses, u) /\ u.rewards = 0
        BY <1>4 DEF Attribute
    <2> QED
        BY <1>3, <2>1
<1>5. ASSUME NEW s \in Sessions, ClaimGift(s) PROVE RInv'
    <2> DEFINE u == [code |-> session[s].code, account |-> session[s].account,
                     claimed |-> TRUE, rewards |-> 0]
    <2>1. uses' = Append(uses, u) /\ u.rewards = 0
        BY <1>5 DEF ClaimGift
    <2> QED
        BY <1>3, <2>1
<1>6. ASSUME NEW s \in Sessions, PayoutReferral(s) PROVE RInv'
    <2>1. \A i \in DOMAIN uses : uses[i].rewards \in Nat
        BY <1>1 DEF Use
    <2> QED
        BY <1>6, <2>1, PayoutUses DEF RInv
<1> QED
    BY <1>2, <1>4, <1>5, <1>6 DEF Next, vars, CreateGift, CreateCode, Expire,
       Pay, LookUpCode, FindExpiredGifts, ResolveStartToken, FindAttribution,
       LockAccount, LockToken, RefundGifts, Abort

(* However many spends of a referee evaluate the payout at the same time,  *)
(* the referrer is rewarded once (the UPDATE's WHERE claimed_at IS NULL).  *)
THEOREM OneReward == Spec => []RewardedOnce
<1>1. Init => RInv
    BY DEF Init, RInv
<1>2. Shape /\ RInv /\ [Next]_vars => RInv'
    BY NextRInv
<1>3. RInv => RewardedOnce
    BY DEF RInv, RewardedOnce
<1> QED
    BY <1>1, <1>2, <1>3, ShapeHolds, PTL DEF Spec

-----------------------------------------------------------------------------
(* A token is closed exactly when its gift was credited; and whoever still *)
(* holds a closed one was overtaken, which `raced` remembers.              *)
Settled ==
    /\ \A c \in Rows : tokens[c].status = "active" <=> credited[c] = 0
    /\ \A c \in Codes \ Rows : credited[c] = 0

OvertakenRaced ==
    \A s \in Sessions : \A c \in Holds(s) :
        c \in Rows /\ (tokens[c].status # "active" => c \in raced)

GInv == Settled /\ OvertakenRaced /\ PaidTwiceNeedsRace

LEMMA InitGInv == Init => GInv
BY DEF Init, GInv, Settled, OvertakenRaced, PaidTwiceNeedsRace, Holds, Idle, Rows

(* A transaction that writes no status and credits nobody: what it reads   *)
(* for itself is active.                                                   *)
LEMMA ReadGInv ==
    ASSUME Shape, GInv, UNCHANGED <<credited, raced>>,
           Rows \subseteq Rows', Rows' \subseteq Codes,
           \A c \in Rows : tokens'[c].status = tokens[c].status,
           \A c \in Rows' \ Rows : tokens'[c].status = "active",
           \A s \in Sessions : \A c \in Holds(s)' :
              \/ c \in Holds(s)
              \/ c \in Rows /\ tokens[c].status = "active"
    PROVE  GInv'
<1>1. Settled'
    BY DEF GInv, Settled, Shape, TypeOK
<1>2. OvertakenRaced'
    BY DEF GInv, OvertakenRaced
<1>3. PaidTwiceNeedsRace'
    BY DEF GInv, PaidTwiceNeedsRace
<1> QED
    BY <1>1, <1>2, <1>3 DEF GInv

(* A transaction that settles the gifts it holds, each for one credit.     *)
LEMMA SettleGInv ==
    ASSUME Shape, GInv, NEW s \in Sessions, End(s), Rows' = Rows,
           \A c \in Rows :
              \/ c \notin Holds(s) /\ tokens'[c].status = tokens[c].status
              \/ c \in Holds(s) /\ tokens'[c].status # "active",
           \A c \in Codes :
              credited'[c] = IF c \in Holds(s) THEN credited[c] + 1
                             ELSE credited[c],
           raced' = raced \cup (HeldByOthers(s) \cap Holds(s))
    PROVE  GInv'
<1>1. Rows \subseteq Codes /\ \A c \in Codes : credited[c] \in Nat
    BY DEF Shape, TypeOK
<1>2. \A c \in Holds(s) : c \in Rows
    BY DEF GInv, OvertakenRaced
<1>3. Settled'
    BY <1>1, <1>2 DEF GInv, Settled
<1>4. session'[s] = Idle /\ \A t \in Sessions \ {s} : session'[t] = session[t]
    BY DEF Shape, TypeOK, End
<1>5. Holds(s)' = {} /\ \A t \in Sessions \ {s} : Holds(t)' = Holds(t)
    <2>1. session'[s].op = "none"
        BY <1>4 DEF Idle
    <2>2. Holds(s)' = {}
        BY <2>1 DEF Holds
    <2>3. ASSUME NEW t \in Sessions \ {s} PROVE Holds(t)' = Holds(t)
        BY <1>4 DEF Holds
    <2> QED
        BY <2>2, <2>3
<1>6. OvertakenRaced'
    <2> SUFFICES ASSUME NEW t \in Sessions, NEW c \in Holds(t)'
                 PROVE  c \in Rows' /\ (tokens'[c].status # "active" => c \in raced')
        BY DEF OvertakenRaced
    <2>1. t # s /\ c \in Holds(t)
        BY <1>5
    <2>2. c \in Rows /\ (tokens[c].status # "active" => c \in raced)
        BY <2>1 DEF GInv, OvertakenRaced
    <2>3. c \in HeldByOthers(s)
        BY <2>1 DEF HeldByOthers
    <2> QED
        BY <2>2, <2>3
<1>7. PaidTwiceNeedsRace'
    <2> SUFFICES ASSUME NEW c \in Codes, credited'[c] > 1 PROVE c \in raced'
        BY DEF PaidTwiceNeedsRace
    <2>1. CASE c \notin Holds(s)
        BY <2>1 DEF GInv, PaidTwiceNeedsRace
    <2>2. CASE c \in Holds(s)
        <3>1. credited[c] # 0
            BY <1>1, <2>2
        <3>2. tokens[c].status # "active"
            BY <1>2, <2>2, <3>1 DEF GInv, Settled
        <3> QED
            BY <2>2, <3>2 DEF GInv, OvertakenRaced
    <2> QED
        BY <2>1, <2>2
<1> QED
    BY <1>3, <1>6, <1>7 DEF GInv

LEMMA NextGInv == ASSUME Shape, Shape', GInv, [Next]_vars PROVE GInv'
<1>1. session \in [Sessions -> Session] /\ Rows \subseteq Codes
    BY DEF Shape, TypeOK
<1>2. ASSUME UNCHANGED <<tokens, credited, raced>>,
             \A s \in Sessions : \A c \in Holds(s)' :
                c \in Holds(s) \/ (c \in Rows /\ tokens[c].status = "active")
      PROVE  GInv'
    BY <1>1, <1>2, ReadGInv DEF Rows
<1>3. ASSUME NEW s \in Sessions, NEW x, Begin(s, x), x.op \notin {"gift", "claim", "sweep"}
      PROVE  \A t \in Sessions : \A c \in Holds(t)' : c \in Holds(t)
    BY <1>1, <1>3 DEF Begin, Holds
<1>4. ASSUME NEW s \in Sessions, End(s)
      PROVE  \A t \in Sessions : \A c \in Holds(t)' : c \in Holds(t)
    BY <1>1, <1>4 DEF End, Idle, Holds
<1>5. ASSUME UNCHANGED session
      PROVE  \A t \in Sessions : \A c \in Holds(t)' : c \in Holds(t)
    BY <1>5 DEF Holds
<1>6. ASSUME NEW c \in Codes, NEW k, NEW a, c \notin Rows,
             NewToken(c, k, a), UNCHANGED <<credited, raced>>,
             \A s \in Sessions : \A d \in Holds(s)' : d \in Holds(s)
      PROVE  GInv'
    <2>1. Rows' = Rows \cup {c} /\ tokens'[c].status = "active"
          /\ \A d \in Rows : tokens'[d] = tokens[d]
        BY <1>6 DEF NewToken, Rows
    <2> QED
        BY <1>1, <1>6, <2>1, ReadGInv
<1>7. ASSUME NEW a \in Accounts, NEW c \in Codes, CreateGift(a, c) PROVE GInv'
    BY <1>5, <1>6, <1>7 DEF CreateGift
<1>8. ASSUME NEW s \in Sessions, NEW c \in Codes, CreateCode(s, c) PROVE GInv'
    BY <1>4, <1>6, <1>8 DEF CreateCode
<1>9. ASSUME NEW c \in Codes, Expire(c) PROVE GInv'
    BY <1>2, <1>5, <1>9 DEF Expire
<1>10. ASSUME NEW a \in Accounts, Pay(a) PROVE GInv'
    BY <1>2, <1>5, <1>10 DEF Pay
<1>11. ASSUME NEW s \in Sessions, NEW a \in Accounts, LookUpCode(s, a)
       PROVE  GInv'
    BY <1>2, <1>3, <1>11 DEF LookUpCode
<1>12. ASSUME NEW s \in Sessions, NEW a \in Accounts, FindExpiredGifts(s, a)
       PROVE  GInv'
    <2> DEFINE codes == {c \in Rows \cap expired :
                            tokens[c].owner = a /\ tokens[c].status = "active"}
               x == [op |-> "sweep", codes |-> codes]
    <2>1. Begin(s, x) /\ UNCHANGED <<tokens, credited, raced>>
        BY <1>12 DEF FindExpiredGifts
    <2>2. session'[s] = x /\ \A t \in Sessions \ {s} : session'[t] = session[t]
        BY <1>1, <2>1 DEF Begin
    <2>3. Holds(s)' = codes /\ \A t \in Sessions \ {s} : Holds(t)' = Holds(t)
        <3>1. session'[s].op = "sweep" /\ session'[s].codes = codes
            BY <2>2
        <3>2. Holds(s)' = codes
            BY <3>1 DEF Holds
        <3>3. ASSUME NEW t \in Sessions \ {s} PROVE Holds(t)' = Holds(t)
            BY <2>2 DEF Holds
        <3> QED
            BY <3>2, <3>3
    <2> QED
        BY <1>2, <2>1, <2>3
<1>13. ASSUME NEW s \in Sessions, NEW a \in Accounts, NEW c \in Codes,
              ResolveStartToken(s, a, c)
       PROVE  GInv'
    <2> DEFINE x == [op |-> IF IsGift(c) THEN "gift" ELSE "referral",
                     account |-> a, code |-> c, used |-> tokens[c].used]
    <2>1. Begin(s, x) /\ UNCHANGED <<tokens, credited, raced>>
          /\ c \in Rows /\ tokens[c].status = "active"
        BY <1>13 DEF ResolveStartToken
    <2>2. session'[s] = x /\ \A t \in Sessions \ {s} : session'[t] = session[t]
        BY <1>1, <2>1 DEF Begin
    <2>3. Holds(s)' \subseteq {c} /\ \A t \in Sessions \ {s} : Holds(t)' = Holds(t)
        BY <2>2 DEF Holds
    <2> QED
        BY <1>2, <2>1, <2>3
<1>14. ASSUME NEW s \in Sessions, NEW i \in DOMAIN uses, FindAttribution(s, i)
       PROVE  GInv'
    BY <1>2, <1>3, <1>14 DEF FindAttribution
<1>15. ASSUME NEW s \in Sessions, LockAccount(s) PROVE GInv'
    <2> DEFINE x == [session[s] EXCEPT !.op = "attribute"]
    <2>1. session[s].op = "referral" /\ UNCHANGED <<tokens, credited, raced>>
          /\ (End(s) \/ Begin(s, x))
        BY <1>15 DEF LockAccount
    <2>2. x.op = "attribute"
        BY <1>1, <2>1 DEF Session, Idle
    <2> QED
        BY <1>2, <1>3, <1>4, <2>1, <2>2
<1>16. ASSUME NEW s \in Sessions, Attribute(s) PROVE GInv'
    <2>1. End(s) /\ UNCHANGED <<credited, raced>>
          /\ tokens' = [tokens EXCEPT ![session[s].code].used = session[s].used + 1]
        BY <1>16 DEF Attribute
    <2>2. Rows' = Rows /\ \A c \in Rows : tokens[c] \in Token
        BY <2>1 DEF Rows, Shape, TypeOK
    <2>3. \A c \in Rows : tokens'[c].status = tokens[c].status
        BY <2>1, <2>2 DEF Rows, Token
    <2> QED
        BY <1>1, <1>4, <2>1, <2>2, <2>3, ReadGInv
<1>17. ASSUME NEW s \in Sessions, LockToken(s) PROVE GInv'
    <2> DEFINE x == [session[s] EXCEPT !.op = "claim"]
    <2>1. session[s].op = "gift" /\ Begin(s, x)
          /\ UNCHANGED <<tokens, credited, raced>>
        BY <1>17 DEF LockToken
    <2>2. x.op = "claim" /\ x.code = session[s].code
        BY <1>1, <2>1 DEF Session, Idle
    <2>3. session'[s] = x /\ \A t \in Sessions \ {s} : session'[t] = session[t]
        BY <1>1, <2>1 DEF Begin
    <2>4. \A t \in Sessions : Holds(t)' = Holds(t)
        BY <2>1, <2>2, <2>3 DEF Holds
    <2> QED
        BY <1>2, <2>1, <2>4
<1>18. ASSUME NEW s \in Sessions, ClaimGift(s) PROVE GInv'
    <2> DEFINE d == session[s].code
    <2>1. session[s].op = "claim" /\ End(s)
          /\ tokens' = [tokens EXCEPT ![d].status = "claimed",
                                      ![d].used = session[s].used + 1]
          /\ credited' = [credited EXCEPT ![d] = @ + 1]
          /\ raced' = raced \cup (HeldByOthers(s) \cap {d})
        BY <1>18 DEF ClaimGift
    <2>2. Holds(s) = {d}
        BY <2>1 DEF Holds
    <2>3. Rows' = Rows /\ \A c \in Rows : tokens[c] \in Token
        BY <2>1 DEF Rows, Shape, TypeOK
    <2>4. \A c \in Rows : IF c = d THEN tokens'[c].status = "claimed"
                          ELSE tokens'[c].status = tokens[c].status
        BY <2>1, <2>3 DEF Rows, Token
    <2>5. \A c \in Codes : credited'[c] = IF c = d THEN credited[c] + 1
                                          ELSE credited[c]
        BY <2>1 DEF Shape, TypeOK
    <2> QED
        BY <2>1, <2>2, <2>3, <2>4, <2>5, SettleGInv
<1>19. ASSUME NEW s \in Sessions, RefundGifts(s) PROVE GInv'
    <2> DEFINE codes == session[s].codes
    <2>1. session[s].op = "sweep" /\ End(s)
          /\ tokens' = [c \in Rows |-> IF c \in codes
                            THEN [tokens[c] EXCEPT !.status = "refunded"]
                            ELSE tokens[c]]
          /\ credited' = [c \in Codes |-> IF c \in codes THEN credited[c] + 1
                                          ELSE credited[c]]
          /\ raced' = raced \cup (HeldByOthers(s) \cap codes)
        BY <1>19 DEF RefundGifts
    <2>2. Holds(s) = codes
        BY <2>1 DEF Holds
    <2>3. Rows' = Rows /\ \A c \in Rows : tokens[c] \in Token
        BY <2>1 DEF Rows, Shape, TypeOK
    <2>4. \A c \in Rows : IF c \in codes THEN tokens'[c].status = "refunded"
                          ELSE tokens'[c].status = tokens[c].status
        BY <2>1, <2>3 DEF Token
    <2> QED
        BY <2>1, <2>2, <2>3, <2>4, SettleGInv
<1>20. ASSUME NEW s \in Sessions, PayoutReferral(s) PROVE GInv'
    BY <1>2, <1>4, <1>20 DEF PayoutReferral
<1>21. ASSUME NEW s \in Sessions, Abort(s) PROVE GInv'
    BY <1>2, <1>4, <1>21 DEF Abort
<1>22. CASE UNCHANGED vars
    BY <1>2, <1>5, <1>22 DEF vars
<1> QED
    BY <1>7, <1>8, <1>9, <1>10, <1>11, <1>12, <1>13, <1>14, <1>15, <1>16,
       <1>17, <1>18, <1>19, <1>20, <1>21, <1>22 DEF Next

LEMMA GInvHolds == Spec => []GInv
<1>1. Init => GInv
    BY InitGInv
<1>2. Shape /\ Shape' /\ GInv /\ [Next]_vars => GInv'
    BY NextGInv
<1> QED
    BY <1>1, <1>2, ShapeHolds, PTL DEF Spec

(* A gift's token is active until, and only until, somebody was credited:  *)
(* the sender's debit is never lost (handle_gift_token, the sweep).        *)
THEOREM GiftKept == Spec => []GiftNeverLost
<1>1. GInv => GiftNeverLost
    BY DEF GInv, Settled, GiftNeverLost
<1> QED
    BY <1>1, GInvHolds, PTL

(* Only transactions that overlapped on a gift can credit it twice.        *)
THEOREM DoublePayIsARace == Spec => []PaidTwiceNeedsRace
<1>1. GInv => PaidTwiceNeedsRace
    BY DEF GInv
<1> QED
    BY <1>1, GInvHolds, PTL

-----------------------------------------------------------------------------
(* SignIn.                                                                 *)

Signer == Persons \cup {I!Nothing}
RequestSteps == {"idle", "create", "delete", "find", "issue", "rotate"}
TokenStatuses == {"unissued", "live", "revoked", "expired"}

RequestRecord == [pc : RequestSteps, who : Signer, via : I!Providers \cup {I!Nothing},
                  token : Tokens \cup {I!Nothing}]
TokenRecord == [status : TokenStatuses, who : Signer, login : Tokens \cup {I!Nothing}]

(* A request knows whom it creates, has read the link of, or rotates.      *)
Knows(q) ==
    /\ q.pc \in {"create", "delete", "find"} =>
          q.who \in Persons /\ q.via \in I!Providers
    /\ q.pc \in {"delete", "find"} => q.via = "magic_link"
    /\ q.pc = "rotate" => q.token \in Tokens

SignInRequest == {q \in RequestRecord : Knows(q)}

(* The rows, and what the requests carry.                                  *)
AccountTypes ==
    /\ identities \in [Persons -> [I!Providers -> Nat]]
    /\ token \in [Tokens -> TokenRecord]
    /\ request \in [Requests -> SignInRequest]

LEMMA IdleRequest == I!Idle \in SignInRequest
BY DEF I!Idle, SignInRequest, RequestRecord, Knows, RequestSteps, Signer

LEMMA AccountInitTypes == I!Init => AccountTypes
BY IdleRequest DEF I!Init, AccountTypes, TokenRecord, I!Unissued, Signer, TokenStatuses

(* A request that ends, or goes on to a step it is ready for.              *)
LEMMA EndsTypes ==
    ASSUME AccountTypes, NEW r \in Requests, I!Ends(r)
    PROVE  request' \in [Requests -> SignInRequest]
BY IdleRequest DEF AccountTypes, I!Ends

LEMMA GoesTypes ==
    ASSUME AccountTypes, NEW r \in Requests, NEW pc \in RequestSteps, I!Goes(r, pc),
           Knows([request[r] EXCEPT !.pc = pc])
    PROVE  request' \in [Requests -> SignInRequest]
<1> DEFINE q == [request[r] EXCEPT !.pc = pc]
<1>1. request' = [request EXCEPT ![r] = q]
      BY DEF I!Goes
<1>2. request[r] \in RequestRecord
      BY DEF AccountTypes, SignInRequest
<1>3. q \in RequestRecord
      BY <1>2 DEF RequestRecord
<1>4. q \in SignInRequest
      BY <1>3 DEF SignInRequest
<1> QED
    BY <1>1, <1>4 DEF AccountTypes

LEMMA AccountNextTypes == AccountTypes /\ [I!Next]_accountVars => AccountTypes'
<1> SUFFICES ASSUME AccountTypes, [I!Next]_accountVars PROVE AccountTypes'
    OBVIOUS
<1> USE DEF AccountTypes
<1>a. \A r \in Requests : request[r] \in RequestRecord /\ Knows(request[r])
      BY DEF SignInRequest
<1>1. ASSUME NEW r \in Requests, NEW p \in Persons,
             I!Message(r, p) \/ I!MagicGet(r, p)
      PROVE AccountTypes'
  <2>1. PICK pc \in {"create", "delete"}, v \in {"tg_chat", "magic_link"} :
           /\ pc = "delete" => v = "magic_link"
           /\ request' = [request EXCEPT ![r] =
                            [pc |-> pc, who |-> p, via |-> v, token |-> I!Nothing]]
      BY <1>1 DEF I!Message, I!MagicGet, I!Begins
  <2>2. [pc |-> pc, who |-> p, via |-> v, token |-> I!Nothing] \in SignInRequest
      BY <2>1 DEF I!Providers, SignInRequest, RequestRecord, Knows, Signer,
                  RequestSteps
  <2> QED
      BY <1>1, <2>1, <2>2 DEF I!Message, I!MagicGet
<1>2. ASSUME NEW r \in Requests, I!CreateAccount(r)
      PROVE AccountTypes'
  <2> DEFINE p == request[r].who
             v == request[r].via
  <2>1. p \in Persons /\ v \in I!Providers
        BY <1>2, <1>a DEF I!CreateAccount, Knows
  <2>2. identities' = [identities EXCEPT ![p][v] = identities[p][v] + 1]
        BY <1>2 DEF I!CreateAccount
  <2>3. identities[p][v] \in Nat
        BY <2>1
  <2>4. identities' \in [Persons -> [I!Providers -> Nat]]
        BY <2>1, <2>2, <2>3
  <2>5. CASE I!Ends(r)
        BY <1>2, <2>4, <2>5, EndsTypes DEF I!CreateAccount
  <2>6. CASE I!Goes(r, "issue")
    <3>1. Knows([request[r] EXCEPT !.pc = "issue"])
          BY <1>a DEF Knows, RequestRecord
    <3> QED
        BY <1>2, <2>4, <2>6, <3>1, GoesTypes DEF I!CreateAccount, RequestSteps
  <2> QED
      BY <1>2, <2>5, <2>6 DEF I!CreateAccount
<1>3. ASSUME NEW r \in Requests, I!MagicDelete(r)
      PROVE AccountTypes'
  <2>1. request[r].pc = "delete" /\ I!Goes(r, "find")
        BY <1>3 DEF I!MagicDelete
  <2>2. Knows([request[r] EXCEPT !.pc = "find"])
        BY <1>a, <2>1 DEF Knows, RequestRecord
  <2> QED
      BY <1>3, <2>1, <2>2, GoesTypes DEF I!MagicDelete, RequestSteps
<1>4. ASSUME NEW r \in Requests, I!FindByEmail(r)
      PROVE AccountTypes'
  <2>1. request[r].pc = "find" /\ UNCHANGED <<identities, token>>
        BY <1>4 DEF I!FindByEmail
  <2>2. \A pc \in {"create", "issue"} :
           Knows([request[r] EXCEPT !.pc = pc])
        BY <1>a, <2>1 DEF Knows, RequestRecord
  <2>3. I!Goes(r, "create") \/ I!Goes(r, "issue") \/ I!Ends(r)
        BY <1>4 DEF I!FindByEmail
  <2>4. request' \in [Requests -> SignInRequest]
        BY <2>2, <2>3, GoesTypes, EndsTypes DEF RequestSteps
  <2> QED
      BY <2>1, <2>4
<1>5. ASSUME NEW r \in Requests, NEW k \in Tokens, I!IssueRefreshToken(r, k)
      PROVE AccountTypes'
  <2>1. request[r].who \in Signer
        BY <1>a DEF RequestRecord
  <2>2. token' \in [Tokens -> TokenRecord]
        BY <1>5, <2>1 DEF I!IssueRefreshToken, I!Issued, TokenRecord, TokenStatuses
  <2> QED
      BY <1>5, <2>2, EndsTypes DEF I!IssueRefreshToken
<1>6. ASSUME NEW r \in Requests, NEW k \in Tokens, I!RotateRead(r, k)
      PROVE AccountTypes'
  <2> DEFINE q == [pc |-> "rotate", who |-> token[k].who, via |-> I!Nothing,
                   token |-> k]
  <2>1. request' = [request EXCEPT ![r] = q]
        BY <1>6 DEF I!RotateRead, I!Begins
  <2>2. token[k].who \in Signer
        BY DEF TokenRecord
  <2>3. q \in SignInRequest
        BY <2>2 DEF SignInRequest, RequestRecord, Knows, RequestSteps
  <2> QED
      BY <1>6, <2>1, <2>3 DEF I!RotateRead
<1>7. ASSUME NEW r \in Requests, NEW n \in Tokens, I!RotateWrite(r, n)
      PROVE AccountTypes'
  <2> DEFINE k == request[r].token
             t == [token EXCEPT ![k].status = "revoked"]
  <2>1. token' = [t EXCEPT ![n] = I!Issued(n, token[k].who, token[k].login)]
        BY <1>7 DEF I!RotateWrite, I!Rotated
  <2>2. k \in Tokens
        BY <1>7, <1>a DEF I!RotateWrite, Knows
  <2>3. token[k] \in TokenRecord
        BY <2>2
  <2>4. t \in [Tokens -> TokenRecord]
        BY <2>2, <2>3 DEF TokenRecord, TokenStatuses
  <2>5. I!Issued(n, token[k].who, token[k].login) \in TokenRecord
        BY <2>3 DEF I!Issued, TokenRecord, TokenStatuses
  <2>6. token' \in [Tokens -> TokenRecord]
        BY <2>1, <2>4, <2>5
  <2> QED
      BY <1>7, <2>6, EndsTypes DEF I!RotateWrite
<1>8. ASSUME NEW k \in Tokens,
             I!RotateReuse(k) \/ I!Logout(k) \/ I!TokenExpires(k)
      PROVE AccountTypes'
      BY <1>8 DEF I!RotateReuse, I!Logout, I!TokenExpires, TokenRecord, TokenStatuses
<1>9. ASSUME NEW r \in Requests, I!RequestDies(r)
      PROVE AccountTypes'
      BY <1>9, EndsTypes DEF I!RequestDies
<1>10. CASE UNCHANGED <<identities, token, request>>
       BY <1>10
<1> QED
    BY <1>1, <1>2, <1>3, <1>4, <1>5, <1>6, <1>7, <1>8, <1>9, <1>10
    DEF I!Next, I!MagicRequest, I!MagicExpires, accountVars

(* A step of the platform is a step of SignIn or leaves its variables.     *)
LEMMA AccountsRun ==
    [PlatformNext]_platformVars => UNCHANGED part /\ [I!Next]_accountVars
<1> SUFFICES ASSUME [PlatformNext]_platformVars
             PROVE  UNCHANGED part /\ [I!Next]_accountVars
    OBVIOUS
<1>1. CASE UNCHANGED platformVars
    BY <1>1 DEF platformVars
<1>2. CASE PlatformNext
    BY <1>2 DEF PlatformNext, Only
<1> QED
    BY <1>1, <1>2

LEMMA AccountSpecTypes == PlatformSpec => [](part = "accounts" => AccountTypes)
<1>1. PlatformInit => (part = "accounts" => AccountTypes)
    BY AccountInitTypes DEF PlatformInit
<1>2. (part = "accounts" => AccountTypes) /\ [PlatformNext]_platformVars
      => (part = "accounts" => AccountTypes)'
    BY AccountsRun, AccountNextTypes
<1> QED
    BY <1>1, <1>2, PTL DEF PlatformSpec

-----------------------------------------------------------------------------
(* Refresh tokens.                                                         *)

WasIssued(k) == token[k].status # "unissued"
Works(k) == token[k].status \in {"live", "expired"}

(* A request rotates a token that was issued.                              *)
HoldsIssued ==
    \A r \in Requests :
       request[r].pc = "rotate" => WasIssued(request[r].token)

(* A login is named after a token of its own.                              *)
LoginIssued ==
    \A k \in Tokens :
       WasIssued(k) => token[k].login \in Tokens /\ WasIssued(token[k].login)

(* A token that expired while a request held it can still be rotated, so   *)
(* the tokens that are not revoked are counted, not the live ones.         *)
OneNotRevoked ==
    \A k, n \in Tokens :
       (k # n /\ Works(k) /\ Works(n) /\ token[k].login = token[n].login)
          => token[k].login \in forked

TokenInv == HoldsIssued /\ LoginIssued /\ OneNotRevoked

(* What a request that leaves the tokens alone has to keep.                *)
LEMMA SameTokens ==
    ASSUME TokenInv, UNCHANGED <<token, forked>>,
           \A q \in Requests :
              request'[q].pc = "rotate" => WasIssued(request'[q].token)
    PROVE  TokenInv'
BY DEF TokenInv, HoldsIssued, LoginIssued, OneNotRevoked, WasIssued, Works

LEMMA EndsHolds ==
    ASSUME AccountTypes, HoldsIssued, NEW r \in Requests, I!Ends(r)
    PROVE  \A q \in Requests :
              request'[q].pc = "rotate" => WasIssued(request'[q].token)
BY DEF AccountTypes, HoldsIssued, I!Ends, I!Idle

LEMMA GoesHolds ==
    ASSUME AccountTypes, HoldsIssued, NEW r \in Requests, NEW pc \in RequestSteps,
           I!Goes(r, pc), pc # "rotate"
    PROVE  \A q \in Requests :
              request'[q].pc = "rotate" => WasIssued(request'[q].token)
<1> TAKE q \in Requests
<1>1. CASE q = r
  <2>1. request'[r].pc = pc
        BY DEF I!Goes, AccountTypes, SignInRequest, RequestRecord
  <2> QED
      BY <1>1, <2>1
<1>2. CASE q # r
  <2>1. request'[q] = request[q]
        BY <1>2 DEF I!Goes, AccountTypes
  <2> QED
      BY <2>1 DEF HoldsIssued
<1> QED
    BY <1>1, <1>2

LEMMA NextTokenInv == AccountTypes /\ TokenInv /\ [I!Next]_accountVars => TokenInv'
<1> SUFFICES ASSUME AccountTypes, TokenInv, [I!Next]_accountVars PROVE TokenInv'
    OBVIOUS
<1>a. /\ \A r \in Requests : request[r] \in RequestRecord /\ Knows(request[r])
      /\ request \in [Requests -> SignInRequest]
      /\ token \in [Tokens -> TokenRecord]
      BY DEF AccountTypes, SignInRequest
<1>1. ASSUME NEW r \in Requests, NEW p \in Persons,
             I!Message(r, p) \/ I!MagicGet(r, p)
      PROVE TokenInv'
  <2>1. \A q \in Requests :
           request'[q].pc = "rotate" => WasIssued(request'[q].token)
        BY <1>1, <1>a DEF I!Message, I!MagicGet, I!Begins, TokenInv, HoldsIssued
  <2> QED
      BY <1>1, <2>1, SameTokens DEF I!Message, I!MagicGet
<1>2. ASSUME NEW r \in Requests, I!CreateAccount(r)
      PROVE TokenInv'
  <2>1. \A q \in Requests :
           request'[q].pc = "rotate" => WasIssued(request'[q].token)
        BY <1>2, EndsHolds, GoesHolds DEF I!CreateAccount, TokenInv, RequestSteps
  <2> QED
      BY <1>2, <2>1, SameTokens DEF I!CreateAccount
<1>3. ASSUME NEW r \in Requests, I!MagicDelete(r)
      PROVE TokenInv'
  <2>1. \A q \in Requests :
           request'[q].pc = "rotate" => WasIssued(request'[q].token)
        BY <1>3, GoesHolds DEF I!MagicDelete, TokenInv, RequestSteps
  <2> QED
      BY <1>3, <2>1, SameTokens DEF I!MagicDelete
<1>4. ASSUME NEW r \in Requests, I!FindByEmail(r)
      PROVE TokenInv'
  <2>1. I!Goes(r, "create") \/ I!Goes(r, "issue") \/ I!Ends(r)
        BY <1>4 DEF I!FindByEmail
  <2>2. \A q \in Requests :
           request'[q].pc = "rotate" => WasIssued(request'[q].token)
        BY <2>1, EndsHolds, GoesHolds DEF TokenInv, RequestSteps
  <2> QED
      BY <1>4, <2>2, SameTokens DEF I!FindByEmail
<1>5. ASSUME NEW r \in Requests, NEW k \in Tokens, I!IssueRefreshToken(r, k)
      PROVE TokenInv'
  <2>1. /\ ~WasIssued(k) /\ forked' = forked
        /\ token' = [token EXCEPT ![k] = I!Issued(k, request[r].who, k)]
        BY <1>5 DEF I!IssueRefreshToken, WasIssued, I!Unissued
  <2>2. token'[k].status = "live" /\ token'[k].login = k
        BY <2>1, <1>a DEF I!Issued
  <2>3. \A n \in Tokens \ {k} : token'[n] = token[n]
        BY <2>1, <1>a
  <2>4. HoldsIssued'
    <3>1. \A q \in Requests :
             request'[q].pc = "rotate" => WasIssued(request'[q].token)
          BY <1>5, EndsHolds DEF I!IssueRefreshToken, TokenInv
    <3>2. \A q \in Requests :
             request'[q].pc = "rotate" => request'[q].token \in Tokens
          BY <1>5, <1>a DEF I!IssueRefreshToken, I!Ends, I!Idle, Knows
    <3> QED
        BY <3>1, <3>2, <2>2, <2>3 DEF HoldsIssued, WasIssued
  <2>5. LoginIssued'
        BY <2>1, <2>2, <2>3 DEF TokenInv, LoginIssued, WasIssued
  <2>6. OneNotRevoked'
    <3>1. \A n \in Tokens \ {k} : Works(n) => token[n].login # k
          BY <2>1 DEF TokenInv, LoginIssued, Works, WasIssued
    <3> QED
        BY <3>1, <2>1, <2>2, <2>3 DEF TokenInv, OneNotRevoked, Works
  <2> QED
      BY <2>4, <2>5, <2>6 DEF TokenInv
<1>6. ASSUME NEW r \in Requests, NEW k \in Tokens, I!RotateRead(r, k)
      PROVE TokenInv'
  <2>1. \A q \in Requests :
           request'[q].pc = "rotate" => WasIssued(request'[q].token)
        BY <1>6, <1>a DEF I!RotateRead, I!Begins, TokenInv, HoldsIssued, WasIssued
  <2> QED
      BY <1>6, <2>1, SameTokens DEF I!RotateRead
<1>7. ASSUME NEW r \in Requests, NEW n \in Tokens, I!RotateWrite(r, n)
      PROVE TokenInv'
  <2> DEFINE k == request[r].token
  <2>1. k \in Tokens /\ WasIssued(k) /\ ~WasIssued(n) /\ k # n
        BY <1>7, <1>a DEF I!RotateWrite, Knows, TokenInv, HoldsIssued,
                          WasIssued, I!Unissued
  <2>2. /\ token'[n].status = "live" /\ token'[n].login = token[k].login
        /\ token'[k].status = "revoked" /\ token'[k].login = token[k].login
        /\ \A m \in Tokens \ {k, n} : token'[m] = token[m]
    <3>1. token' = [[token EXCEPT ![k].status = "revoked"] EXCEPT ![n] =
                      I!Issued(n, token[k].who, token[k].login)]
          BY <1>7 DEF I!RotateWrite, I!Rotated
    <3>2. token[k] \in TokenRecord
          BY <2>1, <1>a
    <3> QED
        BY <3>1, <3>2, <2>1, <1>a DEF I!Issued, TokenRecord
  <2>3. forked \subseteq forked'
        /\ (token[k].status = "revoked" => token[k].login \in forked')
        BY <1>7 DEF I!RotateWrite
  <2>4. \A m \in Tokens : WasIssued(m) => WasIssued(m)'
        BY <2>1, <2>2 DEF WasIssued
  <2>5. HoldsIssued'
    <3>1. \A q \in Requests :
             request'[q].pc = "rotate" => WasIssued(request'[q].token)
          BY <1>7, EndsHolds DEF I!RotateWrite, TokenInv
    <3>2. \A q \in Requests :
             request'[q].pc = "rotate" => request'[q].token \in Tokens
          BY <1>7, <1>a DEF I!RotateWrite, I!Ends, I!Idle, Knows
    <3> QED
        BY <3>1, <3>2, <2>4 DEF HoldsIssued, WasIssued
  <2>6. LoginIssued'
        BY <2>1, <2>2, <2>4 DEF TokenInv, LoginIssued, WasIssued
  <2>7. OneNotRevoked'
    <3>1. \A m \in Tokens \ {k, n} :
             Works(m)' /\ token'[m].login = token[k].login
                => token[k].login \in forked'
      <4>1. SUFFICES ASSUME NEW m \in Tokens \ {k, n}, Works(m)',
                            token'[m].login = token[k].login
                     PROVE  token[k].login \in forked'
            OBVIOUS
      <4>2. Works(m) /\ token[m].login = token[k].login
            BY <4>1, <2>2 DEF Works
      <4>3. CASE token[k].status = "revoked"
            BY <4>3, <2>3
      <4>4. CASE token[k].status # "revoked"
        <5>1. Works(k)
              BY <4>4, <2>1, <1>a DEF Works, WasIssued, TokenRecord, TokenStatuses
        <5> QED
            BY <5>1, <4>2, <2>1, <2>3 DEF TokenInv, OneNotRevoked
      <4> QED
          BY <4>3, <4>4
    <3>2. SUFFICES ASSUME NEW a \in Tokens, NEW b \in Tokens, a # b,
                          Works(a)', Works(b)',
                          token'[a].login = token'[b].login
                   PROVE  token'[a].login \in forked'
          BY DEF OneNotRevoked
    <3>3. a # k /\ b # k
          BY <3>2, <2>2 DEF Works
    <3>4. CASE a = n \/ b = n
          BY <3>1, <3>2, <3>3, <3>4, <2>2
    <3>5. CASE a # n /\ b # n
      <4>1. /\ Works(a) /\ Works(b) /\ token[a].login = token[b].login
            /\ token'[a].login = token[a].login
            BY <3>2, <3>3, <3>5, <2>2 DEF Works
      <4> QED
          BY <4>1, <3>2, <2>3 DEF TokenInv, OneNotRevoked
    <3> QED
        BY <3>4, <3>5
  <2> QED
      BY <2>5, <2>6, <2>7 DEF TokenInv
<1>8. ASSUME NEW k \in Tokens,
             I!RotateReuse(k) \/ I!Logout(k) \/ I!TokenExpires(k)
      PROVE TokenInv'
  <2>1. /\ UNCHANGED <<request, forked>>
        /\ \A m \in Tokens : /\ token'[m].login = token[m].login
                             /\ WasIssued(m) <=> WasIssued(m)'
                             /\ Works(m)' => Works(m)
    <3>1. CASE I!RotateReuse(k)
          BY <3>1, <1>a DEF I!RotateReuse, WasIssued, Works, TokenRecord
    <3>2. CASE I!Logout(k)
          BY <3>2, <1>a DEF I!Logout, WasIssued, Works, TokenRecord
    <3>3. CASE I!TokenExpires(k)
          BY <3>3, <1>a DEF I!TokenExpires, WasIssued, Works, TokenRecord
    <3> QED
        BY <3>1, <3>2, <3>3, <1>8
  <2>2. HoldsIssued'
        BY <2>1, <1>a DEF TokenInv, HoldsIssued, WasIssued, Knows
  <2>3. LoginIssued'
        BY <2>1 DEF TokenInv, LoginIssued, WasIssued
  <2>4. OneNotRevoked'
        BY <2>1 DEF TokenInv, OneNotRevoked, Works
  <2> QED
      BY <2>2, <2>3, <2>4 DEF TokenInv
<1>9. ASSUME NEW r \in Requests, I!RequestDies(r)
      PROVE TokenInv'
  <2>1. \A q \in Requests :
           request'[q].pc = "rotate" => WasIssued(request'[q].token)
        BY <1>9, EndsHolds DEF I!RequestDies, TokenInv
  <2> QED
      BY <1>9, <2>1, SameTokens DEF I!RequestDies
<1>10. CASE UNCHANGED <<token, request, forked>>
       BY <1>10 DEF TokenInv, HoldsIssued, LoginIssued, OneNotRevoked,
                    WasIssued, Works
<1> QED
    BY <1>1, <1>2, <1>3, <1>4, <1>5, <1>6, <1>7, <1>8, <1>9, <1>10
    DEF I!Next, I!MagicRequest, I!MagicExpires, accountVars

(* Whatever the number of tokens and requests, two tokens of one login     *)
(* work at once only after two rotations of one token overlapped.          *)
THEOREM LoginHasOneToken == PlatformSpec => []OneLiveToken
<1>1. I!Init => TokenInv
    BY DEF I!Init, TokenInv, HoldsIssued, LoginIssued, OneNotRevoked,
             WasIssued, Works, I!Unissued, I!Idle
<1>2. PlatformInit => (part = "accounts" => TokenInv)
    BY <1>1 DEF PlatformInit
<1>3. /\ part = "accounts" => AccountTypes /\ TokenInv
      /\ [PlatformNext]_platformVars
      => (part = "accounts" => TokenInv)'
    BY AccountsRun, NextTokenInv
<1>4. (part = "accounts" => AccountTypes /\ TokenInv) => OneLiveToken
    BY DEF TokenInv, OneNotRevoked, Works, OneLiveToken, I!OneLiveToken
<1> QED
    BY <1>2, <1>3, <1>4, AccountSpecTypes, PTL DEF PlatformSpec

-----------------------------------------------------------------------------
(* Accounts.                                                               *)

CreatorOf(r, p, v) ==
    request[r].pc = "create" /\ request[r].who = p /\ request[r].via = v

(* Whom no two requests were creating at once has one account at most, and *)
(* none while a request is creating it.                                    *)
OneCreator ==
    \A p \in Persons, v \in I!Providers :
       <<p, v>> \notin doubled =>
          /\ identities[p][v] \in {0, 1}
          /\ \A r \in Requests :
                CreatorOf(r, p, v) =>
                   /\ identities[p][v] = 0
                   /\ \A q \in Requests : CreatorOf(q, p, v) => q = r

LEMMA NoNewCreator ==
    ASSUME OneCreator, UNCHANGED <<identities, doubled>>,
           \A q \in Requests, p \in Persons, v \in I!Providers :
              CreatorOf(q, p, v)' => CreatorOf(q, p, v)
    PROVE  OneCreator'
BY DEF OneCreator

(* A request that found nobody goes on to create them.                     *)
LEMMA NewCreator ==
    ASSUME AccountTypes, OneCreator, NEW r \in Requests,
           NEW p \in Persons, NEW v \in I!Providers,
           request[r].pc # "create", identities[p][v] = 0,
           identities' = identities, I!Creates(p, v), CreatorOf(r, p, v)',
           \A q \in Requests \ {r} : request'[q] = request[q]
    PROVE  OneCreator'
<1>1. \A q \in Requests \ {r}, x \in Persons, w \in I!Providers :
         CreatorOf(q, x, w)' <=> CreatorOf(q, x, w)
      BY DEF CreatorOf
<1>2. \A x \in Persons, w \in I!Providers :
         CreatorOf(r, x, w)' <=> (x = p /\ w = v)
      BY DEF CreatorOf
<1>3. /\ doubled \subseteq doubled'
      /\ <<p, v>> \notin doubled' =>
            \A q \in Requests : ~CreatorOf(q, p, v)
      BY DEF I!Creates, CreatorOf
<1>4. SUFFICES ASSUME NEW x \in Persons, NEW w \in I!Providers,
                      <<x, w>> \notin doubled'
               PROVE  /\ identities[x][w] \in {0, 1}
                      /\ \A a \in Requests : CreatorOf(a, x, w)' =>
                            /\ identities[x][w] = 0
                            /\ \A b \in Requests :
                                  CreatorOf(b, x, w)' => b = a
      BY DEF OneCreator
<1>5. <<x, w>> \notin doubled
      BY <1>3, <1>4
<1>6. CASE x = p /\ w = v
      BY <1>1, <1>3, <1>4, <1>6
<1>7. CASE ~(x = p /\ w = v)
      BY <1>1, <1>2, <1>5, <1>7 DEF OneCreator
<1> QED
    BY <1>6, <1>7

LEMMA NextOneCreator == AccountTypes /\ OneCreator /\ [I!Next]_accountVars => OneCreator'
<1> SUFFICES ASSUME AccountTypes, OneCreator, [I!Next]_accountVars PROVE OneCreator'
    OBVIOUS
<1>a. /\ \A r \in Requests : request[r] \in RequestRecord /\ Knows(request[r])
      /\ request \in [Requests -> SignInRequest]
      /\ identities \in [Persons -> [I!Providers -> Nat]]
      BY DEF AccountTypes, SignInRequest
<1>b. ASSUME NEW r \in Requests, I!Ends(r)
      PROVE  /\ request'[r].pc = "idle"
             /\ \A q \in Requests \ {r} : request'[q] = request[q]
      BY <1>a, <1>b DEF I!Ends, I!Idle
<1>c. ASSUME NEW r \in Requests, NEW pc \in RequestSteps, I!Goes(r, pc)
      PROVE  /\ request'[r].pc = pc
             /\ request'[r].who = request[r].who
             /\ request'[r].via = request[r].via
             /\ \A q \in Requests \ {r} : request'[q] = request[q]
      BY <1>a, <1>c DEF I!Goes, RequestRecord
<1>d. ASSUME NEW r \in Requests, UNCHANGED <<identities, doubled>>,
             request'[r].pc # "create",
             \A q \in Requests \ {r} : request'[q] = request[q]
      PROVE  OneCreator'
  <2>1. \A q \in Requests, p \in Persons, v \in I!Providers :
           CreatorOf(q, p, v)' => CreatorOf(q, p, v)
        BY <1>d DEF CreatorOf
  <2> QED
      BY <1>d, <2>1, NoNewCreator
<1>1. ASSUME NEW r \in Requests, NEW p \in Persons, I!Message(r, p)
      PROVE OneCreator'
  <2>1. /\ request[r].pc # "create" /\ CreatorOf(r, p, "tg_chat")'
        /\ \A q \in Requests \ {r} : request'[q] = request[q]
        BY <1>1, <1>a DEF I!Message, I!Begins, I!Idle, CreatorOf
  <2> QED
      BY <1>1, <2>1, NewCreator DEF I!Message, I!Providers
<1>2. ASSUME NEW r \in Requests, NEW p \in Persons, I!MagicGet(r, p)
      PROVE OneCreator'
  <2>1. /\ request'[r].pc # "create"
        /\ \A q \in Requests \ {r} : request'[q] = request[q]
        BY <1>2, <1>a DEF I!MagicGet, I!Begins
  <2> QED
      BY <1>2, <2>1, <1>d DEF I!MagicGet
<1>3. ASSUME NEW r \in Requests, I!CreateAccount(r)
      PROVE OneCreator'
  <2>1. PICK p \in Persons, v \in I!Providers :
           p = request[r].who /\ v = request[r].via /\ CreatorOf(r, p, v)
        BY <1>3, <1>a DEF I!CreateAccount, Knows, CreatorOf
  <2>2. /\ request'[r].pc # "create"
        /\ \A q \in Requests \ {r} : request'[q] = request[q]
        BY <1>3, <1>b, <1>c DEF I!CreateAccount, RequestSteps
  <2>3. \A q \in Requests, x \in Persons, w \in I!Providers :
           CreatorOf(q, x, w)' => CreatorOf(q, x, w) /\ q # r
        BY <2>2 DEF CreatorOf
  <2>4. /\ identities'[p][v] = identities[p][v] + 1
        /\ \A x \in Persons, w \in I!Providers :
              ~(x = p /\ w = v) => identities'[x][w] = identities[x][w]
    <3>1. identities' = [identities EXCEPT ![p][v] = identities[p][v] + 1]
          BY <1>3, <2>1 DEF I!CreateAccount
    <3> QED
        BY <3>1, <2>1, <1>a
  <2>5. doubled' = doubled
        BY <1>3 DEF I!CreateAccount
  <2>6. SUFFICES ASSUME NEW x \in Persons, NEW w \in I!Providers,
                        <<x, w>> \notin doubled
                 PROVE  /\ identities'[x][w] \in {0, 1}
                        /\ \A a \in Requests : CreatorOf(a, x, w)' =>
                              /\ identities'[x][w] = 0
                              /\ \A b \in Requests :
                                    CreatorOf(b, x, w)' => b = a
        BY <2>5 DEF OneCreator
  <2>7. CASE x = p /\ w = v
    <3>1. /\ identities[p][v] = 0
          /\ \A b \in Requests : CreatorOf(b, p, v) => b = r
          BY <2>1, <2>6, <2>7 DEF OneCreator
    <3>2. \A a \in Requests : ~CreatorOf(a, p, v)'
          BY <3>1, <2>1, <2>3
    <3>3. identities'[p][v] = 1
          BY <3>1, <2>4
    <3> QED
        BY <3>2, <3>3, <2>7
  <2>8. CASE ~(x = p /\ w = v)
    <3>1. identities'[x][w] = identities[x][w]
          BY <2>4, <2>8
    <3> QED
        BY <3>1, <2>3, <2>6 DEF OneCreator
  <2> QED
      BY <2>7, <2>8
<1>4. ASSUME NEW r \in Requests, I!MagicDelete(r)
      PROVE OneCreator'
      BY <1>4, <1>c, <1>d DEF I!MagicDelete, RequestSteps
<1>5. ASSUME NEW r \in Requests, I!FindByEmail(r)
      PROVE OneCreator'
  <2>1. PICK p \in Persons : p = request[r].who
        BY <1>5, <1>a DEF I!FindByEmail, Knows
  <2>2. /\ request[r].pc = "find"
        /\ request[r].via = "magic_link" /\ identities' = identities
        BY <1>5, <1>a DEF I!FindByEmail, Knows
  <2>3. \/ /\ identities[p]["magic_link"] = 0
           /\ I!Goes(r, "create") /\ I!Creates(p, "magic_link")
        \/ I!Goes(r, "issue") /\ UNCHANGED doubled
        \/ I!Ends(r) /\ UNCHANGED doubled
        BY <1>5, <2>1 DEF I!FindByEmail
  <2>4. CASE /\ identities[p]["magic_link"] = 0
             /\ I!Goes(r, "create") /\ I!Creates(p, "magic_link")
    <3>1. /\ CreatorOf(r, p, "magic_link")'
          /\ \A q \in Requests \ {r} : request'[q] = request[q]
          BY <2>1, <2>2, <2>4, <1>c DEF CreatorOf, RequestSteps
    <3> QED
        BY <2>2, <2>4, <3>1, NewCreator DEF I!Providers
  <2>5. CASE I!Goes(r, "issue") /\ UNCHANGED doubled
        BY <2>2, <2>5, <1>c, <1>d DEF RequestSteps
  <2>6. CASE I!Ends(r) /\ UNCHANGED doubled
        BY <2>2, <2>6, <1>b, <1>d
  <2> QED
      BY <2>3, <2>4, <2>5, <2>6
<1>6. ASSUME NEW r \in Requests, NEW k \in Tokens,
             I!IssueRefreshToken(r, k) \/ I!RotateWrite(r, k)
      PROVE OneCreator'
  <2>1. I!Ends(r) /\ UNCHANGED <<identities, doubled>>
        BY <1>6 DEF I!IssueRefreshToken, I!RotateWrite
  <2> QED
      BY <2>1, <1>b, <1>d
<1>7. ASSUME NEW r \in Requests, NEW k \in Tokens, I!RotateRead(r, k)
      PROVE OneCreator'
  <2>1. /\ request'[r].pc # "create"
        /\ \A q \in Requests \ {r} : request'[q] = request[q]
        BY <1>7, <1>a DEF I!RotateRead, I!Begins
  <2> QED
      BY <1>7, <2>1, <1>d DEF I!RotateRead
<1>8. ASSUME NEW r \in Requests, I!RequestDies(r)
      PROVE OneCreator'
      BY <1>8, <1>b, <1>d DEF I!RequestDies
<1>9. CASE UNCHANGED <<identities, request, doubled>>
      BY <1>9 DEF OneCreator, CreatorOf
<1> QED
    BY <1>1, <1>2, <1>3, <1>4, <1>5, <1>6, <1>7, <1>8, <1>9
    DEF I!Next, I!MagicRequest, I!MagicExpires, I!RotateReuse, I!Logout, I!TokenExpires,
        accountVars

(* Whatever the number of persons and requests, a person gets a second     *)
(* account only if two requests were creating it at once.                  *)
THEOREM PersonHasOneAccount == PlatformSpec => []OneAccount
<1>1. I!Init => OneCreator
    BY DEF I!Init, OneCreator, CreatorOf, I!Idle
<1>2. PlatformInit => (part = "accounts" => OneCreator)
    BY <1>1 DEF PlatformInit
<1>3. /\ part = "accounts" => AccountTypes /\ OneCreator
      /\ [PlatformNext]_platformVars
      => (part = "accounts" => OneCreator)'
    BY AccountsRun, NextOneCreator
<1>4. (part = "accounts" => AccountTypes /\ OneCreator) => OneAccount
    BY DEF AccountTypes, OneCreator, OneAccount, I!OneAccount
<1> QED
    BY <1>2, <1>3, <1>4, AccountSpecTypes, PTL DEF PlatformSpec

-----------------------------------------------------------------------------
(* PlanSales.                                                              *)

PatchRecord == [op : {"patch"}, plan : M!Plans, read : M!Rows, body : M!Rows]
PaymentRecord ==
    [status : {"pending", "paid", "credited"}, plan : M!Plans, price : Prices,
     size : Sizes, credited : Sizes \cup {0}]

SaleTypes ==
    /\ plan \in [M!Plans -> M!Rows \cup {M!Absent}]
    /\ patch \in [Patches -> PatchRecord \cup {M!NoPatch}]
    /\ payment \in [Invoices -> PaymentRecord \cup {M!NoPayment}]
    /\ meant \in [M!Plans -> SUBSET M!Rows]

(* A row that no overlapping calls tore is one that somebody meant.        *)
RowsAreMeant ==
    \A p \in M!Plans : M!Exists(p) /\ p \notin torn => plan[p] \in meant[p]

(* The row of a call is there, and the call of a plan that is not torn is  *)
(* the only one, and has read the row as it is.                            *)
CallsAreFresh ==
    \A c \in Patches :
       patch[c] # M!NoPatch =>
          /\ M!Exists(patch[c].plan)
          /\ patch[c].plan \notin torn =>
                /\ patch[c].read = plan[patch[c].plan]
                /\ \A d \in Patches :
                      patch[d] # M!NoPatch /\ patch[d].plan = patch[c].plan
                         => d = c

(* The plan of an invoice is there; an open one that was not edited offers *)
(* what the plan has.                                                      *)
OpenAsOffered ==
    \A i \in Invoices :
       payment[i] # M!NoPayment =>
          /\ M!Exists(payment[i].plan)
          /\ payment[i].status # "credited" /\ i \notin edited =>
                /\ plan[payment[i].plan].active
                /\ plan[payment[i].plan].size = payment[i].size

SaleInv == SaleTypes /\ RowsAreMeant /\ CallsAreFresh /\ OpenAsOffered
       /\ M!OfferedAsMeant /\ M!CreditedAsOffered

LEMMA SaleInit == M!Init => SaleInv
BY DEF M!Init, SaleInv, SaleTypes, RowsAreMeant, CallsAreFresh, OpenAsOffered,
       M!OfferedAsMeant, M!CreditedAsOffered, M!Exists, M!NoPayment, M!NoPatch

LEMMA RowExists ==
    ASSUME NEW row \in M!Rows
    PROVE  row # M!Absent
BY PlanAssumption DEF M!Rows, M!Absent

LEMMA MergedRow ==
    ASSUME NEW row \in M!Rows, NEW read \in M!Rows, NEW body \in M!Rows
    PROVE  /\ M!Merged(row, read, body) \in M!Rows
           /\ row = read => M!Merged(row, read, body) = body
BY DEF M!Merged, M!Rows

LEMMA SaleNext == SaleInv /\ [M!Next]_planVars => SaleInv'
<1> SUFFICES ASSUME SaleInv, [M!Next]_planVars PROVE SaleInv'
    OBVIOUS
<1>a. /\ SaleTypes /\ RowsAreMeant /\ CallsAreFresh /\ OpenAsOffered
      /\ M!OfferedAsMeant /\ M!CreditedAsOffered
      /\ \A p \in M!Plans : M!Exists(p) <=> plan[p] \in M!Rows
      /\ \A c \in Patches : patch[c] # M!NoPatch => patch[c] \in PatchRecord
      /\ \A i \in Invoices :
            payment[i] # M!NoPayment => payment[i] \in PaymentRecord
      BY RowExists DEF SaleInv, SaleTypes, M!Exists
<1>1. ASSUME NEW p \in M!Plans, NEW price \in Prices, NEW size \in Sizes,
             M!CreatePlan(p, price, size)
      PROVE SaleInv'
  <2> DEFINE row == [price |-> price, size |-> size, active |-> TRUE]
  <2>1. /\ ~M!Exists(p) /\ row \in M!Rows
        /\ plan' = [plan EXCEPT ![p] = row]
        /\ meant' = [meant EXCEPT ![p] = {row}]
        /\ UNCHANGED <<patch, payment, torn, edited>>
        BY <1>1 DEF M!CreatePlan, M!Rows
  <2>2. /\ plan'[p] = row /\ meant'[p] = {row}
        /\ \A q \in M!Plans \ {p} : plan'[q] = plan[q] /\ meant'[q] = meant[q]
        BY <2>1, <1>a DEF SaleTypes
  <2>3. \A q \in M!Plans \ {p} : M!Exists(q)' <=> M!Exists(q)
        BY <2>2 DEF M!Exists
  <2>4. SaleTypes'
        BY <2>1, <1>a DEF SaleTypes
  <2>5. RowsAreMeant'
        BY <2>1, <2>2, <2>3, <1>a DEF RowsAreMeant
  <2>6. \A c \in Patches :
           patch[c] # M!NoPatch => patch[c].plan \in M!Plans \ {p}
        BY <2>1, <1>a DEF CallsAreFresh, PatchRecord
  <2>7. CallsAreFresh'
        BY <2>1, <2>2, <2>3, <2>6, <1>a DEF CallsAreFresh
  <2>8. \A i \in Invoices :
           payment[i] # M!NoPayment => payment[i].plan \in M!Plans \ {p}
        BY <2>1, <1>a DEF OpenAsOffered, PaymentRecord
  <2>9. OpenAsOffered' /\ M!OfferedAsMeant' /\ M!CreditedAsOffered'
        BY <2>1, <2>2, <2>3, <2>8, <1>a
        DEF OpenAsOffered, M!OfferedAsMeant, M!CreditedAsOffered, M!NoPayment
  <2> QED
      BY <2>4, <2>5, <2>7, <2>9 DEF SaleInv
<1>2. ASSUME NEW c \in Patches, NEW p \in M!Plans, NEW row \in M!Rows,
             M!BeginPatch(c, p, row)
      PROVE SaleInv'
  <2> DEFINE x == [op |-> "patch", plan |-> p, read |-> plan[p],
                   body |-> row]
  <2>1. /\ patch[c] = M!NoPatch /\ M!Exists(p) /\ x \in PatchRecord
        /\ patch' = [patch EXCEPT ![c] = x]
        /\ UNCHANGED <<plan, payment, meant, edited>>
        /\ torn \subseteq torn'
        /\ p \notin torn' =>
              \A d \in Patches : patch[d] # M!NoPatch => patch[d].plan # p
        BY <1>2, <1>a DEF M!BeginPatch, PatchRecord
  <2>2. /\ patch'[c] = x
        /\ \A d \in Patches \ {c} : patch'[d] = patch[d]
        BY <2>1, <1>a DEF SaleTypes
  <2>3. SaleTypes' /\ RowsAreMeant'
        BY <2>1, <1>a DEF SaleTypes, RowsAreMeant, M!Exists
  <2>4. SUFFICES ASSUME NEW d \in Patches, patch'[d] # M!NoPatch
                 PROVE  /\ M!Exists(patch[d].plan)'
                        /\ patch'[d].plan \notin torn' =>
                              /\ patch'[d].read = plan'[patch'[d].plan]
                              /\ \A e \in Patches :
                                    patch'[e] # M!NoPatch
                                    /\ patch'[e].plan = patch'[d].plan
                                       => e = d
    <3>1. OpenAsOffered' /\ M!OfferedAsMeant' /\ M!CreditedAsOffered'
          BY <2>1, <1>a
          DEF OpenAsOffered, M!OfferedAsMeant, M!CreditedAsOffered, M!Exists
    <3> QED
        BY <2>3, <2>4, <3>1 DEF SaleInv, CallsAreFresh
  <2>5. CASE d = c
        BY <2>1, <2>2, <2>5 DEF M!Exists
  <2>6. CASE d # c
    <3>1. patch'[d] = patch[d] /\ patch[d] # M!NoPatch
          BY <2>2, <2>4, <2>6
    <3>2. M!Exists(patch[d].plan)'
          BY <2>1, <3>1, <1>a DEF CallsAreFresh, M!Exists
    <3>3. ASSUME patch'[d].plan \notin torn'
          PROVE  /\ patch'[d].read = plan'[patch'[d].plan]
                 /\ \A e \in Patches :
                       patch'[e] # M!NoPatch /\ patch'[e].plan = patch'[d].plan
                          => e = d
      <4>1. patch[d].plan # p
            BY <2>1, <3>1, <3>3
      <4> QED
          BY <2>1, <2>2, <3>1, <3>3, <4>1, <1>a DEF CallsAreFresh
    <3> QED
        BY <3>2, <3>3
  <2> QED
      BY <2>5, <2>6
<1>3. ASSUME NEW c \in Patches, M!SavePatch(c)
      PROVE SaleInv'
  <2>1. PICK p \in M!Plans, read \in M!Rows, body \in M!Rows :
           p = patch[c].plan /\ read = patch[c].read /\ body = patch[c].body
        BY <1>3, <1>a DEF M!SavePatch, PatchRecord
  <2>2. PICK row \in M!Rows : row = M!Merged(plan[p], read, body)
    <3>1. plan[p] \in M!Rows
          BY <1>3, <2>1, <1>a DEF M!SavePatch, CallsAreFresh
    <3> QED
        BY <2>1, <3>1, MergedRow
  <2>3. /\ patch[c] # M!NoPatch
        /\ plan' = [plan EXCEPT ![p] = row]
        /\ patch' = [patch EXCEPT ![c] = M!NoPatch]
        /\ meant' = [meant EXCEPT ![p] = meant[p] \cup {body}]
        /\ edited' = edited \cup M!Open(p)
        /\ UNCHANGED <<payment, torn>>
        BY <1>3, <2>1, <2>2 DEF M!SavePatch
  <2>4. /\ plan'[p] = row
        /\ \A q \in M!Plans \ {p} : plan'[q] = plan[q] /\ meant'[q] = meant[q]
        /\ \A q \in M!Plans : meant[q] \subseteq meant'[q]
        /\ body \in meant'[p] /\ patch'[c] = M!NoPatch
        /\ \A d \in Patches \ {c} : patch'[d] = patch[d]
        BY <2>3, <1>a DEF SaleTypes
  <2>5. \A q \in M!Plans : M!Exists(q) => M!Exists(q)'
        BY <2>4, RowExists DEF M!Exists
  <2>6. p \notin torn => row = body
        BY <2>1, <2>2, <2>3, <1>a, MergedRow DEF CallsAreFresh
  <2>7. SaleTypes'
        BY <2>1, <2>2, <2>3, <1>a DEF SaleTypes
  <2>8. RowsAreMeant'
        BY <2>3, <2>4, <2>6, <1>a DEF RowsAreMeant, M!Exists
  <2>9. ASSUME NEW d \in Patches, patch'[d] # M!NoPatch
        PROVE  /\ M!Exists(patch[d].plan)'
               /\ patch'[d].plan \notin torn' =>
                     /\ patch'[d].read = plan'[patch'[d].plan]
                     /\ \A e \in Patches :
                           patch'[e] # M!NoPatch
                           /\ patch'[e].plan = patch'[d].plan => e = d
    <3>1. /\ d # c /\ patch'[d] = patch[d] /\ patch[d].plan \in M!Plans
          BY <2>4, <2>9, <1>a DEF PatchRecord
    <3>2. patch[d].plan \notin torn => patch[d].plan # p
          BY <2>1, <2>3, <2>9, <3>1, <1>a DEF CallsAreFresh
    <3> QED
        BY <2>3, <2>4, <2>5, <2>9, <3>1, <3>2, <1>a DEF CallsAreFresh
  <2>10. CallsAreFresh'
         BY <2>9 DEF CallsAreFresh
  <2>11. ASSUME NEW i \in Invoices, payment'[i] # M!NoPayment
         PROVE  /\ M!Exists(payment[i].plan)'
                /\ payment'[i].status # "credited" /\ i \notin edited' =>
                      /\ plan'[payment'[i].plan].active
                      /\ plan'[payment'[i].plan].size = payment'[i].size
    <3>1. payment'[i] = payment[i] /\ payment[i] \in PaymentRecord
          BY <2>3, <2>11, <1>a
    <3>2. payment[i].plan \in M!Plans /\ M!Exists(payment[i].plan)
          BY <2>3, <2>11, <3>1, <1>a DEF OpenAsOffered, PaymentRecord
    <3>3. payment[i].plan = p /\ payment[i].status # "credited"
             => i \in edited'
          BY <2>3, <3>1 DEF M!Open, PaymentRecord
    <3> QED
        BY <2>3, <2>4, <2>5, <2>11, <3>1, <3>2, <3>3, <1>a
        DEF OpenAsOffered
  <2>12. OpenAsOffered'
         BY <2>11 DEF OpenAsOffered
  <2>13. M!OfferedAsMeant'
         BY <2>3, <2>4, <1>a DEF M!OfferedAsMeant, PaymentRecord
  <2>14. M!CreditedAsOffered'
         BY <2>3, <1>a DEF M!CreditedAsOffered
  <2> QED
      BY <2>7, <2>8, <2>10, <2>12, <2>13, <2>14 DEF SaleInv
<1>4. CASE UNCHANGED <<plan, patch, payment, meant, torn, edited>>
      BY <1>4, <1>a DEF SaleInv, SaleTypes, RowsAreMeant, CallsAreFresh,
         OpenAsOffered, M!OfferedAsMeant, M!CreditedAsOffered, M!Exists
<1>5. ASSUME NEW i \in Invoices, NEW q \in PaymentRecord,
             payment' = [payment EXCEPT ![i] = q],
             UNCHANGED <<plan, patch, meant, torn, edited>>,
             M!Exists(q.plan),
             \/ q.plan \in torn
             \/ \E row \in meant[q.plan] :
                   row.price = q.price /\ row.size = q.size,
             i \in edited \/ /\ q.status # "credited" =>
                                  /\ plan[q.plan].active
                                  /\ plan[q.plan].size = q.size
                             /\ q.status = "credited" => q.credited = q.size
      PROVE SaleInv'
  <2>1. /\ payment'[i] = q
        /\ \A j \in Invoices \ {i} : payment'[j] = payment[j]
        BY <1>5, <1>a DEF SaleTypes
  <2>2. SaleTypes' /\ RowsAreMeant' /\ CallsAreFresh'
        BY <1>5, <1>a DEF SaleTypes, RowsAreMeant, CallsAreFresh, M!Exists
  <2>3. OpenAsOffered'
        BY <1>5, <2>1, <1>a DEF OpenAsOffered, M!Exists
  <2>4. M!OfferedAsMeant'
        BY <1>5, <2>1, <1>a DEF M!OfferedAsMeant
  <2>5. M!CreditedAsOffered'
        BY <1>5, <2>1, <1>a DEF M!CreditedAsOffered
  <2> QED
      BY <2>2, <2>3, <2>4, <2>5 DEF SaleInv
<1>6. ASSUME NEW i \in Invoices, NEW p \in M!Plans, M!OnBuyPick(i, p)
      PROVE SaleInv'
  <2> DEFINE q == [status |-> "pending", plan |-> p, price |-> plan[p].price,
                   size |-> plan[p].size, credited |-> 0]
  <2>1. /\ plan[p].active /\ payment' = [payment EXCEPT ![i] = q]
        /\ UNCHANGED <<plan, patch, meant, torn, edited>>
        BY <1>6 DEF M!OnBuyPick
  <2>2. M!Exists(p) /\ plan[p] \in M!Rows
        BY <2>1, <1>a DEF SaleTypes, M!Exists, M!Absent
  <2>3. q \in PaymentRecord
        BY <2>2 DEF PaymentRecord, M!Rows
  <2>4. p \in torn \/ plan[p] \in meant[p]
        BY <2>2, <1>a DEF RowsAreMeant
  <2> QED
      BY <1>5, <2>1, <2>2, <2>3, <2>4
<1>7. ASSUME NEW i \in Invoices, M!MarkPaid(i)
      PROVE SaleInv'
  <2> DEFINE q == [payment[i] EXCEPT !.status = "paid"]
  <2>1. /\ payment[i].status = "pending"
        /\ payment' = [payment EXCEPT ![i] = q]
        /\ UNCHANGED <<plan, patch, meant, torn, edited>>
        BY <1>7 DEF M!MarkPaid
  <2>2. payment[i] # M!NoPayment /\ payment[i] \in PaymentRecord
        BY <2>1, <1>a DEF M!NoPayment
  <2>3. /\ q \in PaymentRecord /\ q.status = "paid"
        /\ q.plan = payment[i].plan /\ q.price = payment[i].price
        /\ q.size = payment[i].size
        BY <2>2 DEF PaymentRecord
  <2>4. /\ M!Exists(payment[i].plan)
        /\ i \in edited \/ /\ plan[payment[i].plan].active
                           /\ plan[payment[i].plan].size = payment[i].size
        BY <2>1, <2>2, <1>a DEF OpenAsOffered
  <2>5. \/ payment[i].plan \in torn
        \/ \E row \in meant[payment[i].plan] :
              row.price = payment[i].price /\ row.size = payment[i].size
        BY <2>2, <1>a DEF M!OfferedAsMeant
  <2> HIDE DEF q
  <2> QED
      BY <1>5, <2>1, <2>3, <2>4, <2>5
<1>8. ASSUME NEW i \in Invoices, M!Credit(i)
      PROVE SaleInv'
  <2> DEFINE p == payment[i].plan
             n == IF plan[p].active THEN plan[p].size ELSE 0
             q == [payment[i] EXCEPT !.status = "credited", !.credited = n]
  <2>1. /\ payment[i].status = "paid"
        /\ payment' = [payment EXCEPT ![i] = q]
        /\ UNCHANGED <<plan, patch, meant, torn, edited>>
        BY <1>8 DEF M!Credit, M!PlanOf
  <2>2. payment[i] # M!NoPayment /\ payment[i] \in PaymentRecord
        BY <2>1, <1>a DEF M!NoPayment
  <2>3. /\ M!Exists(p) /\ plan[p] \in M!Rows
        /\ i \in edited \/ /\ plan[p].active
                           /\ plan[p].size = payment[i].size
        BY <2>1, <2>2, <1>a DEF OpenAsOffered, PaymentRecord
  <2>4. n \in Sizes \cup {0}
        BY <2>3 DEF M!Rows
  <2>5. i \in edited \/ n = payment[i].size
        BY <2>3
  <2> HIDE DEF n
  <2>6. /\ q \in PaymentRecord /\ q.status = "credited" /\ q.credited = n
        /\ q.plan = p /\ q.price = payment[i].price
        /\ q.size = payment[i].size
        BY <2>2, <2>4 DEF PaymentRecord
  <2>7. \/ p \in torn
        \/ \E row \in meant[p] :
              row.price = payment[i].price /\ row.size = payment[i].size
        BY <2>2, <1>a DEF M!OfferedAsMeant
  <2> HIDE DEF q
  <2> QED
      BY <1>5, <2>1, <2>3, <2>5, <2>6, <2>7
<1> QED
    BY <1>1, <1>2, <1>3, <1>4, <1>6, <1>7, <1>8 DEF M!Next, M!ShowBuyMenu, planVars

LEMMA SalesRun ==
    [PlatformNext]_platformVars => UNCHANGED part /\ [M!Next]_planVars
<1> SUFFICES ASSUME [PlatformNext]_platformVars
             PROVE  UNCHANGED part /\ [M!Next]_planVars
    OBVIOUS
<1>1. CASE UNCHANGED platformVars
    BY <1>1 DEF platformVars
<1>2. CASE PlatformNext
    BY <1>2 DEF PlatformNext, Only
<1> QED
    BY <1>1, <1>2

(* Whatever the number of plans, of calls that edit them and of invoices,  *)
(* an invoice offers a row that somebody meant and is credited what it     *)
(* offered, unless its plan was torn or edited meanwhile.                  *)
THEOREM SalesAreFair == PlatformSpec => []SoldAsOffered
<1>1. PlatformInit => (part = "plans" => SaleInv)
    BY SaleInit DEF PlatformInit
<1>2. (part = "plans" => SaleInv) /\ [PlatformNext]_platformVars
      => (part = "plans" => SaleInv)'
    BY SalesRun, SaleNext
<1>3. (part = "plans" => SaleInv) => SoldAsOffered
    BY DEF SaleInv, SoldAsOffered, M!SoldAsOffered
<1> QED
    BY <1>1, <1>2, <1>3, PTL DEF PlatformSpec
-----------------------------------------------------------------------------
(* BirthProfile.                                                           *)

Known == Values \cup Places \cup {B!None} \cup B!Fields
         \cup {Zone[p] : p \in Places} \cup {b.value : b \in BirthBodies}
         \cup {b.place : b \in BirthBodies} \cup {b.coords : b \in BirthBodies}
         \cup {b.zone : b \in BirthBodies}
ProfileRow == [B!Columns -> Known]
ProfileSave == [op : {"none", "save", "clear"}, new : ProfileRow,
                read : ProfileRow, about : SUBSET B!Columns,
                body : BirthBodies \cup {B!NoBody}, overtaken : BOOLEAN]

BirthTypes ==
    /\ profile \in ProfileRow
    /\ data \in [B!Keys -> Known]
    /\ profileCall \in [B!Calls -> ProfileSave]
    /\ placeTorn \in BOOLEAN

Whole(row) == row.coords = row.place /\ row.zone = Zone[row.place]
AsSaved(row, body) ==
    IF body = B!NoBody THEN Whole(row)
    ELSE \A col \in B!PlaceColumns : row[col] = body[col]
SavesPlace(k) == k.about \cap B!PlaceColumns # {}

(* What a dialogue asks next tells which answers it has got.               *)
Answered ==
    LET given(f) == data[f] # B!None IN
    /\ profileChat = "birth_date" => given("full_name")
    /\ profileChat = "birth_time" => given("full_name") /\ given("birth_date")
    /\ profileChat \in {"birth_place", "birth_place_confirm"} =>
          \A f \in B!Fields : given(f)
    /\ profileChat = "awaiting_value" => data.field \in B!Fields
    /\ profileChat \in {"birth_place_confirm", "place_confirm"} => shown \in Places
    /\ profileChat = "birth_place_confirm" =>
          data.birth_place = shown /\ data.coords = shown /\ data.zone = Zone[shown]
    /\ profileChat = "place_confirm" =>
          data.place = shown /\ data.coords = shown /\ data.zone = Zone[shown]

(* A save changes what it is about, and a place that no other save of a    *)
(* place came before is the one it has read.                               *)
SavesKnow ==
    \A c \in B!Calls : LET k == profileCall[c] IN
       k.op = "save" =>
          /\ \A col \in B!Columns \ k.about : k.new[col] = k.read[col]
          /\ SavesPlace(k) =>
                /\ AsSaved(k.new, k.body) /\ k.new.place # B!None
                /\ ~k.overtaken =>
                      \A col \in B!PlaceColumns : k.read[col] = profile[col]
          /\ ~SavesPlace(k) \/ k.read.place # B!None => profile.place # B!None

ProfileWhole ==
    /\ profile = B!NoProfile \/ profile.place # B!None
    /\ profile # B!NoProfile /\ ~placeTorn => AsSaved(profile, sent)

BirthInv == BirthTypes /\ Answered /\ SavesKnow /\ ProfileWhole

LEMMA NoneKnown ==
    /\ B!NoProfile \in ProfileRow /\ B!NoData \in [B!Keys -> Known]
    /\ B!Idle \in ProfileSave /\ B!Idle.op = "none"
    /\ \A op \in {"none", "clear"} : /\ [B!Idle EXCEPT !.op = op] \in ProfileSave
                                     /\ [B!Idle EXCEPT !.op = op].op = op
<1>1. B!NoProfile \in ProfileRow /\ B!NoData \in [B!Keys -> Known]
    BY DEF B!NoProfile, B!NoData, ProfileRow, Known
<1> QED
    BY <1>1 DEF B!Idle, ProfileSave

LEMMA BirthInit == B!Init => BirthInv
<1> SUFFICES ASSUME B!Init PROVE BirthInv
    OBVIOUS
<1>1. BirthTypes
    BY NoneKnown DEF B!Init, BirthTypes
<1>2. Answered /\ ProfileWhole
    BY DEF B!Init, Answered, ProfileWhole
<1>3. SavesKnow
    BY NoneKnown DEF B!Init, SavesKnow
<1> QED
    BY <1>1, <1>2, <1>3 DEF BirthInv

(* The dialogue goes on, and no save is under way with it.                 *)
LEMMA DialogueMoves ==
    ASSUME BirthInv, data' \in [B!Keys -> Known], Answered',
           UNCHANGED <<profile, profileCall, placeTorn, sent>>
    PROVE  BirthInv' /\ B!EditStep
<1>1. BirthTypes' /\ SavesKnow' /\ ProfileWhole'
    BY DEF BirthInv, BirthTypes, SavesKnow, SavesPlace, ProfileWhole, AsSaved, Whole
<1>2. B!EditStep
    BY DEF B!EditStep
<1> QED
    BY <1>1, <1>2 DEF BirthInv

(* A save begins.                                                          *)
LEMMA SaveBegins ==
    ASSUME BirthInv, NEW c \in B!Calls, NEW row \in ProfileRow,
           NEW about \in SUBSET B!Columns, NEW body \in BirthBodies \cup {B!NoBody},
           B!BeginWith(c, row, about, body),
           \A col \in B!Columns \ about : row[col] = profile[col],
           about \cap B!PlaceColumns # {} =>
              AsSaved(row, body) /\ row.place # B!None,
           about \cap B!PlaceColumns = {} => profile.place # B!None,
           data' \in [B!Keys -> Known], Answered',
           UNCHANGED <<profile, placeTorn, sent>>
    PROVE  BirthInv' /\ B!EditStep
<1> DEFINE k == [B!Idle EXCEPT !.op = "save", !.new = row, !.read = profile,
                               !.about = about, !.body = body]
<1>1. /\ profile \in ProfileRow /\ profileCall \in [B!Calls -> ProfileSave]
      /\ placeTorn \in BOOLEAN
    BY DEF BirthInv, BirthTypes
<1>2. /\ k \in ProfileSave /\ k.op = "save" /\ k.new = row /\ k.read = profile
      /\ k.about = about /\ k.body = body
    BY <1>1 DEF B!Idle, ProfileSave
<1>3. profileCall' = [profileCall EXCEPT ![c] = k] /\ profileCall[c] = B!Idle
    BY DEF B!BeginWith
<1> HIDE DEF k
<1>4. BirthTypes'
    BY <1>1, <1>2, <1>3 DEF BirthTypes
<1>5. SavesKnow'
    <2> SUFFICES ASSUME NEW d \in B!Calls, profileCall'[d].op = "save"
                 PROVE  LET m == profileCall'[d] IN
                    /\ \A col \in B!Columns \ m.about : m.new[col] = m.read[col]
                    /\ SavesPlace(m) =>
                          /\ AsSaved(m.new, m.body) /\ m.new.place # B!None
                          /\ ~m.overtaken =>
                                \A col \in B!PlaceColumns : m.read[col] = profile[col]
                    /\ ~SavesPlace(m) \/ m.read.place # B!None =>
                          profile.place # B!None
        BY DEF SavesKnow, SavesPlace, AsSaved, Whole
    <2>1. CASE d = c
        <3>1. profileCall'[d] = k
            BY <1>1, <1>3, <2>1
        <3> QED
            BY <1>2, <3>1 DEF SavesPlace
    <2>2. CASE d # c
        <3>1. profileCall'[d] = profileCall[d]
            BY <1>1, <1>3, <2>2
        <3> QED
            BY <3>1 DEF BirthInv, SavesKnow
    <2> QED
        BY <2>1, <2>2
<1>6. ProfileWhole'
    BY DEF BirthInv, ProfileWhole, AsSaved, Whole
<1>7. B!EditStep
    BY <1>1, <1>2, <1>3, NoneKnown DEF B!EditStep
<1> QED
    BY <1>4, <1>5, <1>6, <1>7 DEF BirthInv

(* A save ends, and nothing is written.                                    *)
LEMMA SaveEnds ==
    ASSUME BirthInv, NEW c \in B!Calls,
           profileCall' = [profileCall EXCEPT ![c] = B!Idle],
           UNCHANGED <<profile, placeTorn, sent>>, data' \in [B!Keys -> Known],
           Answered'
    PROVE  BirthInv' /\ B!EditStep
<1>1. profileCall \in [B!Calls -> ProfileSave]
    BY DEF BirthInv, BirthTypes
<1>2. BirthTypes'
    BY <1>1, NoneKnown DEF BirthInv, BirthTypes
<1>3. SavesKnow'
    BY <1>1, NoneKnown DEF BirthInv, SavesKnow, SavesPlace, AsSaved, Whole
<1>4. ProfileWhole'
    BY DEF BirthInv, ProfileWhole, AsSaved, Whole
<1>5. B!EditStep
    BY <1>1, NoneKnown DEF B!EditStep
<1> QED
    BY <1>2, <1>3, <1>4, <1>5 DEF BirthInv

LEMMA SaveKeeps ==
    ASSUME BirthInv, NEW c \in B!Calls, B!Save(c)
    PROVE  BirthInv' /\ B!EditStep
<1> DEFINE k == profileCall[c]
           places == SavesPlace(k)
           over(d) == [profileCall[d] EXCEPT !.overtaken = TRUE]
<1>1. /\ profile \in ProfileRow /\ profileCall \in [B!Calls -> ProfileSave]
      /\ placeTorn \in BOOLEAN /\ k \in ProfileSave
    BY DEF BirthInv, BirthTypes
<1>2. /\ k.op = "save" /\ profile' = B!Written(k)
      /\ ~places => UNCHANGED <<placeTorn, sent>>
      /\ places => placeTorn' = k.overtaken /\ sent' = k.body
      /\ UNCHANGED <<profileChat, data, shown>>
    BY DEF B!Save, SavesPlace
<1>3. ASSUME NEW d \in B!Calls
      PROVE  profileCall'[d] = IF d = c
                               THEN [B!Idle EXCEPT !.op = IF c = B!Bot THEN "clear"
                                                          ELSE "none"]
                               ELSE IF profileCall[d].op = "save" /\ places
                               THEN over(d) ELSE profileCall[d]
    BY DEF B!Save, SavesPlace
<1>4. (IF c = B!Bot THEN "clear" ELSE "none") \in {"none", "clear"}
    OBVIOUS
<1>5. /\ \A col \in B!Columns \ k.about : k.new[col] = k.read[col]
      /\ places =>
            /\ AsSaved(k.new, k.body) /\ k.new.place # B!None
            /\ ~k.overtaken => \A col \in B!PlaceColumns : k.read[col] = profile[col]
      /\ ~places \/ k.read.place # B!None => profile.place # B!None
    BY <1>2 DEF BirthInv, SavesKnow
<1>6. \A col \in B!Columns :
         profile'[col] = IF k.new[col] = k.read[col] THEN profile[col] ELSE k.new[col]
    BY <1>2 DEF B!Written
<1>7. profile' \in ProfileRow
    BY <1>1, <1>2 DEF B!Written, ProfileRow, ProfileSave
<1>8. \A col \in B!Columns \ k.about : profile'[col] = profile[col]
    BY <1>5, <1>6
<1>9. {"place", "coords", "zone"} = B!PlaceColumns /\ B!PlaceColumns \subseteq B!Columns
    BY DEF B!PlaceColumns, B!Columns
<1>10. ~places => \A col \in B!PlaceColumns : profile'[col] = profile[col]
    BY <1>8, <1>9 DEF SavesPlace
<1>11. profile'.place # B!None
    BY <1>5, <1>6, <1>9, <1>10
<1>12. ASSUME NEW d \in B!Calls, d # c
       PROVE  /\ profileCall'[d] \in ProfileSave
              /\ UNCHANGED <<profileCall[d].op, profileCall[d].new,
                             profileCall[d].read, profileCall[d].about,
                             profileCall[d].body>>
              /\ profileCall[d].op = "save" /\ ~profileCall'[d].overtaken =>
                    ~places /\ ~profileCall[d].overtaken
    <2>1. CASE profileCall[d].op = "save" /\ places
        <3>1. profileCall'[d] = over(d) /\ profileCall[d] \in ProfileSave
            BY <1>1, <1>3, <1>12, <2>1
        <3> QED
            BY <3>1 DEF ProfileSave
    <2>2. CASE ~(profileCall[d].op = "save" /\ places)
        <3>1. profileCall'[d] = profileCall[d]
            BY <1>3, <1>12, <2>2
        <3> QED
            BY <1>1, <2>2, <3>1
    <2> QED
        BY <2>1, <2>2
<1>13. profileCall'[c] \in ProfileSave /\ profileCall'[c].op # "save"
    BY <1>3, <1>4, NoneKnown
<1>14. BirthTypes'
    <2>1. profileCall' \in [B!Calls -> ProfileSave]
        BY <1>12, <1>13 DEF B!Save
    <2>2. placeTorn' \in BOOLEAN
        BY <1>1, <1>2 DEF ProfileSave
    <2> QED
        BY <1>2, <1>7, <2>1, <2>2 DEF BirthInv, BirthTypes
<1>15. SavesKnow'
    <2> SUFFICES ASSUME NEW d \in B!Calls, profileCall'[d].op = "save"
                 PROVE  LET m == profileCall'[d] IN
                    /\ \A col \in B!Columns \ m.about : m.new[col] = m.read[col]
                    /\ SavesPlace(m) =>
                          /\ AsSaved(m.new, m.body) /\ m.new.place # B!None
                          /\ ~m.overtaken =>
                                \A col \in B!PlaceColumns : m.read[col] = profile'[col]
                    /\ ~SavesPlace(m) \/ m.read.place # B!None =>
                          profile'.place # B!None
        BY DEF SavesKnow, SavesPlace, AsSaved, Whole
    <2> DEFINE m == profileCall[d]
    <2>1. d # c
        BY <1>13
    <2>2. /\ m.op = "save"
          /\ \A col \in B!Columns \ m.about : m.new[col] = m.read[col]
          /\ SavesPlace(m) =>
                /\ AsSaved(m.new, m.body) /\ m.new.place # B!None
                /\ ~m.overtaken =>
                      \A col \in B!PlaceColumns : m.read[col] = profile[col]
        BY <1>12, <2>1 DEF BirthInv, SavesKnow
    <2> QED
        BY <1>10, <1>11, <1>12, <2>1, <2>2 DEF SavesPlace, AsSaved, Whole
<1>16. ProfileWhole'
    <2>1. CASE places
        <3>1. ~placeTorn' => \A col \in B!PlaceColumns : profile'[col] = k.new[col]
            BY <1>2, <1>5, <1>6, <1>9, <2>1
        <3> QED
            BY <1>2, <1>5, <1>9, <1>11, <2>1, <3>1 DEF ProfileWhole, AsSaved, Whole
    <2>2. CASE ~places
        <3>1. profile # B!NoProfile
            BY <1>5, <2>2, <1>9 DEF B!NoProfile
        <3> QED
            BY <1>2, <1>9, <1>10, <1>11, <2>2, <3>1
               DEF BirthInv, ProfileWhole, AsSaved, Whole
    <2> QED
        BY <2>1, <2>2
<1>17. Answered'
    BY <1>2 DEF BirthInv, Answered
<1>18. B!EditStep
    <2>1. CASE c = B!Bot
        BY <1>8, <2>1 DEF B!EditStep
    <2>2. CASE c # B!Bot
        <3>1. B!Bot \in B!Calls
            BY DEF B!Calls
        <3> QED
            BY <1>12, <2>2, <3>1 DEF B!EditStep
    <2> QED
        BY <2>1, <2>2
<1> QED
    BY <1>14, <1>15, <1>16, <1>17 , <1>18 DEF BirthInv

LEMMA BirthNext == BirthInv /\ [B!Next]_birthVars => BirthInv' /\ B!EditStep
<1> SUFFICES ASSUME BirthInv, [B!Next]_birthVars PROVE BirthInv' /\ B!EditStep
    OBVIOUS
<1>1. /\ data \in [B!Keys -> Known] /\ profile \in ProfileRow /\ Answered
      /\ B!Bot \in B!Calls
    BY DEF BirthInv, BirthTypes, B!Calls
<1>2. /\ B!Keys = {"full_name", "birth_date", "birth_time", "birth_place", "place",
                   "coords", "zone", "field"}
      /\ B!Fields = {"full_name", "birth_date", "birth_time"}
      /\ B!PlaceColumns = {"place", "coords", "zone"}
      /\ B!Columns = {"full_name", "birth_date", "birth_time", "place", "coords",
                      "zone"}
    BY DEF B!Keys, B!Fields, B!PlaceColumns, B!Columns
<1>3. /\ Values \subseteq Known \ {B!None} /\ Places \subseteq Known \ {B!None}
      /\ B!Fields \subseteq Known /\ \A p \in Places : Zone[p] \in Known
      /\ \A b \in BirthBodies : /\ b.value \in Known /\ b.place \in Known
                                /\ b.coords \in Known /\ b.zone \in Known
                                /\ b.place # B!None /\ b # B!NoBody
    <2>1. \A b \in BirthBodies : b.value # B!None /\ b.place # B!None
        BY BirthAssumption DEF B!PlaceColumns
    <2>2. B!NoBody.value = B!None
        BY DEF B!NoBody
    <2> QED
        BY <2>1, <2>2, BirthAssumption DEF Known
<1>4. ASSUME NEW state, profileChat' = state,
             state \in {"full_name", "awaiting_place", "other"}, data' = data
      PROVE  data' \in [B!Keys -> Known] /\ Answered'
    BY <1>1, <1>4 DEF Answered
<1>5. CASE \/ B!StartOnboarding \/ B!OnEditPlace \/ B!OnPlaceRetry
           \/ B!OtherDialogue
    BY <1>4, <1>5, DialogueMoves
       DEF B!StartOnboarding, B!OnEditPlace, B!OnPlaceRetry, B!OtherDialogue,
           B!Answers, B!GoesTo
<1>6. CASE B!OnGeoRetry
    <2>1. Answered'
        BY <1>1, <1>6 DEF B!OnGeoRetry, B!GoesTo, Answered
    <2> QED
        BY <1>1, <1>6, <2>1, DialogueMoves DEF B!OnGeoRetry, B!Answers, B!GoesTo
<1>7. CASE B!OnCancel
    <2>1. data' = B!NoData /\ Answered'
        BY <1>7 DEF B!OnCancel, B!Cleared, Answered
    <2> QED
        BY <1>7, <2>1, NoneKnown, DialogueMoves DEF B!OnCancel, B!Answers
<1>8. CASE B!Clear
    <2>1. data' = B!NoData /\ Answered'
        BY <1>8 DEF B!Clear, B!Cleared, Answered
    <2> QED
        BY <1>1, <1>8, <2>1, NoneKnown, SaveEnds DEF B!Clear
<1>9. ASSUME NEW v \in Values, B!OnAnswer(v) PROVE BirthInv' /\ B!EditStep
    <2>1. /\ profileChat \in B!Fields /\ data' = [data EXCEPT ![profileChat] = v]
          /\ profileChat' = B!After(profileChat)
        BY <1>9 DEF B!OnAnswer, B!GoesTo
    <2>2. data' \in [B!Keys -> Known]
        BY <1>1, <1>2, <1>3, <2>1
    <2>3. data'[profileChat] # B!None
          /\ \A f \in B!Fields \ {profileChat} : data'[f] = data[f]
        BY <1>1, <1>2, <1>3, <2>1
    <2>4. Answered'
        BY <1>1, <1>2, <2>1, <2>3 DEF Answered, B!After
    <2> QED
        BY <1>9, <2>2, <2>4, DialogueMoves DEF B!OnAnswer, B!Answers, B!GoesTo
<1>10. ASSUME NEW key \in {"birth_place", "place"}, NEW p \in Places,
              data' = B!WithPlace(key, p)
       PROVE  /\ data' \in [B!Keys -> Known]
              /\ data'[key] = p /\ data'.coords = p /\ data'.zone = Zone[p]
              /\ \A f \in B!Fields \cup {"field"} : data'[f] = data[f]
    BY <1>1, <1>2, <1>3, <1>10 DEF B!WithPlace
<1>11. ASSUME NEW p \in Places, B!OnPlaceText(p) PROVE BirthInv' /\ B!EditStep
    <2>1. /\ profileChat = "birth_place" /\ profileChat' = "birth_place_confirm"
          /\ shown' = p /\ data' = B!WithPlace("birth_place", p)
        BY <1>11 DEF B!OnPlaceText, B!GoesTo
    <2>2. Answered'
        BY <1>1, <1>10, <2>1 DEF Answered
    <2> QED
        BY <1>10, <1>11, <2>1, <2>2, DialogueMoves
           DEF B!OnPlaceText, B!Answers, B!GoesTo
<1>12. ASSUME NEW p \in Places, B!OnEditPlaceText(p) PROVE BirthInv' /\ B!EditStep
    <2>1. /\ profileChat' = "place_confirm"
          /\ shown' = p /\ data' = B!WithPlace("place", p)
        BY <1>12 DEF B!OnEditPlaceText, B!GoesTo
    <2>2. Answered'
        BY <1>10, <2>1 DEF Answered
    <2> QED
        BY <1>10, <1>12, <2>1, <2>2, DialogueMoves
           DEF B!OnEditPlaceText, B!Answers, B!GoesTo
<1>13. ASSUME NEW f \in B!Fields, B!OnEdit(f) PROVE BirthInv' /\ B!EditStep
    <2>1. profileChat' = "awaiting_value" /\ data' = [data EXCEPT !.field = f]
        BY <1>13 DEF B!OnEdit, B!GoesTo
    <2>2. data' \in [B!Keys -> Known] /\ data'.field = f
        BY <1>1, <1>2, <1>3, <2>1
    <2>3. Answered'
        BY <2>1, <2>2 DEF Answered
    <2> QED
        BY <1>13, <2>2, <2>3, DialogueMoves DEF B!OnEdit, B!Answers, B!GoesTo
<1>14. ASSUME NEW d \in [B!Keys -> Known]
       PROVE  /\ B!Collected(d) \in ProfileRow
              /\ B!Collected(d).place = d.birth_place
              /\ B!Collected(d).coords = d.coords /\ B!Collected(d).zone = d.zone
    BY <1>2 DEF B!Collected, ProfileRow
<1>15. ASSUME NEW p \in Places, B!OnPlaceLocation(p) PROVE BirthInv' /\ B!EditStep
    <2>1. /\ data' = B!WithPlace("birth_place", p) /\ profileChat = "birth_place"
          /\ B!BeginWith(B!Bot, B!Collected(data'), B!Columns, B!NoBody)
          /\ UNCHANGED <<profileChat, shown, profile, placeTorn, sent>>
        BY <1>15 DEF B!OnPlaceLocation, B!Answers, B!Begin
    <2>2. /\ AsSaved(B!Collected(data'), B!NoBody)
          /\ B!Collected(data').place # B!None
        BY <1>3, <1>10, <1>14, <2>1 DEF AsSaved, Whole
    <2>3. Answered'
        BY <1>1, <1>10, <2>1 DEF Answered
    <2>4. B!Columns \cap B!PlaceColumns # {}
        BY <1>2
    <2> QED
        BY <1>1, <1>10, <1>14, <2>1, <2>2, <2>3, <2>4, SaveBegins
<1>16. CASE B!OnGeoConfirm
    <2>1. /\ profileChat = "birth_place_confirm"
          /\ B!BeginWith(B!Bot, B!Collected(data), B!Columns, B!NoBody)
          /\ UNCHANGED <<profileChat, data, shown, profile, placeTorn, sent>>
        BY <1>16 DEF B!OnGeoConfirm, B!Answers, B!Begin
    <2>2. /\ AsSaved(B!Collected(data), B!NoBody)
          /\ B!Collected(data).place # B!None
        BY <1>1, <1>3, <1>14, <2>1 DEF AsSaved, Whole, Answered
    <2>3. Answered'
        BY <1>1, <2>1 DEF Answered
    <2>4. B!Columns \cap B!PlaceColumns # {}
        BY <1>2
    <2> QED
        BY <1>1, <1>14, <2>1, <2>2, <2>3, <2>4, SaveBegins
<1>17. ASSUME NEW v \in Values, B!OnEditValue(v) PROVE BirthInv' /\ B!EditStep
    <2> DEFINE row == [profile EXCEPT ![data.field] = v]
    <2>1. /\ profileChat = "awaiting_value" /\ profile # B!NoProfile
          /\ B!BeginWith(B!Bot, row, {data.field}, B!NoBody)
          /\ UNCHANGED <<profileChat, data, shown, profile, placeTorn, sent>>
        BY <1>17 DEF B!OnEditValue, B!Answers, B!Begin
    <2>2. data.field \in B!Fields
        BY <1>1, <2>1 DEF Answered
    <2>3. /\ row \in ProfileRow
          /\ \A col \in B!Columns \ {data.field} : row[col] = profile[col]
        BY <1>1, <1>2, <1>3, <2>2 DEF ProfileRow
    <2>4. {data.field} \cap B!PlaceColumns = {} /\ {data.field} \subseteq B!Columns
        BY <1>2, <2>2
    <2>5. profile.place # B!None
        BY <2>1 DEF BirthInv, ProfileWhole
    <2>6. Answered'
        BY <1>1, <2>1 DEF Answered
    <2> HIDE DEF row
    <2> QED
        BY <1>1, <2>1, <2>3, <2>4, <2>5, <2>6, SaveBegins
<1>18. ASSUME NEW p \in Places, B!SavePlace(p, p, Zone[p]), B!Answers,
              UNCHANGED <<profileChat, data, shown>>
       PROVE  BirthInv' /\ B!EditStep
    <2> DEFINE row == [profile EXCEPT !.place = p, !.coords = p, !.zone = Zone[p]]
    <2>1. /\ B!BeginWith(B!Bot, row, B!PlaceColumns, B!NoBody)
          /\ UNCHANGED <<profile, placeTorn, sent>>
        BY <1>18 DEF B!SavePlace, B!Answers, B!Begin
    <2>2. /\ row \in ProfileRow /\ row.place = p /\ row.coords = p /\ row.zone = Zone[p]
          /\ \A col \in B!Columns \ B!PlaceColumns : row[col] = profile[col]
        BY <1>1, <1>2, <1>3 DEF ProfileRow
    <2>3. B!PlaceColumns \cap B!PlaceColumns # {} /\ B!PlaceColumns \subseteq B!Columns
        BY <1>2
    <2>4. Answered'
        BY <1>1, <1>18 DEF Answered
    <2> HIDE DEF row
    <2> QED
        BY <1>1, <1>3, <1>18, <2>1, <2>2, <2>3, <2>4, SaveBegins DEF AsSaved, Whole
<1>19. ASSUME NEW p \in Places, B!OnEditPlaceLocation(p)
       PROVE  BirthInv' /\ B!EditStep
    BY <1>18, <1>19 DEF B!OnEditPlaceLocation
<1>20. CASE B!OnPlaceConfirm
    <2>1. /\ shown \in Places /\ data.place = shown /\ data.coords = shown
          /\ data.zone = Zone[shown]
        BY <1>1, <1>20 DEF B!OnPlaceConfirm, Answered
    <2> QED
        BY <1>18, <1>20, <2>1 DEF B!OnPlaceConfirm
<1>21. ASSUME NEW c \in ProfileCalls, NEW b \in BirthBodies, B!Put(c, b)
       PROVE  BirthInv' /\ B!EditStep
    <2> DEFINE row == [k \in B!Columns |-> IF k \in B!Fields THEN b.value ELSE b[k]]
    <2>1. /\ B!BeginWith(c, row, B!Columns, b) /\ c \in B!Calls
          /\ UNCHANGED <<profile, profileChat, data, shown, placeTorn, sent>>
        BY <1>21 DEF B!Put, B!Calls
    <2>2. /\ row \in ProfileRow /\ row.place = b.place /\ row.coords = b.coords
          /\ row.zone = b.zone
        BY <1>2, <1>3 DEF ProfileRow
    <2>3. AsSaved(row, b) /\ row.place # B!None
        BY <1>2, <1>3, <2>2 DEF AsSaved
    <2>4. B!Columns \cap B!PlaceColumns # {}
        BY <1>2
    <2>5. Answered'
        BY <1>1, <2>1 DEF Answered
    <2> HIDE DEF row
    <2> QED
        BY <1>1, <2>1, <2>2, <2>3, <2>4, <2>5, SaveBegins
<1>22. ASSUME NEW c \in B!Calls, B!SaveFails(c) PROVE BirthInv' /\ B!EditStep
    <2>1. Answered'
        BY <1>1, <1>22 DEF B!SaveFails, Answered
    <2> QED
        BY <1>1, <1>22, <2>1, SaveEnds DEF B!SaveFails
<1>23. CASE UNCHANGED birthVars
    <2>1. Answered'
        BY <1>1, <1>23 DEF birthVars, Answered
    <2> QED
        BY <1>1, <1>23, <2>1, DialogueMoves DEF birthVars
<1>24. CASE B!Next
    BY <1>5, <1>6, <1>7, <1>8, <1>9, <1>11, <1>12, <1>13, <1>15, <1>16, <1>17,
       <1>19, <1>20, <1>21, <1>22, <1>24, SaveKeeps DEF B!Next
<1> QED
    BY <1>23, <1>24

LEMMA BirthsRun ==
    [PlatformNext]_platformVars =>
       UNCHANGED part /\ [part = "births" /\ B!Next]_birthVars
BY DEF PlatformNext, platformVars, Only

LEMMA BirthSafe == PlatformSpec => [](part = "births" => BirthInv)
<1>1. PlatformInit => (part = "births" => BirthInv)
    BY BirthInit DEF PlatformInit
<1>2. (part = "births" => BirthInv) /\ [PlatformNext]_platformVars
      => (part = "births" => BirthInv)'
    BY BirthsRun, BirthNext
<1> QED
    BY <1>1, <1>2, PTL DEF PlatformSpec

(* The place, the coordinates and the timezone of a profile are what the   *)
(* geocoder says if the bot saved it last, and what the call sent if one   *)
(* of the route did, unless saves of the place overlapped; and a           *)
(* confirmation saves the place that was shown last                        *)
(* (domain/natal_profiles.py 32-47, api/routes/me.py 79-97, onboarding.py).*)
THEOREM PlaceStaysWhole == PlatformSpec => []PlaceIsWhole
<1>1. BirthInv => B!PlaceIsWhole
    BY DEF BirthInv, ProfileWhole, AsSaved, Whole, B!PlaceIsWhole
<1>2. BirthInv => B!ConfirmsWhatWasShown
    BY DEF BirthInv, Answered, B!ConfirmsWhatWasShown, B!Collected, B!Columns,
           B!Fields, B!PlaceColumns
<1>3. (part = "births" => BirthInv) => PlaceIsWhole
    BY <1>1, <1>2 DEF PlaceIsWhole
<1> QED
    BY <1>3, BirthSafe, PTL

(* An edit in the bot undoes no change made since it read the row          *)
(* (bot/handlers/profile.py 46-80).                                        *)
THEOREM EditsAreLocal == PlatformSpec => EditsOnlyItsField
<1>1. (part = "births" => BirthInv) /\ [PlatformNext]_platformVars
      => [part = "births" => B!EditStep]_platformVars
    BY BirthsRun, BirthNext
<1> QED
    BY <1>1, BirthSafe, PTL DEF PlatformSpec, EditsOnlyItsField

-----------------------------------------------------------------------------
(* Divination.                                                             *)

Drawings == {<<>>} \cup D!Spreads \cup {<<c>> : c \in Casts}
ReadingHandler ==
    [step : {"off", "draw", "charged", "created", "drawn", "clear"},
     kind : D!Kinds \cup {D!None}, asked : D!Said,
     row : Readings \cup {D!None}]
ReadingTypes ==
    /\ handler \in ReadingHandler
    /\ rows \in [Readings -> [kind : D!Kinds \cup {D!None}, draw : Drawings]]
    /\ told \in [Readings -> SUBSET Drawings]
    /\ jobs \subseteq Readings
    /\ kind \in D!Kinds \cup {D!None}

Safe(q) == q.flags \cap D!Unsafe = {} /\ q.advice \notin D!Advice

(* The handler knows its row, which has a draw from the step that saves it *)
(* on, and never changes after a job has told it.                          *)
HandlerKnows ==
    /\ handler.step \in {"draw", "charged", "created", "drawn"} =>
          handler.kind \in D!Kinds /\ Safe(handler.asked)
    /\ handler.step \in {"created", "drawn"} => handler.row \in Readings
    /\ handler.step = "created" =>
          rows[handler.row].kind = handler.kind /\ rows[handler.row].draw = <<>>
    /\ handler.step = "drawn" => rows[handler.row].draw # <<>>

DrawnBeforeTold ==
    \A r \in Readings :
       /\ told[r] \subseteq {rows[r].draw}
       /\ told[r] # {} \/ r \in jobs => rows[r].draw # <<>>
       /\ rows[r].kind = "tarot" => rows[r].draw \in D!Spreads \cup {<<>>}

ReadingInv == ReadingTypes /\ HandlerKnows /\ DrawnBeforeTold

LEMMA ReadingInit == D!Init => ReadingInv
<1> SUFFICES ASSUME D!Init PROVE ReadingInv
    OBVIOUS
<1>1. D!NoReading \in [kind : D!Kinds \cup {D!None}, draw : Drawings]
      /\ D!NoReading.kind # "tarot" /\ D!NoReading.draw = <<>>
    BY DEF D!NoReading, D!None, Drawings
<1>2. D!Off \in ReadingHandler
    BY DEF D!Off, D!NoQuestion, D!Said, D!Failed, D!None, ReadingHandler
<1>5. ReadingTypes
    BY <1>1, <1>2 DEF D!Init, ReadingTypes
<1>3. HandlerKnows
    BY DEF D!Init, D!Off, HandlerKnows
<1>4. DrawnBeforeTold
    BY <1>1 DEF D!Init, DrawnBeforeTold
<1> QED
    BY <1>3, <1>4, <1>5 DEF ReadingInv

(* A draw is something, and a spread of the tarot is of three cards.       *)
LEMMA DrawsSomething ==
    /\ \A k \in D!Kinds : \A d \in D!Draws(k) : d # <<>> /\ d \in Drawings
    /\ D!Draws("tarot") = D!Spreads
    /\ \A d \in D!Spreads : D!Cardinality({d[i].id : i \in 1..3}) = 3
<1>1. ASSUME NEW d \in D!Spreads
      PROVE  d # <<>> /\ D!Cardinality({d[i].id : i \in 1..3}) = 3
    <2>1. PICK s \in [1..3 -> Cards], turned \in {{}, {2, 3}} :
             /\ D!Cardinality(D!ToSet(s)) = 3
             /\ d = [i \in 1..3 |-> [id |-> s[i], reversed |-> i \in turned]]
        BY DEF D!Spreads
    <2>2. DOMAIN d = 1..3 /\ \A i \in 1..3 : d[i].id = s[i]
        BY <2>1
    <2>3. d # <<>>
        BY <2>2
    <2>4. {d[i].id : i \in 1..3} = D!ToSet(s)
        BY <2>1, <2>2 DEF D!ToSet
    <2> QED
        BY <2>1, <2>3, <2>4
<1>2. ASSUME NEW c \in Casts PROVE <<c>> # <<>>
    OBVIOUS
<1> QED
    BY <1>1, <1>2 DEF D!Draws, D!Kinds, Drawings

(* Whatever the classifiers say, what is found safe was not flagged.       *)
LEMMA SafeIsNotFlagged ==
    ASSUME NEW q \in D!Said, ~D!Raises(q), D!Moderate(q) = "safe"
    PROVE  Safe(q)
<1>1. D!Unsafe = {"sexual_minors", "self_harm", "violence", "hate"}
    BY DEF D!Unsafe, D!ToSet, D!Severity
<1>2. ASSUME NEW flags, D!Tier1(flags) = "safe"
      PROVE  flags \cap D!Unsafe = {}
    <2> DEFINE hits == {i \in DOMAIN D!Severity : D!Severity[i] \in flags}
    <2> SUFFICES ASSUME hits # {} PROVE FALSE
        BY <1>1, <1>2 DEF D!Severity
    <2>1. D!Severity[D!Min(hits)] = "safe"
        BY <1>2 DEF D!Tier1
    <2>2. hits \subseteq 1..4
        BY DEF D!Severity
    <2>3. \E i \in hits : \A j \in hits : i =< j
        BY <2>2
    <2>4. D!Min(hits) \in hits
        BY <2>3 DEF D!Min
    <2> QED
        BY <2>1, <2>2, <2>4 DEF D!Severity
<1>3. D!Said = [flags : {{}, {"hate"}, {"hate", "self_harm"}, {"error"}},
                advice : {"safe", "medical", "error"}]
    BY DEF D!Said, D!Failed
<1> QED
    BY <1>1, <1>2, <1>3 DEF D!Raises, D!Moderate, D!Failed, D!Advice, Safe

LEMMA ReadingNext ==
    ASSUME ReadingInv, [D!Next]_readingVars
    PROVE  ReadingInv'
<1> USE DEF ReadingInv
<1>1. ReadingTypes /\ HandlerKnows /\ DrawnBeforeTold
    OBVIOUS
<1>2. D!Off \in ReadingHandler /\ D!Off.step = "off"
    BY DEF D!Off, D!NoQuestion, D!Said, D!Failed, D!None, ReadingHandler
\* A handler that is at an end, or has not begun, knows nothing.
<1>3. ASSUME handler' \in ReadingHandler, handler'.step \in {"off", "clear"},
             UNCHANGED rows, kind' \in D!Kinds \cup {D!None}
      PROVE  HandlerKnows'
    BY <1>3 DEF HandlerKnows
<1>4. ASSUME NEW at \in {"draw", "charged", "created", "drawn", "clear"},
             D!Goes(at)
      PROVE  /\ handler' \in ReadingHandler /\ handler'.step = at
             /\ handler'.kind = handler.kind /\ handler'.asked = handler.asked
             /\ handler'.row = handler.row
    BY <1>1, <1>4 DEF D!Goes, ReadingTypes, ReadingHandler
<1>5. ASSUME UNCHANGED <<rows, told>>, jobs' \subseteq jobs
      PROVE  DrawnBeforeTold'
    BY <1>1, <1>5 DEF DrawnBeforeTold
\* The dialogue, with nothing of the reading begun.
<1>6. ASSUME NEW k \in D!Kinds, D!OnChoice(k) PROVE ReadingInv'
    BY <1>1, <1>3, <1>5, <1>6
       DEF D!OnChoice, D!Handles, D!Off, ReadingTypes
<1>7. ASSUME D!OnCancel PROVE ReadingInv'
    BY <1>1, <1>3, <1>5, <1>7
       DEF D!OnCancel, D!Handles, D!Off, ReadingTypes
<1>8. ASSUME NEW q \in D!Said, Safe(q), kind # D!None,
             handler' = [step |-> "draw", kind |-> kind, asked |-> q,
                         row |-> D!None]
      PROVE  handler' \in ReadingHandler
             /\ (UNCHANGED <<kind, rows>> => HandlerKnows')
    BY <1>1, <1>8 DEF ReadingTypes, ReadingHandler, HandlerKnows
<1>9. ASSUME D!OnSkip PROVE ReadingInv'
    <2>1. D!NoQuestion \in D!Said /\ Safe(D!NoQuestion)
        BY DEF D!NoQuestion, D!Said, D!Failed, D!Advice, Safe
    <2>2. handler' = [step |-> "draw", kind |-> kind,
                      asked |-> D!NoQuestion, row |-> D!None]
        BY <1>9 DEF D!OnSkip, D!Off
    <2>3. handler' \in ReadingHandler /\ HandlerKnows'
        BY <1>8, <1>9, <2>1, <2>2 DEF D!OnSkip
    <2> QED
        BY <1>1, <1>5, <1>9, <2>3 DEF D!OnSkip, ReadingTypes
<1>10. ASSUME NEW q \in D!Said, D!OnQuestion(q) PROVE ReadingInv'
    <2>1. UNCHANGED <<kind, credits, rows, jobs, told>>
        BY <1>10 DEF D!OnQuestion
    <2>2. CASE UNCHANGED handler
        BY <1>1, <1>3, <1>5, <1>10, <2>1, <2>2
           DEF D!OnQuestion, D!Handles, D!Off, ReadingTypes
    <2>3. CASE handler' = [D!Off EXCEPT !.step = "clear"]
        <3>1. handler' \in ReadingHandler /\ handler'.step = "clear"
            BY <1>2, <2>3 DEF ReadingHandler
        <3> QED
            BY <1>1, <1>3, <1>5, <2>1, <3>1 DEF ReadingTypes
    <2>4. CASE /\ ~D!Raises(q) /\ D!Moderate(q) = "safe"
               /\ handler' = [D!Off EXCEPT !.step = "draw", !.kind = kind,
                                            !.asked = q]
        <3>1. handler' = [step |-> "draw", kind |-> kind, asked |-> q,
                          row |-> D!None]
            BY <2>4 DEF D!Off
        <3>2. handler' \in ReadingHandler /\ HandlerKnows'
            BY <3>1, <1>8, <1>10, <2>1, <2>4, SafeIsNotFlagged DEF D!OnQuestion
        <3> QED
            BY <1>1, <1>5, <2>1, <3>2 DEF ReadingTypes
    <2> QED
        BY <1>10, <2>2, <2>3, <2>4 DEF D!OnQuestion
\* The steps of the charge, the row and its draw.
<1>11. ASSUME D!Charge PROVE ReadingInv'
    <2>1. handler.step = "draw" /\ UNCHANGED <<kind, rows, jobs, told>>
          /\ (D!Goes("charged") \/ D!Goes("clear"))
        BY <1>11 DEF D!Charge
    <2> QED
        BY <1>1, <1>4, <1>5, <2>1 DEF ReadingTypes, HandlerKnows
<1>12. ASSUME NEW r \in Readings, D!CreateReading(r) PROVE ReadingInv'
    <2> USE <1>12 DEF D!CreateReading
    <2>1. handler.kind \in D!Kinds /\ Safe(handler.asked)
        BY <1>1 DEF HandlerKnows
    <2>2. /\ rows'[r].kind = handler.kind /\ rows'[r].draw = <<>>
          /\ rows' \in [Readings -> [kind : D!Kinds \cup {D!None},
                                     draw : Drawings]]
        BY <1>1, <2>1 DEF ReadingTypes, D!NoReading
    <2>3. \A s \in Readings : rows'[s].draw = rows[s].draw
                               /\ (s # r => rows'[s] = rows[s])
        BY <1>1, <2>2 DEF ReadingTypes, D!NoReading
    <2>4. handler' \in ReadingHandler /\ handler'.step = "created"
          /\ handler'.kind = handler.kind /\ handler'.asked = handler.asked
          /\ handler'.row = r
        BY <1>1 DEF ReadingTypes, ReadingHandler
    <2>5. HandlerKnows'
        BY <2>1, <2>2, <2>4 DEF HandlerKnows
    <2>6. DrawnBeforeTold'
        BY <1>1, <2>2, <2>3 DEF DrawnBeforeTold
    <2> QED
        BY <1>1, <2>2, <2>4, <2>5, <2>6 DEF ReadingTypes
<1>13. ASSUME D!SaveDraw PROVE ReadingInv'
    <2> DEFINE r == handler.row
    <2>1. handler.step = "created" /\ D!Goes("drawn")
          /\ UNCHANGED <<kind, credits, jobs, told>>
        BY <1>13 DEF D!SaveDraw
    <2>2. r \in Readings /\ rows[r].kind = handler.kind
          /\ rows[r].draw = <<>> /\ handler.kind \in D!Kinds
        BY <1>1, <2>1 DEF HandlerKnows
    <2>3. PICK d \in D!Draws(handler.kind) :
             rows' = [rows EXCEPT ![r].draw = d]
        BY <1>13 DEF D!SaveDraw
    <2>4. d # <<>> /\ d \in Drawings
          /\ (handler.kind = "tarot" => d \in D!Spreads)
        BY <2>2, <2>3, DrawsSomething
    <2>5. /\ rows' \in [Readings -> [kind : D!Kinds \cup {D!None},
                                     draw : Drawings]]
          /\ rows'[r].draw = d /\ rows'[r].kind = handler.kind
          /\ \A s \in Readings : s # r => rows'[s] = rows[s]
        BY <1>1, <2>2, <2>3, <2>4 DEF ReadingTypes
    <2>6. told[r] = {}
        BY <1>1, <2>2 DEF DrawnBeforeTold
    <2>7. DrawnBeforeTold'
        BY <1>1, <2>1, <2>2, <2>4, <2>5, <2>6 DEF DrawnBeforeTold
    <2>8. HandlerKnows'
        BY <1>1, <1>4, <2>1, <2>2, <2>4, <2>5 DEF HandlerKnows
    <2> QED
        BY <1>1, <1>4, <2>1, <2>5, <2>7, <2>8 DEF ReadingTypes
<1>14. ASSUME D!Enqueue PROVE ReadingInv'
    <2>1. /\ handler.step = "drawn" /\ jobs' = jobs \cup {handler.row}
          /\ D!Goes("clear") /\ UNCHANGED <<kind, rows, told>>
        BY <1>14 DEF D!Enqueue
    <2>2. handler.row \in Readings /\ rows[handler.row].draw # <<>>
        BY <1>1, <2>1 DEF HandlerKnows
    <2>3. DrawnBeforeTold'
        BY <1>1, <2>1, <2>2 DEF DrawnBeforeTold
    <2> QED
        BY <1>1, <1>3, <1>4, <2>1, <2>2, <2>3 DEF ReadingTypes
<1>15. ASSUME D!EnqueueRaises PROVE ReadingInv'
    BY <1>1, <1>3, <1>4, <1>5, <1>15 DEF D!EnqueueRaises, ReadingTypes
<1>16. ASSUME D!Clear \/ D!HandlerDies PROVE ReadingInv'
    <2>1. handler' = D!Off /\ UNCHANGED <<rows, jobs, told>>
          /\ kind' \in {kind, D!None}
        BY <1>16 DEF D!Clear, D!HandlerDies
    <2> QED
        BY <1>1, <1>2, <1>3, <1>5, <2>1 DEF ReadingTypes
\* What the job tells is what the row holds.
<1>17. ASSUME NEW r \in Readings, D!Tell(r) PROVE ReadingInv'
    <2>1. /\ told' \in [Readings -> SUBSET Drawings]
          /\ told'[r] = told[r] \cup {rows[r].draw}
          /\ \A s \in Readings : s # r => told'[s] = told[s]
        BY <1>1, <1>17 DEF D!Tell, ReadingTypes
    <2>2. r \in jobs /\ UNCHANGED <<kind, handler, rows, jobs>>
        BY <1>17 DEF D!Tell
    <2>3. DrawnBeforeTold'
        BY <1>1, <2>1, <2>2 DEF DrawnBeforeTold
    <2>4. HandlerKnows'
        BY <1>1, <2>2 DEF HandlerKnows
    <2> QED
        BY <1>1, <2>1, <2>2, <2>3, <2>4 DEF ReadingTypes
<1>18. ASSUME NEW r \in Readings, D!JobEnds(r) PROVE ReadingInv'
    <2>1. jobs' \subseteq jobs /\ UNCHANGED <<kind, handler, rows, told>>
        BY <1>18 DEF D!JobEnds
    <2> QED
        BY <1>1, <1>5, <2>1 DEF ReadingTypes, HandlerKnows
<1>19. CASE UNCHANGED readingVars
    BY <1>1, <1>5, <1>19 DEF readingVars, ReadingTypes, HandlerKnows
<1>20. CASE D!Next
    BY <1>6, <1>7, <1>9, <1>10, <1>11, <1>12, <1>13, <1>14, <1>15, <1>16, <1>17,
       <1>18, <1>20 DEF D!Next, D!Acts
<1> QED
    BY <1>19, <1>20

LEMMA ReadingsRun ==
    [PlatformNext]_platformVars =>
       UNCHANGED part /\ [part = "readings" /\ D!Next]_readingVars
BY DEF PlatformNext, platformVars, Only

(* No question that a classifier flagged is charged, and a job tells what  *)
(* the row of its reading holds, however often it runs                     *)
(* (handlers/divination.py 108-280, moderation/classifier.py 52-119).      *)
THEOREM ReadingsAreAsked == PlatformSpec => []ReadingAsAsked
<1>1. PlatformInit => (part = "readings" => ReadingInv)
    BY ReadingInit DEF PlatformInit
<1>2. (part = "readings" => ReadingInv) /\ [PlatformNext]_platformVars
      => (part = "readings" => ReadingInv)'
    BY ReadingsRun, ReadingNext
<1>3. ASSUME ReadingInv PROVE D!FlaggedIsNotCharged
    BY <1>3 DEF ReadingInv, HandlerKnows, Safe, D!FlaggedIsNotCharged
<1>4. ASSUME ReadingInv PROVE D!ToldAsDrawn
    <2> SUFFICES ASSUME NEW r \in Readings
                 PROVE  /\ told[r] \subseteq {rows[r].draw}
                        /\ told[r] # {} /\ rows[r].kind = "tarot" =>
                              D!Cardinality({rows[r].draw[i].id : i \in 1..3}) = 3
                        /\ r \in jobs => rows[r].draw # <<>>
        BY DEF D!ToldAsDrawn
    <2> QED
        BY <1>4, DrawsSomething DEF ReadingInv, DrawnBeforeTold
<1>5. (part = "readings" => ReadingInv) => ReadingAsAsked
    BY <1>3, <1>4 DEF ReadingAsAsked, D!ReadingAsAsked
<1> QED
    BY <1>1, <1>2, <1>5, PTL DEF PlatformSpec

-----------------------------------------------------------------------------
(* GiftScreen.                                                             *)

\* The sums of the instance are those that Sums is about.
LEMMA GiftSum ==
    ASSUME NEW f, NEW X
    PROVE  G!SumFunctionOnSet(f, X) = SumFunctionOnSet(f, X)
BY DEF G!SumFunctionOnSet, G!FoldFunctionOnSet, G!MapThenFoldSet,
       SumFunctionOnSet, FoldFunctionOnSet, MapThenFoldSet

GiftRow == [amount : Nat, status : {"active", "claimed", "refunded"},
            expires : Int, shown : BOOLEAN]

GiftStep == [op : {"none", "amount", "locked", "show", "hide", "sweep"},
             amount : Nat, swept : SUBSET Nat, beside : Nat]

GiftTypes ==
    /\ day \in Int /\ days \in Int
    /\ balance \in Nat /\ spent \in Nat /\ awaiting \in Nat
    /\ gifts \in Seq(GiftRow)
    /\ step \in GiftStep
    /\ undone \in Nat /\ packages \in Nat

AmountOf(list) == [i \in DOMAIN list |-> list[i].amount]
Standing(list) == {i \in DOMAIN list : list[i].status # "refunded"}
InGifts(list) == SumFunctionOnSet(AmountOf(list), Standing(list))

(* What a sweep under way has read: the balance, of which only charges     *)
(* have been taken since, and rows that stay open.                         *)
SweepRead ==
    /\ step.amount = balance + step.beside
    /\ step.swept \subseteq {i \in DOMAIN gifts : gifts[i].status = "active"}

(* The lock of the balance keeps what the check has found until the        *)
(* commit, the answer is about a gift that is there, the packages never    *)
(* hold more than the balance or less than what is owed, and the charges   *)
(* that a sweep may write over are not written over yet.                   *)
GiftInv ==
    /\ GiftTypes
    /\ step.op = "locked" => balance >= step.amount
    /\ step.op \in {"show", "hide"} => Len(gifts) > 0
    /\ step.op = "sweep" => SweepRead
    /\ packages <= balance
    /\ Purse <= packages + spent + InGifts(gifts)
    /\ balance + spent + InGifts(gifts) <= Purse + undone
    /\ undone + step.beside <= spent

LEMMA RowsOfGifts ==
    ASSUME NEW list \in Seq(GiftRow)
    PROVE  /\ IsFiniteSet(DOMAIN list)
           /\ \A i \in DOMAIN list : AmountOf(list)[i] = list[i].amount
                                     /\ AmountOf(list)[i] \in Nat
<1>1. DOMAIN list = 1..Len(list) /\ Len(list) \in Nat
    OBVIOUS
<1>2. \A i \in DOMAIN list : list[i] \in GiftRow
    OBVIOUS
<1> QED
    BY <1>1, <1>2, FS_Interval DEF GiftRow, AmountOf

LEMMA GiftsAreAmounts ==
    ASSUME NEW list \in Seq(GiftRow), NEW X \in SUBSET DOMAIN list
    PROVE  SumFunctionOnSet(AmountOf(list), X) \in Nat
<1>1. IsFiniteSet(X) /\ \A i \in X : AmountOf(list)[i] \in Nat
    BY RowsOfGifts, FS_Subset
<1> QED
    BY <1>1, SumNat

LEMMA GiftInit == G!Init => GiftInv
<1> SUFFICES ASSUME G!Init
             PROVE  GiftInv
    OBVIOUS
<1>1. /\ day = 0 /\ days \in ExpiryDays /\ balance = Purse /\ spent = 0
      /\ packages = Purse
      /\ gifts = <<>> /\ awaiting = 0 /\ undone = 0
      /\ step = [op |-> "none", amount |-> 0, swept |-> {}, beside |-> 0]
    BY DEF G!Init, G!NoStep
<1>2. Standing(gifts) = {}
    BY <1>1 DEF Standing
<1>3. InGifts(gifts) = 0
    BY <1>2, SumEmpty DEF InGifts
<1>4. gifts \in Seq(GiftRow)
    BY <1>1
<1> QED
    BY <1>1, <1>3, <1>4, GiftAssumption DEF GiftInv, GiftTypes, GiftStep

(* Rows whose amounts and whose standing have not changed hold as much.    *)
LEMMA SameGifts ==
    ASSUME NEW list, NEW new, DOMAIN new = DOMAIN list,
           \A i \in DOMAIN list :
              /\ new[i].amount = list[i].amount
              /\ new[i].status = "refunded" <=> list[i].status = "refunded"
    PROVE  InGifts(new) = InGifts(list)
<1>1. AmountOf(new) = AmountOf(list)
    BY DEF AmountOf
<1>2. Standing(new) = Standing(list)
    BY DEF Standing
<1> QED
    BY <1>1, <1>2 DEF InGifts

LEMMA OneMoreGift ==
    ASSUME NEW list \in Seq(GiftRow), NEW g \in GiftRow, g.status = "active"
    PROVE  /\ Append(list, g) \in Seq(GiftRow)
           /\ InGifts(Append(list, g)) = InGifts(list) + g.amount
<1> DEFINE new == Append(list, g)
           n == Len(list) + 1
<1>1. /\ new \in Seq(GiftRow) /\ DOMAIN new = DOMAIN list \cup {n}
      /\ n \notin DOMAIN list /\ new[n] = g
      /\ \A i \in DOMAIN list : new[i] = list[i]
    OBVIOUS
<1> HIDE DEF new, n
<1>2. Standing(new) = Standing(list) \cup {n} /\ n \notin Standing(list)
    BY <1>1 DEF Standing
<1>3. /\ IsFiniteSet(Standing(new)) /\ IsFiniteSet(Standing(list))
      /\ \A i \in Standing(new) : AmountOf(new)[i] \in Int
    <2>1. Standing(new) \in SUBSET DOMAIN new /\ Standing(list) \in SUBSET DOMAIN list
        BY DEF Standing
    <2> QED
        BY <1>1, <2>1, RowsOfGifts, FS_Subset
<1>4. InGifts(new)
        = AmountOf(new)[n] + SumFunctionOnSet(AmountOf(new), Standing(new) \ {n})
    <2>1. n \in Standing(new)
        BY <1>2
    <2> QED
        BY <1>3, <2>1, SumMember DEF InGifts
<1>5. Standing(new) \ {n} = Standing(list)
    BY <1>2
<1>6. AmountOf(new)[n] = g.amount
    BY <1>1 DEF AmountOf
<1>7. \A i \in Standing(list) : /\ AmountOf(list)[i] \in Int
                                /\ AmountOf(new)[i] = AmountOf(list)[i]
    <2>1. \A i \in Standing(list) : i \in DOMAIN list
        BY DEF Standing
    <2> QED
        BY <1>1, <2>1, RowsOfGifts
<1>8. SumFunctionOnSet(AmountOf(list), Standing(list))
        = SumFunctionOnSet(AmountOf(new), Standing(list))
    BY <1>3, <1>7, SumSame
<1>9. InGifts(list) \in Nat /\ g.amount \in Nat
    <2>1. Standing(list) \in SUBSET DOMAIN list
        BY DEF Standing
    <2> QED
        BY <2>1, GiftsAreAmounts DEF InGifts, GiftRow
<1>10. SumFunctionOnSet(AmountOf(new), Standing(new) \ {n}) = InGifts(list)
    BY <1>5, <1>8 DEF InGifts
<1>11. InGifts(new) = g.amount + InGifts(list)
    BY <1>4, <1>6, <1>10
<1>12. InGifts(new) = InGifts(list) + g.amount
    BY <1>9, <1>11
<1> QED
    BY <1>1, <1>12 DEF new

LEMMA OneGiftChanged ==
    ASSUME NEW list \in Seq(GiftRow), NEW k \in DOMAIN list, NEW g \in GiftRow
    PROVE  /\ [list EXCEPT ![k] = g] \in Seq(GiftRow)
           /\ Len([list EXCEPT ![k] = g]) = Len(list)
OBVIOUS

(* The sweep returns what it takes out of the gifts.                       *)
LEMMA SweepReturns ==
    ASSUME GiftTypes, SweepRead, NEW new,
           new = [i \in DOMAIN gifts |->
                     IF i \in step.swept
                     THEN [gifts[i] EXCEPT !.status = "refunded"]
                     ELSE gifts[i]]
    PROVE  /\ new \in Seq(GiftRow)
           /\ G!Amounts(step.swept) \in Nat
           /\ InGifts(gifts) = InGifts(new) + G!Amounts(step.swept)
<1> DEFINE lapsed == step.swept
<1>1. gifts \in Seq(GiftRow) /\ DOMAIN gifts = 1..Len(gifts) /\ Len(gifts) \in Nat
    BY DEF GiftTypes
<1>2. \A i \in DOMAIN gifts : gifts[i] \in GiftRow
    BY <1>1
<1>3. \A i \in DOMAIN gifts :
         /\ new[i] \in GiftRow /\ new[i].amount = gifts[i].amount
         /\ new[i].status = IF i \in lapsed THEN "refunded" ELSE gifts[i].status
    BY <1>2 DEF GiftRow
<1>4. new \in Seq(GiftRow) /\ DOMAIN new = DOMAIN gifts
    BY <1>1, <1>3
<1>5. AmountOf(new) = AmountOf(gifts)
    BY <1>3, <1>4 DEF AmountOf
<1>6. /\ lapsed \in SUBSET DOMAIN gifts
      /\ Standing(new) \in SUBSET DOMAIN gifts
      /\ Standing(new) \cap lapsed = {}
      /\ Standing(gifts) = Standing(new) \cup lapsed
    BY <1>3, <1>4 DEF Standing, SweepRead
<1>7. G!Amounts(lapsed) = SumFunctionOnSet(AmountOf(gifts), lapsed)
    BY GiftSum DEF G!Amounts, AmountOf
<1> HIDE DEF lapsed
<1>8. IsFiniteSet(DOMAIN gifts) /\ \A i \in DOMAIN gifts : AmountOf(gifts)[i] \in Int
    BY <1>1, RowsOfGifts
<1>9. InGifts(gifts) = SumFunctionOnSet(AmountOf(gifts), Standing(new))
                         + SumFunctionOnSet(AmountOf(gifts), lapsed)
    <2> DEFINE indices == DOMAIN gifts
               amount == AmountOf(gifts)
               left == Standing(new)
    <2>1. /\ IsFiniteSet(indices) /\ \A i \in indices : amount[i] \in Int
          /\ left \in SUBSET indices /\ lapsed \in SUBSET indices
          /\ left \cap lapsed = {}
        BY <1>6, <1>8
    <2> HIDE DEF indices, amount, left
    <2>2. SumFunctionOnSet(amount, left \cup lapsed)
            = SumFunctionOnSet(amount, left) + SumFunctionOnSet(amount, lapsed)
        BY <2>1, SumApart
    <2> QED
        BY <1>6, <2>2 DEF InGifts, amount, left
<1>10. G!Amounts(lapsed) \in Nat
    BY <1>1, <1>6, <1>7, GiftsAreAmounts
<1>11. InGifts(gifts) = InGifts(new) + G!Amounts(lapsed)
    BY <1>5, <1>7, <1>9 DEF InGifts
<1> QED
    BY <1>4, <1>10, <1>11 DEF lapsed

LEMMA GiftNext == GiftInv /\ [G!Next]_giftVars => GiftInv'
<1> SUFFICES ASSUME GiftInv, [G!Next]_giftVars
             PROVE  GiftInv'
    OBVIOUS
<1>1. /\ day \in Int /\ days \in Int
      /\ balance \in Nat /\ spent \in Nat /\ awaiting \in Nat
      /\ gifts \in Seq(GiftRow)
      /\ step \in GiftStep /\ step.amount \in Nat /\ step.beside \in Nat
      /\ undone \in Nat /\ packages \in Nat /\ Purse \in Nat
    BY GiftAssumption DEF GiftInv, GiftTypes, GiftStep
<1>2. /\ step.op = "locked" => balance >= step.amount
      /\ step.op \in {"show", "hide"} => Len(gifts) > 0
      /\ step.op = "sweep" => SweepRead
      /\ packages <= balance
      /\ Purse <= packages + spent + InGifts(gifts)
      /\ balance + spent + InGifts(gifts) <= Purse + undone
      /\ undone + step.beside <= spent
    BY DEF GiftInv
<1>3. InGifts(gifts) \in Nat
    <2>1. Standing(gifts) \in SUBSET DOMAIN gifts
        BY DEF Standing
    <2> QED
        BY <1>1, <2>1, GiftsAreAmounts DEF InGifts
<1>4. UNCHANGED gifts => InGifts(gifts)' = InGifts(gifts)
    OBVIOUS
<1>5. G!NoStep \in GiftStep /\ G!NoStep.op = "none" /\ G!NoStep.beside = 0
    BY DEF G!NoStep, GiftStep
\* A step that moves no credit, and leaves no sweep under way or the one there.
<1>6. ASSUME UNCHANGED <<balance, packages, spent, gifts, undone>>,
              day' \in Int, days' \in Int, awaiting' \in Nat,
              step' \in GiftStep, step'.beside <= step.beside,
              step'.op = "locked" => balance >= step'.amount,
              step'.op \in {"show", "hide"} => Len(gifts) > 0,
              step'.op = "sweep" => SweepRead'
       PROVE  GiftInv'
    <2>1. step'.beside \in Nat
        BY <1>6 DEF GiftStep
    <2>2. undone' + step'.beside <= spent'
        BY <1>1, <1>2, <1>6, <2>1
    <2>3. GiftTypes'
        BY <1>1, <1>6 DEF GiftTypes
    <2> QED
        BY <1>2, <1>4, <1>6, <2>2, <2>3 DEF GiftInv
<1>7. UNCHANGED <<step, balance, gifts>> =>
           /\ step'.op = "locked" => balance >= step'.amount
           /\ step'.op \in {"show", "hide"} => Len(gifts) > 0
           /\ step'.op = "sweep" => SweepRead'
    BY <1>2 DEF SweepRead
\* The dialogue and the lock move no credit.
<1>8. CASE G!OnGiftCreate
    <2>1. awaiting' \in Nat
        BY <1>1, <1>8, GiftAssumption DEF G!OnGiftCreate, G!Least
    <2>2. UNCHANGED <<day, days, balance, packages, spent, gifts, step, undone>>
        BY <1>8 DEF G!OnGiftCreate
    <2> QED
        BY <1>1, <1>6, <1>7, <2>1, <2>2
<1>9. CASE G!OnGiftCancel
    <2>1. awaiting' = 0 /\ UNCHANGED <<day, days, balance, packages, spent, gifts, step, undone>>
        BY <1>9 DEF G!OnGiftCancel
    <2> QED
        BY <1>1, <1>6, <1>7, <2>1
<1>10. ASSUME NEW n \in 1..MaxGift, G!OnAmountReceived(n)
      PROVE  GiftInv'
    <2>1. n \in Nat
        BY GiftAssumption
    <2>2. /\ step' = [op |-> "amount", amount |-> n, swept |-> {}, beside |-> 0]
          /\ UNCHANGED <<day, days, balance, packages, spent, gifts, awaiting, undone>>
        BY <1>10 DEF G!OnAmountReceived, G!NoStep
    <2>3. step' \in GiftStep /\ step'.op = "amount" /\ step'.beside = 0
        BY <2>1, <2>2 DEF GiftStep
    <2> QED
        BY <1>1, <1>6, <2>2, <2>3
<1>11. CASE G!LockBalance
    <2>1. /\ step.op = "amount" /\ balance >= step.amount
          /\ step' = [step EXCEPT !.op = "locked"]
          /\ UNCHANGED <<day, days, balance, packages, spent, gifts, awaiting, undone>>
        BY <1>11 DEF G!LockBalance
    <2>2. /\ step' \in GiftStep /\ step'.op = "locked"
          /\ step'.amount = step.amount /\ step'.beside = step.beside
        BY <1>1, <2>1 DEF GiftStep
    <2> QED
        BY <1>1, <1>6, <2>1, <2>2
<1>12. CASE G!LockBalanceFails
    <2>1. /\ step' = G!NoStep /\ awaiting' = 0
          /\ UNCHANGED <<day, days, balance, packages, spent, gifts, undone>>
        BY <1>12 DEF G!LockBalanceFails
    <2> QED
        BY <1>1, <1>5, <1>6, <2>1
<1>13. CASE G!CreateGift
    <2> DEFINE g == [amount |-> step.amount, status |-> "active",
                     expires |-> day + days, shown |-> FALSE]
    <2>1. /\ step.op = "locked" /\ balance' = packages'
          /\ packages' = IF packages < step.amount THEN 0 ELSE packages - step.amount
          /\ gifts' = Append(gifts, g)
          /\ step' = [step EXCEPT !.op = IF named THEN "show" ELSE "hide"]
          /\ UNCHANGED <<day, days, spent, awaiting, undone>>
        BY <1>1, <1>13 DEF G!CreateGift, G!Drained, G!Least
    <2>2. g \in GiftRow /\ g.status = "active" /\ g.amount = step.amount
        BY <1>1 DEF GiftRow
    <2> HIDE DEF g
    <2>3. /\ gifts' \in Seq(GiftRow)
          /\ InGifts(gifts)' = InGifts(gifts) + step.amount
        BY <1>1, <2>1, <2>2, OneMoreGift
    <2>4. Len(gifts') > 0
        BY <1>1, <2>1, <2>2
    <2>5. /\ balance' \in Nat /\ packages' \in Nat /\ packages' <= balance'
          /\ Purse <= packages' + spent' + InGifts(gifts)'
          /\ balance' + spent' + InGifts(gifts)' <= Purse + undone'
        <3> DEFINE before == InGifts(gifts)
                   after == InGifts(gifts)'
                   amount == step.amount
        <3>1. /\ balance \in Nat /\ packages \in Nat /\ spent \in Nat
              /\ undone \in Nat /\ Purse \in Nat /\ amount \in Nat
              /\ before \in Nat
            BY <1>1, <1>3
        <3>2. /\ packages <= balance /\ Purse <= packages + spent + before
              /\ balance + spent + before <= Purse + undone
              /\ balance >= amount
            BY <1>2, <2>1
        <3>3. /\ balance' = packages'
              /\ packages' = IF packages < amount THEN 0 ELSE packages - amount
              /\ spent' = spent /\ undone' = undone /\ after = before + amount
            BY <2>1, <2>3
        <3> HIDE DEF before, after, amount
        <3>4. /\ balance' \in Nat /\ packages' \in Nat /\ packages' <= balance'
              /\ Purse <= packages' + spent' + after
              /\ balance' + spent' + after <= Purse + undone'
            BY <3>1, <3>2, <3>3
        <3> QED
            BY <3>4 DEF after
    <2>6. /\ step' \in GiftStep /\ step'.beside = step.beside
          /\ step'.op \in {"show", "hide"}
        BY <1>1, <2>1 DEF GiftStep
    <2>7. undone' + step'.beside <= spent'
        BY <1>2, <2>1, <2>6
    <2>8. GiftTypes'
        BY <1>1, <2>1, <2>3, <2>5, <2>6 DEF GiftTypes
    <2> QED
        BY <2>4, <2>5, <2>6, <2>7, <2>8 DEF GiftInv
<1>14. CASE G!Answer
    <2>1. /\ gifts' = [gifts EXCEPT ![Len(gifts)].shown = (step.op = "show")]
          /\ step' = G!NoStep /\ awaiting' = 0
          /\ UNCHANGED <<day, days, balance, packages, spent, undone>>
        BY <1>14 DEF G!Answer
    <2>2. \A i \in DOMAIN gifts : gifts[i] \in GiftRow
        BY <1>1
    <2>3. gifts' \in Seq(GiftRow)
        <3> DEFINE n == Len(gifts)
                   g == [gifts[n] EXCEPT !.shown = (step.op = "show")]
        <3>1. n \in DOMAIN gifts
            BY <1>1, <1>2, <1>14 DEF G!Answer
        <3>2. (step.op = "show") \in BOOLEAN
            OBVIOUS
        <3>3. g \in GiftRow
            BY <2>2, <3>1, <3>2 DEF GiftRow
        <3>4. gifts' = [gifts EXCEPT ![n] = g]
            BY <2>1
        <3> HIDE DEF n, g
        <3> QED
            BY <1>1, <3>1, <3>3, <3>4, OneGiftChanged
    <2>4. /\ DOMAIN gifts' = DOMAIN gifts
          /\ \A i \in DOMAIN gifts :
                /\ gifts'[i].amount = gifts[i].amount
                /\ gifts'[i].status = gifts[i].status
        BY <2>1, <2>2 DEF GiftRow
    <2>5. InGifts(gifts') = InGifts(gifts)
        BY <2>4, SameGifts
    <2>6. undone' + step'.beside <= spent'
        BY <1>1, <1>2, <1>5, <2>1
    <2>7. GiftTypes'
        BY <1>1, <1>5, <2>1, <2>3 DEF GiftTypes
    <2> QED
        BY <1>2, <1>5, <2>1, <2>5, <2>6, <2>7 DEF GiftInv
<1>15. CASE G!ShowGiftScreen
    <2> DEFINE lapsed == {i \in DOMAIN gifts : G!Lapsed(gifts[i])}
    <2>1. /\ step' = [op |-> "sweep", amount |-> balance, swept |-> lapsed, beside |-> 0]
          /\ UNCHANGED <<day, days, balance, packages, spent, gifts, awaiting, undone>>
        BY <1>15 DEF G!ShowGiftScreen, G!NoStep
    <2>2. lapsed \subseteq {i \in DOMAIN gifts : gifts[i].status = "active"}
        BY DEF G!Lapsed
    <2>3. DOMAIN gifts \subseteq Nat
        BY <1>1
    <2> HIDE DEF lapsed
    <2>4. step' \in GiftStep /\ step'.op = "sweep" /\ step'.beside = 0
        BY <1>1, <2>1, <2>2, <2>3 DEF GiftStep
    <2>5. SweepRead'
        BY <1>1, <2>1, <2>2 DEF SweepRead
    <2> QED
        BY <1>1, <1>6, <2>1, <2>4, <2>5
<1>16. CASE G!CommitSweep
    <2> DEFINE back == G!Amounts(step.swept)
    <2>1. /\ gifts' = [i \in DOMAIN gifts |->
                          IF i \in step.swept
                          THEN [gifts[i] EXCEPT !.status = "refunded"]
                          ELSE gifts[i]]
          /\ balance' = step.amount + back /\ packages' = packages + back
          /\ undone' = undone + step.beside
          /\ step.op = "sweep" /\ step' = G!NoStep
          /\ UNCHANGED <<day, days, spent, awaiting>>
        BY <1>16 DEF G!CommitSweep
    <2>2. /\ gifts' \in Seq(GiftRow) /\ back \in Nat
          /\ InGifts(gifts) = InGifts(gifts') + back
        BY <1>2, <2>1, SweepReturns DEF GiftInv
    <2>3. InGifts(gifts') \in Nat
        <3>1. Standing(gifts') \in SUBSET DOMAIN gifts'
            BY DEF Standing
        <3> QED
            BY <2>2, <3>1, GiftsAreAmounts DEF InGifts
    <2>4. step.amount = balance + step.beside
        BY <1>2, <2>1 DEF SweepRead
    <2> HIDE DEF back
    <2>5. /\ balance' \in Nat /\ packages' \in Nat /\ packages' <= balance'
          /\ Purse <= packages' + spent' + InGifts(gifts')
          /\ balance' + spent' + InGifts(gifts') <= Purse + undone'
        <3> DEFINE before == InGifts(gifts)
                   after == InGifts(gifts')
                   read == step.amount
                   charged == step.beside
        <3>1. /\ balance \in Nat /\ packages \in Nat /\ spent \in Nat
              /\ undone \in Nat /\ Purse \in Nat
              /\ read \in Nat /\ charged \in Nat /\ back \in Nat
              /\ before \in Nat /\ after \in Nat
            BY <1>1, <1>3, <2>2, <2>3
        <3>2. /\ packages <= balance /\ Purse <= packages + spent + before
              /\ balance + spent + before <= Purse + undone
              /\ read = balance + charged /\ before = after + back
            BY <1>2, <2>2, <2>4
        <3>3. /\ balance' = read + back /\ packages' = packages + back
              /\ undone' = undone + charged /\ spent' = spent
            BY <2>1
        <3> HIDE DEF before, after, read, charged
        <3>4. /\ balance' \in Nat /\ packages' \in Nat /\ packages' <= balance'
              /\ Purse <= packages' + spent' + after
              /\ balance' + spent' + after <= Purse + undone'
            BY <3>1, <3>2, <3>3
        <3> QED
            BY <3>4 DEF after
    <2>6. undone' \in Nat /\ undone' + step'.beside <= spent'
        BY <1>1, <1>2, <1>5, <2>1
    <2>7. GiftTypes'
        BY <1>1, <1>5, <2>1, <2>2, <2>5, <2>6 DEF GiftTypes
    <2> QED
        BY <1>5, <2>1, <2>5, <2>6, <2>7 DEF GiftInv
<1>17. ASSUME NEW k \in DOMAIN gifts, G!Claim(k)
       PROVE  GiftInv'
    <2>1. /\ gifts' = [gifts EXCEPT ![k].status = "claimed"]
          /\ gifts[k].status = "active" /\ step = G!NoStep
          /\ UNCHANGED <<day, days, balance, packages, spent, awaiting, step, undone>>
        BY <1>17 DEF G!Claim, G!Free
    <2>2. \A i \in DOMAIN gifts : gifts[i] \in GiftRow
        BY <1>1
    <2>3. gifts' \in Seq(GiftRow) /\ Len(gifts') = Len(gifts)
        <3> DEFINE g == [gifts[k] EXCEPT !.status = "claimed"]
        <3>1. g \in GiftRow
            BY <2>2 DEF GiftRow
        <3>2. gifts' = [gifts EXCEPT ![k] = g]
            BY <2>1
        <3> HIDE DEF g
        <3> QED
            BY <1>1, <3>1, <3>2, OneGiftChanged
    <2>4. /\ DOMAIN gifts' = DOMAIN gifts
          /\ \A i \in DOMAIN gifts :
                /\ gifts'[i].amount = gifts[i].amount
                /\ gifts'[i].status = "refunded" <=> gifts[i].status = "refunded"
        BY <2>1, <2>2 DEF GiftRow
    <2>5. InGifts(gifts') = InGifts(gifts)
        BY <2>4, SameGifts
    <2>6. GiftTypes'
        BY <1>1, <2>1, <2>3 DEF GiftTypes
    <2> QED
        BY <1>2, <1>5, <2>1, <2>5, <2>6 DEF GiftInv
\* A charge beside a sweep is one that the sweep will write over.
<1>18. CASE G!Spend
    <2>1. /\ balance > 0 /\ step.op # "locked"
          /\ balance' = balance - 1 /\ spent' = spent + 1
          /\ packages' = IF packages < 1 THEN 0 ELSE packages - 1
          /\ step' = [step EXCEPT !.beside = IF step.op = "sweep"
                                             THEN step.beside + 1
                                             ELSE step.beside]
          /\ UNCHANGED <<day, days, gifts, awaiting, undone>>
        BY <1>1, <1>18 DEF G!Spend, G!Drained, G!Least
    <2>2. /\ step' \in GiftStep /\ step'.op = step.op
          /\ step'.amount = step.amount /\ step'.swept = step.swept
          /\ step'.beside = IF step.op = "sweep" THEN step.beside + 1 ELSE step.beside
        BY <1>1, <2>1 DEF GiftStep
    <2>3. ASSUME step'.op = "sweep"
          PROVE  SweepRead'
        <3>1. /\ step.amount = balance + step.beside
              /\ step.swept \subseteq {i \in DOMAIN gifts : gifts[i].status = "active"}
            BY <1>2, <2>2, <2>3 DEF SweepRead
        <3>2. step'.amount = balance' + step'.beside
            BY <1>1, <2>1, <2>2, <2>3, <3>1
        <3>3. step'.swept \subseteq {i \in DOMAIN gifts' : gifts'[i].status = "active"}
            BY <2>1, <2>2, <3>1
        <3> QED
            BY <3>2, <3>3 DEF SweepRead
    <2>4. /\ packages' \in Nat /\ packages' <= balance'
          /\ Purse <= packages' + spent' + InGifts(gifts)'
          /\ balance' + spent' + InGifts(gifts)' <= Purse + undone'
        <3> DEFINE open == InGifts(gifts)
        <3>1. /\ balance \in Nat /\ packages \in Nat /\ spent \in Nat
              /\ undone \in Nat /\ Purse \in Nat /\ open \in Nat
            BY <1>1, <1>3
        <3>2. /\ packages <= balance /\ Purse <= packages + spent + open
              /\ balance + spent + open <= Purse + undone
            BY <1>2
        <3>3. /\ balance > 0 /\ balance' = balance - 1 /\ spent' = spent + 1
              /\ packages' = IF packages < 1 THEN 0 ELSE packages - 1
              /\ undone' = undone /\ open' = open
            BY <1>4, <2>1
        <3> HIDE DEF open
        <3>4. /\ packages' \in Nat /\ packages' <= balance'
              /\ Purse <= packages' + spent' + open'
              /\ balance' + spent' + open' <= Purse + undone'
            BY <3>1, <3>2, <3>3
        <3> QED
            BY <3>4 DEF open
    <2>5. undone' + step'.beside <= spent'
        <3> DEFINE now == step.beside
                   next == step'.beside
        <3>1. now \in Nat /\ undone \in Nat /\ spent \in Nat /\ undone + now <= spent
            BY <1>1, <1>2
        <3>2. /\ next = now \/ next = now + 1
              /\ spent' = spent + 1 /\ undone' = undone
            BY <2>1, <2>2
        <3> HIDE DEF now, next
        <3>3. undone' + next <= spent'
            BY <3>1, <3>2
        <3> QED
            BY <3>3 DEF next
    <2>6. GiftTypes'
        <3>1. balance' \in Nat /\ spent' \in Nat
            BY <1>1, <2>1
        <3>2. step' \in GiftStep /\ packages' \in Nat
            BY <2>2, <2>4
        <3>3. /\ day' \in Int /\ days' \in Int /\ awaiting' \in Nat
              /\ gifts' \in Seq(GiftRow) /\ undone' \in Nat
            BY <1>1, <2>1
        <3> QED
            BY ONLY <3>1, <3>2, <3>3 DEF GiftTypes
    <2> QED
        BY <1>2, <2>1, <2>2, <2>3, <2>4, <2>5, <2>6 DEF GiftInv
<1>19. ASSUME NEW d \in ExpiryDays, G!SetExpiryDays(d)
       PROVE  GiftInv'
    <2>1. days' \in Int /\ UNCHANGED <<day, balance, packages, spent, gifts, awaiting, step, undone>>
        BY <1>19, GiftAssumption DEF G!SetExpiryDays
    <2> QED
        BY <1>1, <1>6, <1>7, <2>1
<1>20. CASE G!ToggleGifts
    <2>1. UNCHANGED <<day, days, balance, packages, spent, gifts, awaiting, step, undone>>
        BY <1>20 DEF G!ToggleGifts
    <2> QED
        BY <1>1, <1>6, <1>7, <2>1
<1>21. CASE G!NextDay
    <2>1. /\ day' = day + 1
          /\ UNCHANGED <<days, balance, packages, spent, gifts, awaiting, step, undone>>
        BY <1>21 DEF G!NextDay
    <2> QED
        BY <1>1, <1>6, <1>7, <2>1
<1>22. CASE G!WorkerDies
    <2>1. /\ step' = G!NoStep
          /\ UNCHANGED <<day, days, balance, packages, spent, gifts, awaiting, undone>>
        BY <1>22 DEF G!WorkerDies
    <2> QED
        BY <1>1, <1>5, <1>6, <2>1
<1>23. CASE UNCHANGED giftVars
    <2>1. UNCHANGED <<day, days, balance, packages, spent, gifts, awaiting, step, undone>>
        BY <1>23 DEF giftVars
    <2> QED
        BY <1>1, <1>6, <1>7, <2>1
<1> QED
    BY <1>8, <1>9, <1>10, <1>11, <1>12, <1>13, <1>14, <1>15, <1>16, <1>17, <1>18,
       <1>19, <1>20, <1>21, <1>22, <1>23 DEF G!Next

LEMMA GiftRuns ==
    [PlatformNext]_platformVars =>
       UNCHANGED part /\ [part = "gifts" /\ G!Next]_giftVars
BY DEF PlatformNext, platformVars, Only

(* The credits a sender began with are in the balance, spent, or in gifts  *)
(* that stand, whatever dies between the check, the commit and the answer, *)
(* and no balance is below zero.  What there is above them is charges that *)
(* sweeps have written over, at most those made (domain/gifts.py 135-184   *)
(* and 228-280, domain/billing.py 118-124, domain/accounts.py 87-100).     *)
THEOREM NoCreditLost == PlatformSpec => []GiftsAddUp
<1>1. PlatformInit => (part = "gifts" => GiftInv)
    BY GiftInit DEF PlatformInit
<1>2. (part = "gifts" => GiftInv) /\ [PlatformNext]_platformVars
      => (part = "gifts" => GiftInv)'
    BY GiftRuns, GiftNext
<1>3. GiftInv => G!GiftsAddUp
    <2> SUFFICES ASSUME GiftInv
                 PROVE  G!GiftsAddUp
        OBVIOUS
    <2>1. G!Amounts({i \in DOMAIN gifts : gifts[i].status # "refunded"}) = InGifts(gifts)
        BY GiftSum DEF G!Amounts, InGifts, AmountOf, Standing
    <2>2. /\ balance \in Nat /\ spent \in Nat /\ undone \in Nat /\ step.beside \in Nat
          /\ packages \in Nat /\ packages <= balance /\ Purse \in Nat
          /\ Purse <= packages + spent + InGifts(gifts)
          /\ InGifts(gifts) \in Nat
          /\ balance + spent + InGifts(gifts) <= Purse + undone
          /\ undone + step.beside <= spent
        <3>1. Standing(gifts) \in SUBSET DOMAIN gifts /\ gifts \in Seq(GiftRow)
            BY DEF Standing, GiftInv, GiftTypes
        <3>2. InGifts(gifts) \in Nat
            BY <3>1, GiftsAreAmounts DEF InGifts
        <3> QED
            BY <3>2, GiftAssumption DEF GiftInv, GiftTypes, GiftStep
    <2> QED
        BY <2>1, <2>2 DEF G!GiftsAddUp
<1>4. (part = "gifts" => GiftInv) => GiftsAddUp
    BY <1>3 DEF GiftsAddUp
<1> QED
    BY <1>1, <1>2, <1>4, PTL DEF PlatformSpec
=============================================================================
