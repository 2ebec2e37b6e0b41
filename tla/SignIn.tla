------------------------------- MODULE SignIn -------------------------------
(***************************************************************************)
(* How people become accounts, and stay signed in.  A Telegram message     *)
(* finds or creates its sender's account (bot/middleware/account.py,       *)
(* auth/identity.py); a link sent by mail is exchanged for a pair of       *)
(* tokens (api/routes/auth.py, auth/magic_link.py), whose refresh token is *)
(* exchanged for a new one at every use (auth/jwt_tokens.py).              *)
(*                                                                         *)
(* Calls run at once, and each reads first and commits later.  Superadmins *)
(* sign in with the account they have; the tokens of one person are        *)
(* modelled apart from those of the others by who owns them.               *)
(***************************************************************************)
EXTENDS Integers, FiniteSets

CONSTANTS
    Persons,
    Requests,       \* updates and requests that may be handled at once
    Tokens          \* refresh tokens that may be issued

VARIABLES
    identities,     \* account_identities: rows of a person and a provider
    link,           \* persons whose magic token is in Redis
    token,          \* account_refresh_tokens: owner, status, and the login
    request,        \* what each request is about to do
    doubled,        \* history: whom two requests were creating at once
    forked          \* history: logins one of whose tokens was rotated twice

vars == <<identities, link, token, request, doubled, forked>>

Providers == {"tg_chat", "magic_link"}
Nothing == "nothing"
Idle == [pc |-> "idle", who |-> Nothing, via |-> Nothing, token |-> Nothing]
Unissued == [status |-> "unissued", who |-> Nothing, login |-> Nothing]

Init ==
    /\ identities = [p \in Persons |-> [v \in Providers |-> 0]]
    /\ link = {}
    /\ token = [k \in Tokens |-> Unissued]
    /\ request = [r \in Requests |-> Idle]
    /\ doubled = {}
    /\ forked = {}

Goes(r, pc) == request' = [request EXCEPT ![r].pc = pc]
Ends(r) == request' = [request EXCEPT ![r] = Idle]
Begins(r, pc, p, v, k) ==
    /\ request[r] = Idle
    /\ request' = [request EXCEPT ![r] =
                     [pc |-> pc, who |-> p, via |-> v, token |-> k]]

-----------------------------------------------------------------------------
(* Accounts.                                                               *)

\* A request has found nobody and creates p, maybe not the only one to.
Creates(p, v) ==
    doubled' = IF \E r \in Requests : /\ request[r].pc = "create"
                                      /\ request[r].who = p
                                      /\ request[r].via = v
               THEN doubled \cup {<<p, v>>} ELSE doubled

\* AccountMiddleware looks for the sender; two rows make the query raise, and
\* one row lets the handler run.
Message(r, p) ==
    /\ identities[p]["tg_chat"] = 0
    /\ Begins(r, "create", p, "tg_chat", Nothing)
    /\ Creates(p, "tg_chat")
    /\ UNCHANGED <<identities, link, token, forked>>

\* _create_account and the identity, in one commit.
CreateAccount(r) ==
    LET p == request[r].who
        v == request[r].via
    IN
    /\ request[r].pc = "create"
    /\ identities' = [identities EXCEPT ![p][v] = @ + 1]
    /\ IF v = "tg_chat" THEN Ends(r) ELSE Goes(r, "issue")
    /\ UNCHANGED <<link, token, doubled, forked>>

-----------------------------------------------------------------------------
(* Links.                                                                  *)

\* create_magic_token; the token may be any number of times sent.
MagicRequest(p) ==
    /\ link' = link \cup {p}
    /\ UNCHANGED <<identities, token, request, doubled, forked>>

\* consume_magic_token reads the token ...
MagicGet(r, p) ==
    /\ p \in link
    /\ Begins(r, "delete", p, "magic_link", Nothing)
    /\ UNCHANGED <<identities, link, token, doubled, forked>>

\* ... and deletes it, whoever else has read it.
MagicDelete(r) ==
    /\ request[r].pc = "delete"
    /\ link' = link \ {request[r].who}
    /\ Goes(r, "find")
    /\ UNCHANGED <<identities, token, doubled, forked>>

(* Seeded fault: an account is made for every link that is used.            *)
FindByEmail_Creates(r) ==
    /\ request[r].pc = "find"
    /\ Goes(r, "create") /\ Creates(request[r].who, "magic_link")
    /\ UNCHANGED <<identities, link, token, forked>>

\* find_or_create_account_by_email
FindByEmail(r) ==
    LET p == request[r].who
        rows == identities[p]["magic_link"]
    IN
    /\ request[r].pc = "find"
    /\ CASE rows = 0 -> Goes(r, "create") /\ Creates(p, "magic_link")
         [] rows = 1 -> Goes(r, "issue") /\ UNCHANGED doubled
         [] OTHER    -> Ends(r) /\ UNCHANGED doubled
    /\ UNCHANGED <<identities, link, token, forked>>

\* Redis drops a token that was not used in time.
MagicExpires(p) ==
    /\ link' = link \ {p} /\ p \in link
    /\ UNCHANGED <<identities, token, request, doubled, forked>>

-----------------------------------------------------------------------------
(* Refresh tokens.                                                         *)

Issued(k, p, login) == [status |-> "live", who |-> p, login |-> login]

\* issue_refresh_token begins a login, named after its first token.
IssueRefreshToken(r, k) ==
    /\ request[r].pc = "issue" /\ token[k] = Unissued
    /\ token' = [token EXCEPT ![k] = Issued(k, request[r].who, k)]
    /\ Ends(r)
    /\ UNCHANGED <<identities, link, doubled, forked>>

\* rotate_refresh_token finds the row live ...
RotateRead(r, k) ==
    /\ token[k].status = "live"
    /\ Begins(r, "rotate", token[k].who, Nothing, k)
    /\ UNCHANGED <<identities, link, token, doubled, forked>>

(* Seeded fault: the token that was exchanged stays live.                   *)
Rotated_KeepsOld(k, n) ==
    [token EXCEPT ![n] = Issued(n, token[k].who, token[k].login)]

Rotated(k, n) ==
    [token EXCEPT ![k].status = "revoked",
                  ![n] = Issued(n, token[k].who, token[k].login)]

\* ... revokes it and adds the next, in the commit of issue_refresh_token.
RotateWrite(r, n) ==
    LET k == request[r].token IN
    /\ request[r].pc = "rotate" /\ token[n] = Unissued
    /\ token' = Rotated(k, n)
    /\ forked' = IF token[k].status = "revoked"
                 THEN forked \cup {token[k].login} ELSE forked
    /\ Ends(r)
    /\ UNCHANGED <<identities, link, doubled>>

\* A revoked token is presented: _revoke_all_for_account.
RotateReuse(k) ==
    /\ token[k].status = "revoked"
    /\ token' = [t \in Tokens |->
                   IF token[t].who = token[k].who /\ token[t].status = "live"
                   THEN [token[t] EXCEPT !.status = "revoked"] ELSE token[t]]
    /\ UNCHANGED <<identities, link, request, doubled, forked>>

\* revoke_refresh_token
Logout(k) ==
    /\ token[k].status \in {"live", "expired"}
    /\ token' = [token EXCEPT ![k].status = "revoked"]
    /\ UNCHANGED <<identities, link, request, doubled, forked>>

TokenExpires(k) ==
    /\ token[k].status = "live"
    /\ token' = [token EXCEPT ![k].status = "expired"]
    /\ UNCHANGED <<identities, link, request, doubled, forked>>

\* The process dies: what is not committed is lost, a deleted link is gone.
RequestDies(r) ==
    /\ request[r] # Idle
    /\ Ends(r)
    /\ UNCHANGED <<identities, link, token, doubled, forked>>

Next ==
    \/ \E r \in Requests :
          \/ \E p \in Persons : Message(r, p) \/ MagicGet(r, p)
          \/ CreateAccount(r)
          \/ MagicDelete(r)
          \/ FindByEmail(r)
          \/ \E k \in Tokens :
                IssueRefreshToken(r, k) \/ RotateRead(r, k) \/ RotateWrite(r, k)
          \/ RequestDies(r)
    \/ \E p \in Persons : MagicRequest(p) \/ MagicExpires(p)
    \/ \E k \in Tokens : RotateReuse(k) \/ Logout(k) \/ TokenExpires(k)

Spec == Init /\ [][Next]_vars

-----------------------------------------------------------------------------
(* A person has one account for each way to sign in, unless two first      *)
(* messages, or two uses of one link, were creating it at once: a second   *)
(* row makes every later lookup raise (auth/identity.py 40-63, 104-128).   *)
OneAccount ==
    \A p \in Persons, v \in Providers :
       identities[p][v] > 1 => <<p, v>> \in doubled

(* A login has one token that works, unless two rotations of one token     *)
(* overlapped (auth/jwt_tokens.py 80-106).                                 *)
OneLiveToken ==
    \A k, n \in Tokens :
       (k # n /\ token[k].status = "live" /\ token[n].status = "live"
        /\ token[k].login = token[n].login) => token[k].login \in forked
=============================================================================
