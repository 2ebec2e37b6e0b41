----------------------------- MODULE Bootstrap -----------------------------
(***************************************************************************)
(* How a process starts (api/app.py, bot/runner.py, bot/polling.py): it    *)
(* runs the ensure functions of db/bootstrap.py one after another.  Each   *)
(* looks for its rows and adds them when there are none.  Several          *)
(* processes start at once, and what one has not committed the others do   *)
(* not see.  A process whose start raises is down until somebody starts it *)
(* again (docker-compose.yml gives no restart policy).                     *)
(*                                                                         *)
(* People change two of the tables while the system is up: the plans (by   *)
(* api/routes/billing.py) and the accounts that have the superadmin's mail *)
(* address (by signing in, and by promotion and demotion).                 *)
(***************************************************************************)
EXTENDS Integers, Sequences

CONSTANTS
    Apis, BotWorkers,   \* the processes; one of BotWorkers may be the poller
    TaskWorkers,        \* they run provision_tenant, which seeds strings only
    MaxStarts,          \* bound: starts of processes
    MaxActs             \* bound: changes by people

VARIABLES
    rows,               \* rows there are of each seed
    admins,             \* those of the superadmin's mail with is_superadmin
    signedUp,           \* the default tenant has an account of that mail
    starting,           \* each process: its next seed, and what it is doing
    starts,
    acts,
    overtaken           \* history: processes that started while another seeded

vars == <<rows, admins, signedUp, starting, starts, acts, overtaken>>

Processes == Apis \cup BotWorkers \cup TaskWorkers

\* The order of the calls in each process.
BotSeeds == <<"default_tenant", "default_bot", "platform_tenant", "master_bot",
              "stars_provider", "base_strings", "default_language">>
ApiSeeds == <<"default_tenant", "default_bot", "platform_tenant", "master_bot",
              "superadmin", "global_plans", "stars_provider", "base_strings",
              "default_language">>
SeedsOf(p) == IF p \in Apis THEN ApiSeeds
              ELSE IF p \in BotWorkers THEN BotSeeds ELSE <<"base_strings">>
Seeds == {ApiSeeds[i] : i \in DOMAIN ApiSeeds}

\* Tables without a unique key for the row, and lookups that raise on two.
Repeatable == {"superadmin", "global_plans", "stars_provider"}
OneOrNone == {"superadmin", "global_plans"}

Init ==
    /\ rows = [s \in Seeds |-> 0]
    /\ admins = 0 /\ signedUp = FALSE
    /\ starting = [p \in Processes |-> [pc |-> "down", at |-> 1]]
    /\ starts = 0 /\ acts = 0
    /\ overtaken = {}

Running(p) == starting[p].pc \in {"look", "add"}
Becomes(p, pc) == starting' = [starting EXCEPT ![p].pc = pc]

\* On to the next ensure function; after the last one the process is up.
Advance(p) ==
    starting' = [starting EXCEPT ![p] =
                   IF @.at = Len(SeedsOf(p)) THEN [pc |-> "up", at |-> 1]
                   ELSE [pc |-> "look", at |-> @.at + 1]]

Start(p) ==
    /\ starting[p].pc \in {"down", "crashed"} /\ starts < MaxStarts
    /\ starts' = starts + 1
    /\ starting' = [starting EXCEPT ![p] = [pc |-> "look", at |-> 1]]
    /\ overtaken' = overtaken \ {p}
    /\ UNCHANGED <<rows, admins, signedUp, acts>>

(* Seeded fault: an ensure function inserts without having looked.          *)
Find_Blind(p) ==
    /\ starting[p].pc = "look"
    /\ Becomes(p, "add")
    /\ UNCHANGED <<rows, admins, signedUp, starts, acts, overtaken>>

\* The select of an ensure function.
Find(p) ==
    LET s == SeedsOf(p)[starting[p].at] IN
    /\ starting[p].pc = "look"
    /\ IF s \in OneOrNone /\ rows[s] > 1 THEN Becomes(p, "crashed")
       ELSE IF rows[s] > 0 THEN Advance(p)
       ELSE Becomes(p, "add")
    /\ UNCHANGED <<rows, admins, signedUp, starts, acts, overtaken>>

\* The insert and the commit; a unique key refuses the second row.
Insert(p) ==
    LET s == SeedsOf(p)[starting[p].at]
        refused == s \notin Repeatable /\ rows[s] > 0
    IN
    /\ starting[p].pc = "add"
    /\ IF refused THEN Becomes(p, "crashed") ELSE Advance(p)
    /\ rows' = IF refused THEN rows ELSE [rows EXCEPT ![s] = @ + 1]
    /\ admins' = IF s = "superadmin" THEN admins + 1 ELSE admins
    /\ overtaken' = IF refused THEN overtaken
                    ELSE overtaken \cup {q \in Processes \ {p} : Running(q)}
    /\ UNCHANGED <<signedUp, starts, acts>>

\* The process is stopped, or dies before a commit.
Stop(p) ==
    /\ starting[p].pc \in {"look", "add", "up"}
    /\ starting' = [starting EXCEPT ![p] = [pc |-> "down", at |-> 1]]
    /\ UNCHANGED <<rows, admins, signedUp, starts, acts, overtaken>>

-----------------------------------------------------------------------------
(* What people do while the API is up.                                     *)

Acts ==
    /\ \E p \in Apis : starting[p].pc = "up"
    /\ acts < MaxActs /\ acts' = acts + 1
    /\ UNCHANGED <<starting, starts, overtaken>>

\* create_subscription_plan with the slug of a global plan.
CreateSubscriptionPlan ==
    /\ Acts
    /\ rows' = [rows EXCEPT !["global_plans"] = @ + 1]
    /\ UNCHANGED <<admins, signedUp>>

\* magic_consume: nobody with this mail is a superadmin, and the default
\* tenant gets an account of its own with it.
SignUp ==
    /\ Acts /\ admins = 0 /\ ~signedUp
    /\ signedUp' = TRUE
    /\ rows' = [rows EXCEPT !["superadmin"] = @ + 1]
    /\ UNCHANGED admins

\* revoke_superadmin; another superadmin is left.
RevokeSuperadmin ==
    /\ Acts /\ admins > 0
    /\ admins' = admins - 1
    /\ UNCHANGED <<rows, signedUp>>

\* grant_superadmin
GrantSuperadmin ==
    /\ Acts /\ admins < rows["superadmin"]
    /\ admins' = admins + 1
    /\ UNCHANGED <<rows, signedUp>>

Next ==
    \/ \E p \in Processes : Start(p) \/ Find(p) \/ Insert(p) \/ Stop(p)
    \/ CreateSubscriptionPlan
    \/ SignUp
    \/ RevokeSuperadmin
    \/ GrantSuperadmin

Spec == Init /\ [][Next]_vars

-----------------------------------------------------------------------------
(* Every ensure function is "idempotent" (db/bootstrap.py 24, 67, 94, 153, *)
(* 179, 187): a start, the first one or a later one, after a start that    *)
(* was cut short at any place too, ends well, unless another process       *)
(* seeded meanwhile or a table looked up by scalar_one_or_none holds two   *)
(* rows, which makes every later start of the API raise.                   *)
StartsAgain ==
    \A p \in Processes :
       starting[p].pc = "crashed" =>
          p \in overtaken \/ \E s \in OneOrNone : rows[s] > 1

=============================================================================
