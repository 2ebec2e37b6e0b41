--------------------------- MODULE TenantConsole ---------------------------
(***************************************************************************)
(* Who may do what to a tenant: its owners and admins (tenant_roles), the  *)
(* superadmins of the platform, and the ways they act, the admin API       *)
(* (api/routes/admin_tenants.py, admin_platform.py) and the console of the *)
(* master bot (bot/handlers/owner_console.py, owner_users.py,              *)
(* master_superadmin.py), whose longer operations are dialogues: a button  *)
(* now, the value in a later message.                                      *)
(*                                                                         *)
(* A call authorises and checks first and writes later; other calls come   *)
(* in between.  The master bot's calls run one by one, the API's at once.  *)
(* One tenant is modelled; a person is its Telegram user and its account.  *)
(***************************************************************************)
EXTENDS Integers, FiniteSets

CONSTANTS
    People,         \* accounts of the tenant
    Founders,       \* the owners at the start
    Superadmins,    \* the superadmins at the start
    Master,         \* the master bot, which handles one update at a time
    Routes,         \* API requests that may run at once
    MaxCalls        \* bound: calls that are let in

VARIABLES
    role,           \* tenant_roles of each person
    superadmin,     \* accounts.is_superadmin
    disabled,       \* accounts.status = "disabled"
    primary,        \* tenants.primary_owner_account_id
    standing,       \* tenants.status
    dialog,         \* the FSM state of each person
    call,           \* the call of each route and of the master bot
    calls,          \* calls let in so far
    raced           \* history: two removals of a role overlapped

vars == <<role, superadmin, disabled, primary, standing, dialog, call, calls,
          raced>>

Nobody == "nobody"
Callers == Routes \cup {Master}

OwnerRoutes == {"grant", "revoke", "transfer", "ban", "unban"}
StaffRoutes == {"pause", "resume", "delete"}

NoDialog == [op |-> "none", via |-> "none", on |-> Nobody]
NoCall == [op |-> "none", via |-> "none", by |-> Nobody, on |-> Nobody,
           role |-> "none", prior |-> Nobody, held |-> FALSE,
           overtaken |-> FALSE]

Init ==
    /\ role = [p \in People |-> IF p \in Founders THEN {"owner"} ELSE {}]
    /\ superadmin = Superadmins
    /\ disabled = {}
    /\ primary = CHOOSE p \in Founders : TRUE
    /\ standing = "active"
    /\ dialog = [p \in People |-> NoDialog]
    /\ call = [c \in Callers |-> NoCall]
    /\ calls = 0
    /\ raced = FALSE

Holders(r) == {p \in People : r \in role[p]}

-----------------------------------------------------------------------------
(* Who may call.                                                           *)

\* require_tenant_role and current_account: a superadmin may do everything,
\* the tenant's staff only while the tenant is active.
RoleAllows(p, roles) ==
    \/ p \in superadmin
    \/ (standing = "active" /\ role[p] \cap roles # {})
MayCall(p, op) ==
    /\ p \notin disabled
    /\ CASE op \in OwnerRoutes -> RoleAllows(p, {"owner"})
         [] op \in StaffRoutes -> RoleAllows(p, {"owner", "admin"})
         [] OTHER -> p \in superadmin

\* authorize_tenant_action for the owner's console, with the owner's role for
\* these operations, and find_superadmin_by_tg for the superadmins' cabinet.
MayTell(p, via) ==
    IF via = "cabinet" THEN p \in superadmin ELSE "owner" \in role[p]

\* is_tenant_staff
Staff(p) == role[p] # {}

\* A call by p about q starts; a transfer reads who is the primary owner and
\* whether q holds the role already.
Start(c, via, op, p, q, r) ==
    /\ call' = [call EXCEPT ![c] =
                  [op |-> op, via |-> via, by |-> p, on |-> q, role |-> r,
                   prior |-> IF op = "transfer" THEN primary ELSE Nobody,
                   held |-> op = "transfer" /\ "owner" \in role[q],
                   overtaken |-> FALSE]]
    /\ calls < MaxCalls /\ calls' = calls + 1

-----------------------------------------------------------------------------
(* The routes of the API.                                                  *)

BeginRoute(c, op, p, q, r) ==
    /\ call[c] = NoCall /\ MayCall(p, op)
    /\ Start(c, "route", op, p, q, r)
    /\ UNCHANGED <<role, superadmin, disabled, primary, standing, dialog,
                   raced>>

GrantTenantRole(c, p, q, r) ==
    r \notin role[q] /\ BeginRoute(c, "grant", p, q, r)

(* Seeded fault: nobody counts the owners that are left.                    *)
RevokeTenantRole_LastToo(c, p, q, r) ==
    r \in role[q] /\ BeginRoute(c, "revoke", p, q, r)

\* 409 for the last owner.
RevokeTenantRole(c, p, q, r) ==
    /\ r \in role[q]
    /\ r = "owner" => Cardinality(Holders("owner")) > 1
    /\ BeginRoute(c, "revoke", p, q, r)

\* The role is the owner's when the body asks to revoke the previous one.
TransferTenantOwnership(c, p, q, r) == BeginRoute(c, "transfer", p, q, r)

BanAccount(c, p, q) == ~Staff(q) /\ BeginRoute(c, "ban", p, q, "none")
UnbanAccount(c, p, q) == BeginRoute(c, "unban", p, q, "none")
PauseTenant(c, p) == BeginRoute(c, "pause", p, p, "none")
ResumeTenant(c, p) == BeginRoute(c, "resume", p, p, "none")
DeleteTenant(c, p) == BeginRoute(c, "delete", p, p, "none")
GrantSuperadmin(c, p, q) == BeginRoute(c, "promote", p, q, "none")

\* 409 for the last superadmin.
RevokeSuperadmin(c, p, q) ==
    /\ q \in superadmin /\ Cardinality(superadmin) > 1
    /\ BeginRoute(c, "demote", p, q, "none")

-----------------------------------------------------------------------------
(* The master bot: buttons that apply at once, and dialogues whose answer  *)
(* authorises again.                                                       *)

MasterIdle == call[Master] = NoCall

TapButton(via, op, p, q) ==
    /\ MasterIdle /\ MayTell(p, via)
    /\ Start(Master, via, op, p, q, "none")
    /\ UNCHANGED <<role, superadmin, disabled, primary, standing, dialog,
                   raced>>

OnManagePause(p) == TapButton("console", "pause", p, p)
OnManageResume(p) == TapButton("console", "resume", p, p)
OnUserUnban(p, q) == TapButton("console", "unban", p, q)
OnTenantSuspend(p) == TapButton("cabinet", "pause", p, p)
OnTenantResume(p) == TapButton("cabinet", "resume", p, p)

OpenDialog(via, op, p, q) ==
    /\ MasterIdle /\ MayTell(p, via)
    /\ dialog' = [dialog EXCEPT ![p] = [op |-> op, via |-> via, on |-> q]]
    /\ UNCHANGED <<role, superadmin, disabled, primary, standing, call,
                   calls, raced>>

\* on_transfer_cmd too; whom it is about comes with the answer.
OnManageTransfer(p) == OpenDialog("console", "transfer", p, p)
OnManageDelete(p) == OpenDialog("console", "delete", p, p)
OnUserBanStart(p, q) == ~Staff(q) /\ OpenDialog("console", "ban", p, q)
OnUserGrantStart(p, q) == OpenDialog("console", "credits", p, q)
OnTenantDelete(p) == OpenDialog("cabinet", "delete", p, p)

(* Seeded fault: the answer of a dialogue is not authorised again.          *)
AnswerDialog_Unchecked(via, op, p, q) ==
    /\ MasterIdle
    /\ dialog[p].op = op /\ dialog[p].via = via
    /\ Start(Master, via, op, p, q, "none")
    /\ dialog' = [dialog EXCEPT ![p] = NoDialog]
    /\ UNCHANGED <<role, superadmin, disabled, primary, standing, raced>>

AnswerDialog(via, op, p, q) ==
    /\ MasterIdle
    /\ dialog[p].op = op /\ dialog[p].via = via /\ MayTell(p, via)
    /\ Start(Master, via, op, p, q, "none")
    /\ dialog' = [dialog EXCEPT ![p] = NoDialog]
    /\ UNCHANGED <<role, superadmin, disabled, primary, standing, raced>>

OnTransferTarget(p, q) == AnswerDialog("console", "transfer", p, q)
OnDeleteConfirm(p) == AnswerDialog("console", "delete", p, p)
OnUserBanReason(p) ==
    AnswerDialog("console", "ban", p, dialog[p].on) /\ ~Staff(dialog[p].on)
\* What adjust_package_credits does is CreditLedger's.
OnUserGrantAmount(p) == AnswerDialog("console", "credits", p, dialog[p].on)
CabinetDeleteConfirm(p) == AnswerDialog("cabinet", "delete", p, p)

\* The cancel commands, and the answers of people who lost the right; what
\* they do not understand leaves the dialogue open.
CloseDialog(p) ==
    /\ MasterIdle /\ dialog[p] # NoDialog
    /\ dialog' = [dialog EXCEPT ![p] = NoDialog]
    /\ UNCHANGED <<role, superadmin, disabled, primary, standing, call, calls,
                   raced>>

-----------------------------------------------------------------------------
(* The writes.                                                             *)

\* Whether a call takes a role away.
Removes(k) == k.op = "demote" \/ (k.op \in {"revoke", "transfer"}
                                   /\ k.role = "owner")

\* transfer_ownership
RolesAfterTransfer(k) ==
    [p \in People |->
       IF p = k.on THEN IF k.held THEN role[p] ELSE role[p] \cup {"owner"}
       ELSE IF p = k.prior /\ k.role = "owner" THEN role[p] \ {"owner"}
       ELSE role[p]]

RoleAfter(k) ==
    CASE k.op = "grant" -> [role EXCEPT ![k.on] = @ \cup {k.role}]
      [] k.op = "revoke" -> [role EXCEPT ![k.on] = @ \ {k.role}]
      [] k.op = "transfer" -> RolesAfterTransfer(k)
      [] OTHER -> role
SuperadminAfter(k) ==
    CASE k.op = "promote" -> superadmin \cup {k.on}
      [] k.op = "demote" -> superadmin \ {k.on}
      [] OTHER -> superadmin
\* set_account_ban, clear_account_ban
DisabledAfter(k) ==
    CASE k.op = "ban" -> disabled \cup {k.on}
      [] k.op = "unban" -> disabled \ {k.on}
      [] OTHER -> disabled
\* set_tenant_status, archive_tenant
StandingAfter(k) ==
    CASE k.op = "pause" -> "suspended"
      [] k.op = "resume" -> "active"
      [] k.op = "delete" -> "archived"
      [] OTHER -> standing

Write(c) ==
    LET k == call[c]
        others == {d \in Callers \ {c} : call[d] # NoCall}
    IN
    /\ k # NoCall
    /\ role' = RoleAfter(k)
    /\ superadmin' = SuperadminAfter(k)
    /\ disabled' = DisabledAfter(k)
    /\ standing' = StandingAfter(k)
    /\ primary' = IF k.op = "transfer" THEN k.on ELSE primary
    /\ raced' = (raced \/ (Removes(k) /\ \E d \in others : Removes(call[d])))
    /\ call' = [d \in Callers |->
                  IF d = c THEN NoCall
                  ELSE [call[d] EXCEPT !.overtaken = @ \/ call[d] # NoCall]]
    /\ UNCHANGED <<dialog, calls>>

\* The process dies, or a unique key refuses the row: nothing is committed.
Abandon(c) ==
    /\ call[c] # NoCall
    /\ call' = [call EXCEPT ![c] = NoCall]
    /\ UNCHANGED <<role, superadmin, disabled, primary, standing, dialog,
                   calls, raced>>

Route(c, p, q) ==
    \/ \E r \in {"owner", "admin"} :
          GrantTenantRole(c, p, q, r) \/ RevokeTenantRole(c, p, q, r)
    \/ \E r \in {"owner", "none"} : TransferTenantOwnership(c, p, q, r)
    \/ BanAccount(c, p, q)
    \/ UnbanAccount(c, p, q)
    \/ GrantSuperadmin(c, p, q)
    \/ RevokeSuperadmin(c, p, q)

TenantRoute(c, p) ==
    PauseTenant(c, p) \/ ResumeTenant(c, p) \/ DeleteTenant(c, p)

MasterBot(p) ==
    \/ OnManagePause(p) \/ OnManageResume(p)
    \/ OnTenantSuspend(p) \/ OnTenantResume(p)
    \/ OnManageTransfer(p) \/ OnManageDelete(p) \/ OnTenantDelete(p)
    \/ OnDeleteConfirm(p) \/ OnUserBanReason(p) \/ OnUserGrantAmount(p)
    \/ CabinetDeleteConfirm(p)
    \/ CloseDialog(p)
    \/ \E q \in People :
          \/ OnUserUnban(p, q) \/ OnUserBanStart(p, q)
          \/ OnUserGrantStart(p, q) \/ OnTransferTarget(p, q)

Next ==
    \/ \E c \in Routes, p \in People :
          TenantRoute(c, p) \/ \E q \in People : Route(c, p, q)
    \/ \E p \in People : MasterBot(p)
    \/ \E c \in Callers : Write(c) \/ Abandon(c)

Spec == Init /\ [][Next]_vars

-----------------------------------------------------------------------------
(* The tenant keeps an owner and the platform a superadmin, unless two     *)
(* removals overlapped: each counted the holders before the other's write  *)
(* (admin_tenants.py 375-381, admin_platform.py 376-387).                  *)
StaffRemains == raced \/ (Holders("owner") # {} /\ superadmin # {})

(* Whoever loses a role loses what it allowed at once, in open dialogues   *)
(* too: a call writes for a person who may still make it, unless another   *)
(* call wrote while it was running (the second authorize_tenant_action of  *)
(* every dialogue, owner_console.py 379-391, 471-480).                     *)
WritesAllowed ==
    \A c \in Callers :
       Write(c) => \/ call[c].overtaken
                   \/ IF c = Master THEN MayTell(call[c].by, call[c].via)
                      ELSE MayCall(call[c].by, call[c].op)
NoPowerAfterRevoke == [][WritesAllowed]_vars
=============================================================================
