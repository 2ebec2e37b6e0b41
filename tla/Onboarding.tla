---------------------------- MODULE Onboarding ----------------------------
(***************************************************************************)
(* How a tenant comes to life: an invite's deep link opens a dialogue with *)
(* the master bot (bot/handlers/master_onboarding.py), the confirmation    *)
(* creates the tenant and queues the provisioning job                      *)
(* (tasks/provision.py), and the token of the new bot finalises it         *)
(* (domain/provisioning.py).  Staff suspend, resume and archive tenants    *)
(* and revoke invites meanwhile (master_superadmin.py, the owner console   *)
(* and the admin API).                                                     *)
(*                                                                         *)
(* The master bot handles one update at a time; the jobs, the API and the  *)
(* other bots run beside it, between any two awaits.  The two states       *)
(* awaiting_managed_bot and awaiting_manual_token are one, "awaiting", and *)
(* slugs are left out: one that is taken stops a step, and changes nothing.*)
(***************************************************************************)
EXTENDS Integers, FiniteSets

CONSTANTS
    Owners,         \* Telegram users who onboard a bot
    Invites, InviteUses,
    Tenants,        \* ids of tenants, from 1 on
    BotIds,         \* Telegram ids of the bots whose tokens the users have
    ProvisionJobs,  \* provisioning jobs queued at a time
    MaxStaffActs    \* bound: acts of the staff

VARIABLES
    invite,         \* tenant_invites: status, used_count
    tenant,         \* tenants: status, invite, owner (owner_tg_id)
    bot,            \* tenant_bots: status, bot_telegram_id
    owners,         \* tenant_roles: users whose account has the owner role
    chat,           \* the FSM state and data of each user
    job,            \* provisioning jobs, with the status they have read
    finalize,       \* the call of finalize_provisioning that is running
    staffActs,
    finalised,      \* history: who gave the token of each tenant
    confirmed       \* history: who confirmed each tenant last

vars == <<invite, tenant, bot, owners, chat, job, finalize, staffActs,
          finalised, confirmed>>

None == "none"
Quiet == [pc |-> "idle", invite |-> None, tenant |-> 0]
NoTenant == [status |-> None, invite |-> None, owner |-> None]
NoJob == [pc |-> "free", tenant |-> 0, was |-> None]
NoFinalize == [by |-> None, id |-> None, fresh |-> FALSE,
               tenantWas |-> None, botWas |-> None]

Init ==
    /\ invite = [i \in Invites |-> [status |-> None, used |-> 0]]
    /\ tenant = [t \in Tenants |-> NoTenant]
    /\ bot = [t \in Tenants |-> [status |-> None, id |-> None]]
    /\ owners = [t \in Tenants |-> {}]
    /\ chat = [o \in Owners |-> Quiet]
    /\ job = [j \in ProvisionJobs |-> NoJob]
    /\ finalize = NoFinalize
    /\ staffActs = 0
    /\ finalised = [t \in Tenants |-> None]
    /\ confirmed = [t \in Tenants |-> None]

\* The ORM writes a field only when it differs from what the session loaded.
Put(loaded, stored, new) == IF loaded = new THEN stored ELSE new

\* invite_is_usable
Usable(i) == invite[i].status = "active" /\ invite[i].used < InviteUses

MasterIdle == finalize = NoFinalize
Says(o, c) == chat' = [chat EXCEPT ![o] = c]

-----------------------------------------------------------------------------
(* The dialogue with user o.                                               *)

\* on_start_with_code answers in every state of the dialogue.
OnStartWithCode(o, i) ==
    /\ MasterIdle /\ Usable(i)
    /\ Says(o, [Quiet EXCEPT !.pc = "slug", !.invite = i])
    /\ UNCHANGED <<invite, tenant, bot, owners, job, finalize, staffActs,
                   finalised, confirmed>>

\* What the user writes is accepted, and the dialogue goes on.
Answers(o, pc, next) ==
    /\ MasterIdle /\ chat[o].pc = pc
    /\ Says(o, [chat[o] EXCEPT !.pc = next])
    /\ UNCHANGED <<invite, tenant, bot, owners, job, finalize, staffActs,
                   finalised, confirmed>>

OnSlug(o) == Answers(o, "slug", "name")
OnDisplayName(o) == Answers(o, "name", "lang")
OnDefaultLang(o) == Answers(o, "lang", "confirm")

\* on_cancel and on_onboarding_cancel_cmd
OnCancel(o) ==
    /\ MasterIdle /\ chat[o].pc # "idle"
    /\ Says(o, Quiet)
    /\ UNCHANGED <<invite, tenant, bot, owners, job, finalize, staffActs,
                   finalised, confirmed>>

(* Seeded fault: a second confirmation does not look for the tenant of the  *)
(* first one.                                                              *)
OpenTenants_Forgotten(i) == {}

\* The tenant of this invite that a second confirmation takes over.
OpenTenants(i) ==
    {t \in Tenants : tenant[t].invite = i /\ tenant[t].status = "provisioning"}
UnusedTenants ==
    {t \in Tenants : \A u \in Tenants : u < t <=> tenant[u].status # None}
Chosen(i) == IF OpenTenants(i) # {} THEN OpenTenants(i) ELSE UnusedTenants

(* Seeded fault: a tenant that is taken over keeps its owner_tg_id.         *)
ConfirmedRow_KeepsOwner(t, i, o) ==
    [status |-> "provisioning", invite |-> i,
     owner |-> IF t \in OpenTenants(i) THEN tenant[t].owner ELSE o]

\* The row that create_tenant_from_onboarding leaves, new or taken over.
ConfirmedRow(t, i, o) ==
    [status |-> "provisioning", invite |-> i, owner |-> o]

\* on_confirm with an invite that is gone.
ConfirmRefused(o) ==
    /\ MasterIdle /\ chat[o].pc = "confirm" /\ ~Usable(chat[o].invite)
    /\ Says(o, Quiet)
    /\ UNCHANGED <<invite, tenant, bot, owners, job, finalize, staffActs,
                   finalised, confirmed>>

\* on_confirm: create_tenant_from_onboarding commits, enqueue_provision_tenant
\* queues job j unless the process dies in between.
OnConfirm(o, t, j) ==
    LET i == chat[o].invite IN
    /\ MasterIdle /\ chat[o].pc = "confirm" /\ Usable(i)
    /\ t \in Chosen(i)
    /\ tenant' = [tenant EXCEPT ![t] = ConfirmedRow(t, i, o)]
    /\ bot' = IF t \in OpenTenants(i) THEN bot
              ELSE [bot EXCEPT ![t].status = "provisioning"]
    /\ confirmed' = [confirmed EXCEPT ![t] = o]
    /\ \/ /\ job[j] = NoJob
          /\ job' = [job EXCEPT ![j].pc = "queued", ![j].tenant = t]
          /\ Says(o, [Quiet EXCEPT !.pc = "token", !.tenant = t])
       \/ UNCHANGED <<job, chat>>
    /\ UNCHANGED <<invite, owners, finalize, staffActs, finalised>>

-----------------------------------------------------------------------------
(* provision_tenant asks Telegram what the master bot may do (getMe), and  *)
(* writes the status afterwards.  A stopped worker's job is run again.     *)

ProvisionReads(j) ==
    /\ job[j].pc = "queued"
    /\ job' = [job EXCEPT ![j].pc = "asking",
                          ![j].was = tenant[job[j].tenant].status]
    /\ UNCHANGED <<invite, tenant, bot, owners, chat, finalize, staffActs,
                   finalised, confirmed>>

ProvisionWrites(j) ==
    /\ job[j].pc = "asking"
    /\ tenant' = [tenant EXCEPT ![job[j].tenant].status =
                    Put(job[j].was, @, "awaiting")]
    /\ job' = [job EXCEPT ![j] = NoJob]
    /\ UNCHANGED <<invite, bot, owners, chat, finalize, staffActs, finalised,
                   confirmed>>

ProvisionStops(j) ==
    /\ job[j].pc = "asking"
    /\ job' = [job EXCEPT ![j].pc = "queued", ![j].was = None]
    /\ UNCHANGED <<invite, tenant, bot, owners, chat, finalize, staffActs,
                   finalised, confirmed>>

-----------------------------------------------------------------------------
(* on_manual_token and on_managed_bot_created: finalize_provisioning.      *)

\* BotAlreadyInUseError: an active bot of another tenant has this id.
InUse(t, id) ==
    \E u \in Tenants \ {t} : bot[u].id = id /\ bot[u].status = "active"

\* Reads the rows, makes the owner's account and commits its role.
GrantOwner(o, id) ==
    LET t == chat[o].tenant IN
    /\ MasterIdle /\ chat[o].pc = "token" /\ ~InUse(t, id)
    /\ owners' = [owners EXCEPT ![t] = @ \cup {tenant[t].owner}]
    /\ finalize' = [by |-> o, id |-> id,
                    fresh |-> tenant[t].status = "provisioning",
                    tenantWas |-> tenant[t].status, botWas |-> bot[t].status]
    /\ UNCHANGED <<invite, tenant, bot, chat, job, staffActs, finalised,
                   confirmed>>

\* The second commit saves the token, activates both rows and counts the use;
\* it fails when the id is another row's (it is unique, whatever the status).
Activate ==
    LET o == finalize.by
        t == chat[o].tenant
        i == tenant[t].invite
    IN
    /\ ~MasterIdle
    /\ \A u \in Tenants \ {t} : bot[u].id # finalize.id
    /\ tenant' = [tenant EXCEPT ![t].status =
                    Put(finalize.tenantWas, @, "active")]
    /\ bot' = [bot EXCEPT ![t].id = finalize.id,
                          ![t].status = Put(finalize.botWas, @, "active")]
    /\ invite' =
         IF finalize.fresh
         THEN [invite EXCEPT
                 ![i].used = @ + 1,
                 ![i].status = IF invite[i].used + 1 >= InviteUses
                               THEN "used" ELSE @]
         ELSE invite
    /\ finalised' = [finalised EXCEPT ![t] = o]
    /\ finalize' = NoFinalize
    /\ Says(o, Quiet)
    /\ UNCHANGED <<owners, job, staffActs, confirmed>>

\* The process dies between the two commits, or the second one fails.
FinalizeFails ==
    /\ ~MasterIdle
    /\ finalize' = NoFinalize
    /\ UNCHANGED <<invite, tenant, bot, owners, chat, job, staffActs,
                   finalised, confirmed>>

-----------------------------------------------------------------------------
(* The staff.                                                              *)

StaffActs ==
    /\ staffActs < MaxStaffActs
    /\ staffActs' = staffActs + 1
    /\ UNCHANGED <<owners, chat, job, finalize, finalised, confirmed>>

\* set_tenant_status, from the cabinet (a button of any age), the console and
\* the routes pause and resume.
SetTenantStatus(t, status, botStatus) ==
    /\ StaffActs /\ tenant[t].status # None
    /\ tenant' = [tenant EXCEPT ![t].status = status]
    /\ bot' = [bot EXCEPT ![t].status = botStatus]
    /\ UNCHANGED invite

\* archive_tenant gives the bot's id free.
ArchiveTenant(t) ==
    /\ StaffActs /\ tenant[t].status \notin {None, "archived"}
    /\ tenant' = [tenant EXCEPT ![t].status = "archived"]
    /\ bot' = [bot EXCEPT ![t] = [status |-> "archived", id |-> None]]
    /\ UNCHANGED invite

\* The platform API's suspend and archive set the tenant's status alone.
SetPlatformTenantStatus(t, status) ==
    /\ StaffActs /\ tenant[t].status # None
    /\ tenant' = [tenant EXCEPT ![t].status = status]
    /\ UNCHANGED <<bot, invite>>

\* create_invite, from the API and from the cabinet in the master bot.
CreateInvite(i) ==
    /\ invite[i].status = None
    /\ invite' = [invite EXCEPT ![i].status = "active"]
    /\ UNCHANGED <<tenant, bot, owners, chat, job, finalize, staffActs,
                   finalised, confirmed>>

OnNewInvite(i) == MasterIdle /\ CreateInvite(i)

\* revoke_invite, whatever the invite's status is, from both.
RevokeInvite(i) ==
    /\ StaffActs /\ invite[i].status # None
    /\ invite' = [invite EXCEPT ![i].status = "revoked"]
    /\ UNCHANGED <<tenant, bot>>

OnRevokeInvite(i) == MasterIdle /\ RevokeInvite(i)

Next ==
    \/ \E o \in Owners :
          \/ \E i \in Invites : OnStartWithCode(o, i)
          \/ OnSlug(o) \/ OnDisplayName(o) \/ OnDefaultLang(o)
          \/ OnCancel(o)
          \/ ConfirmRefused(o)
          \/ \E t \in Tenants, j \in ProvisionJobs : OnConfirm(o, t, j)
          \/ \E id \in BotIds : GrantOwner(o, id)
    \/ \E j \in ProvisionJobs :
          ProvisionReads(j) \/ ProvisionWrites(j) \/ ProvisionStops(j)
    \/ Activate
    \/ FinalizeFails
    \/ \E t \in Tenants :
          \/ SetTenantStatus(t, "suspended", "paused")
          \/ SetTenantStatus(t, "active", "active")
          \/ ArchiveTenant(t)
          \/ \E s \in {"suspended", "archived"} : SetPlatformTenantStatus(t, s)
    \/ \E i \in Invites :
          \/ CreateInvite(i) \/ OnNewInvite(i)
          \/ RevokeInvite(i) \/ OnRevokeInvite(i)

Spec == Init /\ [][Next]_vars

-----------------------------------------------------------------------------
(* An invite is never counted more often than it may be used: at most one  *)
(* tenant of an invite is "provisioning", and only such a tenant counts    *)
(* (domain/provisioning.py 51-72, 152, 168-175).                           *)
UsesBounded == \A i \in Invites : invite[i].used <= InviteUses

(* Whoever gave the token of a tenant's bot owns the tenant, unless        *)
(* somebody else confirmed with the same invite link afterwards and took   *)
(* the tenant over (domain/provisioning.py 53-67, 154-157).                *)
OwnerGaveToken ==
    \A t \in Tenants : finalised[t] # None =>
       \/ finalised[t] \in owners[t]
       \/ confirmed[t] # finalised[t]

(* domain/provisioning.py 49-51: "The invite use is consumed in            *)
(* finalize_provisioning (on success)": as many uses as tenants of the     *)
(* invite were finalised.                                                  *)
InviteConsumed ==
    \A i \in Invites :
       invite[i].used = Cardinality({t \in Tenants : /\ finalised[t] # None
                                                     /\ tenant[t].invite = i})
=============================================================================
