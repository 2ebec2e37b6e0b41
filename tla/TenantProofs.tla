---------------------------- MODULE TenantProofs ----------------------------
(***************************************************************************)
(* What holds of the tenants and of the platform they stand on, for any    *)
(* number of them: Onboarding (invites are not overspent, and whoever gave *)
(* a token owns the tenant), TenantConsole (somebody is left to            *)
(* administer, and a role that is gone allows nothing), Bootstrap (a start *)
(* of the API ends well), TenantLanguages (one default language),          *)
(* TenantSettings (the audit log tells the truth) and Payouts (a payment   *)
(* is paid out once).  Each part has its inductive invariant; a step of    *)
(* another part leaves it as it is (the lemmas named ...Runs).             *)
(***************************************************************************)
EXTENDS MCPlatform, Sums, FiniteSetTheorems, TLAPS

-----------------------------------------------------------------------------
(* Onboarding.                                                             *)

TenantStatuses ==
    {O!None, "provisioning", "awaiting", "active", "suspended", "archived"}
BotStatuses == {O!None, "provisioning", "active", "paused", "archived"}
InviteRow == [status : {O!None, "active", "used", "revoked"}, used : Nat]
TenantRow == [status : TenantStatuses, invite : Invites \cup {O!None},
              owner : Owners \cup {O!None}]
ChatRecord ==
    [pc : {"idle", "slug", "name", "lang", "confirm", "token"},
     invite : Invites \cup {O!None}, tenant : Tenants \cup {0}]
ProvisionRecord == [pc : {"free", "queued", "asking"}, tenant : Tenants \cup {0},
                    was : TenantStatuses]
FinalizeRecord == [by : Owners \cup {O!None}, id : BotIds \cup {O!None},
                   fresh : BOOLEAN, tenantWas : TenantStatuses,
                   botWas : BotStatuses]

OnboardingTypes ==
    /\ invite \in [Invites -> InviteRow]
    /\ tenant \in [Tenants -> TenantRow]
    /\ bot \in [Tenants -> [status : BotStatuses, id : BotIds \cup {O!None}]]
    /\ owners \in [Tenants -> SUBSET (Owners \cup {O!None})]
    /\ chat \in [Owners -> ChatRecord]
    /\ job \in [ProvisionJobs -> ProvisionRecord]
    /\ finalize \in FinalizeRecord
    /\ finalised \in [Tenants -> Owners \cup {O!None}]
    /\ confirmed \in [Tenants -> Owners \cup {O!None}]

There(t) == t \in Tenants /\ tenant[t].status # O!None
Provisioning(t) == tenant[t].status = "provisioning"
Finalizing == finalize # O!NoFinalize
Finalized == chat[finalize.by].tenant

(* Dialogues, jobs and the running call are about an invite or a tenant    *)
(* that is there.                                                          *)
NamesRows ==
    /\ \A t \in Tenants : There(t) => tenant[t].invite \in Invites
    /\ \A o \in Owners :
          /\ chat[o].pc \in {"slug", "name", "lang", "confirm"} =>
                chat[o].invite \in Invites
          /\ chat[o].pc = "token" => There(chat[o].tenant)
    /\ \A j \in ProvisionJobs : job[j].pc # "free" => There(job[j].tenant)
    /\ Finalizing => finalize.by \in Owners /\ chat[finalize.by].pc = "token"

(* A use is left for the tenant that is being provisioned with an invite,  *)
(* and there is one at most.                                               *)
UseIsLeft ==
    /\ \A t \in Tenants : Provisioning(t) =>
          /\ invite[tenant[t].invite].used < InviteUses
          /\ \A u \in Tenants \ {t} :
                ~(Provisioning(u) /\ tenant[u].invite = tenant[t].invite)
    /\ Finalizing /\ finalize.fresh =>
          /\ invite[tenant[Finalized].invite].used < InviteUses
          /\ \A u \in Tenants \ {Finalized} :
                ~(Provisioning(u) /\ tenant[u].invite = tenant[Finalized].invite)
    /\ Finalizing => finalize.fresh <=> finalize.tenantWas = "provisioning"
    /\ Finalizing /\ Provisioning(Finalized) => finalize.fresh

(* The owner of the row is who confirmed last, it has the role once a token *)
(* is being saved, and a tenant with a token is never provisioned again.    *)
OwnersKnown ==
    /\ \A t \in Tenants : There(t) => tenant[t].owner = confirmed[t]
    /\ Finalizing => tenant[Finalized].owner \in owners[Finalized]
    /\ \A t \in Tenants : finalised[t] # O!None => There(t) /\ ~Provisioning(t)

OnboardingInv == OnboardingTypes /\ NamesRows /\ UseIsLeft /\ OwnersKnown
                 /\ O!UsesBounded /\ O!OwnerGaveToken

LEMMA OnboardingInit == O!Init => OnboardingInv
<1> SUFFICES ASSUME O!Init PROVE OnboardingInv
    OBVIOUS
<1> USE OnboardingAssumption
        DEF O!Init, O!None, O!Quiet, O!NoTenant, O!NoJob, O!NoFinalize
<1>1. OnboardingTypes
    BY DEF OnboardingTypes, InviteRow, TenantRow, ChatRecord, ProvisionRecord,
           FinalizeRecord, TenantStatuses, BotStatuses
<1>2. NamesRows /\ UseIsLeft /\ OwnersKnown
    BY DEF NamesRows, UseIsLeft, OwnersKnown, There, Provisioning, Finalizing
<1>3. O!UsesBounded /\ O!OwnerGaveToken
    BY DEF O!UsesBounded, O!OwnerGaveToken
<1> QED
    BY <1>1, <1>2, <1>3 DEF OnboardingInv

(* Somebody's dialogue goes on, short of waiting for a token.              *)
LEMMA ChatMoves ==
    ASSUME OnboardingInv, ~Finalizing, NEW o \in Owners, NEW q \in ChatRecord,
           q.pc # "token",
           q.pc \in {"slug", "name", "lang", "confirm"} => q.invite \in Invites,
           chat' = [chat EXCEPT ![o] = q],
           UNCHANGED <<invite, tenant, bot, owners, job, finalize, finalised,
                       confirmed>>
    PROVE  OnboardingInv'
<1>1. OnboardingTypes'
    BY DEF OnboardingInv, OnboardingTypes
<1>2. NamesRows'
    BY DEF OnboardingInv, OnboardingTypes, NamesRows, There, Finalizing
<1>3. UseIsLeft' /\ OwnersKnown'
    BY DEF OnboardingInv, UseIsLeft, OwnersKnown, There, Provisioning, Finalizing
<1>4. O!UsesBounded' /\ O!OwnerGaveToken'
    BY DEF OnboardingInv, O!UsesBounded, O!OwnerGaveToken
<1> QED
    BY <1>1, <1>2, <1>3, <1>4 DEF OnboardingInv

(* A job of the worker goes on, about the tenant it was queued for.        *)
LEMMA JobMoves ==
    ASSUME OnboardingInv, NEW j \in ProvisionJobs, NEW q \in ProvisionRecord,
           q.pc # "free" => There(q.tenant),
           job' = [job EXCEPT ![j] = q],
           UNCHANGED <<invite, tenant, bot, owners, chat, finalize, finalised,
                       confirmed>>
    PROVE  OnboardingInv'
<1>1. job \in [ProvisionJobs -> ProvisionRecord]
    BY DEF OnboardingInv, OnboardingTypes
<1>2. OnboardingTypes'
    BY <1>1 DEF OnboardingInv, OnboardingTypes
<1>3. NamesRows'
    BY <1>1 DEF OnboardingInv, NamesRows, There, O!None, Finalizing
<1>4. UseIsLeft' /\ OwnersKnown'
    BY DEF OnboardingInv, UseIsLeft, OwnersKnown, There, Provisioning, Finalizing,
           Finalized
<1>5. O!UsesBounded' /\ O!OwnerGaveToken'
    BY DEF OnboardingInv, O!UsesBounded, O!OwnerGaveToken
<1> QED
    BY <1>2, <1>3, <1>4, <1>5 DEF OnboardingInv

(* A tenant gets a status other than "provisioning", which no job changes. *)
LEMMA StatusMoves ==
    ASSUME OnboardingInv, NEW t, There(t),
           NEW s \in TenantStatuses \ {O!None, "provisioning"},
           tenant' = [tenant EXCEPT ![t].status = s],
           bot' \in [Tenants -> [status : BotStatuses, id : BotIds \cup {O!None}]],
           job' \in [ProvisionJobs -> ProvisionRecord],
           \A j \in ProvisionJobs : job'[j].pc # "free" => There(job'[j].tenant),
           UNCHANGED <<invite, owners, chat, finalize, finalised, confirmed>>
    PROVE  OnboardingInv'
<1>1. t \in Tenants /\ tenant \in [Tenants -> TenantRow]
    BY DEF There, OnboardingInv, OnboardingTypes
<1>2. tenant'[t] = [tenant[t] EXCEPT !.status = s]
      /\ \A u \in Tenants \ {t} : tenant'[u] = tenant[u]
    BY <1>1
<1>3. /\ tenant'[t] \in TenantRow /\ tenant'[t].status = s
      /\ tenant'[t].invite = tenant[t].invite /\ tenant'[t].owner = tenant[t].owner
    <2>1. tenant[t] \in TenantRow
        BY <1>1
    <2> QED
        BY <1>2, <2>1 DEF TenantRow
<1>4. \A u \in Tenants : /\ tenant'[u].invite = tenant[u].invite
                         /\ tenant'[u].owner = tenant[u].owner
                         /\ There(u)' <=> There(u)
                         /\ Provisioning(u)' => Provisioning(u)
    BY <1>1, <1>2, <1>3 DEF There, Provisioning
<1>5. tenant' \in [Tenants -> TenantRow]
    BY <1>1, <1>3
<1>6. OnboardingTypes'
    BY <1>5 DEF OnboardingInv, OnboardingTypes
<1>7. NamesRows'
    BY <1>4 DEF OnboardingInv, NamesRows, There, Finalizing
<1>8. Finalizing => Finalized \in Tenants
    BY DEF OnboardingInv, NamesRows, There, Finalized
<1>9. UseIsLeft'
    <2>1. /\ Finalizing' <=> Finalizing /\ Finalized' = Finalized
          /\ invite' = invite /\ finalize' = finalize
        BY DEF Finalizing, Finalized
    <2>2. UseIsLeft
        BY DEF OnboardingInv
    <2>3. \A u \in Tenants : Provisioning(u)' =>
             /\ invite'[tenant'[u].invite].used < InviteUses
             /\ \A v \in Tenants \ {u} :
                   ~(Provisioning(v)' /\ tenant'[v].invite = tenant'[u].invite)
        BY <1>4, <2>1, <2>2 DEF UseIsLeft
    <2>4. Finalizing' /\ finalize'.fresh =>
             /\ invite'[tenant'[Finalized'].invite].used < InviteUses
             /\ \A v \in Tenants \ {Finalized'} :
                   ~(Provisioning(v)' /\ tenant'[v].invite = tenant'[Finalized'].invite)
        BY <1>4, <1>8, <2>1, <2>2 DEF UseIsLeft
    <2>5. /\ Finalizing' => finalize'.fresh <=> finalize'.tenantWas = "provisioning"
          /\ Finalizing' /\ Provisioning(Finalized)' => finalize'.fresh
        BY <1>4, <1>8, <2>1, <2>2 DEF UseIsLeft
    <2> QED
        BY <2>3, <2>4, <2>5 DEF UseIsLeft
<1>10. OwnersKnown'
    BY <1>4, <1>8 DEF OnboardingInv, OwnersKnown, Finalizing, Finalized
<1>11. O!UsesBounded' /\ O!OwnerGaveToken'
    BY DEF OnboardingInv, O!UsesBounded, O!OwnerGaveToken
<1> QED
    BY <1>6, <1>7, <1>9, <1>10, <1>11 DEF OnboardingInv

(* The status of an invite changes, and nobody uses it.                    *)
LEMMA InviteMoves ==
    ASSUME OnboardingInv, NEW i \in Invites,
           NEW s \in {"active", "used", "revoked"},
           invite' = [invite EXCEPT ![i].status = s],
           UNCHANGED <<tenant, bot, owners, chat, job, finalize, finalised,
                       confirmed>>
    PROVE  OnboardingInv'
<1>1. invite \in [Invites -> InviteRow]
    BY DEF OnboardingInv, OnboardingTypes
<1>2. invite' \in [Invites -> InviteRow]
      /\ \A k \in Invites : invite'[k].used = invite[k].used
    BY <1>1 DEF InviteRow
<1>3. OnboardingTypes'
    BY <1>2 DEF OnboardingInv, OnboardingTypes
<1>4. NamesRows' /\ OwnersKnown'
    BY DEF OnboardingInv, NamesRows, OwnersKnown, There, Provisioning,
           Finalizing, Finalized
<1>5. UseIsLeft'
    <2>1. \A t \in Tenants : Provisioning(t) => tenant[t].invite \in Invites
        BY DEF OnboardingInv, NamesRows, There, Provisioning, O!None
    <2>2. Finalizing => tenant[Finalized].invite \in Invites
        BY DEF OnboardingInv, NamesRows, There, O!None, Finalized
    <2> QED
        BY <1>2, <2>1, <2>2 DEF OnboardingInv, UseIsLeft, Provisioning,
                                Finalizing, Finalized
<1>6. O!UsesBounded' /\ O!OwnerGaveToken'
    BY <1>2 DEF OnboardingInv, O!UsesBounded, O!OwnerGaveToken
<1> QED
    BY <1>3, <1>4, <1>5, <1>6 DEF OnboardingInv

LEMMA ConfirmKeeps ==
    ASSUME OnboardingInv, NEW o \in Owners, NEW t \in Tenants,
           NEW j \in ProvisionJobs, O!OnConfirm(o, t, j)
    PROVE  OnboardingInv'
<1> DEFINE i == chat[o].invite
           row == [status |-> "provisioning", invite |-> i, owner |-> o]
           queued == [job[j] EXCEPT !.pc = "queued", !.tenant = t]
           waits == [O!Quiet EXCEPT !.pc = "token", !.tenant = t]
<1>1. /\ ~Finalizing /\ chat[o].pc = "confirm" /\ i \in Invites
      /\ invite[i].used < InviteUses
      /\ \/ t \in O!OpenTenants(i)
         \/ O!OpenTenants(i) = {} /\ t \in O!UnusedTenants
      /\ tenant' = [tenant EXCEPT ![t] = row]
      /\ confirmed' = [confirmed EXCEPT ![t] = o]
      /\ UNCHANGED <<invite, owners, finalize, finalised>>
    BY DEF O!OnConfirm, O!MasterIdle, Finalizing, O!Usable, O!Chosen, O!ConfirmedRow,
           OnboardingInv, NamesRows
<1>2. /\ bot' = bot \/ bot' = [bot EXCEPT ![t].status = "provisioning"]
      /\ \/ job' = [job EXCEPT ![j] = queued] /\ chat' = [chat EXCEPT ![o] = waits]
         \/ UNCHANGED <<job, chat>>
    BY DEF O!OnConfirm, O!Says, OnboardingInv, OnboardingTypes
<1>3. /\ tenant \in [Tenants -> TenantRow] /\ chat \in [Owners -> ChatRecord]
      /\ job \in [ProvisionJobs -> ProvisionRecord]
      /\ confirmed \in [Tenants -> Owners \cup {O!None}]
    BY DEF OnboardingInv, OnboardingTypes
<1>4. /\ tenant'[t] = row /\ confirmed'[t] = o
      /\ \A u \in Tenants \ {t} : tenant'[u] = tenant[u] /\ confirmed'[u] = confirmed[u]
    BY <1>1, <1>3
<1>5. tenant[t].status \in {O!None, "provisioning"}
    BY <1>1, OnboardingAssumption DEF O!OpenTenants, O!UnusedTenants
<1>6. \A u \in Tenants : There(u) => There(u)'
    BY <1>4 DEF There, O!None
<1>7. There(t)'
    BY <1>4 DEF There, O!None
<1>8. OnboardingTypes'
    <2>1. tenant' \in [Tenants -> TenantRow]
        BY <1>1, <1>3 DEF TenantRow, TenantStatuses
    <2>2. confirmed' \in [Tenants -> Owners \cup {O!None}]
        BY <1>1, <1>3
    <2>3. bot' \in [Tenants -> [status : BotStatuses, id : BotIds \cup {O!None}]]
        BY <1>2 DEF OnboardingInv, OnboardingTypes, BotStatuses
    <2>4. job' \in [ProvisionJobs -> ProvisionRecord]
        <3>1. queued \in ProvisionRecord
            BY <1>3 DEF ProvisionRecord
        <3> QED
            BY <1>2, <1>3, <3>1
    <2>5. waits \in ChatRecord
        BY DEF ChatRecord, O!Quiet
    <2>6. chat' \in [Owners -> ChatRecord]
        BY <1>2, <1>3, <2>5
    <2> QED
        BY <1>1, <2>1, <2>2, <2>3, <2>4, <2>6 DEF OnboardingInv, OnboardingTypes
<1>9. NamesRows'
    <2>1. \A u \in Tenants : There(u)' => tenant'[u].invite \in Invites
        BY <1>1, <1>4 DEF OnboardingInv, NamesRows, There
    <2>2. ASSUME NEW p \in Owners
          PROVE  /\ chat'[p].pc \in {"slug", "name", "lang", "confirm"} =>
                       chat'[p].invite \in Invites
                 /\ chat'[p].pc = "token" => There(chat[p].tenant)'
        <3>1. CASE chat'[p] = chat[p]
            BY <1>6, <3>1 DEF OnboardingInv, NamesRows, There, O!None
        <3>2. CASE chat'[p] = waits
            BY <1>7, <3>2 DEF O!Quiet, There, O!None
        <3> QED
            BY <1>2, <1>3, <3>1, <3>2
    <2>3. ASSUME NEW k \in ProvisionJobs, job'[k].pc # "free"
          PROVE  There(job[k].tenant)'
        <3>1. CASE job'[k] = job[k]
            BY <1>6, <2>3, <3>1 DEF OnboardingInv, NamesRows, There, O!None
        <3>2. CASE job'[k] = queued
            BY <1>3, <1>7, <3>2 DEF ProvisionRecord, There, O!None
        <3> QED
            BY <1>2, <1>3, <3>1, <3>2
    <2> QED
        BY <1>1, <2>1, <2>2, <2>3 DEF NamesRows, Finalizing
<1>10. UseIsLeft'
    <2>1. \A u \in Tenants \ {t} : ~(Provisioning(u) /\ tenant[u].invite = i)
        BY <1>1 DEF OnboardingInv, UseIsLeft, O!OpenTenants, Provisioning
    <2>2. \A u \in Tenants \ {t} : Provisioning(u)' <=> Provisioning(u)
        BY <1>4 DEF Provisioning
    <2> QED
        BY <1>1, <1>4, <2>1, <2>2 DEF OnboardingInv, UseIsLeft, Finalizing
<1>11. OwnersKnown'
    <2>1. finalised[t] = O!None
        BY <1>5 DEF OnboardingInv, OwnersKnown, There, Provisioning
    <2> QED
        BY <1>1, <1>4, <2>1
           DEF OnboardingInv, OwnersKnown, There, Provisioning, Finalizing
<1>12. O!UsesBounded' /\ O!OwnerGaveToken'
    <2>1. finalised[t] = O!None
        BY <1>5 DEF OnboardingInv, OwnersKnown, There, Provisioning
    <2> QED
        BY <1>1, <1>4, <2>1 DEF OnboardingInv, O!UsesBounded, O!OwnerGaveToken
<1> QED
    BY <1>8, <1>9, <1>10, <1>11, <1>12 DEF OnboardingInv

LEMMA GrantOwnerKeeps ==
    ASSUME OnboardingInv, NEW o \in Owners, NEW id \in BotIds, O!GrantOwner(o, id)
    PROVE  OnboardingInv'
<1> DEFINE t == chat[o].tenant
<1>1. /\ ~Finalizing /\ chat[o].pc = "token" /\ There(t)
      /\ owners' = [owners EXCEPT ![t] = @ \cup {tenant[t].owner}]
      /\ finalize' = [by |-> o, id |-> id,
                      fresh |-> tenant[t].status = "provisioning",
                      tenantWas |-> tenant[t].status, botWas |-> bot[t].status]
      /\ UNCHANGED <<invite, tenant, bot, chat, job, finalised, confirmed>>
    BY DEF O!GrantOwner, O!MasterIdle, Finalizing, OnboardingInv, NamesRows
<1>2. t \in Tenants /\ tenant[t] \in TenantRow /\ bot[t].status \in BotStatuses
    BY <1>1 DEF There, OnboardingInv, OnboardingTypes
<1>3. /\ finalize'.by = o /\ finalize'.tenantWas = tenant[t].status
      /\ finalize'.fresh = Provisioning(t)
    BY <1>1 DEF Provisioning
<1>4. /\ owners \in [Tenants -> SUBSET (Owners \cup {O!None})]
      /\ tenant[t].owner \in owners'[t]
      /\ \A u \in Tenants : owners[u] \subseteq owners'[u]
    BY <1>1, <1>2 DEF OnboardingInv, OnboardingTypes
<1>5. OnboardingTypes'
    <2>1. owners' \in [Tenants -> SUBSET (Owners \cup {O!None})]
        BY <1>1, <1>2, <1>4 DEF TenantRow
    <2>2. finalize' \in FinalizeRecord
        BY <1>1, <1>2 DEF FinalizeRecord, TenantRow
    <2> QED
        BY <1>1, <2>1, <2>2 DEF OnboardingInv, OnboardingTypes
<1>6. NamesRows'
    BY <1>1, <1>3 DEF OnboardingInv, NamesRows, There
<1>7. UseIsLeft'
    BY <1>1, <1>2, <1>3 DEF OnboardingInv, UseIsLeft, Provisioning, Finalized
<1>8. OwnersKnown'
    BY <1>1, <1>3, <1>4 DEF OnboardingInv, OwnersKnown, There, Provisioning,
                            Finalized
<1>9. O!UsesBounded' /\ O!OwnerGaveToken'
    BY <1>1, <1>4 DEF OnboardingInv, O!UsesBounded, O!OwnerGaveToken
<1> QED
    BY <1>5, <1>6, <1>7, <1>8, <1>9 DEF OnboardingInv

LEMMA ActivateKeeps ==
    ASSUME OnboardingInv, O!Activate
    PROVE  OnboardingInv'
<1> DEFINE o == finalize.by
           t == Finalized
           i == tenant[t].invite
           s == O!Put(finalize.tenantWas, tenant[t].status, "active")
<1>1. /\ Finalizing /\ o \in Owners /\ chat[o].pc = "token" /\ There(t)
      /\ t \in Tenants /\ i \in Invites
    BY DEF O!Activate, O!MasterIdle, Finalizing, OnboardingInv, NamesRows,
           There, Finalized
<1>2. /\ tenant' = [tenant EXCEPT ![t].status = s]
      /\ IF finalize.fresh THEN \A k \in Invites :
               invite'[k].used = IF k = i THEN invite[k].used + 1 ELSE invite[k].used
         ELSE invite' = invite
      /\ finalised' = [finalised EXCEPT ![t] = o]
      /\ finalize' = O!NoFinalize
      /\ chat' = [chat EXCEPT ![o] = O!Quiet]
      /\ UNCHANGED <<owners, job, confirmed>>
    <2>1. invite \in [Invites -> InviteRow]
        BY DEF OnboardingInv, OnboardingTypes
    <2>2. finalize.fresh => \A k \in Invites :
             invite'[k].used = IF k = i THEN invite[k].used + 1 ELSE invite[k].used
        BY <1>1, <2>1 DEF O!Activate, InviteRow, Finalized
    <2>3. ~finalize.fresh => invite' = invite
        BY DEF O!Activate
    <2> QED
        BY <2>2, <2>3 DEF O!Activate, O!Says, Finalized
<1>3. /\ tenant \in [Tenants -> TenantRow] /\ chat \in [Owners -> ChatRecord]
      /\ invite \in [Invites -> InviteRow] /\ finalize \in FinalizeRecord
      /\ finalised \in [Tenants -> Owners \cup {O!None}]
    BY DEF OnboardingInv, OnboardingTypes
<1>4. s \in TenantStatuses \ {O!None, "provisioning"}
    BY <1>1, <1>3
       DEF O!Put, There, TenantStatuses, TenantRow, FinalizeRecord, OnboardingInv,
           UseIsLeft, Provisioning, O!None
<1>5. /\ tenant'[t] \in TenantRow /\ tenant'[t].status = s
      /\ tenant'[t].invite = i /\ tenant'[t].owner = tenant[t].owner
      /\ \A u \in Tenants \ {t} : tenant'[u] = tenant[u]
    BY <1>1, <1>2, <1>3, <1>4 DEF TenantRow
<1> HIDE DEF s
<1>6. \A u \in Tenants : /\ tenant'[u].invite = tenant[u].invite
                         /\ tenant'[u].owner = tenant[u].owner
                         /\ There(u)' <=> There(u)
                         /\ Provisioning(u)' => Provisioning(u) /\ u # t
    BY <1>1, <1>4, <1>5 DEF There, Provisioning
<1>7. /\ finalised'[t] = o
      /\ \A u \in Tenants \ {t} : finalised'[u] = finalised[u]
    BY <1>1, <1>2, <1>3
<1>8. ~Finalizing'
    BY <1>2 DEF Finalizing
<1>9. finalize.fresh =>
        /\ invite[i].used < InviteUses
        /\ \A u \in Tenants \ {t} : ~(Provisioning(u) /\ tenant[u].invite = i)
    BY <1>1 DEF OnboardingInv, UseIsLeft
<1>10. OnboardingTypes'
    <2>1. tenant' \in [Tenants -> TenantRow]
        BY <1>2, <1>3, <1>5
    <2>2. bot' \in [Tenants -> [status : BotStatuses, id : BotIds \cup {O!None}]]
        <3>1. /\ bot' = [bot EXCEPT ![t].id = finalize.id,
                            ![t].status = O!Put(finalize.botWas, @, "active")]
              /\ bot \in [Tenants -> [status : BotStatuses, id : BotIds \cup {O!None}]]
            BY DEF O!Activate, OnboardingInv, OnboardingTypes, Finalized
        <3>2. finalize.id \in BotIds \cup {O!None}
            BY <1>3 DEF FinalizeRecord
        <3> DEFINE row == [bot[t] EXCEPT !.id = finalize.id,
                                 !.status = O!Put(finalize.botWas, @, "active")]
        <3>3. bot' = [bot EXCEPT ![t] = row]
            BY <3>1
        <3>4. row \in [status : BotStatuses, id : BotIds \cup {O!None}]
            BY <1>1, <3>1, <3>2 DEF O!Put, BotStatuses
        <3> QED
            BY <3>1, <3>3, <3>4
    <2>3. invite' \in [Invites -> InviteRow]
        <3>1. CASE finalize.fresh
            <4> DEFINE used == [invite EXCEPT ![i].used = @ + 1]
            <4>1. used \in [Invites -> InviteRow]
                BY <1>1, <1>3 DEF InviteRow
            <4>2. invite' = [used EXCEPT ![i].status =
                               IF invite[i].used + 1 >= InviteUses THEN "used" ELSE @]
                BY <3>1 DEF O!Activate, Finalized
            <4>3. used[i] \in InviteRow
                BY <1>1, <4>1
            <4> DEFINE row == [used[i] EXCEPT !.status =
                                  IF invite[i].used + 1 >= InviteUses THEN "used"
                                  ELSE used[i].status]
            <4>4. row \in InviteRow
                BY <4>3 DEF InviteRow
            <4>5. invite' = [used EXCEPT ![i] = row]
                BY <4>2
            <4> QED
                BY <4>1, <4>4, <4>5
        <3>2. CASE ~finalize.fresh
            BY <1>2, <1>3, <3>2
        <3> QED
            BY <3>1, <3>2
    <2>4. finalize' \in FinalizeRecord
        BY <1>2 DEF O!NoFinalize, FinalizeRecord, TenantStatuses, BotStatuses
    <2>5. chat' \in [Owners -> ChatRecord]
        BY <1>2, <1>3 DEF O!Quiet, ChatRecord
    <2>6. finalised' \in [Tenants -> Owners \cup {O!None}]
        BY <1>1, <1>2, <1>3
    <2> QED
        BY <1>2, <2>1, <2>2, <2>3, <2>4, <2>5, <2>6 DEF OnboardingInv, OnboardingTypes
<1>11. NamesRows'
    <2>1. \A u \in Tenants : There(u)' => tenant'[u].invite \in Invites
        BY <1>6 DEF OnboardingInv, NamesRows
    <2>2. \A p \in Owners : chat'[p] = chat[p] \/ chat'[p].pc = "idle"
        BY <1>2, <1>3 DEF O!Quiet
    <2>3. \A p \in Owners :
             /\ chat'[p].pc \in {"slug", "name", "lang", "confirm"} =>
                   chat'[p].invite \in Invites
             /\ chat'[p].pc = "token" => There(chat[p].tenant)'
        BY <1>6, <2>2 DEF OnboardingInv, NamesRows, There, O!None
    <2>4. \A k \in ProvisionJobs : job'[k].pc # "free" => There(job[k].tenant)'
        BY <1>2, <1>6 DEF OnboardingInv, NamesRows, There, O!None
    <2> QED
        BY <1>8, <2>1, <2>3, <2>4 DEF NamesRows, O!None
<1>12. UseIsLeft'
    <2>1. \A u \in Tenants : Provisioning(u) => tenant[u].invite \in Invites
        BY DEF OnboardingInv, NamesRows, There, Provisioning, O!None
    <2>2. ASSUME NEW u \in Tenants, Provisioning(u)'
          PROVE  invite'[tenant'[u].invite].used < InviteUses
        <3>1. Provisioning(u) /\ u # t /\ tenant'[u].invite = tenant[u].invite
            BY <1>6, <2>2
        <3>2. invite[tenant[u].invite].used < InviteUses
            BY <3>1 DEF OnboardingInv, UseIsLeft
        <3> QED
            BY <1>2, <1>9, <2>1, <3>1, <3>2
    <2> QED
        BY <1>6, <1>8, <2>2 DEF OnboardingInv, UseIsLeft
<1>13. OwnersKnown'
    <2>1. \A u \in Tenants : finalised'[u] # O!None => There(u)' /\ ~Provisioning(u)'
        BY <1>1, <1>6, <1>7 DEF OnboardingInv, OwnersKnown
    <2> QED
        BY <1>2, <1>6, <1>8, <2>1 DEF OnboardingInv, OwnersKnown
<1>14. O!UsesBounded'
    <2> SUFFICES ASSUME NEW k \in Invites PROVE invite'[k].used <= InviteUses
        BY DEF O!UsesBounded
    <2>1. invite[k].used <= InviteUses /\ invite[k].used \in Nat
        BY <1>3 DEF OnboardingInv, O!UsesBounded, InviteRow
    <2> QED
        BY <1>2, <1>9, <2>1, OnboardingAssumption
<1>15. O!OwnerGaveToken'
    <2>1. tenant[t].owner \in owners[t] /\ tenant[t].owner = confirmed[t]
        BY <1>1 DEF OnboardingInv, OwnersKnown
    <2> QED
        BY <1>2, <1>7, <2>1 DEF OnboardingInv, O!OwnerGaveToken
<1> QED
    BY <1>10, <1>11, <1>12, <1>13, <1>14, <1>15 DEF OnboardingInv

LEMMA OnboardingNext == OnboardingInv /\ [O!Next]_tenantVars => OnboardingInv'
<1> SUFFICES ASSUME OnboardingInv, [O!Next]_tenantVars
             PROVE  OnboardingInv'
    OBVIOUS
<1> USE DEF O!MasterIdle, Finalizing
<1>1. /\ tenant \in [Tenants -> TenantRow] /\ chat \in [Owners -> ChatRecord]
      /\ job \in [ProvisionJobs -> ProvisionRecord]
      /\ bot \in [Tenants -> [status : BotStatuses, id : BotIds \cup {O!None}]]
    BY DEF OnboardingInv, OnboardingTypes
<1>2. O!Quiet \in ChatRecord /\ O!Quiet.pc = "idle"
    BY DEF O!Quiet, ChatRecord
<1>3. ASSUME NEW o \in Owners, NEW i \in Invites, O!OnStartWithCode(o, i)
      PROVE  OnboardingInv'
    <2> DEFINE q == [O!Quiet EXCEPT !.pc = "slug", !.invite = i]
    <2>1. q \in ChatRecord /\ q.pc = "slug" /\ q.invite = i
        BY <1>2 DEF O!Quiet, ChatRecord
    <2> QED
        BY <1>3, <2>1, ChatMoves DEF O!OnStartWithCode, O!Says
<1>4. ASSUME NEW o \in Owners, NEW pc \in {"slug", "name", "lang"},
             NEW next \in {"name", "lang", "confirm"}, O!Answers(o, pc, next)
      PROVE  OnboardingInv'
    <2> DEFINE q == [chat[o] EXCEPT !.pc = next]
    <2>1. q \in ChatRecord /\ q.pc = next /\ q.invite = chat[o].invite
        BY <1>1 DEF ChatRecord
    <2>2. q.invite \in Invites
        BY <1>4, <2>1 DEF O!Answers, OnboardingInv, NamesRows
    <2> QED
        BY <1>4, <2>1, <2>2, ChatMoves DEF O!Answers, O!Says
<1>5. ASSUME NEW o \in Owners, O!OnCancel(o) \/ O!ConfirmRefused(o)
      PROVE  OnboardingInv'
    BY <1>2, <1>5, ChatMoves DEF O!OnCancel, O!ConfirmRefused, O!Says
<1>6. ASSUME NEW j \in ProvisionJobs, job[j].pc # "free" PROVE There(job[j].tenant)
    BY <1>6 DEF OnboardingInv, NamesRows
<1>7. ASSUME NEW j \in ProvisionJobs, O!ProvisionReads(j)
      PROVE  OnboardingInv'
    <2> DEFINE q == [job[j] EXCEPT !.pc = "asking",
                                   !.was = tenant[job[j].tenant].status]
    <2>1. There(job[j].tenant)
        BY <1>6, <1>7 DEF O!ProvisionReads
    <2>2. q \in ProvisionRecord /\ q.tenant = job[j].tenant
        BY <1>1, <2>1 DEF There, TenantRow, ProvisionRecord
    <2>3. job' = [job EXCEPT ![j] = q]
        BY <1>1, <1>7 DEF O!ProvisionReads
    <2> QED
        BY <1>7, <2>1, <2>2, <2>3, JobMoves DEF O!ProvisionReads
<1>8. ASSUME NEW j \in ProvisionJobs, O!ProvisionStops(j)
      PROVE  OnboardingInv'
    <2> DEFINE q == [job[j] EXCEPT !.pc = "queued", !.was = O!None]
    <2>1. q \in ProvisionRecord /\ q.tenant = job[j].tenant
        BY <1>1 DEF ProvisionRecord, TenantStatuses
    <2>2. There(q.tenant)
        BY <1>6, <1>8, <2>1 DEF O!ProvisionStops
    <2>3. job' = [job EXCEPT ![j] = q]
        BY <1>1, <1>8 DEF O!ProvisionStops
    <2> QED
        BY <1>8, <2>1, <2>2, <2>3, JobMoves DEF O!ProvisionStops
<1>9. ASSUME NEW j \in ProvisionJobs, O!ProvisionWrites(j)
      PROVE  OnboardingInv'
    <2> DEFINE t == job[j].tenant
               s == O!Put(job[j].was, tenant[t].status, "awaiting")
    <2>1. /\ There(t) /\ tenant' = [tenant EXCEPT ![t].status = s]
          /\ job' = [job EXCEPT ![j] = O!NoJob]
          /\ UNCHANGED <<invite, bot, owners, chat, finalize, finalised, confirmed>>
        BY <1>6, <1>9 DEF O!ProvisionWrites
    <2>2. O!NoJob \in ProvisionRecord /\ O!NoJob.pc = "free"
        BY DEF ProvisionRecord, O!NoJob, O!None, TenantStatuses
    <2>3. CASE s = "awaiting"
        <3>1. \A k \in ProvisionJobs : job'[k].pc # "free" => There(job'[k].tenant)
            BY <1>1, <1>6, <2>1, <2>2 DEF There, O!None
        <3>2. job' \in [ProvisionJobs -> ProvisionRecord]
            BY <1>1, <2>1, <2>2
        <3>3. s \in TenantStatuses \ {O!None, "provisioning"}
            BY <2>3 DEF TenantStatuses, O!None
        <3> HIDE DEF s
        <3> QED
            BY <1>1, <2>1, <3>1, <3>2, <3>3, StatusMoves
    <2>4. CASE s = tenant[t].status
        <3>1. tenant' = tenant
            BY <1>1, <2>1, <2>4 DEF There, TenantRow
        <3> QED
            BY <2>1, <2>2, <3>1, JobMoves
    <2> QED
        BY <2>3, <2>4 DEF O!Put
<1>10. ASSUME NEW t \in Tenants, NEW s \in {"suspended", "active", "archived"},
              tenant[t].status # O!None, tenant' = [tenant EXCEPT ![t].status = s],
              bot' \in [Tenants -> [status : BotStatuses, id : BotIds \cup {O!None}]],
              UNCHANGED <<invite, owners, chat, job, finalize, finalised, confirmed>>
       PROVE  OnboardingInv'
    <2>1. There(t) /\ s \in TenantStatuses \ {O!None, "provisioning"}
        BY <1>10 DEF There, TenantStatuses, O!None
    <2>2. \A k \in ProvisionJobs : job'[k].pc # "free" => There(job'[k].tenant)
        BY <1>6, <1>10 DEF There, O!None
    <2> QED
        BY <1>1, <1>10, <2>1, <2>2, StatusMoves
<1>11. ASSUME NEW t \in Tenants,
              \/ O!SetTenantStatus(t, "suspended", "paused")
              \/ O!SetTenantStatus(t, "active", "active")
       PROVE  OnboardingInv'
    <2>1. bot' \in [Tenants -> [status : BotStatuses, id : BotIds \cup {O!None}]]
        <3>1. /\ bot \in [Tenants -> [status : BotStatuses, id : BotIds \cup {O!None}]]
              /\ \/ bot' = [bot EXCEPT ![t].status = "paused"]
                 \/ bot' = [bot EXCEPT ![t].status = "active"]
            BY <1>1, <1>11 DEF O!SetTenantStatus
        <3>2. "paused" \in BotStatuses /\ "active" \in BotStatuses
            BY DEF BotStatuses
        <3> QED
            BY <3>1, <3>2
    <2> QED
        BY <1>10, <1>11, <2>1 DEF O!SetTenantStatus, O!StaffActs
<1>12. ASSUME NEW t \in Tenants, O!ArchiveTenant(t)
       PROVE  OnboardingInv'
    <2>1. bot' \in [Tenants -> [status : BotStatuses, id : BotIds \cup {O!None}]]
        BY <1>1, <1>12 DEF O!ArchiveTenant, BotStatuses
    <2> QED
        BY <1>10, <1>12, <2>1 DEF O!ArchiveTenant, O!StaffActs
<1>13. ASSUME NEW t \in Tenants, NEW s \in {"suspended", "archived"},
              O!SetPlatformTenantStatus(t, s)
       PROVE  OnboardingInv'
    BY <1>1, <1>10, <1>13 DEF O!SetPlatformTenantStatus, O!StaffActs
<1>14. ASSUME NEW i \in Invites,
              \/ O!CreateInvite(i) \/ O!OnNewInvite(i)
              \/ O!RevokeInvite(i) \/ O!OnRevokeInvite(i)
       PROVE  OnboardingInv'
    BY <1>14, InviteMoves
       DEF O!CreateInvite, O!OnNewInvite, O!RevokeInvite, O!OnRevokeInvite, O!StaffActs
<1>15. ASSUME O!FinalizeFails PROVE OnboardingInv'
    <2>1. finalize' \in FinalizeRecord /\ ~Finalizing'
        BY <1>15 DEF O!FinalizeFails, O!NoFinalize, FinalizeRecord, O!None,
                     TenantStatuses, BotStatuses
    <2>2. UNCHANGED <<invite, tenant, bot, owners, chat, job, finalised, confirmed>>
        BY <1>15 DEF O!FinalizeFails
    <2>3. OnboardingTypes' /\ NamesRows'
        BY <2>1, <2>2 DEF OnboardingInv, OnboardingTypes, NamesRows, There
    <2>4. UseIsLeft' /\ OwnersKnown'
        BY <2>1, <2>2
           DEF OnboardingInv, UseIsLeft, OwnersKnown, There, Provisioning
    <2> QED
        BY <2>2, <2>3, <2>4 DEF OnboardingInv, O!UsesBounded, O!OwnerGaveToken
<1>16. CASE UNCHANGED tenantVars
    <2>1. UNCHANGED <<invite, tenant, bot, owners, chat, job, finalize, finalised,
                      confirmed>>
        BY <1>16 DEF tenantVars
    <2>2. OnboardingTypes' /\ NamesRows'
        BY <2>1 DEF OnboardingInv, OnboardingTypes, NamesRows, There
    <2>3. UseIsLeft' /\ OwnersKnown'
        BY <2>1
           DEF OnboardingInv, UseIsLeft, OwnersKnown, There, Provisioning, Finalized
    <2> QED
        BY <2>1, <2>2, <2>3 DEF OnboardingInv, O!UsesBounded, O!OwnerGaveToken
<1>17. CASE \E o \in Owners : O!OnSlug(o) \/ O!OnDisplayName(o) \/ O!OnDefaultLang(o)
    BY <1>4, <1>17 DEF O!OnSlug, O!OnDisplayName, O!OnDefaultLang
<1> QED
    BY <1>3, <1>5, <1>7, <1>8, <1>9, <1>11, <1>12, <1>13, <1>14, <1>15, <1>16, <1>17,
       ConfirmKeeps, GrantOwnerKeeps, ActivateKeeps
       DEF O!Next

LEMMA OnboardingRuns ==
    [PlatformNext]_platformVars =>
       UNCHANGED part /\ [part = "tenants" /\ O!Next]_tenantVars
BY DEF PlatformNext, platformVars, Only

LEMMA OnboardingSafe == PlatformSpec => [](part = "tenants" => OnboardingInv)
<1>1. PlatformInit => (part = "tenants" => OnboardingInv)
    BY OnboardingInit DEF PlatformInit
<1>2. (part = "tenants" => OnboardingInv) /\ [PlatformNext]_platformVars
      => (part = "tenants" => OnboardingInv)'
    BY OnboardingRuns, OnboardingNext
<1> QED
    BY <1>1, <1>2, PTL DEF PlatformSpec

(* An invite is never counted more often than it may be used, and whoever  *)
(* gave the token of a tenant's bot owns the tenant unless somebody else   *)
(* confirmed after it (domain/provisioning.py 49-72, 145-180).             *)
THEOREM TenantsOwned == PlatformSpec => []TenantsAreOwned
<1>1. (part = "tenants" => OnboardingInv) => TenantsAreOwned
    BY DEF OnboardingInv, TenantsAreOwned
<1> QED
    BY <1>1, OnboardingSafe, PTL

-----------------------------------------------------------------------------
(* TenantConsole.                                                          *)

Roles == {"owner", "admin"}
Ops == {"none", "grant", "revoke", "transfer", "ban", "unban", "pause",
        "resume", "delete", "credits", "promote", "demote"}
Vias == {"none", "route", "console", "cabinet"}
Someone == People \cup {T!Nobody}
CallType ==
    [op : Ops, via : Vias, by : Someone, on : Someone,
     role : {"none", "owner", "admin"}, prior : Someone, held : BOOLEAN,
     overtaken : BOOLEAN]
DialogType == [op : Ops, via : Vias, on : Someone]

ConsoleTypeOK ==
    /\ role \in [People -> SUBSET Roles]
    /\ superadmin \subseteq People
    /\ disabled \subseteq Someone
    /\ primary \in People
    /\ standing \in {"active", "suspended", "archived"}
    /\ dialog \in [People -> DialogType]
    /\ call \in [T!Callers -> CallType]
    /\ calls \in Nat
    /\ removalsRaced \in BOOLEAN

RunningCalls ==
    \A c \in T!Callers : call[c] # T!NoCall =>
       /\ call[c].op \in {"grant", "revoke", "transfer", "promote", "demote"} =>
             call[c].on \in People
       /\ call[c].op \in {"grant", "revoke"} => call[c].role \in Roles
       /\ \/ call[c].overtaken
          \/ IF c = Master THEN T!MayTell(call[c].by, call[c].via)
             ELSE T!MayCall(call[c].by, call[c].op)
LastOneStays ==
    \/ removalsRaced
    \/ /\ T!Holders("owner") # {} /\ superadmin # {}
       /\ \A c \in T!Callers :
             /\ call[c].op = "revoke" /\ call[c].role = "owner" =>
                   T!Holders("owner") \ {call[c].on} # {}
             /\ call[c].op = "transfer" /\ call[c].role = "owner" =>
                   ~call[c].held \/ "owner" \in role[call[c].on]
             /\ call[c].op = "demote" => superadmin \ {call[c].on} # {}

ConsoleInv == ConsoleTypeOK /\ RunningCalls /\ LastOneStays

LEMMA ConsoleInit == T!Init => ConsoleInv
<1> SUFFICES ASSUME T!Init PROVE ConsoleInv
    OBVIOUS
<1> USE ConsoleAssumption
<1>1. primary \in People
    BY DEF T!Init
<1>2. T!NoCall \in CallType
    BY DEF T!NoCall, CallType, Ops, Vias, Someone
<1>8. call \in [T!Callers -> CallType] /\ \A c \in T!Callers : call[c] = T!NoCall
    BY <1>2 DEF T!Init
<1>3. dialog \in [People -> DialogType]
    BY DEF T!Init, T!NoDialog, DialogType, Ops, Vias, Someone
<1>4. role \in [People -> SUBSET Roles] /\ T!Holders("owner") # {}
    BY DEF T!Init, Roles, T!Holders
<1>5. ConsoleTypeOK
    BY <1>1, <1>8, <1>3, <1>4 DEF T!Init, ConsoleTypeOK
<1>6. RunningCalls
    BY <1>8 DEF RunningCalls
<1>7. LastOneStays
    BY <1>8, <1>4 DEF T!Init, LastOneStays, T!NoCall
<1> QED
    BY <1>5, <1>6, <1>7 DEF ConsoleInv

(* An instance has its own copy of the operators it extends.               *)
LEMMA SameCardinality == \A X : T!Cardinality(X) = Cardinality(X)
BY DEF T!Cardinality, Cardinality

(* A call is let in: what its caller was checked for.                      *)
LetIn(c, via, op, p, q, r) ==
    /\ call[c] = T!NoCall /\ T!Start(c, via, op, p, q, r)
    /\ op \in Ops \ {"none"} /\ via \in Vias /\ p \in People /\ q \in Someone
    /\ r \in {"none", "owner", "admin"}
    /\ op \in {"grant", "revoke", "transfer", "promote", "demote"} => q \in People
    /\ op \in {"grant", "revoke"} => r \in Roles
    /\ IF c = Master THEN T!MayTell(p, via) ELSE T!MayCall(p, op)
    /\ op = "revoke" /\ r = "owner" => Cardinality(T!Holders("owner")) > 1
    /\ op = "demote" => Cardinality(superadmin) > 1
    /\ UNCHANGED <<role, superadmin, disabled, primary, standing, removalsRaced>>

(* A dialogue is opened or closed.                                         *)
Talk == UNCHANGED <<role, superadmin, disabled, primary, standing, call, calls,
                    removalsRaced>>

LEMMA RoutesLetIn ==
    ASSUME NEW c \in Routes, NEW p \in People,
           T!TenantRoute(c, p) \/ \E q \in People : T!Route(c, p, q)
    PROVE  /\ \E op \in Ops, q \in Someone, r \in {"none", "owner", "admin"} :
                 LetIn(c, "route", op, p, q, r)
           /\ UNCHANGED dialog
<1> USE ConsoleAssumption
<1>1. c # Master
    OBVIOUS
<1>2. ASSUME NEW op \in {"pause", "resume", "delete"}, NEW q \in People,
             T!BeginRoute(c, op, p, q, "none")
      PROVE  LetIn(c, "route", op, p, q, "none") /\ UNCHANGED dialog
    BY <1>1, <1>2 DEF T!BeginRoute, LetIn, Ops, Vias, Someone
<1>3. ASSUME NEW op \in {"ban", "unban", "promote", "demote"}, NEW q \in People,
             T!BeginRoute(c, op, p, q, "none"),
             op = "demote" => Cardinality(superadmin) > 1
      PROVE  LetIn(c, "route", op, p, q, "none") /\ UNCHANGED dialog
    BY <1>1, <1>3 DEF T!BeginRoute, LetIn, Ops, Vias, Someone
<1>4. ASSUME NEW op \in {"grant", "revoke"}, NEW q \in People, NEW r \in Roles,
             T!BeginRoute(c, op, p, q, r),
             op = "revoke" /\ r = "owner" => Cardinality(T!Holders("owner")) > 1
      PROVE  LetIn(c, "route", op, p, q, r) /\ UNCHANGED dialog
    BY <1>1, <1>4 DEF T!BeginRoute, LetIn, Ops, Vias, Someone, Roles
<1>5. ASSUME NEW q \in People, NEW r \in {"owner", "none"},
             T!BeginRoute(c, "transfer", p, q, r)
      PROVE  LetIn(c, "route", "transfer", p, q, r) /\ UNCHANGED dialog
    BY <1>1, <1>5 DEF T!BeginRoute, LetIn, Ops, Vias, Someone
<1>6. CASE T!TenantRoute(c, p)
    BY <1>2, <1>6 DEF T!TenantRoute, T!PauseTenant, T!ResumeTenant, T!DeleteTenant,
                      Ops, Someone
<1>7. ASSUME NEW q \in People, T!Route(c, p, q)
      PROVE  /\ \E op \in Ops, y \in Someone, r \in {"none", "owner", "admin"} :
                   LetIn(c, "route", op, p, y, r)
             /\ UNCHANGED dialog
    <2>1. CASE \E r \in {"owner", "admin"} :
                 T!GrantTenantRole(c, p, q, r) \/ T!RevokeTenantRole(c, p, q, r)
        <3>1. ASSUME NEW r \in Roles, T!GrantTenantRole(c, p, q, r)
              PROVE  LetIn(c, "route", "grant", p, q, r) /\ UNCHANGED dialog
            BY <1>4, <3>1 DEF T!GrantTenantRole
        <3>2. ASSUME NEW r \in Roles, T!RevokeTenantRole(c, p, q, r)
              PROVE  LetIn(c, "route", "revoke", p, q, r) /\ UNCHANGED dialog
            BY <1>4, <3>2, SameCardinality DEF T!RevokeTenantRole
        <3> QED
            BY <2>1, <3>1, <3>2 DEF Ops, Someone, Roles
    <2>2. CASE \E r \in {"owner", "none"} : T!TransferTenantOwnership(c, p, q, r)
        <3>1. ASSUME NEW r \in {"owner", "none"}, T!TransferTenantOwnership(c, p, q, r)
              PROVE  LetIn(c, "route", "transfer", p, q, r) /\ UNCHANGED dialog
            BY <1>5, <3>1 DEF T!TransferTenantOwnership
        <3> QED
            BY <2>2, <3>1 DEF Ops, Someone
    <2>3. CASE \/ T!BanAccount(c, p, q) \/ T!UnbanAccount(c, p, q)
               \/ T!GrantSuperadmin(c, p, q) \/ T!RevokeSuperadmin(c, p, q)
        <3>1. PICK op \in {"ban", "unban", "promote", "demote"} :
                 /\ T!BeginRoute(c, op, p, q, "none")
                 /\ op = "demote" => Cardinality(superadmin) > 1
            BY <2>3, SameCardinality
               DEF T!BanAccount, T!UnbanAccount, T!GrantSuperadmin, T!RevokeSuperadmin
        <3> QED
            BY <1>3, <3>1 DEF Ops, Someone
    <2> QED
        BY <1>7, <2>1, <2>2, <2>3 DEF T!Route
<1> QED
    BY <1>6, <1>7

LEMMA MasterLetsIn ==
    ASSUME ConsoleTypeOK, NEW p \in People, T!MasterBot(p)
    PROVE  /\ \/ Talk
              \/ \E via \in Vias, op \in Ops, q \in Someone :
                    LetIn(Master, via, op, p, q, "none")
           /\ dialog' \in [People -> DialogType]
<1>1. dialog \in [People -> DialogType]
    BY DEF ConsoleTypeOK
<1>2. ASSUME NEW via \in Vias, NEW op \in Ops, NEW q \in Someone,
             T!OpenDialog(via, op, p, q)
      PROVE  Talk /\ dialog' \in [People -> DialogType]
    BY <1>1, <1>2 DEF T!OpenDialog, Talk, DialogType
<1>3. CASE T!CloseDialog(p)
    <2>1. T!NoDialog \in DialogType
        BY DEF T!NoDialog, DialogType, Ops, Vias, Someone
    <2> QED
        BY <1>1, <1>3, <2>1 DEF T!CloseDialog, Talk
<1>4. ASSUME NEW via \in Vias,
             NEW op \in {"pause", "resume", "unban", "transfer", "delete", "ban",
                         "credits"},
             NEW q \in Someone, op = "transfer" => q \in People,
             T!TapButton(via, op, p, q) \/ T!AnswerDialog(via, op, p, q)
      PROVE  LetIn(Master, via, op, p, q, "none") /\ dialog' \in [People -> DialogType]
    <2>1. T!NoDialog \in DialogType
        BY DEF T!NoDialog, DialogType, Ops, Vias, Someone
    <2>2. dialog' \in [People -> DialogType]
        BY <1>1, <1>4, <2>1 DEF T!TapButton, T!AnswerDialog
    <2> QED
        BY <1>4, <2>2 DEF T!TapButton, T!AnswerDialog, T!MasterIdle, LetIn, Ops
<1>5. dialog[p].on \in Someone
    BY <1>1 DEF DialogType
<1>6. "console" \in Vias /\ "cabinet" \in Vias /\ p \in Someone
      /\ {"pause", "resume", "unban", "transfer", "delete", "ban", "credits"}
         \subseteq Ops /\ People \subseteq Someone
    BY DEF Vias, Someone, Ops
<1> QED
    BY <1>2, <1>3, <1>4, <1>5, <1>6
       DEF T!MasterBot, T!OnManagePause, T!OnManageResume, T!OnUserUnban,
           T!OnTenantSuspend, T!OnTenantResume, T!OnManageTransfer, T!OnManageDelete,
           T!OnUserBanStart, T!OnUserGrantStart, T!OnTenantDelete, T!OnTransferTarget,
           T!OnDeleteConfirm, T!OnUserBanReason, T!OnUserGrantAmount,
           T!CabinetDeleteConfirm

LEMMA ConsoleSteps ==
    ASSUME ConsoleTypeOK, [T!Next]_consoleVars
    PROVE  \/ Talk /\ dialog' \in [People -> DialogType]
           \/ /\ \E c \in T!Callers, via \in Vias, op \in Ops, p \in People,
                    q \in Someone, r \in {"none", "owner", "admin"} :
                    LetIn(c, via, op, p, q, r)
              /\ dialog' \in [People -> DialogType]
           \/ \E c \in T!Callers : T!Write(c) \/ T!Abandon(c)
<1>1. dialog \in [People -> DialogType] /\ "route" \in Vias /\ Master \in T!Callers
      /\ Routes \subseteq T!Callers
    BY DEF ConsoleTypeOK, Vias, T!Callers
<1>2. CASE UNCHANGED consoleVars
    BY <1>1, <1>2 DEF consoleVars, Talk
<1>3. CASE T!Next
    BY <1>1, <1>3, RoutesLetIn, MasterLetsIn DEF T!Next
<1> QED
    BY <1>2, <1>3

(* A role that more than one person holds is kept when one of them loses it. *)
LEMMA AnotherIsLeft ==
    ASSUME NEW X, NEW x, Cardinality(X) > 1
    PROVE  X \ {x} # {}
<1> SUFFICES ASSUME X \ {x} = {} PROVE FALSE
    OBVIOUS
<1>1. X = {} \/ X = {x}
    OBVIOUS
<1>2. Cardinality({}) = 0 /\ Cardinality({x}) = 1
    BY FS_EmptySet, FS_Singleton
<1> QED
    BY <1>1, <1>2

-----------------------------------------------------------------------------
LEMMA LetInKeeps ==
    ASSUME ConsoleInv, dialog' \in [People -> DialogType],
           NEW c \in T!Callers, NEW via \in Vias, NEW op \in Ops, NEW p \in People,
           NEW q \in Someone, NEW r \in {"none", "owner", "admin"},
           LetIn(c, via, op, p, q, r)
    PROVE  ConsoleInv'
<1> DEFINE k == [op |-> op, via |-> via, by |-> p, on |-> q, role |-> r,
                 prior |-> IF op = "transfer" THEN primary ELSE T!Nobody,
                 held |-> op = "transfer" /\ "owner" \in role[q],
                 overtaken |-> FALSE]
<1>1. call' = [call EXCEPT ![c] = k] /\ calls' = calls + 1
    BY DEF LetIn, T!Start
<1>2. UNCHANGED <<role, superadmin, disabled, primary, standing, removalsRaced>>
    BY DEF LetIn
<1>3. call \in [T!Callers -> CallType] /\ k \in CallType
    <2>1. primary \in Someone /\ T!Nobody \in Someone /\ p \in Someone
        BY DEF ConsoleInv, ConsoleTypeOK, Someone
    <2> QED
        BY <2>1 DEF ConsoleInv, ConsoleTypeOK, CallType
<1>4. ConsoleTypeOK'
    BY <1>1, <1>2, <1>3 DEF ConsoleInv, ConsoleTypeOK
<1>5. RunningCalls'
    <2> SUFFICES ASSUME NEW d \in T!Callers, call'[d] # T!NoCall
                 PROVE  /\ call'[d].op \in {"grant", "revoke", "transfer", "promote",
                                           "demote"} => call'[d].on \in People
                        /\ call'[d].op \in {"grant", "revoke"} => call'[d].role \in Roles
                        /\ \/ call'[d].overtaken
                           \/ IF d = Master THEN T!MayTell(call'[d].by, call'[d].via)
                              ELSE T!MayCall(call'[d].by, call'[d].op)
        BY <1>2 DEF RunningCalls, T!MayTell, T!MayCall, T!RoleAllows
    <2>1. CASE d = c
        BY <1>1, <1>3, <2>1 DEF LetIn
    <2>2. CASE d # c
        BY <1>1, <1>3, <2>2 DEF ConsoleInv, RunningCalls
    <2> QED
        BY <2>1, <2>2
<1>6. LastOneStays'
    <2>1. CASE removalsRaced
        BY <1>2, <2>1 DEF LastOneStays
    <2>2. CASE ~removalsRaced
        <3>1. op = "revoke" /\ r = "owner" => T!Holders("owner") \ {q} # {}
            BY AnotherIsLeft DEF LetIn
        <3>2. op = "demote" => superadmin \ {q} # {}
            BY AnotherIsLeft DEF LetIn
        <3>3. T!Holders("owner")' = T!Holders("owner")
            BY <1>2 DEF T!Holders
        <3> QED
            BY <1>1, <1>2, <1>3, <2>2, <3>1, <3>2, <3>3 DEF ConsoleInv, LastOneStays
    <2> QED
        BY <2>1, <2>2
<1> QED
    BY <1>4, <1>5, <1>6 DEF ConsoleInv

LEMMA WriteTypes ==
    ASSUME ConsoleInv, NEW c \in T!Callers, T!Write(c)
    PROVE  ConsoleTypeOK'
<1> DEFINE k == call[c]
<1>1. k \in CallType /\ k # T!NoCall /\ call \in [T!Callers -> CallType]
    BY DEF ConsoleInv, ConsoleTypeOK, T!Write
<1>2. /\ k.op \in {"grant", "revoke", "transfer", "promote", "demote"} => k.on \in People
      /\ k.op \in {"grant", "revoke"} => k.role \in Roles
      /\ k.on \in Someone
    BY <1>1 DEF ConsoleInv, RunningCalls, CallType
<1>3. role \in [People -> SUBSET Roles] /\ superadmin \subseteq People
      /\ disabled \subseteq Someone /\ primary \in People
    BY DEF ConsoleInv, ConsoleTypeOK
<1>4. T!RoleAfter(k) \in [People -> SUBSET Roles]
    <2>1. T!RolesAfterTransfer(k) \in [People -> SUBSET Roles]
        BY <1>3 DEF T!RolesAfterTransfer, Roles
    <2> QED
        BY <1>2, <1>3, <2>1 DEF T!RoleAfter
<1>5. T!SuperadminAfter(k) \subseteq People
    BY <1>2, <1>3 DEF T!SuperadminAfter
<1>6. T!DisabledAfter(k) \subseteq Someone
    BY <1>2, <1>3 DEF T!DisabledAfter
<1>7. T!StandingAfter(k) \in {"active", "suspended", "archived"}
    BY DEF ConsoleInv, ConsoleTypeOK, T!StandingAfter
<1>8. call' \in [T!Callers -> CallType]
    <2>1. ASSUME NEW d \in T!Callers
          PROVE  [call[d] EXCEPT !.overtaken = @ \/ call[d] # T!NoCall] \in CallType
        BY <1>1 DEF CallType
    <2>2. T!NoCall \in CallType
        BY DEF T!NoCall, CallType, Ops, Vias, Someone
    <2> QED
        BY <2>1, <2>2 DEF T!Write
<1>9. removalsRaced' \in BOOLEAN
    BY DEF T!Write
<1>10. primary' \in People
    BY <1>2, <1>3 DEF T!Write
<1> QED
    BY <1>4, <1>5, <1>6, <1>7, <1>8, <1>9, <1>10
       DEF T!Write, ConsoleInv, ConsoleTypeOK

LEMMA WriteKeepsOne ==
    ASSUME ConsoleInv, NEW c \in T!Callers, T!Write(c)
    PROVE  LastOneStays'
<1> DEFINE k == call[c]
<1> SUFFICES ASSUME ~removalsRaced' PROVE LastOneStays'
    BY DEF LastOneStays
<1>1. ~removalsRaced
      /\ (T!Removes(k) => \A d \in T!Callers \ {c} :
                             call[d] # T!NoCall => ~T!Removes(call[d]))
    BY DEF T!Write
<1>2. k \in CallType /\ call \in [T!Callers -> CallType]
      /\ role \in [People -> SUBSET Roles]
    BY DEF ConsoleInv, ConsoleTypeOK
<1>3. /\ T!Holders("owner") # {} /\ superadmin # {}
      /\ \A d \in T!Callers :
            /\ call[d].op = "revoke" /\ call[d].role = "owner" =>
                  T!Holders("owner") \ {call[d].on} # {}
            /\ call[d].op = "transfer" /\ call[d].role = "owner" =>
                  ~call[d].held \/ "owner" \in role[call[d].on]
            /\ call[d].op = "demote" => superadmin \ {call[d].on} # {}
    BY <1>1 DEF ConsoleInv, LastOneStays
<1>4. role' = T!RoleAfter(k) /\ superadmin' = T!SuperadminAfter(k)
    BY DEF T!Write
<1>5. /\ k.op \in {"grant", "revoke", "transfer", "promote", "demote"} => k.on \in People
      /\ k.op \in {"grant", "revoke"} => k.role \in Roles
    BY DEF ConsoleInv, RunningCalls, T!Write
<1>6. \A d \in T!Callers :
         \/ call'[d].op = "none"
         \/ /\ d # c /\ call[d] # T!NoCall
            /\ call'[d].op = call[d].op /\ call'[d].on = call[d].on
            /\ call'[d].role = call[d].role /\ call'[d].held = call[d].held
    <2> SUFFICES ASSUME NEW d \in T!Callers, call'[d].op # "none"
                 PROVE  /\ d # c /\ call[d] # T!NoCall
                        /\ call'[d].op = call[d].op /\ call'[d].on = call[d].on
                        /\ call'[d].role = call[d].role /\ call'[d].held = call[d].held
        OBVIOUS
    <2>1. d # c
        BY DEF T!Write, T!NoCall
    <2>2. call'[d] = [call[d] EXCEPT !.overtaken = @ \/ call[d] # T!NoCall]
        BY <2>1 DEF T!Write
    <2>3. call'[d].op = call[d].op
        BY <1>2, <2>2 DEF CallType
    <2> QED
        BY <1>2, <2>1, <2>2, <2>3 DEF CallType, T!NoCall
<1>7. CASE T!Removes(k)
    <2>1. \A d \in T!Callers : ~T!Removes(call'[d])
        BY <1>1, <1>6, <1>7 DEF T!Removes
    <2>2. T!Holders("owner")' # {}
        <3>1. CASE k.op = "demote"
            BY <1>3, <1>4, <3>1 DEF T!RoleAfter, T!Holders
        <3>2. CASE k.op = "revoke" /\ k.role = "owner"
            <4>1. PICK p \in People : p # k.on /\ "owner" \in role[p]
                BY <1>3, <3>2 DEF T!Holders
            <4>2. "owner" \in role'[p]
                BY <1>2, <1>4, <3>2, <4>1 DEF T!RoleAfter
            <4> QED
                BY <4>2 DEF T!Holders
        <3>3. CASE k.op = "transfer" /\ k.role = "owner"
            <4>1. role' = T!RolesAfterTransfer(k) /\ k.on \in People
                BY <1>4, <1>5, <3>3 DEF T!RoleAfter
            <4>2. "owner" \in role'[k.on]
                BY <1>3, <3>3, <4>1 DEF T!RolesAfterTransfer
            <4> QED
                BY <4>1, <4>2 DEF T!Holders
        <3> QED
            BY <1>7, <3>1, <3>2, <3>3 DEF T!Removes
    <2>3. superadmin' # {}
        BY <1>3, <1>4 DEF T!SuperadminAfter
    <2> QED
        BY <2>1, <2>2, <2>3 DEF LastOneStays, T!Removes
<1>8. CASE ~T!Removes(k)
    <2>1. \A p \in People : "owner" \in role[p] => "owner" \in role'[p]
        <3>1. CASE k.op = "transfer"
            BY <1>2, <1>4, <1>8, <3>1
               DEF T!RoleAfter, T!RolesAfterTransfer, T!Removes, CallType
        <3>2. CASE k.op # "transfer"
            BY <1>2, <1>4, <1>5, <1>8, <3>2 DEF T!RoleAfter, T!Removes, Roles
        <3> QED
            BY <3>1, <3>2
    <2>2. superadmin \subseteq superadmin'
        BY <1>4, <1>8 DEF T!SuperadminAfter, T!Removes
    <2>3. T!Holders("owner") \subseteq T!Holders("owner")'
        BY <2>1 DEF T!Holders
    <2>4. \A d \in T!Callers : call[d] # T!NoCall /\ call[d].op = "transfer" =>
             call[d].on \in People
        BY DEF ConsoleInv, RunningCalls
    <2> QED
        BY <1>3, <1>6, <2>1, <2>2, <2>3, <2>4 DEF LastOneStays
<1> QED
    BY <1>7, <1>8

LEMMA WriteKeeps ==
    ASSUME ConsoleInv, NEW c \in T!Callers, T!Write(c)
    PROVE  ConsoleInv'
<1>1. RunningCalls'
    <2>1. call \in [T!Callers -> CallType]
        BY DEF ConsoleInv, ConsoleTypeOK
    <2>2. ASSUME NEW d \in T!Callers, call'[d] # T!NoCall
          PROVE  /\ call'[d].overtaken /\ call[d] # T!NoCall
                 /\ call'[d].op = call[d].op /\ call'[d].on = call[d].on
                 /\ call'[d].role = call[d].role
        BY <2>1, <2>2 DEF T!Write, CallType
    <2> QED
        BY <2>2 DEF ConsoleInv, RunningCalls
<1> QED
    BY <1>1, WriteTypes, WriteKeepsOne DEF ConsoleInv

LEMMA ConsoleNext == ConsoleInv /\ [T!Next]_consoleVars => ConsoleInv'
<1> SUFFICES ASSUME ConsoleInv, [T!Next]_consoleVars PROVE ConsoleInv'
    OBVIOUS
<1>1. CASE Talk /\ dialog' \in [People -> DialogType]
    BY <1>1
       DEF Talk, ConsoleInv, ConsoleTypeOK, RunningCalls, LastOneStays, T!MayTell,
           T!MayCall, T!RoleAllows, T!Holders
<1>2. ASSUME NEW c \in T!Callers, T!Abandon(c) PROVE ConsoleInv'
    <2>1. T!NoCall \in CallType
        BY DEF T!NoCall, CallType, Ops, Vias, Someone
    <2>2. \A d \in T!Callers : call'[d] = T!NoCall \/ call'[d] = call[d]
        BY <1>2 DEF T!Abandon, ConsoleInv, ConsoleTypeOK
    <2>3. UNCHANGED <<role, superadmin, disabled, primary, standing, dialog, calls,
                      removalsRaced>>
        BY <1>2 DEF T!Abandon
    <2>4. ConsoleTypeOK'
        BY <1>2, <2>1, <2>3 DEF T!Abandon, ConsoleInv, ConsoleTypeOK
    <2>5. RunningCalls'
        BY <2>2, <2>3 DEF ConsoleInv, RunningCalls, T!MayTell, T!MayCall, T!RoleAllows
    <2>6. LastOneStays'
        BY <2>2, <2>3 DEF ConsoleInv, LastOneStays, T!Holders, T!NoCall
    <2> QED
        BY <2>4, <2>5, <2>6 DEF ConsoleInv
<1> QED
    BY <1>1, <1>2, LetInKeeps, WriteKeeps, ConsoleSteps DEF ConsoleInv

LEMMA ConsoleRuns ==
    [PlatformNext]_platformVars => UNCHANGED part /\ [T!Next]_consoleVars
<1> SUFFICES ASSUME [PlatformNext]_platformVars
             PROVE  UNCHANGED part /\ [T!Next]_consoleVars
    OBVIOUS
<1>1. CASE UNCHANGED platformVars
    BY <1>1 DEF platformVars
<1>2. CASE PlatformNext
    BY <1>2 DEF PlatformNext, Only
<1> QED
    BY <1>1, <1>2

LEMMA ConsoleSafe == PlatformSpec => [](part = "console" => ConsoleInv)
<1>1. PlatformInit => (part = "console" => ConsoleInv)
    BY ConsoleInit DEF PlatformInit
<1>2. (part = "console" => ConsoleInv) /\ [PlatformNext]_platformVars
      => (part = "console" => ConsoleInv)'
    BY ConsoleRuns, ConsoleNext
<1> QED
    BY <1>1, <1>2, PTL DEF PlatformSpec

(* The tenant keeps an owner and the platform a superadmin, unless two     *)
(* removals overlapped (admin_tenants.py 375-381, admin_platform.py        *)
(* 376-387).                                                               *)
THEOREM StaffStays == PlatformSpec => []StaffRemains
<1>1. (part = "console" => ConsoleInv) => StaffRemains
    BY DEF ConsoleInv, LastOneStays, StaffRemains, T!StaffRemains
<1> QED
    BY <1>1, ConsoleSafe, PTL

(* A call writes only for somebody who may still make it, unless another   *)
(* call wrote while it was running (owner_console.py 379-391, 471-480).    *)
THEOREM PowerEnds == PlatformSpec => NoPowerAfterRevoke
<1>1. (part = "console" => ConsoleInv) => (part = "console" => T!WritesAllowed)
    BY DEF ConsoleInv, RunningCalls, T!WritesAllowed, T!Write
<1>2. (part = "console" => ConsoleInv) /\ [PlatformNext]_platformVars
      => [part = "console" => T!WritesAllowed]_platformVars
    BY <1>1
<1> QED
    BY <1>2, ConsoleSafe, PTL DEF PlatformSpec, NoPowerAfterRevoke

-----------------------------------------------------------------------------
(* Bootstrap.                                                              *)

SeedKeys == {"default_tenant", "default_bot", "platform_tenant", "master_bot",
             "superadmin", "global_plans", "stars_provider", "base_strings",
             "default_language"}
Steps(p) == 1..Len(A!SeedsOf(p))
SeedAt(p) == A!SeedsOf(p)[starting[p].at]

SeedTypes ==
    /\ seeded \in [SeedKeys -> Nat]
    /\ starting \in [A!Processes ->
                       [pc : {"down", "look", "add", "up", "crashed"}, at : Nat]]
    /\ \A p \in A!Processes : starting[p].at \in Steps(p)

(* A process that is about to add a row finds none but its own, unless     *)
(* another one has seeded since it started.                                *)
FindsNoRow ==
    \A p \in A!Processes :
       starting[p].pc = "add" =>
          p \in overtaken \/ SeedAt(p) \in A!Repeatable \/ seeded[SeedAt(p)] = 0

SeedInv == SeedTypes /\ FindsNoRow /\ A!StartsAgain

LEMMA SeedLists ==
    /\ A!Seeds = SeedKeys
    /\ \A p \in A!Processes :
          1 \in Steps(p) /\ \A i \in Steps(p) : A!SeedsOf(p)[i] \in SeedKeys
<1>1. /\ Len(A!ApiSeeds) = 9 /\ DOMAIN A!ApiSeeds = 1..9
      /\ \A i \in 1..9 : A!ApiSeeds[i] \in SeedKeys
    BY DEF A!ApiSeeds, SeedKeys
<1>2. Len(A!BotSeeds) = 7 /\ \A i \in 1..7 : A!BotSeeds[i] \in SeedKeys
    BY DEF A!BotSeeds, SeedKeys
<1> DEFINE Lists(seeds) == /\ 1 \in 1..Len(seeds)
                           /\ \A i \in 1..Len(seeds) : seeds[i] \in SeedKeys
<1>3. SeedKeys \subseteq {A!ApiSeeds[i] : i \in 1..9}
    BY DEF A!ApiSeeds, SeedKeys
<1>4. A!Seeds = SeedKeys
    BY <1>1, <1>3 DEF A!Seeds
<1>5. ASSUME NEW p \in A!Processes
      PROVE  1 \in Steps(p) /\ \A i \in Steps(p) : A!SeedsOf(p)[i] \in SeedKeys
    <2>1. \/ A!SeedsOf(p) = A!ApiSeeds
          \/ A!SeedsOf(p) = A!BotSeeds
          \/ A!SeedsOf(p) = <<"base_strings">>
        BY DEF A!SeedsOf
    <2>2. Lists(A!ApiSeeds)
        BY <1>1
    <2>3. Lists(A!BotSeeds)
        BY <1>2
    <2>4. Lists(<<"base_strings">>)
        BY DEF SeedKeys
    <2> HIDE DEF Lists
    <2>5. Lists(A!SeedsOf(p))
        BY <2>1, <2>2, <2>3, <2>4
    <2> QED
        BY <2>5 DEF Lists, Steps
<1> QED
    BY <1>4, <1>5

LEMMA SeedInit == A!Init => SeedInv
BY SeedLists DEF A!Init, SeedInv, SeedTypes, FindsNoRow, A!StartsAgain

(* A process moves on, and no row is added by it.                          *)
LEMMA ProcessMoves ==
    ASSUME SeedInv, NEW p \in A!Processes,
           NEW pc \in {"down", "look", "add", "up", "crashed"}, NEW at \in Steps(p),
           starting' = [starting EXCEPT ![p] = [pc |-> pc, at |-> at]],
           seeded' = seeded, overtaken \ {p} \subseteq overtaken',
           pc = "add" => seeded[A!SeedsOf(p)[at]] = 0,
           pc = "crashed" => p \in overtaken' \/ \E s \in A!OneOrNone : seeded[s] > 1
    PROVE  SeedInv'
<1>1. starting \in [A!Processes ->
                      [pc : {"down", "look", "add", "up", "crashed"}, at : Nat]]
    BY DEF SeedInv, SeedTypes
<1>2. starting'[p].pc = pc /\ starting'[p].at = at
      /\ \A q \in A!Processes \ {p} : starting'[q] = starting[q]
    BY <1>1
<1>3. SeedTypes'
    BY <1>1, <1>2 DEF SeedInv, SeedTypes, Steps
<1>4. FindsNoRow'
    BY <1>2 DEF SeedInv, FindsNoRow, SeedAt
<1>5. A!StartsAgain'
    BY <1>2 DEF SeedInv, A!StartsAgain
<1> QED
    BY <1>3, <1>4, <1>5 DEF SeedInv

(* A row more: those that run are overtaken, or nothing keeps it single.   *)
LEMMA RowAdded ==
    ASSUME SeedInv, NEW s \in SeedKeys, seeded' = [seeded EXCEPT ![s] = @ + 1],
           starting' = starting, overtaken' = overtaken, s \in A!Repeatable
    PROVE  SeedInv'
<1>1. seeded \in [SeedKeys -> Nat]
    BY DEF SeedInv, SeedTypes
<1>2. seeded' \in [SeedKeys -> Nat]
      /\ \A r \in SeedKeys : /\ seeded'[r] >= seeded[r]
                             /\ r \notin A!Repeatable => seeded'[r] = seeded[r]
    BY <1>1
<1>3. \A p \in A!Processes : SeedAt(p) \in SeedKeys
    BY SeedLists DEF SeedInv, SeedTypes, SeedAt
<1>4. SeedTypes'
    BY <1>2 DEF SeedInv, SeedTypes
<1>5. FindsNoRow'
    BY <1>2, <1>3 DEF SeedInv, FindsNoRow, SeedAt
<1>6. A!StartsAgain'
    BY <1>1, <1>2 DEF SeedInv, A!StartsAgain, A!OneOrNone, SeedKeys
<1> QED
    BY <1>4, <1>5, <1>6 DEF SeedInv

LEMMA InsertKeeps ==
    ASSUME SeedInv, NEW p \in A!Processes, A!Insert(p)
    PROVE  SeedInv'
<1> DEFINE s == SeedAt(p)
           refused == s \notin A!Repeatable /\ seeded[s] > 0
<1>1. /\ starting \in [A!Processes ->
                         [pc : {"down", "look", "add", "up", "crashed"}, at : Nat]]
      /\ seeded \in [SeedKeys -> Nat]
      /\ starting[p].pc = "add" /\ starting[p].at \in Steps(p)
    BY DEF SeedInv, SeedTypes, A!Insert
<1>2. s \in SeedKeys
    BY <1>1, SeedLists DEF SeedAt
<1>3. CASE refused
    <2>1. /\ starting' = [starting EXCEPT ![p] = [pc |-> "crashed",
                                                  at |-> starting[p].at]]
          /\ seeded' = seeded /\ overtaken' = overtaken
        BY <1>1, <1>3 DEF A!Insert, A!Becomes, SeedAt
    <2>2. p \in overtaken
        BY <1>1, <1>2, <1>3 DEF SeedInv, FindsNoRow
    <2> QED
        BY <1>1, <2>1, <2>2, ProcessMoves
<1>4. CASE ~refused
    <2>1. /\ A!Advance(p)
          /\ seeded' = [seeded EXCEPT ![s] = @ + 1]
          /\ overtaken' = overtaken \cup {q \in A!Processes \ {p} : A!Running(q)}
        BY <1>4 DEF A!Insert, SeedAt
    <2>2. seeded' \in [SeedKeys -> Nat] /\ \A r \in SeedKeys : seeded'[r] >= seeded[r]
        BY <1>1, <1>2, <2>1
    <2>3. PICK pc \in {"up", "look"}, at \in Steps(p) :
             starting' = [starting EXCEPT ![p] = [pc |-> pc, at |-> at]]
        <3>1. CASE starting[p].at = Len(A!SeedsOf(p))
            BY <1>1, <2>1, <3>1, SeedLists DEF A!Advance
        <3>2. CASE starting[p].at # Len(A!SeedsOf(p))
            <4>1. starting[p].at + 1 \in Steps(p)
                BY <1>1, <3>2 DEF Steps
            <4> QED
                BY <1>1, <2>1, <3>2, <4>1 DEF A!Advance
        <3> QED
            BY <3>1, <3>2
    <2>4. /\ starting'[p].pc = pc /\ starting'[p].at = at
          /\ \A q \in A!Processes \ {p} : starting'[q] = starting[q]
        BY <1>1, <2>3
    <2>5. SeedTypes'
        BY <1>1, <2>2, <2>3, <2>4 DEF SeedInv, SeedTypes, Steps
    <2>6. FindsNoRow'
        BY <2>1, <2>4 DEF FindsNoRow, A!Running
    <2>7. A!StartsAgain'
        BY <1>1, <2>1, <2>2, <2>4 DEF SeedInv, A!StartsAgain, A!OneOrNone, SeedKeys
    <2> QED
        BY <2>5, <2>6, <2>7 DEF SeedInv
<1> QED
    BY <1>3, <1>4

LEMMA FindKeeps ==
    ASSUME SeedInv, NEW p \in A!Processes, A!Find(p)
    PROVE  SeedInv'
<1> DEFINE s == SeedAt(p)
<1>1. /\ starting \in [A!Processes ->
                         [pc : {"down", "look", "add", "up", "crashed"}, at : Nat]]
      /\ seeded \in [SeedKeys -> Nat] /\ starting[p].at \in Steps(p)
      /\ seeded' = seeded /\ overtaken' = overtaken
    BY DEF SeedInv, SeedTypes, A!Find
<1>2. s \in SeedKeys
    BY <1>1, SeedLists DEF SeedAt
<1>3. CASE s \in A!OneOrNone /\ seeded[s] > 1
    <2>1. starting' = [starting EXCEPT ![p] = [pc |-> "crashed",
                                               at |-> starting[p].at]]
        BY <1>1, <1>3 DEF A!Find, A!Becomes, SeedAt
    <2> QED
        BY <1>1, <1>3, <2>1, ProcessMoves
<1>4. CASE ~(s \in A!OneOrNone /\ seeded[s] > 1) /\ seeded[s] > 0
    <2>1. A!Advance(p)
        BY <1>4 DEF A!Find, SeedAt
    <2>2. CASE starting[p].at = Len(A!SeedsOf(p))
        BY <1>1, <2>1, <2>2, SeedLists, ProcessMoves DEF A!Advance
    <2>3. CASE starting[p].at # Len(A!SeedsOf(p))
        <3>1. starting[p].at + 1 \in Steps(p)
            BY <1>1, <2>3 DEF Steps
        <3> QED
            BY <1>1, <2>1, <2>3, <3>1, ProcessMoves DEF A!Advance
    <2> QED
        BY <2>2, <2>3
<1>5. CASE ~(s \in A!OneOrNone /\ seeded[s] > 1) /\ ~(seeded[s] > 0)
    <2>1. starting' = [starting EXCEPT ![p] = [pc |-> "add", at |-> starting[p].at]]
        BY <1>1, <1>5 DEF A!Find, A!Becomes, SeedAt
    <2>2. seeded[s] = 0
        BY <1>1, <1>2, <1>5
    <2> QED
        BY <1>1, <2>1, <2>2, ProcessMoves DEF SeedAt
<1> QED
    BY <1>3, <1>4, <1>5

LEMMA SeedNext == SeedInv /\ [A!Next]_seedVars => SeedInv'
<1> SUFFICES ASSUME SeedInv, [A!Next]_seedVars PROVE SeedInv'
    OBVIOUS
<1>1. ASSUME NEW p \in A!Processes, A!Start(p) \/ A!Stop(p) PROVE SeedInv'
    <2>1. \/ starting' = [starting EXCEPT ![p] = [pc |-> "look", at |-> 1]]
          \/ starting' = [starting EXCEPT ![p] = [pc |-> "down", at |-> 1]]
        BY <1>1 DEF A!Start, A!Stop
    <2>2. seeded' = seeded /\ overtaken \ {p} \subseteq overtaken'
        BY <1>1 DEF A!Start, A!Stop
    <2> QED
        BY <2>1, <2>2, SeedLists, ProcessMoves
<1>2. ASSUME A!CreateSubscriptionPlan \/ A!SignUp PROVE SeedInv'
    <2>1. PICK s \in {"global_plans", "superadmin"} :
             seeded' = [seeded EXCEPT ![s] = @ + 1]
        BY <1>2 DEF A!CreateSubscriptionPlan, A!SignUp
    <2>2. starting' = starting /\ overtaken' = overtaken
        BY <1>2 DEF A!CreateSubscriptionPlan, A!SignUp, A!Acts
    <2> QED
        BY <2>1, <2>2, RowAdded DEF SeedKeys, A!Repeatable
<1>3. CASE A!RevokeSuperadmin \/ A!GrantSuperadmin \/ UNCHANGED seedVars
    <2>1. UNCHANGED <<seeded, starting, overtaken>>
        BY <1>3 DEF A!RevokeSuperadmin, A!GrantSuperadmin, A!Acts, seedVars
    <2> QED
        BY <2>1 DEF SeedInv, SeedTypes, FindsNoRow, SeedAt, A!StartsAgain
<1> QED
    BY <1>1, <1>2, <1>3, InsertKeeps, FindKeeps DEF A!Next

LEMMA SeedRuns ==
    [PlatformNext]_platformVars =>
       UNCHANGED part /\ [part = "seeds" /\ A!Next]_seedVars
BY DEF PlatformNext, platformVars, Only

(* A start ends well unless another process seeded meanwhile or somebody   *)
(* made a second row by hand, so the ensure functions can be run again     *)
(* after whatever was cut short (db/bootstrap.py).                         *)
THEOREM SeedsAgain == PlatformSpec => []StartsAgain
<1>1. PlatformInit => (part = "seeds" => SeedInv)
    BY SeedInit DEF PlatformInit
<1>2. (part = "seeds" => SeedInv) /\ [PlatformNext]_platformVars
      => (part = "seeds" => SeedInv)'
    BY SeedRuns, SeedNext
<1>3. (part = "seeds" => SeedInv) => StartsAgain
    BY DEF SeedInv, StartsAgain
<1> QED
    BY <1>1, <1>2, <1>3, PTL DEF PlatformSpec

-----------------------------------------------------------------------------
(* TenantLanguages.                                                        *)

LanguageRow == [row : {TRUE}, enabled : BOOLEAN, default : BOOLEAN]
LanguageRows == [Langs -> LanguageRow \cup {L!NoRow}]
LanguageCall == [op : {"none", "start", "seed", "put"}, body : L!Bodies,
                 read : LanguageRows]
HasLanguages == L!Existing(language) # {}

LanguageTypes ==
    /\ language \in LanguageRows
    /\ languageCall \in [LanguageCalls -> LanguageCall]
    /\ puts \in Nat /\ repeated \in BOOLEAN /\ early \in BOOLEAN

(* A row is never deleted, so what a call has read is still there.         *)
CallsOfLanguages ==
    \A c \in LanguageCalls : LET k == languageCall[c] IN
       /\ L!Existing(k.read) \subseteq L!Existing(language)
       /\ k.op = "start" => early \/ L!Existing(k.read) # {}
       /\ k.op = "seed" => k.body.default = ChosenLang
       /\ k.op = "put" => puts > 0 /\ L!WellFormed(k.body)

OneDefault ==
    HasLanguages /\ ~repeated => \E l \in Langs : L!Defaults(language) = {l}
ChosenDefault ==
    HasLanguages /\ ~early /\ puts = 0 => L!Defaults(language) = {ChosenLang}

LanguageInv == LanguageTypes /\ CallsOfLanguages /\ OneDefault /\ ChosenDefault

LEMMA FiniteLanguages ==
    IsFiniteSet(Langs) /\ \A X : L!Cardinality(X) = Cardinality(X)
BY LanguageAssumption DEF L!Cardinality, Cardinality, L!IsFiniteSet, IsFiniteSet

LEMMA NoLanguages ==
    L!NoRows \in LanguageRows /\ L!Existing(L!NoRows) = {}
BY DEF L!NoRows, L!NoRow, L!Existing, LanguageRows

LEMMA IdleLanguageCall ==
    /\ L!NoBody \in L!Bodies /\ L!Idle \in LanguageCall
    /\ L!Idle.op = "none" /\ L!Existing(L!Idle.read) = {}
BY LanguageAssumption, NoLanguages
   DEF LanguageCall, L!Idle, L!NoBody, L!NoLang, L!Bodies

LEMMA LanguageInit == L!Init => LanguageInv
<1> SUFFICES ASSUME L!Init PROVE LanguageInv
    OBVIOUS
<1>1. LanguageTypes
    BY IdleLanguageCall, NoLanguages DEF L!Init, LanguageTypes
<1>2. CallsOfLanguages
    BY IdleLanguageCall DEF L!Init, CallsOfLanguages
<1>3. OneDefault /\ ChosenDefault
    BY NoLanguages DEF L!Init, OneDefault, ChosenDefault, HasLanguages
<1> QED
    BY <1>1, <1>2, <1>3 DEF LanguageInv

(* A row that is not there is no default.                                  *)
LEMMA DefaultsExist ==
    ASSUME NEW table \in LanguageRows
    PROVE  /\ L!Defaults(table) \subseteq L!Existing(table)
           /\ \A l \in Langs : ~table[l].row => table[l] = L!NoRow
<1>1. ASSUME NEW l \in Langs
      PROVE  (table[l].row /\ table[l] \in LanguageRow) \/ table[l] = L!NoRow
    BY DEF LanguageRows, LanguageRow
<1>2. ~L!NoRow.row /\ ~L!NoRow.default
    BY DEF L!NoRow
<1> QED
    BY <1>1, <1>2 DEF L!Defaults, L!Existing

(* A call does something else, and writes nothing.                         *)
LEMMA LanguageCallMoves ==
    ASSUME LanguageInv, NEW c \in LanguageCalls, NEW k \in LanguageCall,
           languageCall' = [languageCall EXCEPT ![c] = k],
           language' = language,
           puts' \in Nat, puts' >= puts, early' \in BOOLEAN, early => early',
           repeated' = repeated,
           L!Existing(k.read) \subseteq L!Existing(language),
           k.op = "start" => early' \/ L!Existing(k.read) # {},
           k.op = "seed" => k.body.default = ChosenLang,
           k.op = "put" => puts' > 0 /\ L!WellFormed(k.body)
    PROVE  LanguageInv'
<1>1. /\ languageCall \in [LanguageCalls -> LanguageCall] /\ puts \in Nat
      /\ L!Existing(language)' = L!Existing(language)
      /\ L!Defaults(language)' = L!Defaults(language)
    BY DEF LanguageInv, LanguageTypes, L!Existing, L!Defaults
<1>2. LanguageTypes'
    BY <1>1 DEF LanguageInv, LanguageTypes
<1>3. CallsOfLanguages'
    <2> SUFFICES ASSUME NEW d \in LanguageCalls
                 PROVE  LET m == languageCall'[d] IN
                        /\ L!Existing(m.read) \subseteq L!Existing(language)
                        /\ m.op = "start" => early' \/ L!Existing(m.read) # {}
                        /\ m.op = "seed" => m.body.default = ChosenLang
                        /\ m.op = "put" => puts' > 0 /\ L!WellFormed(m.body)
        BY <1>1 DEF CallsOfLanguages, L!Existing, L!WellFormed
    <2>1. CASE d = c
        BY <1>1, <2>1
    <2>2. CASE d # c
        BY <1>1, <2>2 DEF LanguageInv, CallsOfLanguages
    <2> QED
        BY <2>1, <2>2
<1>4. OneDefault' /\ ChosenDefault'
    BY <1>1 DEF LanguageInv, OneDefault, ChosenDefault, HasLanguages
<1> QED
    BY <1>2, <1>3, <1>4 DEF LanguageInv

(* A call ends and writes nothing.                                         *)
LEMMA LanguageCallEnds ==
    ASSUME LanguageInv, NEW c \in LanguageCalls,
           languageCall' = [languageCall EXCEPT ![c] = L!Idle],
           UNCHANGED <<language, puts, early, repeated>>
    PROVE  LanguageInv'
<1>1. puts' \in Nat /\ puts' >= puts /\ early' \in BOOLEAN
    BY DEF LanguageInv, LanguageTypes
<1>2. L!Existing(L!Idle.read) \subseteq L!Existing(language)
    BY IdleLanguageCall
<1> QED
    BY <1>1, <1>2, IdleLanguageCall, LanguageCallMoves

(* A call ends and writes rows; none of those there are goes away.         *)
LEMMA LanguagesWritten ==
    ASSUME LanguageInv, NEW c \in LanguageCalls,
           languageCall' = [languageCall EXCEPT ![c] = L!Idle],
           language' \in LanguageRows, UNCHANGED <<puts, early>>,
           repeated' \in BOOLEAN,
           L!Existing(language) \subseteq L!Existing(language'),
           ~repeated' => \E l \in Langs : L!Defaults(language') = {l},
           ~early /\ puts = 0 => L!Defaults(language') = {ChosenLang}
    PROVE  LanguageInv'
<1>1. languageCall \in [LanguageCalls -> LanguageCall]
    BY DEF LanguageInv, LanguageTypes
<1>2. LanguageTypes'
    BY <1>1, IdleLanguageCall DEF LanguageInv, LanguageTypes
<1>3. CallsOfLanguages'
    BY <1>1, IdleLanguageCall DEF LanguageInv, CallsOfLanguages, L!Existing, L!WellFormed
<1>4. OneDefault' /\ ChosenDefault'
    BY DEF OneDefault, ChosenDefault, L!Defaults
<1> QED
    BY <1>2, <1>3, <1>4 DEF LanguageInv

LEMMA SeedLanguagesKeeps ==
    ASSUME LanguageInv, NEW c \in LanguageCalls, L!SeedLanguages(c)
    PROVE  LanguageInv'
<1> DEFINE k == languageCall[c]
           wanted == k.body.default
           new == L!Seeded(k.read, wanted)
           refused == \E l \in DOMAIN new :
                         \/ language[l].row
                         \/ new[l].default /\ L!Defaults(language) # {}
<1>1. /\ k.op \in {"start", "seed"} /\ UNCHANGED <<puts, early, repeated>>
      /\ repeated' \in BOOLEAN
      /\ languageCall' = [languageCall EXCEPT ![c] = L!Idle]
      /\ language' = [l \in Langs |-> IF ~refused /\ l \in DOMAIN new THEN new[l]
                                      ELSE language[l]]
    BY DEF L!SeedLanguages, L!Ends, LanguageInv, LanguageTypes
<1>2. /\ k \in LanguageCall /\ language \in LanguageRows /\ k.read \in LanguageRows
      /\ wanted \in Langs
    BY DEF LanguageInv, LanguageTypes, LanguageCall, L!Bodies
<1>3. L!Existing(k.read) \subseteq L!Existing(language)
    BY DEF LanguageInv, CallsOfLanguages
<1>4. /\ DOMAIN new = Langs \ L!Existing(k.read)
      /\ \A l \in DOMAIN new :
            /\ new[l] \in LanguageRow /\ new[l].row
            /\ new[l].default <=> l = wanted /\ L!Defaults(k.read) = {}
    BY DEF L!Seeded, L!Row, LanguageRow
<1> HIDE DEF new
<1>5. CASE refused
    <2>1. language' = language
        BY <1>1, <1>2, <1>5 DEF LanguageRows
    <2> QED
        BY <1>1, <2>1, LanguageCallEnds
<1>6. CASE ~refused
    <2>1. \A l \in Langs : language'[l] = IF l \in DOMAIN new THEN new[l]
                                          ELSE language[l]
        BY <1>1, <1>6
    <2>2. language' \in LanguageRows
        BY <1>1, <1>2, <1>4, <1>6 DEF LanguageRows
    <2>3. L!Existing(language) = L!Existing(k.read)
        BY <1>3, <1>4, <1>6 DEF L!Existing
    <2>4. L!Existing(language) \subseteq L!Existing(language')
        BY <1>4, <2>1 DEF L!Existing
    <2>5. CASE HasLanguages
        <3>1. L!Defaults(language') \subseteq L!Defaults(language) \cup {wanted}
            BY <1>4, <2>1 DEF L!Defaults
        <3>2. L!Defaults(language) \subseteq L!Defaults(language')
            BY <1>2, <1>4, <2>1, <2>3, DefaultsExist DEF L!Defaults, L!Existing
        <3>3. L!Defaults(language) # {} => L!Defaults(language') = L!Defaults(language)
            BY <1>4, <1>6, <2>1, <3>2 DEF L!Defaults
        <3> QED
            BY <1>1, <2>2, <2>4, <2>5, <3>3, LanguagesWritten
               DEF LanguageInv, OneDefault, ChosenDefault
    <2>6. CASE ~HasLanguages
        <3>1. L!Existing(k.read) = {} /\ L!Defaults(k.read) = {}
            BY <1>2, <2>3, <2>6, DefaultsExist DEF HasLanguages
        <3>2. DOMAIN new = Langs
            BY <1>4, <3>1
        <3>3. L!Defaults(language') = {wanted}
            BY <1>2, <1>4, <2>1, <3>1, <3>2 DEF L!Defaults
        <3>4. ~early => wanted = ChosenLang
            BY <1>1, <3>1 DEF LanguageInv, CallsOfLanguages
        <3> QED
            BY <1>1, <1>2, <2>2, <2>4, <3>3, <3>4, LanguagesWritten
    <2> QED
        BY <2>5, <2>6
<1> QED
    BY <1>5, <1>6

LEMMA PutLanguagesKeeps ==
    ASSUME LanguageInv, NEW c \in LanguageCalls, L!PutLanguages(c)
    PROVE  LanguageInv'
<1> DEFINE k == languageCall[c]
           b == k.body
           new == [l \in Langs |-> L!PutRow(k, l)]
           refused == \/ \E l \in b.named : ~k.read[l].row /\ language[l].row
                      \/ b.again /\ ~k.read[b.default].row
                      \/ L!Cardinality(L!Defaults(new)) > 1
<1>1. /\ k.op = "put" /\ UNCHANGED <<puts, early>>
      /\ languageCall' = [languageCall EXCEPT ![c] = L!Idle]
      /\ language' = IF refused THEN language ELSE new
      /\ repeated' = (repeated \/ (~refused /\ b.again))
    BY DEF L!PutLanguages, L!Ends
<1>2. /\ k \in LanguageCall /\ language \in LanguageRows /\ k.read \in LanguageRows
      /\ b \in L!Bodies /\ b.default \in Langs /\ b.again \in BOOLEAN
    BY DEF LanguageInv, LanguageTypes, LanguageCall, L!Bodies
<1>3. /\ L!Existing(k.read) \subseteq L!Existing(language) /\ puts > 0
      /\ b.default \in b.named
    BY <1>1 DEF LanguageInv, CallsOfLanguages, L!WellFormed
<1>4. ASSUME NEW l \in Langs
      PROVE  /\ L!PutRow(k, l) \in LanguageRow \cup {L!NoRow}
             /\ language[l].row => L!PutRow(k, l).row
             /\ l = b.default /\ ~b.again => L!PutRow(k, l).default
    <2> DEFINE enables == IF l \in b.named THEN l \in b.enabled
                          ELSE k.read[l].enabled
               default == l = b.default /\ ~b.again
    <2>1. language[l] \in LanguageRow \cup {L!NoRow}
          /\ k.read[l] \in LanguageRow \cup {L!NoRow}
        BY <1>2 DEF LanguageRows
    <2>2. CASE ~k.read[l].row /\ l \notin b.named
        <3>1. L!PutRow(k, l) = language[l]
            BY <2>2 DEF L!PutRow
        <3> QED
            BY <1>3, <2>1, <2>2, <3>1
    <2>3. CASE ~k.read[l].row /\ l \in b.named
        <3>1. L!PutRow(k, l) = [row |-> TRUE, enabled |-> l \in b.enabled,
                                default |-> default]
            BY <2>3 DEF L!PutRow, L!Row
        <3>2. L!PutRow(k, l) \in LanguageRow
            BY <3>1 DEF LanguageRow
        <3> HIDE DEF default
        <3>3. L!PutRow(k, l).row /\ (default => L!PutRow(k, l).default)
            BY <3>1
        <3> QED
            BY <3>2, <3>3 DEF default
    <2>4. CASE k.read[l].row
        <3>1. language[l] \in LanguageRow
            BY <1>3, <2>1, <2>4 DEF L!Existing, L!NoRow
        <3>2. k.read[l] \in LanguageRow
            BY <2>1, <2>4 DEF L!NoRow
        <3>3. L!PutRow(k, l) = [language[l] EXCEPT
                 !.enabled = IF enables # k.read[l].enabled THEN enables ELSE @,
                 !.default = IF default # k.read[l].default \/ k.read[l].default
                             THEN default ELSE @]
            BY <2>4 DEF L!PutRow
        <3>4. enables \in BOOLEAN /\ default \in BOOLEAN
            <4>1. k.read[l].enabled \in BOOLEAN
                BY <3>2 DEF LanguageRow
            <4>2. (l \in b.enabled) \in BOOLEAN
                OBVIOUS
            <4> QED
                BY <4>1, <4>2
        <3>5. default => (default # k.read[l].default \/ k.read[l].default)
            BY <3>2 DEF LanguageRow
        <3> HIDE DEF enables, default
        <3>6. /\ L!PutRow(k, l) \in LanguageRow
              /\ default => L!PutRow(k, l).default
            BY <3>1, <3>3, <3>4, <3>5 DEF LanguageRow
        <3> QED
            BY <3>6 DEF default, LanguageRow
    <2> QED
        BY <2>2, <2>3, <2>4
<1>5. new \in LanguageRows /\ L!Existing(language) \subseteq L!Existing(new)
    BY <1>4 DEF LanguageRows, L!Existing
<1>6. ~b.again => b.default \in L!Defaults(new)
    BY <1>2, <1>4 DEF L!Defaults
<1> HIDE DEF new
<1>7. CASE refused
    <2>1. language' = language /\ repeated' = repeated
        BY <1>1, <1>7 DEF LanguageInv, LanguageTypes
    <2> QED
        BY <1>1, <2>1, LanguageCallEnds
<1>8. CASE ~refused
    <2>1. language' = new /\ repeated' \in BOOLEAN
        BY <1>1, <1>2, <1>8 DEF LanguageInv, LanguageTypes
    <2>2. ~repeated' => ~b.again
        BY <1>1, <1>8
    <2>3. ~(puts = 0)
        BY <1>3 DEF LanguageInv, LanguageTypes
    <2>4. ASSUME ~b.again PROVE \E l \in Langs : L!Defaults(new) = {l}
        <3>1. IsFiniteSet(L!Defaults(new)) /\ L!Defaults(new) \subseteq Langs
            BY FiniteLanguages, FS_Subset DEF L!Defaults
        <3>2. Cardinality(L!Defaults(new)) \in Nat
            BY <3>1, FS_CardinalityType
        <3>3. ~(Cardinality(L!Defaults(new)) > 1)
            BY <1>8, FiniteLanguages
        <3>4. Cardinality(L!Defaults(new)) # 0
            BY <1>6, <2>4, <3>1, FS_EmptySet
        <3> QED
            BY <3>1, <3>2, <3>3, <3>4, FS_Singleton
    <2> QED
        BY <1>1, <1>3, <1>5, <2>1, <2>2, <2>3, <2>4, LanguagesWritten
<1> QED
    BY <1>7, <1>8

LEMMA LanguageNext == LanguageInv /\ [L!Next]_languageVars => LanguageInv'
<1> SUFFICES ASSUME LanguageInv, [L!Next]_languageVars PROVE LanguageInv'
    OBVIOUS
<1>1. /\ language \in LanguageRows /\ puts \in Nat /\ early \in BOOLEAN
    BY DEF LanguageInv, LanguageTypes
<1>2. ASSUME NEW c \in LanguageCalls, NEW op \in {"start", "seed", "put"},
             NEW b \in L!Bodies, L!Begin(c, op, b), UNCHANGED <<language, repeated>>,
             puts' \in Nat, puts' >= puts, early' \in BOOLEAN, early => early',
             op = "start" => early' \/ HasLanguages,
             op = "seed" => b.default = ChosenLang,
             op = "put" => puts' > 0 /\ L!WellFormed(b)
      PROVE  LanguageInv'
    <2> DEFINE k == [op |-> op, body |-> b, read |-> language]
    <2>1. k \in LanguageCall /\ k.op = op /\ k.body = b /\ k.read = language
        BY <1>1 DEF LanguageCall
    <2>2. languageCall' = [languageCall EXCEPT ![c] = k]
        BY <1>2 DEF L!Begin
    <2> HIDE DEF k
    <2> QED
        BY <1>2, <2>1, <2>2, LanguageCallMoves DEF HasLanguages
<1>3. ASSUME NEW c \in LanguageCalls, L!ApiStarts(c) PROVE LanguageInv'
    <2>1. early' \in BOOLEAN /\ (early => early') /\ (early' \/ HasLanguages)
        BY <1>3 DEF L!ApiStarts, HasLanguages
    <2> QED
        BY <1>1, <1>2, <1>3, <2>1, IdleLanguageCall DEF L!ApiStarts
<1>4. ASSUME NEW c \in LanguageCalls, L!Finalize(c) PROVE LanguageInv'
    <2> DEFINE b == [L!NoBody EXCEPT !.default = ChosenLang]
    <2>1. b \in L!Bodies /\ b.default = ChosenLang
        BY LanguageAssumption DEF L!NoBody, L!Bodies
    <2>2. L!Begin(c, "seed", b) /\ UNCHANGED <<language, puts, repeated, early>>
        BY <1>4 DEF L!Finalize
    <2> HIDE DEF b
    <2> QED
        BY <1>1, <1>2, <2>1, <2>2
<1>5. ASSUME NEW c \in LanguageCalls, NEW b \in L!Bodies, L!BeginPut(c, b)
      PROVE  LanguageInv'
    BY <1>1, <1>2, <1>5 DEF L!BeginPut
<1>6. ASSUME NEW c \in LanguageCalls, L!CallDies(c) PROVE LanguageInv'
    BY <1>6, LanguageCallEnds DEF L!CallDies, L!Ends
<1>7. CASE UNCHANGED languageVars
    BY <1>7 DEF languageVars, LanguageInv, LanguageTypes, CallsOfLanguages,
                OneDefault, ChosenDefault, HasLanguages, L!Existing, L!Defaults,
                L!WellFormed
<1> QED
    BY <1>3, <1>4, <1>5, <1>6, <1>7, SeedLanguagesKeeps, PutLanguagesKeeps
       DEF L!Next

LEMMA LanguageRuns ==
    [PlatformNext]_platformVars =>
       UNCHANGED part /\ [part = "languages" /\ L!Next]_languageVars
BY DEF PlatformNext, platformVars, Only

(* A tenant that has languages has one default and everybody is answered   *)
(* in one of its languages, unless a body named its default a second time  *)
(* as not being it; until somebody sets them the default is the one the    *)
(* owner chose, unless the API seeded before the onboarding was over       *)
(* (admin_tenants.py 469-513, db/bootstrap.py 249-270).                    *)
THEOREM LanguageServed == PlatformSpec => []LanguageIsServed
<1>1. PlatformInit => (part = "languages" => LanguageInv)
    BY LanguageInit DEF PlatformInit
<1>2. (part = "languages" => LanguageInv) /\ [PlatformNext]_platformVars
      => (part = "languages" => LanguageInv)'
    BY LanguageRuns, LanguageNext
<1>3. LanguageInv => L!ExactlyOneDefault
    <2> SUFFICES ASSUME LanguageInv, HasLanguages, ~repeated
                 PROVE  /\ L!Cardinality(L!Defaults(language)) = 1
                        /\ \A p, q \in Langs \cup {L!NoLang} :
                              L!ResolveLang(p, q) # L!NoLang
        BY DEF HasLanguages, L!ExactlyOneDefault
    <2>1. PICK l \in Langs : L!Defaults(language) = {l}
        BY DEF LanguageInv, OneDefault
    <2>2. L!Cardinality(L!Defaults(language)) = 1
        BY <2>1, FiniteLanguages, FS_Singleton
    <2>3. (CHOOSE m \in L!Defaults(language) : TRUE) \in Langs
        BY <2>1
    <2>4. L!EnabledLangs \subseteq Langs
        BY DEF L!EnabledLangs
    <2> QED
        BY <2>1, <2>2, <2>3, <2>4, LanguageAssumption DEF L!ResolveLang
<1>4. LanguageInv => L!OwnersChoice
    BY DEF LanguageInv, LanguageTypes, ChosenDefault, HasLanguages, L!OwnersChoice
<1>5. (part = "languages" => LanguageInv) => LanguageIsServed
    BY <1>3, <1>4 DEF LanguageIsServed
<1> QED
    BY <1>1, <1>2, <1>5, PTL DEF PlatformSpec

-----------------------------------------------------------------------------
(* TenantSettings.                                                         *)

Stored == {"none", "default", "some", "huge", "text", "on", "off"}
SettingCall ==
    [op : {"none", "set", "write", "reset", "put"}, key : S!Keys \cup {S!NoKey},
     by : SettingStaff \cup {S!NoKey}, value : Stored, old : Stored, row : Stored,
     overtaken : BOOLEAN]

SettingTypes ==
    /\ config \in [S!Keys -> Stored]
    /\ settingDialog \in [SettingStaff -> S!Keys \cup {S!NoKey}]
    /\ settingCall \in [S!Calls -> SettingCall]
    /\ audits \in Nat

(* What a call of the bot has read about a number is still so, unless it   *)
(* has been overtaken.                                                     *)
ReadsHold ==
    \A c \in S!Calls : LET k == settingCall[c] IN
       /\ k.op # "none" => k.key \in S!Keys
       /\ k.op \in {"set", "write"} => k.value \notin {S!NoRow, "text"}
       /\ k.key \in S!Numbers /\ ~k.overtaken =>
             /\ k.op \in {"set", "write"} => k.old = S!InEffect(k.key)
             /\ k.op = "write" => k.row = config[k.key]
             /\ k.op = "reset" => k.old = config[k.key] /\ k.row = config[k.key]

SettingInv == SettingTypes /\ ReadsHold

LEMMA IdleSettingCall ==
    S!Idle \in SettingCall /\ S!Idle.op = "none" /\ ~S!Idle.overtaken
BY DEF S!Idle, SettingCall, S!NoKey, S!NoRow, Stored

LEMMA StoredInEffect ==
    ASSUME SettingInv, NEW k \in S!Keys
    PROVE  /\ config[k] \in Stored
           /\ S!InEffect(k) \in Stored \ {S!NoRow, "text"}
BY DEF SettingInv, SettingTypes, S!InEffect, S!Effective, S!Default, S!NoRow, Stored

LEMMA SettingInit == S!Init => SettingInv
<1> SUFFICES ASSUME S!Init PROVE SettingInv
    OBVIOUS
<1>1. SettingTypes
    BY IdleSettingCall DEF S!Init, SettingTypes, Stored, S!NoRow
<1>2. ReadsHold
    BY IdleSettingCall DEF S!Init, ReadsHold
<1> QED
    BY <1>1, <1>2 DEF SettingInv

(* A call reads, and nothing is written.                                   *)
LEMMA SettingCallReads ==
    ASSUME SettingInv, NEW c \in S!Calls, NEW k \in SettingCall, k.key \in S!Keys,
           settingCall' = [settingCall EXCEPT ![c] = k],
           settingDialog' = settingDialog, config' = config, audits' = audits,
           k.op \in {"set", "write"} => k.value \notin {S!NoRow, "text"},
           k.key \in S!Numbers /\ ~k.overtaken =>
             /\ k.op \in {"set", "write"} => k.old = S!InEffect(k.key)
             /\ k.op = "write" => k.row = config[k.key]
             /\ k.op = "reset" => k.old = config[k.key] /\ k.row = config[k.key]
    PROVE  SettingInv'
<1>1. settingCall \in [S!Calls -> SettingCall]
    BY DEF SettingInv, SettingTypes
<1>2. SettingTypes'
    BY <1>1 DEF SettingInv, SettingTypes
<1>3. ReadsHold'
    BY <1>1 DEF SettingInv, ReadsHold, S!InEffect
<1> QED
    BY <1>2, <1>3 DEF SettingInv

(* A call ends, and those that have read what it writes are overtaken.     *)
LEMMA SettingCallEnds ==
    ASSUME SettingInv, NEW c \in S!Calls, NEW wrote \in BOOLEAN, S!Ends(c, wrote),
           config' \in [S!Keys -> Stored], audits' \in Nat,
           settingDialog' \in [SettingStaff -> S!Keys \cup {S!NoKey}],
           \A key \in S!Keys :
              config'[key] = config[key] \/ key \notin S!Numbers
              \/ (wrote /\ key = settingCall[c].key)
    PROVE  SettingInv'
<1>1. settingCall \in [S!Calls -> SettingCall]
    BY DEF SettingInv, SettingTypes
<1>2. ASSUME NEW d \in S!Calls
      PROVE  /\ settingCall'[d] \in SettingCall
             /\ settingCall'[d].op # "none" =>
                   /\ UNCHANGED <<settingCall[d].op, settingCall[d].key,
                                  settingCall[d].value, settingCall[d].old,
                                  settingCall[d].row>>
                   /\ ~settingCall'[d].overtaken =>
                         /\ ~settingCall[d].overtaken
                         /\ ~(wrote /\ settingCall[d].key = settingCall[c].key)
    <2> DEFINE over == settingCall[d].overtaken
                       \/ (wrote /\ settingCall[d].key = settingCall[c].key)
    <2>1. CASE d = c
        BY <2>1, IdleSettingCall DEF S!Ends
    <2>2. CASE d # c
        <3>1. settingCall'[d] = [settingCall[d] EXCEPT !.overtaken = over]
            BY <2>2 DEF S!Ends
        <3>2. over \in BOOLEAN
            BY <1>1 DEF SettingCall
        <3> HIDE DEF over
        <3>3. /\ settingCall'[d] \in SettingCall /\ settingCall'[d].overtaken = over
              /\ UNCHANGED <<settingCall[d].op, settingCall[d].key,
                             settingCall[d].value, settingCall[d].old,
                             settingCall[d].row>>
            BY <1>1, <3>1, <3>2 DEF SettingCall
        <3> QED
            BY <3>3 DEF over
    <2> QED
        BY <2>1, <2>2
<1>3. settingCall' \in [S!Calls -> SettingCall]
    BY <1>2 DEF S!Ends
<1>4. SettingTypes'
    BY <1>3 DEF SettingTypes
<1>5. ReadsHold'
    <2> SUFFICES ASSUME NEW d \in S!Calls, settingCall'[d].op # "none"
                 PROVE  LET k == settingCall'[d] IN
                        /\ k.key \in S!Keys
                        /\ k.op \in {"set", "write"} => k.value \notin {S!NoRow, "text"}
                        /\ k.key \in S!Numbers /\ ~k.overtaken =>
                              /\ k.op \in {"set", "write"} =>
                                    k.old = S!Effective(k.key, config'[k.key])
                              /\ k.op = "write" => k.row = config'[k.key]
                              /\ k.op = "reset" => /\ k.old = config'[k.key]
                                                   /\ k.row = config'[k.key]
        BY DEF ReadsHold, S!InEffect
    <2> DEFINE k == settingCall[d]
    <2>1. /\ k.op # "none" /\ k.key \in S!Keys
          /\ k.op \in {"set", "write"} => k.value \notin {S!NoRow, "text"}
          /\ k.key \in S!Numbers /\ ~k.overtaken =>
                /\ k.op \in {"set", "write"} =>
                      k.old = S!Effective(k.key, config[k.key])
                /\ k.op = "write" => k.row = config[k.key]
                /\ k.op = "reset" => k.old = config[k.key] /\ k.row = config[k.key]
        BY <1>2 DEF SettingInv, ReadsHold, S!InEffect
    <2>2. k.key \in S!Numbers /\ ~settingCall'[d].overtaken =>
             config'[k.key] = config[k.key] /\ ~k.overtaken
        BY <1>2, <2>1
    <2> QED
        BY <1>2, <2>1, <2>2
<1> QED
    BY <1>4, <1>5 DEF SettingInv

LEMMA WriteSettings ==
    ASSUME SettingInv, NEW c \in S!Calls, S!Write(c) \/ S!Reset(c)
    PROVE  SettingInv' /\ S!AuditStep
<1> DEFINE k == settingCall[c]
<1>1. /\ k \in SettingCall /\ k.key \in S!Keys /\ config \in [S!Keys -> Stored]
      /\ settingDialog \in [SettingStaff -> S!Keys \cup {S!NoKey}] /\ audits \in Nat
    BY DEF SettingInv, SettingTypes, ReadsHold, S!Write, S!Reset
<1>2. settingDialog' \in [SettingStaff -> S!Keys \cup {S!NoKey}]
    BY <1>1 DEF S!Write, S!Reset, S!Closes
<1>3. /\ k.key \in S!Numbers /\ ~k.overtaken =>
            /\ k.op = "write" => k.old = S!InEffect(k.key) /\ k.row = config[k.key]
            /\ k.op = "reset" => k.old = config[k.key] /\ k.row = config[k.key]
      /\ k.op = "write" => k.value \notin {S!NoRow, "text"}
    BY DEF SettingInv, ReadsHold
<1>4. CASE S!Write(c)
    <2>1. /\ config' = [config EXCEPT ![k.key] = S!Written(k)]
          /\ S!Ends(c, TRUE)
          /\ \/ UNCHANGED <<audits, last>>
             \/ /\ k.op = "write" /\ k.key \in S!Numbers
                /\ S!Audit(k, k.value, FALSE)
        BY <1>4 DEF S!Write
    <2>2. S!Written(k) \in Stored
        BY <1>1 DEF S!Written, SettingCall
    <2>3. config' \in [S!Keys -> Stored]
        BY <1>1, <2>1, <2>2
    <2>4. audits' \in Nat
        BY <1>1, <2>1 DEF S!Audit
    <2>5. SettingInv'
        BY <1>1, <1>2, <2>1, <2>3, <2>4, SettingCallEnds
    <2>6. ASSUME audits' > audits PROVE S!EntryIsTrue
        <3>1. /\ k.op = "write" /\ k.key \in S!Numbers
              /\ last' = [key |-> k.key, old |-> k.old, new |-> k.value,
                          reset |-> FALSE, overtaken |-> k.overtaken]
            BY <1>1, <2>1, <2>6 DEF S!Audit
        <3>2. CASE k.overtaken
            BY <3>1, <3>2 DEF S!EntryIsTrue
        <3>3. CASE ~k.overtaken
            <4>1. config'[k.key] = k.value
                BY <1>1, <1>3, <2>1, <3>1, <3>3 DEF S!Written
            <4> QED
                BY <1>3, <3>1, <3>3, <4>1 DEF S!EntryIsTrue, S!Effective
        <3> QED
            BY <3>2, <3>3
    <2> QED
        BY <2>5, <2>6 DEF S!AuditStep
<1>5. CASE S!Reset(c)
    <2>1. /\ k.op = "reset"
          /\ config' = [config EXCEPT ![k.key] =
                          IF k.row = S!NoRow /\ k.key \in S!Numbers THEN @
                          ELSE S!NoRow]
          /\ S!Ends(c, k.row # S!NoRow)
          /\ \/ UNCHANGED <<audits, last>>
             \/ /\ k.row # S!NoRow /\ k.key \in S!Numbers
                /\ S!Audit(k, S!Default(k.key), TRUE)
        BY <1>5 DEF S!Reset
    <2>2. config' \in [S!Keys -> Stored]
        BY <1>1, <2>1 DEF Stored, S!NoRow
    <2>3. audits' \in Nat
        BY <1>1, <2>1 DEF S!Audit
    <2>4. \A key \in S!Keys :
             config'[key] = config[key] \/ key \notin S!Numbers
             \/ (k.row # S!NoRow /\ key = k.key)
        BY <1>1, <2>1
    <2>5. (k.row # S!NoRow) \in BOOLEAN
        OBVIOUS
    <2>6. SettingInv'
        BY <1>2, <2>1, <2>2, <2>3, <2>4, <2>5, SettingCallEnds
    <2>7. ASSUME audits' > audits PROVE S!EntryIsTrue
        <3>1. /\ k.row # S!NoRow /\ k.key \in S!Numbers
              /\ last' = [key |-> k.key, old |-> k.old, new |-> S!Default(k.key),
                          reset |-> TRUE, overtaken |-> k.overtaken]
            BY <1>1, <2>1, <2>7 DEF S!Audit
        <3>2. config'[k.key] = S!NoRow
            BY <1>1, <2>1, <3>1
        <3> QED
            BY <1>3, <2>1, <3>1, <3>2 DEF S!EntryIsTrue, S!Effective
    <2> QED
        BY <2>6, <2>7 DEF S!AuditStep
<1> QED
    BY <1>4, <1>5

LEMMA BotSets ==
    ASSUME SettingInv, NEW a \in SettingStaff, NEW k \in S!Keys,
           NEW v \in Stored \ {S!NoRow, "text"},
           S!Begin("bot", [S!Idle EXCEPT !.op = "set", !.key = k, !.by = a,
                                         !.value = v, !.old = S!InEffect(k)]),
           UNCHANGED <<config, settingDialog, audits>>
    PROVE  SettingInv'
<1> DEFINE q == [S!Idle EXCEPT !.op = "set", !.key = k, !.by = a,
                               !.value = v, !.old = S!InEffect(k)]
<1>1. /\ q.op = "set" /\ q.key = k /\ q.value = v /\ q.old = S!InEffect(k)
      /\ q \in SettingCall
    BY StoredInEffect DEF S!Idle, SettingCall, S!NoRow, Stored
<1>2. settingCall' = [settingCall EXCEPT !["bot"] = q] /\ "bot" \in S!Calls
    BY DEF S!Begin, S!Calls, S!BotCall
<1> HIDE DEF q
<1> QED
    BY <1>1, <1>2, SettingCallReads

LEMMA SettingNext ==
    SettingInv /\ [S!Next]_settingVars => SettingInv' /\ S!AuditStep
<1> SUFFICES ASSUME SettingInv, [S!Next]_settingVars
             PROVE  SettingInv' /\ S!AuditStep
    OBVIOUS
<1>1. /\ config \in [S!Keys -> Stored] /\ settingCall \in [S!Calls -> SettingCall]
      /\ settingDialog \in [SettingStaff -> S!Keys \cup {S!NoKey}] /\ audits \in Nat
    BY DEF SettingInv, SettingTypes
<1>2. audits' = audits => S!AuditStep
    BY <1>1 DEF S!AuditStep
<1>3. ASSUME NEW a \in SettingStaff, NEW k \in S!Keys \cup {S!NoKey},
             settingDialog' = [settingDialog EXCEPT ![a] = k],
             UNCHANGED <<config, settingCall, audits>>
      PROVE  SettingInv'
    BY <1>1, <1>3 DEF SettingInv, SettingTypes, ReadsHold, S!InEffect
<1>4. ASSUME NEW a \in SettingStaff, NEW k \in S!Keys, S!OnBrandingEdit(a, k)
      PROVE  SettingInv' /\ S!AuditStep
    BY <1>2, <1>3, <1>4 DEF S!OnBrandingEdit, S!Opens, S!Answers
<1>5. ASSUME NEW a \in SettingStaff, S!OnReferralsEdit(a) \/ S!OnGiftsEdit(a)
      PROVE  SettingInv' /\ S!AuditStep
    <2>1. "referrals" \in S!Keys /\ "gifts" \in S!Keys
        BY DEF S!Keys, S!Numbers
    <2> QED
        BY <1>2, <1>3, <1>5, <2>1
           DEF S!OnReferralsEdit, S!OnGiftsEdit, S!Opens, S!Answers
<1>6. ASSUME NEW a \in SettingStaff,
             \/ S!OnBrandingCancel(a) \/ S!OnReferralsCancel(a)
             \/ S!OnGiftsCancel(a) \/ S!OnValueRefused(a)
      PROVE  SettingInv' /\ S!AuditStep
    BY <1>2, <1>3, <1>6
       DEF S!OnBrandingCancel, S!OnReferralsCancel, S!OnGiftsCancel,
           S!OnValueRefused, S!Cancels, S!Answers
<1>7. ASSUME NEW a \in SettingStaff, NEW v \in {"default", "some"},
             \/ S!OnBrandingValue(a, v) \/ S!OnReferralsValue(a, v)
             \/ S!OnGiftsValue(a, v)
      PROVE  SettingInv' /\ S!AuditStep
    <2>1. PICK k \in S!Keys : S!Sets(a, k, v)
        BY <1>7 DEF S!OnBrandingValue, S!OnReferralsValue, S!OnGiftsValue, S!Keys,
                    S!Numbers
    <2> QED
        BY <1>2, <2>1, BotSets DEF S!Sets, S!Answers, S!BotCall, Stored, S!NoRow
<1>8. ASSUME NEW a \in SettingStaff, NEW k \in S!Keys, S!OnToggle(a, k)
      PROVE  SettingInv' /\ S!AuditStep
    <2> DEFINE v == IF S!InEffect(k) = "on" THEN "off" ELSE "on"
    <2>1. v \in Stored \ {S!NoRow, "text"}
        BY DEF Stored, S!NoRow
    <2>2. /\ S!Begin("bot", [S!Idle EXCEPT !.op = "set", !.key = k, !.by = a,
                                           !.value = v, !.old = S!InEffect(k)])
          /\ UNCHANGED <<config, settingDialog, audits>>
        BY <1>8 DEF S!OnToggle, S!Answers, S!BotCall
    <2> HIDE DEF v
    <2> QED
        BY <1>2, <2>1, <2>2, BotSets
<1>9. ASSUME NEW a \in SettingStaff,
             \/ S!OnBrandingReset(a) \/ S!OnReferralsReset(a) \/ S!OnGiftsReset(a)
      PROVE  SettingInv' /\ S!AuditStep
    <2>1. PICK k \in S!Keys : S!Resets(a, k)
        BY <1>9 DEF S!OnBrandingReset, S!OnReferralsReset, S!OnGiftsReset, S!Keys,
                    S!Numbers
    <2> DEFINE q == [S!Idle EXCEPT !.op = "reset", !.key = k, !.by = a,
                                   !.old = config[k], !.row = config[k]]
    <2>2. /\ q.op = "reset" /\ q.key = k /\ q.old = config[k] /\ q.row = config[k]
          /\ q \in SettingCall
        BY StoredInEffect DEF S!Idle, SettingCall, S!NoRow, Stored
    <2>3. /\ settingCall' = [settingCall EXCEPT !["bot"] = q] /\ "bot" \in S!Calls
          /\ UNCHANGED <<config, settingDialog, audits>>
        BY <2>1 DEF S!Resets, S!Answers, S!Begin, S!Calls, S!BotCall
    <2> HIDE DEF q
    <2> QED
        BY <1>2, <2>2, <2>3, SettingCallReads
<1>10. ASSUME NEW c \in SettingCalls, NEW k \in S!Keys, NEW v \in S!Bodies(k),
              S!BeginPut(c, k, v)
       PROVE  SettingInv' /\ S!AuditStep
    <2> DEFINE q == [S!Idle EXCEPT !.op = "put", !.key = k, !.value = v,
                                   !.row = config[k]]
    <2>1. v \in Stored
        BY DEF S!Bodies, S!Allowed, Stored
    <2>2. q.op = "put" /\ q.key = k /\ q \in SettingCall
        BY <2>1, StoredInEffect DEF S!Idle, SettingCall, S!NoRow, Stored
    <2>3. /\ settingCall' = [settingCall EXCEPT ![c] = q] /\ c \in S!Calls
          /\ UNCHANGED <<config, settingDialog, audits>>
        BY <1>10 DEF S!BeginPut, S!Begin, S!Calls
    <2> HIDE DEF q
    <2> QED
        BY <1>2, <2>2, <2>3, SettingCallReads
<1>11. ASSUME NEW c \in S!Calls, S!ReadRow(c)
       PROVE  SettingInv' /\ S!AuditStep
    <2> DEFINE k == settingCall[c]
               q == [k EXCEPT !.op = "write", !.row = config[k.key]]
    <2>1. /\ k \in SettingCall /\ k.op = "set" /\ k.key \in S!Keys
          /\ k.value \notin {S!NoRow, "text"}
          /\ k.key \in S!Numbers /\ ~k.overtaken => k.old = S!InEffect(k.key)
        BY <1>1, <1>11 DEF S!ReadRow, SettingInv, ReadsHold
    <2>2. /\ q.op = "write" /\ q.key = k.key /\ q.value = k.value /\ q.old = k.old
          /\ q.row = config[k.key] /\ q.overtaken = k.overtaken /\ q \in SettingCall
        BY <2>1, StoredInEffect DEF SettingCall
    <2>3. /\ settingCall' = [settingCall EXCEPT ![c] = q]
          /\ UNCHANGED <<config, settingDialog, audits>>
        BY <1>1, <1>11 DEF S!ReadRow
    <2> HIDE DEF q
    <2> QED
        BY <1>2, <2>1, <2>2, <2>3, SettingCallReads
<1>12. ASSUME NEW c \in S!Calls, S!WriteFails(c) \/ S!CallDies(c)
       PROVE  SettingInv' /\ S!AuditStep
    <2>1. S!Ends(c, FALSE) /\ UNCHANGED <<config, settingDialog, audits>>
        BY <1>12 DEF S!WriteFails, S!CallDies
    <2> QED
        BY <1>1, <1>2, <2>1, SettingCallEnds
<1>13. ASSUME NEW a \in SettingStaff, S!RoleRevoked(a)
       PROVE  SettingInv' /\ S!AuditStep
    BY <1>1, <1>2, <1>13
       DEF S!RoleRevoked, SettingInv, SettingTypes, ReadsHold, S!InEffect
<1>14. CASE UNCHANGED settingVars
    BY <1>1, <1>2, <1>14
       DEF settingVars, SettingInv, SettingTypes, ReadsHold, S!InEffect
<1>15. CASE S!Next
    BY <1>4, <1>5, <1>6, <1>7, <1>8, <1>9, <1>10, <1>11, <1>12, <1>13, <1>15,
       WriteSettings DEF S!Next
<1> QED
    BY <1>14, <1>15

LEMMA SettingRuns ==
    [PlatformNext]_platformVars =>
       UNCHANGED part /\ [part = "settings" /\ S!Next]_settingVars
BY DEF PlatformNext, platformVars, Only

(* What the audit log says of a setting with a number was in effect until  *)
(* the commit and is afterwards, unless the call was overtaken             *)
(* (domain/referrals.py 112-165, domain/gifts.py 78-132).                  *)
THEOREM AuditIsTrue == PlatformSpec => AuditTellsTruth
<1>1. PlatformInit => (part = "settings" => SettingInv)
    BY SettingInit DEF PlatformInit
<1>2. (part = "settings" => SettingInv) /\ [PlatformNext]_platformVars
      => (part = "settings" => SettingInv)' /\ (part = "settings" => S!AuditStep)
    BY SettingRuns, SettingNext
<1>3. PlatformSpec => [](part = "settings" => SettingInv)
    BY <1>1, <1>2, PTL DEF PlatformSpec
<1>4. (part = "settings" => SettingInv) /\ [PlatformNext]_platformVars
      => [part = "settings" => S!AuditStep]_platformVars
    BY <1>2
<1> QED
    BY <1>3, <1>4, PTL DEF PlatformSpec, AuditTellsTruth

-----------------------------------------------------------------------------
(* Payouts.                                                                *)

\* The sums of the instance are those that Sums is about.
LEMMA PayoutSum ==
    ASSUME NEW f, NEW X
    PROVE  P!SumFunctionOnSet(f, X) = SumFunctionOnSet(f, X)
BY DEF P!SumFunctionOnSet, P!FoldFunctionOnSet, P!MapThenFoldSet,
       SumFunctionOnSet, FoldFunctionOnSet, MapThenFoldSet

PayoutFinite == IsFiniteSet(Sales) /\ IsFiniteSet(Periods)

LEMMA PayoutsAreFinite == PayoutFinite
BY PayoutAssumption DEF PayoutFinite, L!IsFiniteSet, IsFiniteSet

(* A gross amount is the sum of the period but for what came late, and     *)
(* that is how it stays: what is paid later in the period is late, and     *)
(* what is moved out of it is on record.                                   *)
Covers(gross, period) ==
    /\ gross \in Nat
    /\ P!Sum(P!PaidWithin(period) \ late[period]) <= gross
    /\ gross <= P!Sum(P!PaidWithin(period) \cup moved[period])

Calculation == [pc : {"idle", "summed"}, period : Periods \cup {P!NoPeriod},
                gross : Nat]

PayoutTypes ==
    /\ payDay \in Int
    /\ sale \in [Sales -> [status : {"pending", "paid"}, paidAt : Int]]
    /\ \A e \in delivery : e.of \in Sales /\ e.paidAt \in Int
    /\ DOMAIN payout = Periods
    /\ calculation \in [Admins -> Calculation]
    /\ moved \in [Periods -> SUBSET Sales]

RowHolds(row, period) ==
    \/ row = P!NoPayout
    \/ /\ row.status \in {"calculated", "paid"}
       /\ Covers(row.gross, period)
       /\ row.net = row.gross - ((row.gross * FeePct) \div 100)

PayoutInv ==
    /\ PayoutTypes
    /\ \A p \in Periods : RowHolds(payout[p], p)
    /\ \A a \in Admins :
          calculation[a].pc = "summed" =>
             /\ calculation[a].period \in Periods
             /\ Covers(calculation[a].gross, calculation[a].period)

LEMMA PayoutInit == P!Init => PayoutInv
BY DEF P!Init, PayoutInv, PayoutTypes, Calculation, RowHolds, P!Unpaid, P!Waiting

(* More that is paid, of which more is late, leaves an amount between.     *)
LEMMA SumGrows ==
    ASSUME NEW X \in SUBSET Sales, NEW Y \in SUBSET X
    PROVE  P!Sum(Y) \in Nat /\ P!Sum(X) \in Nat /\ P!Sum(Y) <= P!Sum(X)
<1>1. IsFiniteSet(X) /\ IsFiniteSet(Y)
    BY PayoutsAreFinite, FS_Subset DEF PayoutFinite
<1>2. \A s \in X : Amount[s] \in Nat
    BY PayoutAssumption
<1>3. SumFunctionOnSet(Amount, X) \in Nat
    BY <1>1, <1>2, SumNat
<1>4. SumFunctionOnSet(Amount, Y) \in Nat
    BY <1>1, <1>2, SumNat
<1>5. SumFunctionOnSet(Amount, Y) <= SumFunctionOnSet(Amount, X)
    BY <1>1, <1>2, SumWithin
<1> QED
    BY <1>3, <1>4, <1>5, PayoutSum DEF P!Sum

LEMMA CommitKeeps ==
    ASSUME PayoutInv, NEW e \in delivery, P!Commit(e),
           NEW p \in Periods, P!Summed(p), NEW gross, Covers(gross, p)
    PROVE  Covers(gross, p)'
<1> DEFINE s == e.of
           X == P!PaidWithin(p)
           Z == P!PaidWithin(p)'
<1>1. /\ sale \in [Sales -> [status : {"pending", "paid"}, paidAt : Int]]
      /\ moved \in [Periods -> SUBSET Sales]
      /\ s \in Sales
    BY DEF PayoutInv, PayoutTypes
<1>2. sale' = [sale EXCEPT ![s] = [status |-> "paid", paidAt |-> e.paidAt]]
    BY DEF P!Commit
<1>3. /\ sale'[s].status = "paid" /\ sale'[s].paidAt = e.paidAt
      /\ \A r \in Sales : r # s => sale'[r] = sale[r]
    BY <1>1, <1>2
<1>4. /\ late'[p] = IF P!Within(e.paidAt, p) /\ s \notin X
                    THEN late[p] \cup {s} ELSE late[p]
      /\ moved'[p] = IF s \in X /\ ~P!Within(e.paidAt, p)
                     THEN moved[p] \cup {s} ELSE moved[p]
    BY DEF P!Commit
<1>5. /\ s \in Z <=> P!Within(e.paidAt, p)
      /\ \A r \in Sales : r # s => (r \in Z <=> r \in X)
      /\ X \subseteq Sales /\ Z \subseteq Sales
    <2>1. Z = {r \in Sales : sale'[r].status = "paid"
                             /\ P!Within(sale'[r].paidAt, p)}
        BY DEF P!PaidWithin
    <2>2. X = {r \in Sales : sale[r].status = "paid"
                             /\ P!Within(sale[r].paidAt, p)}
        BY DEF P!PaidWithin
    <2> HIDE DEF X, Z
    <2> QED
        BY <1>1, <1>3, <2>1, <2>2
<1>6. P!Sum(P!PaidWithin(p) \ late[p])' = P!Sum(Z \ late'[p])
      /\ P!Sum(P!PaidWithin(p) \cup moved[p])' = P!Sum(Z \cup moved'[p])
    BY DEF P!Sum
<1>7. /\ gross \in Nat /\ P!Sum(X \ late[p]) <= gross
      /\ gross <= P!Sum(X \cup moved[p])
    BY DEF Covers
<1> HIDE DEF X, Z, s
<1>8. /\ Z \ late'[p] \in SUBSET (X \ late[p])
      /\ X \cup moved[p] \in SUBSET (Z \cup moved'[p])
    BY <1>4, <1>5, <1>1
<1>9. X \ late[p] \in SUBSET Sales /\ Z \cup moved'[p] \in SUBSET Sales
    BY <1>1, <1>4, <1>5
<1>10. /\ P!Sum(Z \ late'[p]) \in Nat /\ P!Sum(X \ late[p]) \in Nat
       /\ P!Sum(Z \ late'[p]) <= P!Sum(X \ late[p])
    BY <1>8, <1>9, SumGrows
<1>11. /\ P!Sum(X \cup moved[p]) \in Nat /\ P!Sum(Z \cup moved'[p]) \in Nat
       /\ P!Sum(X \cup moved[p]) <= P!Sum(Z \cup moved'[p])
    BY <1>8, <1>9, SumGrows
<1> QED
    BY <1>6, <1>7, <1>10, <1>11 DEF Covers

LEMMA CoversStays ==
    ASSUME UNCHANGED <<sale, late, moved>>, NEW gross, NEW p
    PROVE  Covers(gross, p)' <=> Covers(gross, p)
<1>1. P!PaidWithin(p)' = P!PaidWithin(p)
    BY DEF P!PaidWithin
<1> QED
    BY <1>1 DEF Covers, P!Sum

(* The sum that a calculation reads covers the period it reads.            *)
LEMMA SumCovers ==
    ASSUME PayoutInv, NEW p \in Periods
    PROVE  Covers(P!Sum(P!PaidWithin(p)), p)
<1> DEFINE X == P!PaidWithin(p)
           Y == X \ late[p]
           Z == X \cup moved[p]
<1>1. X \in SUBSET Sales /\ Z \in SUBSET Sales
    BY DEF P!PaidWithin, PayoutInv, PayoutTypes
<1>2. Y \in SUBSET X /\ X \in SUBSET Z
    OBVIOUS
<1>3. P!Sum(Y) \in Nat /\ P!Sum(X) \in Nat /\ P!Sum(Y) <= P!Sum(X)
    BY <1>1, <1>2, SumGrows
<1>4. P!Sum(X) <= P!Sum(Z)
    BY <1>1, <1>2, SumGrows
<1> QED
    BY <1>3, <1>4 DEF Covers

LEMMA PayoutNext == PayoutInv /\ [P!Next]_payoutVars => PayoutInv'
<1> SUFFICES ASSUME PayoutInv, [P!Next]_payoutVars
             PROVE  PayoutInv'
    OBVIOUS
<1>1. /\ payDay \in Int
      /\ sale \in [Sales -> [status : {"pending", "paid"}, paidAt : Int]]
      /\ \A e \in delivery : e.of \in Sales /\ e.paidAt \in Int
      /\ DOMAIN payout = Periods
      /\ calculation \in [Admins -> Calculation]
      /\ moved \in [Periods -> SUBSET Sales]
    BY DEF PayoutInv, PayoutTypes
<1>2. /\ \A p \in Periods : RowHolds(payout[p], p)
      /\ \A a \in Admins :
            calculation[a].pc = "summed" =>
               /\ calculation[a].period \in Periods
               /\ Covers(calculation[a].gross, calculation[a].period)
    BY DEF PayoutInv
\* Where no payment changes, an amount covers what it did.
<1>3. ASSUME UNCHANGED <<sale, late, moved>>
      PROVE  \A p, gross, row : /\ Covers(gross, p)' <=> Covers(gross, p)
                                /\ RowHolds(row, p)' <=> RowHolds(row, p)
    BY <1>3, CoversStays DEF RowHolds
<1>4. CASE P!NextDay
    <2>1. payDay' = payDay + 1 /\ UNCHANGED <<sale, delivery, payout, calculation, late, moved>>
        BY <1>4 DEF P!NextDay
    <2>2. payDay' \in Int
        BY <1>1, <2>1
    <2> QED
        BY <1>1, <1>2, <1>3, <2>1, <2>2 DEF PayoutInv, PayoutTypes
<1>5. ASSUME NEW d \in Deliveries, NEW s \in Sales, P!Stamp(d, s)
      PROVE  PayoutInv'
    <2>1. /\ delivery' = delivery \cup {[by |-> d, of |-> s, paidAt |-> payDay]}
          /\ UNCHANGED <<payDay, sale, payout, calculation, late, moved>>
        BY <1>5 DEF P!Stamp
    <2>2. \A e \in delivery' : e.of \in Sales /\ e.paidAt \in Int
        BY <1>1, <2>1
    <2> QED
        BY <1>1, <1>2, <1>3, <2>1, <2>2 DEF PayoutInv, PayoutTypes
<1>6. ASSUME NEW e \in delivery, P!Commit(e)
      PROVE  PayoutInv'
    <2>1. /\ sale' = [sale EXCEPT
                        ![e.of] = [status |-> "paid", paidAt |-> e.paidAt]]
          /\ delivery' = delivery \ {e}
          /\ UNCHANGED <<payDay, payout, calculation>>
        BY <1>6 DEF P!Commit
    <2>2. /\ sale' \in [Sales -> [status : {"pending", "paid"}, paidAt : Int]]
          /\ \A k \in delivery' : k.of \in Sales /\ k.paidAt \in Int
        BY <1>1, <2>1
    <2>3. moved' \in [Periods -> SUBSET Sales]
        <3>1. \A p \in Periods : moved'[p] \in SUBSET Sales
            BY <1>1, <1>6 DEF P!Commit
        <3>2. moved' = [p \in Periods |-> moved'[p]]
            BY <1>6 DEF P!Commit
        <3> QED
            BY <3>1, <3>2
    <2>4. ASSUME NEW p \in Periods
          PROVE  RowHolds(payout[p], p)'
        <3>1. CASE payout[p] = P!NoPayout
            BY <2>1, <3>1 DEF RowHolds
        <3>2. CASE payout[p] # P!NoPayout
            BY <1>2, <1>6, <2>1, <3>2, CommitKeeps DEF RowHolds, P!Summed
        <3> QED
            BY <3>1, <3>2
    <2>5. ASSUME NEW a \in Admins, calculation[a].pc = "summed"
          PROVE  Covers(calculation[a].gross, calculation[a].period)'
        BY <1>2, <1>6, <2>1, <2>5, CommitKeeps DEF P!Summed
    <2> QED
        BY <1>1, <1>2, <2>1, <2>2, <2>3, <2>4, <2>5 DEF PayoutInv, PayoutTypes
<1>7. ASSUME NEW a \in Admins, NEW p \in Periods, P!Calculate(a, p)
      PROVE  PayoutInv'
    <2> DEFINE q == [pc |-> "summed", period |-> p, gross |-> P!Sum(P!PaidWithin(p))]
    <2>1. /\ calculation' = [calculation EXCEPT ![a] = q]
          /\ UNCHANGED <<payDay, sale, delivery, payout, late, moved>>
        BY <1>7 DEF P!Calculate, P!Becomes
    <2>2. Covers(P!Sum(P!PaidWithin(p)), p) /\ P!Sum(P!PaidWithin(p)) \in Nat
        BY SumCovers DEF Covers
    <2>3. /\ q.pc = "summed" /\ q.period = p /\ Covers(q.gross, q.period)
          /\ q \in Calculation
        BY <2>2 DEF Calculation
    <2> HIDE DEF q
    <2>4. /\ \A b \in Admins : calculation'[b] = IF b = a THEN q ELSE calculation[b]
          /\ calculation' \in [Admins -> Calculation]
        BY <1>1, <2>1, <2>3
    <2> QED
        BY <1>1, <1>2, <1>3, <2>1, <2>3, <2>4 DEF PayoutInv, PayoutTypes
<1>8. ASSUME NEW a \in Admins, P!InsertPayout(a)
      PROVE  PayoutInv'
    <2> DEFINE c == calculation[a]
               fee == (c.gross * FeePct) \div 100
               row == [status |-> "calculated", gross |-> c.gross, fee |-> fee,
                       net |-> c.gross - fee]
               q == [pc |-> "idle", period |-> P!NoPeriod, gross |-> 0]
    <2>1. /\ payout' = IF payout[c.period] # P!NoPayout THEN payout
                       ELSE [payout EXCEPT ![c.period] = row]
          /\ calculation' = [calculation EXCEPT ![a] = q]
          /\ UNCHANGED <<payDay, sale, delivery, late, moved>>
        BY <1>8 DEF P!InsertPayout, P!Becomes
    <2>2. c.period \in Periods /\ Covers(c.gross, c.period)
        BY <1>2, <1>8 DEF P!InsertPayout
    <2>3. RowHolds(row, c.period)
        BY <2>2 DEF RowHolds
    <2>4. /\ q.pc = "idle"
          /\ q \in Calculation
        BY DEF Calculation
    <2> HIDE DEF q, row
    <2>5. /\ \A b \in Admins : calculation'[b] = IF b = a THEN q ELSE calculation[b]
          /\ calculation' \in [Admins -> Calculation]
        BY <1>1, <2>1, <2>4
    <2>6. /\ DOMAIN payout' = Periods
          /\ \A p \in Periods : payout'[p] = payout[p] \/ (p = c.period /\ payout'[p] = row)
        BY <1>1, <2>1, <2>2
    <2>7. PayoutTypes'
        BY <1>1, <2>1, <2>5, <2>6 DEF PayoutTypes
    <2>8. \A p \in Periods : RowHolds(payout[p], p)'
        <3>1. \A o, k : RowHolds(k, o)' <=> RowHolds(k, o)
            BY <1>3, <2>1
        <3> SUFFICES ASSUME NEW p \in Periods PROVE RowHolds(payout'[p], p)
            BY <3>1
        <3> QED
            BY <1>2, <2>3, <2>6
    <2>9. \A b \in Admins :
             calculation'[b].pc = "summed" =>
                /\ calculation'[b].period \in Periods
                /\ Covers(calculation[b].gross, calculation[b].period)'
        BY <1>2, <1>3, <2>1, <2>4, <2>5
    <2> QED
        BY <2>7, <2>8, <2>9 DEF PayoutInv
<1>9. ASSUME NEW p \in Periods, P!MarkPaid(p)
      PROVE  PayoutInv'
    <2> DEFINE row == [payout[p] EXCEPT !.status = "paid"]
    <2>1. /\ payout' = [payout EXCEPT ![p] = row] /\ payout[p] # P!NoPayout
          /\ UNCHANGED <<payDay, sale, delivery, calculation, late, moved>>
        BY <1>9 DEF P!MarkPaid
    <2>2. RowHolds(row, p)
        BY <1>2, <2>1 DEF RowHolds
    <2> HIDE DEF row
    <2>3. /\ DOMAIN payout' = Periods
          /\ \A o \in Periods : payout'[o] = payout[o] \/ (o = p /\ payout'[o] = row)
        BY <1>1, <2>1
    <2> QED
        BY <1>1, <1>2, <1>3, <2>1, <2>2, <2>3 DEF PayoutInv, PayoutTypes
<1>10. CASE UNCHANGED payoutVars
    BY <1>1, <1>2, <1>3, <1>10 DEF payoutVars, PayoutInv, PayoutTypes
<1>11. ASSUME NEW e \in delivery, P!CommitFails(e)
       PROVE  PayoutInv'
    <2>1. /\ delivery' = delivery \ {e}
          /\ UNCHANGED <<payDay, sale, payout, calculation, late, moved>>
        BY <1>11 DEF P!CommitFails
    <2> QED
        BY <1>1, <1>2, <1>3, <2>1 DEF PayoutInv, PayoutTypes
<1> QED
    BY <1>4, <1>5, <1>6, <1>7, <1>8, <1>9, <1>10, <1>11 DEF P!Next

\* A fee is rounded down, and so the fees of several amounts are no more
\* than the percentage of their sum.
LEMMA FeeOfTwo ==
    ASSUME NEW a \in Nat, NEW x \in Int, x = a - ((a * FeePct) \div 100),
           NEW b \in Nat, NEW y \in Int, 100 * (b - y) <= b * FeePct
    PROVE  100 * ((a + b) - (x + y)) <= (a + b) * FeePct
<1> DEFINE v == a * FeePct
           w == b * FeePct
<1>1. v \in Nat /\ w \in Nat
    BY PayoutAssumption
<1>2. (a + b) * FeePct = v + w
    BY PayoutAssumption
<1>3. x = a - (v \div 100) /\ 100 * (b - y) <= w
    OBVIOUS
<1> HIDE DEF v, w
<1>4. 100 * (v \div 100) <= v /\ v \div 100 \in Int
    BY <1>1
<1>5. 100 * ((a + b) - (x + y)) <= v + w
    BY <1>1, <1>3, <1>4
<1> QED
    BY <1>2, <1>5

LEMMA FeeOfMore ==
    ASSUME NEW gross \in Nat, NEW net \in Int, NEW owed \in Nat, gross <= owed,
           100 * (gross - net) <= gross * FeePct
    PROVE  net >= gross - ((owed * FeePct) \div 100)
<1> DEFINE v == gross * FeePct
           w == owed * FeePct
<1>1. v \in Nat /\ w \in Nat /\ v <= w
    BY PayoutAssumption
<1>2. 100 * (gross - net) <= v
    OBVIOUS
<1> HIDE DEF v, w
<1>3. net >= gross - (w \div 100)
    BY <1>1, <1>2
<1> QED
    BY <1>3 DEF w

GrossOf == [p \in Periods |-> payout[p].gross]
NetOf == [p \in Periods |-> payout[p].net]
MovedOf == [p \in Periods |-> P!Sum(moved[p])]
OwedFor(ps) == UNION {P!PaidWithin(p) : p \in ps}
InTimeFor(ps) == UNION {P!PaidWithin(p) \ late[p] : p \in ps}
Apart(ps) == \A p, q \in ps : p = q \/ P!Disjoint(p, q)

(* What the periods of ps have been paid out: between what is owed but for *)
(* what came late, and what is owed and what was moved out of them.        *)
AddsUp(ps) ==
    LET gross == SumFunctionOnSet(GrossOf, ps)
        net == SumFunctionOnSet(NetOf, ps)
        twice == SumFunctionOnSet(MovedOf, ps)
    IN
    /\ gross \in Nat /\ net \in Int /\ twice \in Nat
    /\ P!Sum(InTimeFor(ps)) <= gross
    /\ gross <= P!Sum(OwedFor(ps)) + twice
    /\ 100 * (gross - net) <= gross * FeePct

LEMMA PaidSum ==
    ASSUME NEW X \in SUBSET Sales, NEW Y \in SUBSET Sales, X \cap Y = {}
    PROVE  P!Sum(X \cup Y) = P!Sum(X) + P!Sum(Y)
<1>1. IsFiniteSet(Sales) /\ \A s \in Sales : Amount[s] \in Int
    BY PayoutsAreFinite, PayoutAssumption DEF PayoutFinite
<1>2. SumFunctionOnSet(Amount, X \cup Y)
        = SumFunctionOnSet(Amount, X) + SumFunctionOnSet(Amount, Y)
    BY <1>1, SumApart
<1> QED
    BY <1>2, PayoutSum DEF P!Sum

\* A payment that is in both is counted once on the left.
LEMMA SumOfBoth ==
    ASSUME NEW X \in SUBSET Sales, NEW Y \in SUBSET Sales
    PROVE  P!Sum(X \cup Y) <= P!Sum(X) + P!Sum(Y)
<1> DEFINE Z == Y \ X
<1>1. /\ X \cup Y = X \cup Z /\ X \cap Z = {}
      /\ Z \in SUBSET Sales /\ Z \in SUBSET Y
    OBVIOUS
<1> HIDE DEF Z
<1>2. P!Sum(X \cup Z) = P!Sum(X) + P!Sum(Z)
    BY <1>1, PaidSum
<1>3. /\ P!Sum(X) \in Nat /\ P!Sum(Z) \in Nat /\ P!Sum(Y) \in Nat
      /\ P!Sum(Z) <= P!Sum(Y)
    <2>1. X \in SUBSET X
        OBVIOUS
    <2> QED
        BY <1>1, <2>1, SumGrows
<1>4. P!Sum(X \cup Y) = P!Sum(X) + P!Sum(Z)
    BY <1>1, <1>2, Zenon
<1> QED
    BY <1>3, <1>4

LEMMA NothingAddsUp == AddsUp({})
<1>1. OwedFor({}) = {} /\ InTimeFor({}) = {}
    BY DEF OwedFor, InTimeFor
<1>2. P!Sum(OwedFor({})) = 0 /\ P!Sum(InTimeFor({})) = 0
    BY <1>1, SumEmpty, PayoutSum DEF P!Sum
<1>3. /\ SumFunctionOnSet(GrossOf, {}) = 0 /\ SumFunctionOnSet(NetOf, {}) = 0
      /\ SumFunctionOnSet(MovedOf, {}) = 0
    BY SumEmpty
<1>4. 0 * FeePct = 0
    BY PayoutAssumption
<1> QED
    BY <1>2, <1>3, <1>4 DEF AddsUp

(* One more period brings the payments in it, which are in no other.       *)
LEMMA OneMoreAddsUp ==
    ASSUME PayoutInv, NEW ps \in SUBSET {p \in Periods : payout[p] # P!NoPayout},
           Apart(ps), NEW p \in ps, AddsUp(ps \ {p})
    PROVE  AddsUp(ps)
<1> DEFINE r == ps \ {p}
           X == P!PaidWithin(p)
           Y == OwedFor(r)
           V == X \ late[p]
           W == InTimeFor(r)
           g == SumFunctionOnSet(GrossOf, r)
           n == SumFunctionOnSet(NetOf, r)
           m == SumFunctionOnSet(MovedOf, r)
<1>1. /\ X \in SUBSET Sales /\ Y \in SUBSET Sales
      /\ V \in SUBSET X /\ W \in SUBSET Y
      /\ OwedFor(ps) = X \cup Y /\ InTimeFor(ps) = V \cup W
    BY DEF OwedFor, InTimeFor, P!PaidWithin
<1>2. X \cap Y = {}
    <2>1. SUFFICES ASSUME NEW s \in X, s \in Y
                   PROVE  FALSE
        OBVIOUS
    <2>2. PICK q \in r : s \in P!PaidWithin(q)
        BY <2>1 DEF OwedFor
    <2>3. P!Disjoint(p, q) /\ p \in Int \X Int /\ q \in Int \X Int
        BY PayoutAssumption DEF Apart
    <2>4. sale[s].paidAt \in Int
        BY <1>1, <2>1 DEF PayoutInv, PayoutTypes
    <2>5. P!Within(sale[s].paidAt, p) /\ P!Within(sale[s].paidAt, q)
        BY <2>1, <2>2 DEF P!PaidWithin
    <2> QED
        BY <2>3, <2>4, <2>5 DEF P!Disjoint, P!Within
<1>3. /\ Covers(payout[p].gross, p)
      /\ payout[p].net = payout[p].gross - ((payout[p].gross * FeePct) \div 100)
      /\ \A q \in ps : payout[q].gross \in Nat /\ payout[q].net \in Int
    <2>1. \A q \in ps : /\ Covers(payout[q].gross, q)
                        /\ payout[q].net = payout[q].gross
                                             - ((payout[q].gross * FeePct) \div 100)
        BY DEF PayoutInv, RowHolds
    <2>2. \A k \in Nat : k - ((k * FeePct) \div 100) \in Int
        BY PayoutAssumption
    <2>3. \A q \in ps : payout[q].gross \in Nat
        BY <2>1 DEF Covers
    <2>4. \A q \in ps : payout[q].net \in Int
        BY <2>1, <2>2, <2>3
    <2> QED
        BY <2>1, <2>3, <2>4
<1>4. \A q \in ps : moved[q] \in SUBSET Sales /\ P!Sum(moved[q]) \in Nat
    <2>1. \A q \in ps : moved[q] \in SUBSET Sales /\ moved[q] \in SUBSET moved[q]
        BY DEF PayoutInv, PayoutTypes
    <2> QED
        BY <2>1, SumGrows
<1>5. /\ SumFunctionOnSet(GrossOf, ps) = payout[p].gross + g
      /\ SumFunctionOnSet(NetOf, ps) = payout[p].net + n
      /\ SumFunctionOnSet(MovedOf, ps) = P!Sum(moved[p]) + m
    <2>1. IsFiniteSet(ps)
        BY PayoutsAreFinite, FS_Subset DEF PayoutFinite
    <2>2. \A q \in ps : /\ GrossOf[q] = payout[q].gross /\ NetOf[q] = payout[q].net
                        /\ MovedOf[q] = P!Sum(moved[q])
                        /\ GrossOf[q] \in Int /\ NetOf[q] \in Int
                        /\ MovedOf[q] \in Int
        BY <1>3, <1>4 DEF GrossOf, NetOf, MovedOf
    <2>3. SumFunctionOnSet(GrossOf, ps) = GrossOf[p] + g
        BY <2>1, <2>2, SumMember
    <2>4. SumFunctionOnSet(NetOf, ps) = NetOf[p] + n
        BY <2>1, <2>2, SumMember
    <2>5. SumFunctionOnSet(MovedOf, ps) = MovedOf[p] + m
        BY <2>1, <2>2, SumMember
    <2> QED
        BY <2>2, <2>3, <2>4, <2>5
<1>6. /\ g \in Nat /\ n \in Int /\ m \in Nat
      /\ P!Sum(W) <= g /\ g <= P!Sum(Y) + m
      /\ 100 * (g - n) <= g * FeePct
    BY DEF AddsUp
<1>7. P!Sum(OwedFor(ps)) = P!Sum(X) + P!Sum(Y)
    BY <1>1, <1>2, PaidSum
<1>8. P!Sum(InTimeFor(ps)) = P!Sum(V) + P!Sum(W)
    <2>1. V \in SUBSET Sales /\ W \in SUBSET Sales /\ V \cap W = {}
        BY <1>1, <1>2
    <2> HIDE DEF V, W
    <2> QED
        BY <1>1, <2>1, PaidSum
<1>9. /\ P!Sum(X) \in Nat /\ P!Sum(V) \in Nat
      /\ P!Sum(Y) \in Nat /\ P!Sum(W) \in Nat
    <2> HIDE DEF X, Y, V, W
    <2> QED
        BY <1>1, SumGrows
<1>10. /\ payout[p].gross \in Nat /\ payout[p].net \in Int
       /\ P!Sum(V) <= payout[p].gross
       /\ payout[p].gross <= P!Sum(X) + P!Sum(moved[p])
    <2>1. /\ payout[p].gross \in Nat
          /\ P!Sum(V) <= payout[p].gross
          /\ payout[p].gross <= P!Sum(X \cup moved[p])
        BY <1>3 DEF Covers
    <2>2. P!Sum(X \cup moved[p]) <= P!Sum(X) + P!Sum(moved[p])
        BY <1>1, <1>4, SumOfBoth
    <2>3. P!Sum(X \cup moved[p]) \in Nat
        <3>1. X \cup moved[p] \in SUBSET Sales
              /\ X \cup moved[p] \in SUBSET (X \cup moved[p])
            BY <1>1, <1>4
        <3> HIDE DEF X
        <3> QED
            BY <3>1, SumGrows
    <2> HIDE DEF X, V
    <2> QED
        BY <1>3, <1>4, <1>9, <2>1, <2>2, <2>3
<1>11. 100 * ((payout[p].gross + g) - (payout[p].net + n))
         <= (payout[p].gross + g) * FeePct
    BY <1>3, <1>6, <1>10, FeeOfTwo
<1> HIDE DEF X, Y, V, W, g, n, m
<1>12. /\ payout[p].gross + g \in Nat /\ payout[p].net + n \in Int
       /\ P!Sum(moved[p]) + m \in Nat
       /\ P!Sum(V) + P!Sum(W) <= payout[p].gross + g
       /\ payout[p].gross + g <= (P!Sum(X) + P!Sum(Y)) + (P!Sum(moved[p]) + m)
    BY <1>4, <1>6, <1>9, <1>10
<1> QED
    BY <1>5, <1>7, <1>8, <1>11, <1>12 DEF AddsUp

LEMMA PeriodsAddUp ==
    ASSUME PayoutInv, NEW ps \in SUBSET {p \in Periods : payout[p] # P!NoPayout},
           Apart(ps)
    PROVE  AddsUp(ps)
<1> DEFINE bad == {s \in SUBSET ps : ~AddsUp(s)}
<1>1. SUFFICES bad = {}
    OBVIOUS
<1>2. IsFiniteSet(ps)
    BY PayoutsAreFinite, FS_Subset DEF PayoutFinite
<1>3. ASSUME bad # {}
      PROVE  FALSE
    <2>1. PICK m \in bad : \A t \in bad : t \subseteq m => t = m
        <3>1. bad \subseteq SUBSET ps
            OBVIOUS
        <3> HIDE DEF bad
        <3> QED
            BY <1>2, <1>3, <3>1, SmallestSet
    <2>2. m # {}
        BY NothingAddsUp
    <2>3. PICK p \in m : TRUE
        BY <2>2
    <2>4. AddsUp(m \ {p})
        BY <2>1, <2>3
    <2>5. m \in SUBSET {q \in Periods : payout[q] # P!NoPayout} /\ Apart(m)
        BY <2>1 DEF Apart
    <2>6. AddsUp(m)
        BY <2>3, <2>4, <2>5, OneMoreAddsUp
    <2> QED
        BY <2>1, <2>6
<1> QED
    BY <1>3

LEMMA PayoutSafe == PayoutInv => P!PaymentsPaidOutOnce
<1> SUFFICES ASSUME PayoutInv,
                    NEW ps \in SUBSET {p \in Periods : payout[p] # P!NoPayout},
                    \A p, q \in ps : p = q \/ P!Disjoint(p, q)
             PROVE  LET owed == P!Sum(UNION {P!PaidWithin(p) : p \in ps})
                        intime == P!Sum(UNION {P!PaidWithin(p) \ late[p] : p \in ps})
                        twice == P!SumFunctionOnSet([p \in ps |-> P!Sum(moved[p])], ps)
                        gross == P!SumFunctionOnSet([p \in ps |-> payout[p].gross], ps)
                        net == P!SumFunctionOnSet([p \in ps |-> payout[p].net], ps)
                    IN /\ intime <= gross /\ gross <= owed + twice
                       /\ net >= gross - (((owed + twice) * FeePct) \div 100)
    BY DEF P!PaymentsPaidOutOnce
<1> DEFINE grossIn == [p \in ps |-> payout[p].gross]
           netIn == [p \in ps |-> payout[p].net]
           movedIn == [p \in ps |-> P!Sum(moved[p])]
<1>1. AddsUp(ps)
    BY PeriodsAddUp DEF Apart
<1>2. IsFiniteSet(ps)
    BY PayoutsAreFinite, FS_Subset DEF PayoutFinite
<1>3. \A p \in ps : /\ payout[p].gross \in Nat
                    /\ payout[p].net = payout[p].gross
                                         - ((payout[p].gross * FeePct) \div 100)
    BY DEF PayoutInv, RowHolds, Covers
<1>4. \A k \in Nat : k - ((k * FeePct) \div 100) \in Int
    BY PayoutAssumption
<1>5. \A p \in ps : P!Sum(moved[p]) \in Nat
    <2>1. \A p \in ps : moved[p] \in SUBSET Sales /\ moved[p] \in SUBSET moved[p]
        BY DEF PayoutInv, PayoutTypes
    <2> QED
        BY <2>1, SumGrows
<1>6. \A p \in ps : /\ GrossOf[p] \in Int /\ grossIn[p] = GrossOf[p]
                    /\ NetOf[p] \in Int /\ netIn[p] = NetOf[p]
                    /\ MovedOf[p] \in Int /\ movedIn[p] = MovedOf[p]
    BY <1>3, <1>4, <1>5 DEF GrossOf, NetOf, MovedOf
<1>7. /\ P!SumFunctionOnSet(grossIn, ps) = SumFunctionOnSet(GrossOf, ps)
      /\ P!SumFunctionOnSet(netIn, ps) = SumFunctionOnSet(NetOf, ps)
      /\ P!SumFunctionOnSet(movedIn, ps) = SumFunctionOnSet(MovedOf, ps)
    <2> HIDE DEF grossIn, netIn, movedIn
    <2>1. SumFunctionOnSet(GrossOf, ps) = SumFunctionOnSet(grossIn, ps)
        BY <1>2, <1>6, SumSame
    <2>2. SumFunctionOnSet(NetOf, ps) = SumFunctionOnSet(netIn, ps)
        BY <1>2, <1>6, SumSame
    <2>3. SumFunctionOnSet(MovedOf, ps) = SumFunctionOnSet(movedIn, ps)
        BY <1>2, <1>6, SumSame
    <2> QED
        BY <2>1, <2>2, <2>3, PayoutSum
<1> DEFINE owed == P!Sum(OwedFor(ps))
           intime == P!Sum(InTimeFor(ps))
           gross == SumFunctionOnSet(GrossOf, ps)
           net == SumFunctionOnSet(NetOf, ps)
           twice == SumFunctionOnSet(MovedOf, ps)
<1>8. /\ gross \in Nat /\ net \in Int /\ twice \in Nat
      /\ intime <= gross /\ gross <= owed + twice
      /\ 100 * (gross - net) <= gross * FeePct
    BY <1>1 DEF AddsUp
<1>9. owed + twice \in Nat
    <2>1. OwedFor(ps) \in SUBSET Sales /\ OwedFor(ps) \in SUBSET OwedFor(ps)
        BY DEF OwedFor, P!PaidWithin
    <2>2. owed \in Nat
        BY <2>1, SumGrows
    <2> QED
        BY <1>8, <2>2
<1> HIDE DEF owed, intime, gross, net, twice
<1>10. net >= gross - (((owed + twice) * FeePct) \div 100)
    BY <1>8, <1>9, FeeOfMore
<1>11. /\ owed = P!Sum(UNION {P!PaidWithin(p) : p \in ps})
       /\ intime = P!Sum(UNION {P!PaidWithin(p) \ late[p] : p \in ps})
    BY DEF owed, intime, OwedFor, InTimeFor
<1> HIDE DEF grossIn, netIn, movedIn
<1>12. /\ P!SumFunctionOnSet(grossIn, ps) = gross
       /\ P!SumFunctionOnSet(netIn, ps) = net
       /\ P!SumFunctionOnSet(movedIn, ps) = twice
    BY <1>7 DEF gross, net, twice
<1> QED
    BY <1>8, <1>10, <1>11, <1>12 DEF grossIn, netIn, movedIn

LEMMA PayoutRuns ==
    [PlatformNext]_platformVars =>
       UNCHANGED part /\ [part = "payouts" /\ P!Next]_payoutVars
BY DEF PlatformNext, platformVars, Only

(* The payouts of periods that do not overlap add up to the payments in    *)
(* them, each once, but for those that came into their period after its    *)
(* sum, which it does not hold, and those that another delivery moved out  *)
(* of it after its sum, which a second payout may hold; and the fees are   *)
(* no more than the percentage of them (domain/payouts.py 23-64,           *)
(* domain/billing.py 222-230).                                             *)
THEOREM PaidOutOnce == PlatformSpec => []PaymentsPaidOutOnce
<1>1. PlatformInit => (part = "payouts" => PayoutInv)
    BY PayoutInit DEF PlatformInit
<1>2. (part = "payouts" => PayoutInv) /\ [PlatformNext]_platformVars
      => (part = "payouts" => PayoutInv)'
    BY PayoutRuns, PayoutNext
<1>3. (part = "payouts" => PayoutInv) => PaymentsPaidOutOnce
    BY PayoutSafe DEF PaymentsPaidOutOnce
<1> QED
    BY <1>1, <1>2, <1>3, PTL DEF PlatformSpec
=============================================================================
