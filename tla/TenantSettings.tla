--------------------------- MODULE TenantSettings ---------------------------
(***************************************************************************)
(* The settings of one tenant: rows of tenant_config (the reward of a      *)
(* referral, the days a gift lives, the feature flags) and the texts of    *)
(* its bot.  The owner console of the master bot, which handles one update *)
(* at a time, edits them in dialogues; PUT /tenants/{id}/config of the API *)
(* writes any value to any key, many calls at once.                        *)
(*                                                                         *)
(* A call reads the value in effect, then the row, and writes in a commit  *)
(* at its end; the rows may change between any two of these steps.         *)
(***************************************************************************)
EXTENDS Naturals, FiniteSets

CONSTANTS
    Features,       \* FEATURE_KEYS
    Texts,          \* BRANDING_I18N_KEYS, and the display name
    NameKey,        \* the key of the display name
    Staff,          \* accounts with the role of owner or admin
    ApiCalls,       \* calls of the route that may run at once
    MaxCalls        \* bound: calls that begin

VARIABLES
    config,         \* the row of each setting
    staff,          \* the accounts that still have their role
    dialog,         \* the setting whose value the bot awaits from each account
    call,           \* the calls under way
    calls,          \* calls begun
    audits, last    \* entries of the audit log, and the last one

vars == <<config, staff, dialog, call, calls, audits, last>>

\* Settings with a number: the reward of a referral, the days of a gift.
Numbers == {"referrals", "gifts"}
Keys == Numbers \cup Features \cup Texts
BotCall == "bot"
Calls == ApiCalls \cup {BotCall}
NoRow == "none"
NoKey == "none"
Default(k) == IF k \in Features THEN "on" ELSE "default"

\* What a dialogue lets through, and what a body of the route may hold: a
\* number out of bounds, or a value that is no number at all.
Allowed(k) == IF k \in Features THEN {"on", "off"} ELSE {"default", "some"}
Bodies(k) == IF k \in Features THEN {"on", "off"}
             ELSE Allowed(k) \cup {"huge", "text"}

Idle == [op |-> "none", key |-> NoKey, by |-> NoKey, value |-> NoRow,
         old |-> NoRow, row |-> NoRow, overtaken |-> FALSE]
NoEntry == [key |-> NoKey, old |-> NoRow, new |-> NoRow, reset |-> FALSE,
            overtaken |-> FALSE]

Init ==
    /\ config = [k \in Keys |-> IF k = NameKey THEN "default" ELSE NoRow]
    /\ staff = Staff
    /\ dialog = [a \in Staff |-> NoKey]
    /\ call = [c \in Calls |-> Idle]
    /\ calls = 0
    /\ audits = 0 /\ last = NoEntry

\* get_reward_credits, get_expiry_days, is_feature_enabled: any number goes,
\* and what is not a number counts as no row.
Effective(k, row) == IF row \in {NoRow, "text"} THEN Default(k) ELSE row
InEffect(k) == Effective(k, config[k])

-----------------------------------------------------------------------------
(* The owner console.  authorize_tenant_action guards the button that      *)
(* opens a dialogue, and again the message that holds the value.           *)

Answers(a) == /\ call[BotCall] = Idle
              /\ UNCHANGED <<config, staff, audits, last>>

Opens(a, k) ==
    /\ Answers(a)
    /\ a \in staff
    /\ dialog' = [dialog EXCEPT ![a] = k]
    /\ UNCHANGED <<call, calls>>

OnBrandingEdit(a, k) == k \in Texts /\ Opens(a, k)
OnReferralsEdit(a) == Opens(a, "referrals")
OnGiftsEdit(a) == Opens(a, "gifts")

\* "/cancel", or a message after the role is gone: nothing is set.
Cancels(a) ==
    /\ Answers(a)
    /\ dialog' = [dialog EXCEPT ![a] = NoKey]
    /\ UNCHANGED <<call, calls>>

OnBrandingCancel(a) == dialog[a] \in Texts /\ Cancels(a)
OnReferralsCancel(a) == dialog[a] = "referrals" /\ Cancels(a)
OnGiftsCancel(a) == dialog[a] = "gifts" /\ Cancels(a)
OnValueRefused(a) == dialog[a] # NoKey /\ a \notin staff /\ Cancels(a)

Begin(c, k) ==
    /\ call[c] = Idle
    /\ calls < MaxCalls /\ calls' = calls + 1
    /\ call' = [call EXCEPT ![c] = k]

\* A value that does not pass leaves the dialogue open.
Sets(a, k, v) ==
    /\ Answers(a)
    /\ a \in staff
    /\ v \in Allowed(k)
    /\ Begin(BotCall, [Idle EXCEPT !.op = "set", !.key = k, !.by = a,
                                   !.value = v, !.old = InEffect(k)])
    /\ UNCHANGED dialog

OnBrandingValue(a, v) == dialog[a] \in Texts /\ Sets(a, dialog[a], v)
OnReferralsValue(a, v) == dialog[a] = "referrals" /\ Sets(a, "referrals", v)
OnGiftsValue(a, v) == dialog[a] = "gifts" /\ Sets(a, "gifts", v)

Resets(a, k) ==
    /\ Answers(a)
    /\ a \in staff
    /\ Begin(BotCall, [Idle EXCEPT !.op = "reset", !.key = k, !.by = a,
                                   !.old = config[k], !.row = config[k]])
    /\ UNCHANGED dialog

\* "/reset" in a dialogue; a name has nothing to be reset to, and the
\* dialogue of the gifts knows no "/reset": the screen has a button.
OnBrandingReset(a) ==
    dialog[a] \in Texts \ {NameKey} /\ Resets(a, dialog[a])
OnReferralsReset(a) == dialog[a] = "referrals" /\ Resets(a, "referrals")
OnGiftsReset(a) == Resets(a, "gifts")

\* on_features_toggle
OnToggle(a, k) ==
    /\ Answers(a)
    /\ a \in staff /\ k \in Features
    /\ Begin(BotCall, [Idle EXCEPT
                         !.op = "set", !.key = k, !.by = a,
                         !.value = IF InEffect(k) = "on" THEN "off" ELSE "on",
                         !.old = InEffect(k)])
    /\ UNCHANGED dialog

-----------------------------------------------------------------------------
(* The calls.                                                              *)

\* put_tenant_config reads the row; it neither checks the value nor says it
\* in the audit log.
BeginPut(c, k, v) ==
    /\ v \in Bodies(k) /\ k \notin Texts
    /\ Begin(c, [Idle EXCEPT !.op = "put", !.key = k, !.value = v,
                             !.row = config[k]])
    /\ UNCHANGED <<config, staff, dialog, audits, last>>

\* The second read of set_reward_credits, set_expiry_days,
\* set_feature_enabled and set_branding_text.
ReadRow(c) ==
    /\ call[c].op = "set"
    /\ call' = [call EXCEPT ![c].op = "write", ![c].row = config[call[c].key]]
    /\ UNCHANGED <<config, staff, dialog, calls, audits, last>>

\* An INSERT finds the row added, or an UPDATE finds it gone: the call fails
\* and its dialogue stays.
Refused(k) == (k.row = NoRow) # (config[k.key] = NoRow)

\* An UPDATE sets the value only where it differs from the one read.
Written(k) == IF k.value = k.row THEN config[k.key] ELSE k.value

\* The call ends; the others that have read this key are overtaken if it
\* wrote.
Ends(c, wrote) ==
    /\ call' = [d \in Calls |->
                  IF d = c THEN Idle
                  ELSE [call[d] EXCEPT !.overtaken =
                          @ \/ (wrote /\ call[d].key = call[c].key)]]
    /\ UNCHANGED <<staff, calls>>

\* The value the dialogue awaited has come; the button of the gifts leaves
\* a dialogue open.
Closes(k) ==
    dialog' = [a \in Staff |->
                 IF /\ a = k.by /\ dialog[a] = k.key
                    /\ ~(k.op = "reset" /\ k.key = "gifts")
                 THEN NoKey ELSE dialog[a]]

(* Seeded fault: the old value is the one in the row, which may be no       *)
(* number, or not there.                                                   *)
Audit_RawOld(k, new, reset) ==
    /\ audits' = audits + 1
    /\ last' = [key |-> k.key, old |-> k.row, new |-> new, reset |-> reset,
                overtaken |-> k.overtaken]

\* record_audit, in the transaction of the write.
Audit(k, new, reset) ==
    /\ audits' = audits + 1
    /\ last' = [key |-> k.key, old |-> k.old, new |-> new, reset |-> reset,
                overtaken |-> k.overtaken]

\* Features and texts leave no entry that holds a value, nor does the route.
Write(c) ==
    LET k == call[c] IN
    /\ k.op \in {"write", "put"}
    /\ ~Refused(k)
    /\ config' = [config EXCEPT ![k.key] = Written(k)]
    /\ IF k.op = "write" /\ k.key \in Numbers THEN Audit(k, k.value, FALSE)
       ELSE UNCHANGED <<audits, last>>
    /\ Closes(k)
    /\ Ends(c, TRUE)

WriteFails(c) ==
    /\ call[c].op \in {"write", "put"}
    /\ Refused(call[c])
    /\ Ends(c, FALSE)
    /\ UNCHANGED <<config, dialog, audits, last>>

\* reset_reward_credits, reset_expiry_days, reset_branding_text: without a
\* row there is nothing to do, and the dialogue ends all the same.
Reset(c) ==
    LET k == call[c] IN
    /\ k.op = "reset"
    /\ config' = [config EXCEPT ![k.key] =
                    IF k.row = NoRow /\ k.key \in Numbers THEN @ ELSE NoRow]
    /\ IF k.row # NoRow /\ k.key \in Numbers THEN Audit(k, Default(k.key), TRUE)
       ELSE UNCHANGED <<audits, last>>
    /\ Closes(k)
    /\ Ends(c, k.row # NoRow)

\* The process dies, and the dialogue is still open.
CallDies(c) ==
    /\ call[c] # Idle
    /\ Ends(c, FALSE)
    /\ UNCHANGED <<config, dialog, audits, last>>

\* Somebody takes the role away (TenantConsole).
RoleRevoked(a) ==
    /\ a \in staff
    /\ staff' = staff \ {a}
    /\ UNCHANGED <<config, dialog, call, calls, audits, last>>

Next ==
    \/ \E a \in Staff :
          \/ \E k \in Keys : OnBrandingEdit(a, k) \/ OnToggle(a, k)
          \/ OnReferralsEdit(a) \/ OnGiftsEdit(a)
          \/ \E v \in {"default", "some"} :
                \/ OnBrandingValue(a, v)
                \/ OnReferralsValue(a, v)
                \/ OnGiftsValue(a, v)
          \/ OnBrandingReset(a) \/ OnReferralsReset(a) \/ OnGiftsReset(a)
          \/ OnBrandingCancel(a) \/ OnReferralsCancel(a) \/ OnGiftsCancel(a)
          \/ OnValueRefused(a)
          \/ RoleRevoked(a)
    \/ \E c \in ApiCalls, k \in Keys : \E v \in Bodies(k) : BeginPut(c, k, v)
    \/ \E c \in Calls : ReadRow(c) \/ Write(c) \/ WriteFails(c) \/ Reset(c)
                        \/ CallDies(c)

Spec == Init /\ [][Next]_vars

-----------------------------------------------------------------------------
(* The audit log tells the truth about the settings with a number: the     *)
(* value an entry calls old was in effect (for a reset, was in the row)    *)
(* until this very commit, and the one it calls new is in effect after it, *)
(* unless another write of the same key was committed since the call had   *)
(* begun to read (domain/referrals.py 112-165, domain/gifts.py 78-132).    *)
EntryIsTrue ==
    LET e == last' IN
    \/ e.overtaken
    \/ /\ e.old = IF e.reset THEN config[e.key] ELSE InEffect(e.key)
       /\ e.new = Effective(e.key, config'[e.key])
AuditStep == audits' > audits => EntryIsTrue
AuditTellsTruth == [][AuditStep]_vars
=============================================================================
