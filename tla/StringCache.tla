---------------------------- MODULE StringCache ----------------------------
(***************************************************************************)
(* The texts of the bots: platform strings and the tenants' overrides in   *)
(* the database, and in front of them one Redis hash per tenant and        *)
(* language (i18n/cache.py), filled by whoever reads it cold and dropped   *)
(* by the routes that edit a string, after the commit.  The owner console  *)
(* edits its tenant's texts and drops nothing.                             *)
(*                                                                         *)
(* One string of one language is modelled, by the number of the edit that  *)
(* wrote it; 0 is no row.  Between two awaits of a fill anything else may  *)
(* run, and its process may die.                                           *)
(***************************************************************************)
EXTENDS Integers, FiniteSets

CONSTANTS
    Bots,           \* tenants
    Readers,        \* handlers that may translate at the same time
    Editors,        \* requests that may edit at the same time
    MaxEdits,       \* bound: edits of the string
    MaxDeaths       \* bound: processes that die

VARIABLES
    edits,          \* edits so far
    platform,       \* platform_strings.text
    override,       \* tenant_string_overrides.text of each tenant
    hash,           \* the Redis hash of each tenant
    reader,         \* what each reader has done and read
    pending,        \* the tenants each editor has still to invalidate
    deaths,         \* processes that died so far
    overlapped,     \* history: hashes written by a fill that an edit overlapped
    missed          \* history: tenants whose invalidation was lost or left out

vars == <<edits, platform, override, hash, reader, pending, deaths, overlapped,
          missed>>

NoText == 0
Cold == [loaded |-> FALSE, text |-> NoText, ttl |-> FALSE]
IdleReader == [pc |-> "idle", text |-> NoText, dirty |-> FALSE]

Init ==
    /\ edits = 1
    /\ platform = 1
    /\ override = [b \in Bots |-> NoText]
    /\ hash = [b \in Bots |-> Cold]
    /\ reader = [r \in Readers |-> [b \in Bots |-> IdleReader]]
    /\ pending = [e \in Editors |-> {}]
    /\ deaths = 0
    /\ overlapped = {}
    /\ missed = {}

\* merged_strings: the override wins over the platform's text.
Overlay(base, own) == IF own # NoText THEN own ELSE base
MergedStrings(b) == Overlay(platform, override[b])

-----------------------------------------------------------------------------
(* get_cached_strings, a reader r of tenant b's texts.                     *)

Becomes(r, b, s) == reader' = [reader EXCEPT ![r][b] = s]

\* hgetall finds no marker, and load_platform_strings reads the first rows.
LoadPlatformStrings(r, b) ==
    /\ reader[r][b].pc = "idle" /\ ~hash[b].loaded
    /\ Becomes(r, b, [pc |-> "base", text |-> platform, dirty |-> FALSE])
    /\ UNCHANGED <<edits, platform, override, hash, pending, deaths,
                   overlapped, missed>>

\* load_tenant_overrides
LoadTenantOverrides(r, b) ==
    /\ reader[r][b].pc = "base"
    /\ Becomes(r, b, [reader[r][b] EXCEPT
                         !.pc = "rows", !.text = Overlay(@, override[b])])
    /\ UNCHANGED <<edits, platform, override, hash, pending, deaths,
                   overlapped, missed>>

\* hset adds the fields it has to those that are there.
FillHash(r, b) ==
    /\ reader[r][b].pc = "rows"
    /\ hash' = [hash EXCEPT ![b].loaded = TRUE,
                            ![b].text = Overlay(@, reader[r][b].text)]
    /\ overlapped' = IF reader[r][b].dirty THEN overlapped \cup {b}
                     ELSE overlapped
    /\ Becomes(r, b, [reader[r][b] EXCEPT !.pc = "hset"])
    /\ UNCHANGED <<edits, platform, override, pending, deaths, missed>>

(* Seeded fault: the hash is kept for good.                                 *)
SetTtl_Forgotten(r, b) ==
    /\ reader[r][b].pc = "hset"
    /\ Becomes(r, b, IdleReader)
    /\ UNCHANGED <<edits, platform, override, hash, pending, deaths,
                   overlapped, missed>>

\* expire, which does nothing to a key that was deleted meanwhile.
SetTtl(r, b) ==
    /\ reader[r][b].pc = "hset"
    /\ hash' = [hash EXCEPT ![b].ttl = @ \/ hash[b].loaded]
    /\ Becomes(r, b, IdleReader)
    /\ UNCHANGED <<edits, platform, override, pending, deaths, overlapped,
                   missed>>

ReaderDies(r, b) ==
    /\ reader[r][b].pc # "idle" /\ deaths < MaxDeaths
    /\ deaths' = deaths + 1
    /\ Becomes(r, b, IdleReader)
    /\ UNCHANGED <<edits, platform, override, hash, pending, overlapped, missed>>

-----------------------------------------------------------------------------
(* The routes that edit strings.                                           *)

\* An edit of these tenants' texts makes every fill that is under way dirty.
Overtaken(bs) ==
    reader' = [r \in Readers |-> [b \in Bots |->
                 [reader[r][b] EXCEPT
                    !.dirty = @ \/ (b \in bs /\ reader[r][b].pc # "idle")]]]

(* Seeded fault: the route does not invalidate the tenant's texts.          *)
PutOverride_NoDrop(e, b) ==
    /\ pending[e] = {} /\ edits < MaxEdits
    /\ edits' = edits + 1
    /\ override' = [override EXCEPT ![b] = edits']
    /\ Overtaken({b})
    /\ UNCHANGED <<platform, hash, pending, deaths, overlapped, missed>>

\* put_tenant_string_override commits a text of its own.
PutOverride(e, b) ==
    /\ pending[e] = {} /\ edits < MaxEdits
    /\ edits' = edits + 1
    /\ override' = [override EXCEPT ![b] = edits']
    /\ pending' = [pending EXCEPT ![e] = {b}]
    /\ Overtaken({b})
    /\ UNCHANGED <<platform, hash, deaths, overlapped, missed>>

\* delete_tenant_string_override; 404 without a row.
DeleteOverride(e, b) ==
    /\ pending[e] = {} /\ override[b] # NoText
    /\ override' = [override EXCEPT ![b] = NoText]
    /\ pending' = [pending EXCEPT ![e] = {b}]
    /\ Overtaken({b})
    /\ UNCHANGED <<edits, platform, hash, deaths, overlapped, missed>>

\* put_platform_string, and force_update_strings at a deployment.
PutPlatform(e) ==
    /\ pending[e] = {} /\ edits < MaxEdits
    /\ edits' = edits + 1
    /\ platform' = edits'
    /\ pending' = [pending EXCEPT ![e] = Bots]
    /\ Overtaken(Bots)
    /\ UNCHANGED <<override, hash, deaths, overlapped, missed>>

\* on_branding_value: set_branding_text, or reset_branding_text for "/reset".
EditBranding(b) ==
    /\ edits < MaxEdits
    /\ edits' = edits + 1
    /\ override' = [override EXCEPT ![b] = edits']
    /\ missed' = missed \cup {b}
    /\ Overtaken({b})
    /\ UNCHANGED <<platform, hash, pending, deaths, overlapped>>

ResetBranding(b) ==
    /\ override[b] # NoText
    /\ override' = [override EXCEPT ![b] = NoText]
    /\ missed' = missed \cup {b}
    /\ Overtaken({b})
    /\ UNCHANGED <<edits, platform, hash, pending, deaths, overlapped>>

\* invalidate_i18n and invalidate_i18n_all delete one key after another.
DropHash(e, b) ==
    /\ b \in pending[e]
    /\ hash' = [hash EXCEPT ![b] = Cold]
    /\ pending' = [pending EXCEPT ![e] = @ \ {b}]
    /\ overlapped' = overlapped \ {b}
    /\ missed' = missed \ {b}
    /\ UNCHANGED <<edits, platform, override, reader, deaths>>

\* The process dies, or Redis refuses, between the commit and the last key.
EditorDies(e) ==
    /\ pending[e] # {} /\ deaths < MaxDeaths
    /\ deaths' = deaths + 1
    /\ missed' = missed \cup pending[e]
    /\ pending' = [pending EXCEPT ![e] = {}]
    /\ UNCHANGED <<edits, platform, override, hash, reader, overlapped>>

-----------------------------------------------------------------------------
\* Redis drops a key whose TTL has run out.
TtlEnds(b) ==
    /\ hash[b].ttl
    /\ hash' = [hash EXCEPT ![b] = Cold]
    /\ overlapped' = overlapped \ {b}
    /\ missed' = missed \ {b}
    /\ UNCHANGED <<edits, platform, override, reader, pending, deaths>>

Fill(r, b) == LoadTenantOverrides(r, b) \/ FillHash(r, b) \/ SetTtl(r, b)

Next ==
    \/ \E r \in Readers, b \in Bots :
          LoadPlatformStrings(r, b) \/ Fill(r, b) \/ ReaderDies(r, b)
    \/ \E e \in Editors :
          \/ \E b \in Bots : PutOverride(e, b) \/ DeleteOverride(e, b)
                             \/ DropHash(e, b)
          \/ PutPlatform(e)
          \/ EditorDies(e)
    \/ \E b \in Bots : EditBranding(b) \/ ResetBranding(b) \/ TtlEnds(b)

Spec == Init /\ [][Next]_vars

-----------------------------------------------------------------------------
Stale(b) == hash[b].loaded /\ hash[b].text # MergedStrings(b)

(* A hash holds an old text only while its invalidation is under way, or   *)
(* when the invalidation was lost, or left out by the owner console, or    *)
(* when the fill that wrote it read its rows before an edit that ended     *)
(* meanwhile (i18n/cache.py 29-38, the invalidate calls of the routes).    *)
StaleOnlyByOverlap ==
    \A b \in Bots : Stale(b) =>
       \/ \E e \in Editors : b \in pending[e]
       \/ b \in missed \cup overlapped

(* A hash with an old text goes away or is filled anew: by its             *)
(* invalidation, or when its hour is over.  Only the hash of a process     *)
(* that died between hset and expire lives on (i18n/cache.py 36-37).       *)
StaleGoesAway ==
    \A b \in Bots : (Stale(b) /\ deaths = 0) ~> ~Stale(b) \/ deaths > 0
=============================================================================
