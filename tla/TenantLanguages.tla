-------------------------- MODULE TenantLanguages --------------------------
(***************************************************************************)
(* The languages of one tenant (tenant_languages): which are enabled, and  *)
(* which one is the default.  ensure_tenant_default_language seeds them,   *)
(* for every tenant when an API process starts, and for a new tenant with  *)
(* the language its owner chose when its bot's token is in; the route      *)
(* PUT .../languages replaces them; and resolve_lang picks one for a user. *)
(*                                                                         *)
(* A call reads the rows and writes later, in one commit.  The partial     *)
(* unique index uq_tenant_default_language refuses a second default.       *)
(***************************************************************************)
EXTENDS Integers, FiniteSets

CONSTANTS
    Langs,          \* PLATFORM_LANGS
    DefaultLang,    \* the default of ensure_tenant_default_language
    Chosen,         \* the language the owner chose in the onboarding
    Calls,          \* calls that may run at once
    MaxPuts         \* bound: calls of the route

VARIABLES
    language,       \* the row of each language
    finalised,      \* the bot of the tenant has its token
    call,           \* what each call does, and the rows it has read
    puts,
    repeated,       \* history: a body named its default twice
    early           \* history: an API process started before there were any

vars == <<language, finalised, call, puts, repeated, early>>

NoLang == "none"
NoRow == [row |-> FALSE, enabled |-> FALSE, default |-> FALSE]
Row(enabled, default) == [row |-> TRUE, enabled |-> enabled, default |-> default]
NoRows == [l \in Langs |-> NoRow]

\* A body that names these languages, enables some and has one default; the
\* default may be named again, as not being the default.
Bodies == [named : SUBSET Langs, enabled : SUBSET Langs, default : Langs,
           again : BOOLEAN]
WellFormed(b) == b.default \in b.named /\ b.enabled \subseteq b.named
NoBody == [named |-> {}, enabled |-> {}, default |-> DefaultLang,
           again |-> FALSE]
Idle == [op |-> NoLang, body |-> NoBody, read |-> NoRows]

Init ==
    /\ language = NoRows
    /\ finalised = FALSE
    /\ call = [c \in Calls |-> Idle]
    /\ puts = 0
    /\ repeated = FALSE /\ early = FALSE

Defaults(rows) == {l \in Langs : rows[l].default}
Existing(rows) == {l \in Langs : rows[l].row}

Begin(c, op, b) ==
    /\ call[c] = Idle
    /\ call' = [call EXCEPT ![c] = [op |-> op, body |-> b, read |-> language]]
Ends(c) == call' = [call EXCEPT ![c] = Idle]

-----------------------------------------------------------------------------
(* ensure_tenant_default_language                                          *)

\* _lifespan of an API process that starts.
ApiStarts(c) ==
    /\ Begin(c, "start", NoBody)
    /\ early' = (early \/ Existing(language) = {})
    /\ UNCHANGED <<language, finalised, puts, repeated>>

\* finalize_provisioning has committed, and calls seed_tenant_defaults.
Finalize(c) ==
    /\ ~finalised /\ finalised' = TRUE
    /\ Begin(c, "seed", [NoBody EXCEPT !.default = Chosen])
    /\ UNCHANGED <<language, puts, repeated, early>>

(* Seeded fault: the platform's language is the default, whatever language  *)
(* the owner chose.                                                        *)
Seeded_Platform(read, wanted) ==
    [l \in Langs \ Existing(read) |->
        Row(TRUE, l = DefaultLang /\ Defaults(read) = {})]

\* The rows it adds: the default one only while nobody else is the default.
Seeded(read, wanted) ==
    [l \in Langs \ Existing(read) |->
        Row(TRUE, l = wanted /\ Defaults(read) = {})]

\* A key refuses the commit: a language has been added, or a second default.
SeedLanguages(c) ==
    LET k == call[c]
        new == Seeded(k.read, k.body.default)
        refused == \E l \in DOMAIN new :
                      \/ language[l].row
                      \/ new[l].default /\ Defaults(language) # {}
    IN
    /\ k.op \in {"start", "seed"}
    /\ language' = [l \in Langs |-> IF ~refused /\ l \in DOMAIN new THEN new[l]
                                    ELSE language[l]]
    /\ Ends(c)
    /\ UNCHANGED <<finalised, puts, repeated, early>>

-----------------------------------------------------------------------------
(* put_tenant_languages                                                    *)

BeginPut(c, b) ==
    /\ puts < MaxPuts /\ puts' = puts + 1
    /\ WellFormed(b)
    /\ Begin(c, "put", b)
    /\ UNCHANGED <<language, finalised, repeated, early>>

(* Seeded fault: a row that the body does not name stays the default.       *)
PutRow_KeepsUnnamed(k, l) ==
    IF l \notin k.body.named THEN language[l]
    ELSE Row(l \in k.body.enabled, l = k.body.default /\ ~k.body.again)

\* What the session leaves in a row: it clears the defaults it has read, then
\* assigns what the body says, and writes what differs from what it read.
PutRow(k, l) ==
    LET read == k.read[l]
        named == l \in k.body.named
        enabled == IF named THEN l \in k.body.enabled ELSE read.enabled
        default == l = k.body.default /\ ~k.body.again
    IN
    IF ~read.row /\ ~named THEN language[l]
    ELSE IF ~read.row THEN Row(enabled, default)
    ELSE [language[l] EXCEPT
            !.enabled = IF enabled # read.enabled THEN enabled ELSE @,
            !.default = IF default # read.default \/ read.default
                        THEN default ELSE @]

\* The keys refuse a language added twice, by the body itself too, and a
\* default besides another.
PutLanguages(c) ==
    LET k == call[c]
        b == k.body
        new == [l \in Langs |-> PutRow(k, l)]
        refused ==
           \/ \E l \in b.named : ~k.read[l].row /\ language[l].row
           \/ b.again /\ ~k.read[b.default].row
           \/ Cardinality(Defaults(new)) > 1
    IN
    /\ k.op = "put"
    /\ language' = IF refused THEN language ELSE new
    /\ repeated' = (repeated \/ (~refused /\ b.again))
    /\ Ends(c)
    /\ UNCHANGED <<finalised, puts, early>>

\* The process dies before its commit.
CallDies(c) ==
    /\ call[c] # Idle
    /\ Ends(c)
    /\ UNCHANGED <<language, finalised, puts, repeated, early>>

Next ==
    \E c \in Calls :
       \/ ApiStarts(c)
       \/ Finalize(c)
       \/ SeedLanguages(c)
       \/ \E b \in Bodies : BeginPut(c, b)
       \/ PutLanguages(c)
       \/ CallDies(c)

Spec == Init /\ [][Next]_vars

-----------------------------------------------------------------------------
EnabledLangs == {l \in Langs : language[l].row /\ language[l].enabled}

\* resolve_lang; NoLang stands for FALLBACK_LANG.
ResolveLang(preferred, code) ==
    IF preferred \in EnabledLangs THEN preferred
    ELSE IF code \in EnabledLangs THEN code
    ELSE IF Defaults(language) # {} THEN CHOOSE l \in Defaults(language) : TRUE
    ELSE NoLang

(* A tenant that has languages has exactly one default, whatever calls     *)
(* overlap or fail, so nobody is ever answered in the fallback language,   *)
(* unless a body named its default a second time as not being the default  *)
(* (admin_tenants.py 469-513, db/bootstrap.py 249-270, resolver.py 72-82). *)
ExactlyOneDefault ==
    \/ Existing(language) = {}
    \/ repeated
    \/ /\ Cardinality(Defaults(language)) = 1
       /\ \A p, q \in Langs \cup {NoLang} : ResolveLang(p, q) # NoLang

(* A tenant whose languages nobody has set serves the language its owner   *)
(* chose, unless an API process started before the onboarding was over and *)
(* made the platform's own language the default (domain/provisioning.py    *)
(* 114-120, api/app.py 36-40).                                             *)
OwnersChoice ==
    \/ Existing(language) = {}
    \/ puts > 0 \/ early
    \/ Defaults(language) = {Chosen}
=============================================================================
