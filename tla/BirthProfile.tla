---------------------------- MODULE BirthProfile ----------------------------
(***************************************************************************)
(* The natal profile of one account.  The bot asks for its fields one      *)
(* after another, or for a single one to edit it; a place is looked up and *)
(* shown to be confirmed, or comes as a location that needs no looking up, *)
(* and brings coordinates and a timezone.  The answers wait in Redis, in   *)
(* one set of data that both dialogues share.                              *)
(*                                                                         *)
(* The bot handles one update of an account at a time.  Its saves and the  *)
(* calls of PUT /v1/me/natal-profile each read the row and write it in a   *)
(* later commit.  A call of the route brings its own place, coordinates    *)
(* and timezone, and nothing looks whether they belong together.           *)
(***************************************************************************)
EXTENDS Naturals

CONSTANTS
    Values,         \* answers to the name, the birth date and the birth time
    Bodies,         \* what the API sends: a value for all three, and a place,
                    \* coordinates and a timezone
    Places,         \* places the geocoder knows
    Zone,           \* the timezone of each place
    ApiCalls,       \* calls of the route that may run at once
    MaxSaves        \* bound: saves that begin

VARIABLES
    profile,        \* the row of natal_profiles, by column
    chat,           \* the state of the dialogue
    data,           \* the data of the dialogue
    shown,          \* the place the last question to confirm one showed
    call,           \* the saves under way
    saves,          \* saves begun
    torn,           \* the place was last saved by overlapping saves
    sent            \* history: the body of the call of the route that saved
                    \* the place last, if it was not the bot

vars == <<profile, chat, data, shown, call, saves, torn, sent>>

Fields == {"full_name", "birth_date", "birth_time"}
PlaceColumns == {"place", "coords", "zone"}
Columns == Fields \cup PlaceColumns
None == "none"
NoProfile == [c \in Columns |-> None]
Bot == "bot"
Calls == ApiCalls \cup {Bot}

\* What the dialogues keep: the answers, the place under the key of each of
\* them, and the field that is edited.
Keys == Fields \cup {"birth_place", "place", "coords", "zone", "field"}
NoBody == [value |-> None, place |-> None, coords |-> None, zone |-> None]
NoData == [k \in Keys |-> None]
Idle == [op |-> "none", new |-> NoProfile, read |-> NoProfile, about |-> {},
         body |-> NoBody, overtaken |-> FALSE]

Init ==
    /\ profile = NoProfile
    /\ chat = "none"
    /\ data = NoData
    /\ shown = None
    /\ call = [c \in Calls |-> Idle]
    /\ saves = 0
    /\ torn = FALSE
    /\ sent = NoBody

-----------------------------------------------------------------------------
Answers == call[Bot] = Idle /\ UNCHANGED <<profile, torn, sent>>

GoesTo(state) == chat' = state /\ UNCHANGED <<call, saves>>

\* The state and the data are kept in Redis until the save is committed.
BeginWith(c, new, about, body) ==
    /\ call[c] = Idle
    /\ saves < MaxSaves /\ saves' = saves + 1
    /\ call' = [call EXCEPT ![c] = [Idle EXCEPT !.op = "save", !.new = new,
                                                !.read = profile,
                                                !.about = about,
                                                !.body = body]]

Begin(c, new, about) == BeginWith(c, new, about, NoBody)

(* Seeded fault: the coordinates wait for the confirmation.                 *)
WithPlace_NameOnly(key, p) == [data EXCEPT ![key] = p, !.zone = Zone[p]]

\* update_data: the keys of the place, under the name its dialogue gives it.
WithPlace(key, p) ==
    [data EXCEPT ![key] = p, !.coords = p, !.zone = Zone[p]]

\* build_profile_data
Collected(d) ==
    [c \in Columns |-> IF c = "place" THEN d.birth_place ELSE d[c]]

(* Onboarding.                                                             *)

\* start_onboarding: from any state, and with the data left by it.
StartOnboarding ==
    /\ Answers
    /\ GoesTo("full_name")
    /\ UNCHANGED <<data, shown>>

After(f) == CASE f = "full_name" -> "birth_date"
              [] f = "birth_date" -> "birth_time"
              [] f = "birth_time" -> "birth_place"

\* on_full_name, on_birth_date, on_birth_time
OnAnswer(v) ==
    /\ Answers
    /\ chat \in Fields
    /\ data' = [data EXCEPT ![chat] = v]
    /\ GoesTo(After(chat))
    /\ UNCHANGED shown

\* on_birth_place_text
OnPlaceText(p) ==
    /\ Answers
    /\ chat = "birth_place"
    /\ data' = WithPlace("birth_place", p)
    /\ shown' = p
    /\ GoesTo("birth_place_confirm")

\* on_birth_place_location
OnPlaceLocation(p) ==
    /\ Answers
    /\ chat = "birth_place"
    /\ data' = WithPlace("birth_place", p)
    /\ Begin(Bot, Collected(data'), Columns)
    /\ UNCHANGED <<chat, shown>>

\* on_geo_confirm: the button of any earlier question will do.
OnGeoConfirm ==
    /\ Answers
    /\ chat = "birth_place_confirm"
    /\ Begin(Bot, Collected(data), Columns)
    /\ UNCHANGED <<chat, data, shown>>

\* on_geo_retry
OnGeoRetry ==
    /\ Answers
    /\ chat = "birth_place_confirm"
    /\ GoesTo("birth_place")
    /\ UNCHANGED <<data, shown>>

(* Editing.                                                                *)

\* on_edit_field
OnEdit(f) ==
    /\ Answers
    /\ GoesTo("awaiting_value")
    /\ data' = [data EXCEPT !.field = f]
    /\ UNCHANGED shown

OnEditPlace ==
    /\ Answers
    /\ GoesTo("awaiting_place")
    /\ UNCHANGED <<data, shown>>

\* on_edit_value, save_field: without a profile there is nothing to edit.
OnEditValue(v) ==
    /\ Answers
    /\ chat = "awaiting_value" /\ profile # NoProfile
    /\ Begin(Bot, [profile EXCEPT ![data.field] = v], {data.field})
    /\ UNCHANGED <<chat, data, shown>>

(* Seeded fault: a new place keeps the timezone of the old one.             *)
SavePlace_KeepsZone(place, coords, zone) ==
    /\ profile # NoProfile
    /\ Begin(Bot, [profile EXCEPT !.place = place, !.coords = coords],
             PlaceColumns)

\* save_place
SavePlace(place, coords, zone) ==
    /\ profile # NoProfile
    /\ Begin(Bot, [profile EXCEPT !.place = place, !.coords = coords,
                                  !.zone = zone], PlaceColumns)

\* on_edit_place_location
OnEditPlaceLocation(p) ==
    /\ Answers
    /\ chat = "awaiting_place"
    /\ SavePlace(p, p, Zone[p])
    /\ UNCHANGED <<chat, data, shown>>

\* on_edit_place_text
OnEditPlaceText(p) ==
    /\ Answers
    /\ chat = "awaiting_place"
    /\ data' = WithPlace("place", p)
    /\ shown' = p
    /\ GoesTo("place_confirm")

\* on_place_confirm
OnPlaceConfirm ==
    /\ Answers
    /\ chat = "place_confirm"
    /\ SavePlace(data.place, data.coords, data.zone)
    /\ UNCHANGED <<chat, data, shown>>

\* on_place_retry
OnPlaceRetry ==
    /\ Answers
    /\ chat = "place_confirm"
    /\ GoesTo("awaiting_place")
    /\ UNCHANGED <<data, shown>>

\* on_cancel, and the end of any other dialogue: state.clear.
Cleared == chat' = "none" /\ data' = NoData

OnCancel ==
    /\ Answers
    /\ Cleared
    /\ UNCHANGED <<call, saves, shown>>

\* A question, a gift or a reading begins: only the state is set.
OtherDialogue ==
    /\ Answers
    /\ GoesTo("other")
    /\ UNCHANGED <<data, shown>>

-----------------------------------------------------------------------------
(* Saves.                                                                  *)

\* write_natal_profile: every column is as the body has it.
Put(c, body) ==
    /\ BeginWith(c, [k \in Columns |-> IF k \in Fields THEN body.value
                                       ELSE body[k]], Columns, body)
    /\ UNCHANGED <<profile, chat, data, shown, torn, sent>>

\* The INSERT finds the row another save has added: unique account_id.
Refused(k) == k.read = NoProfile /\ profile # NoProfile

(* Seeded fault: an UPDATE writes all the columns as they were read.        *)
Written_Whole(k) == k.new

\* An UPDATE sets the columns that differ from those read.
Written(k) ==
    [c \in Columns |-> IF k.new[c] = k.read[c] THEN profile[c] ELSE k.new[c]]

\* upsert_natal_profile commits.
Save(c) ==
    LET k == call[c] IN
    /\ k.op = "save" /\ ~Refused(k)
    /\ profile' = Written(k)
    /\ IF k.about \cap PlaceColumns = {} THEN UNCHANGED <<torn, sent>>
       ELSE torn' = k.overtaken /\ sent' = k.body
    /\ call' = [d \in Calls |->
                  IF d = c THEN [Idle EXCEPT !.op = IF c = Bot THEN "clear"
                                                    ELSE "none"]
                  ELSE IF call[d].op = "save" /\ k.about \cap PlaceColumns # {}
                       THEN [call[d] EXCEPT !.overtaken = TRUE]
                       ELSE call[d]]
    /\ UNCHANGED <<chat, data, shown, saves>>

\* The bot's dialogue ends when the save is committed.
Clear ==
    /\ call[Bot].op = "clear"
    /\ Cleared
    /\ call' = [call EXCEPT ![Bot] = Idle]
    /\ UNCHANGED <<profile, shown, saves, torn, sent>>

\* The save is refused, or the process dies: the dialogue stays as it is.
SaveFails(c) ==
    /\ call[c] # Idle
    /\ call' = [call EXCEPT ![c] = Idle]
    /\ UNCHANGED <<profile, chat, data, shown, saves, torn, sent>>

Next ==
    \/ StartOnboarding \/ OnGeoConfirm \/ OnGeoRetry
    \/ OnEditPlace \/ OnPlaceConfirm \/ OnPlaceRetry
    \/ OnCancel \/ OtherDialogue \/ Clear
    \/ \E v \in Values : OnAnswer(v) \/ OnEditValue(v)
    \/ \E p \in Places : \/ OnPlaceText(p) \/ OnPlaceLocation(p)
                         \/ OnEditPlaceText(p) \/ OnEditPlaceLocation(p)
    \/ \E f \in Fields : OnEdit(f)
    \/ \E c \in ApiCalls, b \in Bodies : Put(c, b)
    \/ \E c \in Calls : Save(c) \/ SaveFails(c)

Spec == Init /\ [][Next]_vars

-----------------------------------------------------------------------------
(* The place, the coordinates and the timezone of a profile come from one  *)
(* save: they are what the geocoder says of the place if the bot saved it  *)
(* last, and what the call sent, which nobody looks at, if it was one of   *)
(* the route; unless saves of the place overlapped                         *)
(* (domain/natal_profiles.py 32-47, api/routes/me.py 79-97).               *)
PlaceIsWhole ==
    profile # NoProfile /\ ~torn =>
       IF sent = NoBody
       THEN profile.coords = profile.place /\ profile.zone = Zone[profile.place]
       ELSE \A c \in PlaceColumns : profile[c] = sent[c]

(* What a confirmation saves is the place that was shown last, with its    *)
(* coordinates, and no answer is missing, whatever dialogues came between  *)
(* (onboarding.py 42-60, 162-196; profile.py 176-217).                     *)
ConfirmsWhatWasShown ==
    /\ chat = "birth_place_confirm" =>
          LET row == Collected(data) IN
          /\ row.place = shown /\ row.coords = shown /\ row.zone = Zone[shown]
          /\ \A f \in Fields : row[f] # None
    /\ chat = "place_confirm" =>
          data.place = shown /\ data.coords = shown /\ data.zone = Zone[shown]

(* An edit leaves what it is not about as it is at that moment, whatever   *)
(* it had read: a change made meanwhile is not undone                      *)
(* (profile.py 46-80 saves all the columns).                               *)
EditStep ==
    call[Bot].op = "save" /\ call'[Bot].op = "clear" =>
       \A c \in Columns \ call[Bot].about : profile'[c] = profile[c]
EditsOnlyItsField == [][EditStep]_vars
=============================================================================
