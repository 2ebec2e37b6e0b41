----------------------------- MODULE Divination -----------------------------
(***************************************************************************)
(* The tarot and I Ching readings of one account: a choice opens a         *)
(* dialogue, the question is moderated by two classifiers that may fail,   *)
(* then the reading is charged, its cards are drawn and kept in the row,   *)
(* and a job tells what was drawn, again if the worker is stopped.         *)
(*                                                                         *)
(* The bot handles one update of the account at a time; each commit of a   *)
(* handler is a step, and the process may die between two.                 *)
(***************************************************************************)
EXTENDS Naturals, FiniteSets, SequencesExt

CONSTANTS
    Cards,          \* cards of TAROT_DECK that are drawn
    Casts,          \* casts of the three coins (IChing)
    Readings,       \* rows of readings, in the order of their numbers
    Credits,        \* credits of the account at the start
    MaxQuestions    \* bound: questions asked

VARIABLES
    failOpen,       \* moderation_fail_open, a setting of the process
    kind,           \* the kind chosen in the dialogue; "none" when closed
    handler,        \* the handler under way: its step, the kind it has read,
                    \* what the classifiers said of its question, its row
    credits,        \* package_credits
    rows,           \* the readings
    jobs,           \* readings whose job arq still holds
    told,           \* what the jobs told of each reading
    questions, events       \* questions asked, events of moderation
vars == <<failOpen, kind, handler, credits, rows, jobs, told, questions,
          events>>

Kinds == {"tarot", "iching"}
None == "none"

\* _TIER1_PRECEDENCE and _TIER2_BY_NAME
Severity == <<"sexual_minors", "self_harm", "violence", "hate">>
Unsafe == ToSet(Severity)
Advice == {"medical", "legal"}
Failed == {"error"}

NoQuestion == [flags |-> {}, advice |-> "safe"]
Off == [step |-> "off", kind |-> None, asked |-> NoQuestion, row |-> None]
NoReading == [kind |-> None, draw |-> <<>>]

Init ==
    /\ failOpen \in BOOLEAN
    /\ kind = None
    /\ handler = Off
    /\ credits = Credits
    /\ rows = [r \in Readings |-> NoReading]
    /\ jobs = {}
    /\ told = [r \in Readings |-> {}]
    /\ questions = 0 /\ events = 0

-----------------------------------------------------------------------------
\* _openai_moderate: the first of the list that is flagged.
Tier1(flags) ==
    LET hits == {i \in DOMAIN Severity : Severity[i] \in flags} IN
    IF hits = {} THEN "safe" ELSE Severity[Min(hits)]

\* moderate: the safety of the question goes before its scope; with
\* failOpen a classifier that fails is as one that finds nothing, without it
\* its exception is raised, whatever the other one found.
Raises(q) == ~failOpen /\ (q.flags = Failed \/ q.advice = "error")
(* Seeded fault: when one classifier fails, the other is not heard.         *)
Moderate_OneFailed(q) ==
    IF q.flags = Failed \/ q.advice = "error" THEN "safe"
    ELSE IF Tier1(q.flags) # "safe" THEN Tier1(q.flags) ELSE q.advice

Moderate(q) ==
    LET safety == IF q.flags = Failed THEN "safe" ELSE Tier1(q.flags)
        scope == IF q.advice = "error" THEN "safe" ELSE q.advice
    IN  IF safety # "safe" THEN safety ELSE scope

Handles == handler = Off
Goes(step) == handler' = [handler EXCEPT !.step = step]

\* on_divination_choice, of a feature that is on and with a profile.
OnChoice(k) ==
    /\ Handles
    /\ kind' = k
    /\ UNCHANGED <<handler, credits, rows, jobs, told, questions, events>>

\* on_cancel
OnCancel ==
    /\ Handles
    /\ kind' = None
    /\ UNCHANGED <<handler, credits, rows, jobs, told, questions, events>>

\* on_divination_skip: no question, so nothing to moderate.
OnSkip ==
    /\ Handles /\ kind # None
    /\ handler' = [Off EXCEPT !.step = "draw", !.kind = kind]
    /\ UNCHANGED <<kind, credits, rows, jobs, told, questions, events>>

\* on_divination_question: a hit is recorded, an exception leaves the
\* dialogue open.
OnQuestion(q) ==
    /\ Handles /\ kind # None
    /\ questions < MaxQuestions /\ questions' = questions + 1
    /\ IF Raises(q) THEN UNCHANGED <<handler, events>>
       ELSE IF Moderate(q) # "safe"
            THEN /\ events' = events + 1
                 /\ handler' = [Off EXCEPT !.step = "clear"]
            ELSE /\ handler' = [Off EXCEPT !.step = "draw", !.kind = kind,
                                           !.asked = q]
                 /\ UNCHANGED events
    /\ UNCHANGED <<kind, credits, rows, jobs, told>>

(* _perform_draw_and_enqueue                                               *)

\* consume_quota; RequestLifecycle has the whole of it.
Charge ==
    /\ handler.step = "draw"
    /\ IF credits > 0 THEN credits' = credits - 1 /\ Goes("charged")
       ELSE Goes("clear") /\ UNCHANGED credits
    /\ UNCHANGED <<kind, rows, jobs, told, questions, events>>

\* create_reading
CreateReading(r) ==
    /\ handler.step = "charged"
    /\ rows[r] = NoReading
    /\ rows' = [rows EXCEPT ![r].kind = handler.kind]
    /\ handler' = [handler EXCEPT !.step = "created", !.row = r]
    /\ UNCHANGED <<kind, credits, jobs, told, questions, events>>

\* draw_three takes three cards without laying any back, each upright or
\* reversed; cast_three_coins.
Spreads ==
    {[i \in 1..3 |-> [id |-> s[i], reversed |-> i \in turned]] :
       s \in {t \in [1..3 -> Cards] : Cardinality(ToSet(t)) = 3},
       turned \in {{}, {2, 3}}}
Draws(k) == IF k = "tarot" THEN Spreads ELSE {<<c>> : c \in Casts}

SaveDraw ==
    /\ handler.step = "created"
    /\ \E d \in Draws(handler.kind) :
          rows' = [rows EXCEPT ![handler.row].draw = d]
    /\ Goes("drawn")
    /\ UNCHANGED <<kind, credits, jobs, told, questions, events>>

\* create_request, enqueue_or_refund
Enqueue ==
    /\ handler.step = "drawn"
    /\ jobs' = jobs \cup {handler.row}
    /\ Goes("clear")
    /\ UNCHANGED <<kind, credits, rows, told, questions, events>>

EnqueueRaises ==
    /\ handler.step = "drawn"
    /\ credits' = credits + 1
    /\ Goes("clear")
    /\ UNCHANGED <<kind, rows, jobs, told, questions, events>>

\* state.clear
Clear ==
    /\ handler.step = "clear"
    /\ kind' = None
    /\ handler' = Off
    /\ UNCHANGED <<credits, rows, jobs, told, questions, events>>

HandlerDies ==
    /\ handler # Off
    /\ handler' = Off
    /\ UNCHANGED <<kind, credits, rows, jobs, told, questions, events>>

\* reading_generate: build_calc_md_from_jsonb of the row.
Tell(r) ==
    /\ r \in jobs
    /\ told' = [told EXCEPT ![r] = @ \cup {rows[r].draw}]
    /\ UNCHANGED <<kind, handler, credits, rows, jobs, questions, events>>

\* arq lets go of a job that has returned; until then it may run again.
JobEnds(r) ==
    /\ r \in jobs /\ told[r] # {}
    /\ jobs' = jobs \ {r}
    /\ UNCHANGED <<kind, handler, credits, rows, told, questions, events>>

\* What the classifiers say: any categories, or they fail.
Said == [flags : {{}, {"hate"}, {"hate", "self_harm"}, Failed},
         advice : {"safe", "medical", "error"}]

Acts ==
    \/ \E k \in Kinds : OnChoice(k)
    \/ \E q \in Said : OnQuestion(q)
    \/ OnCancel \/ OnSkip
    \/ Charge \/ SaveDraw \/ Enqueue \/ EnqueueRaises \/ Clear \/ HandlerDies
    \/ \E r \in Readings : CreateReading(r) \/ Tell(r) \/ JobEnds(r)

\* Nobody changes the setting while the process runs.
Next == Acts /\ UNCHANGED failOpen

Spec == Init /\ [][Next]_vars

-----------------------------------------------------------------------------
\* The failure of one classifier does not switch the other off.
FlaggedIsNotCharged ==
    handler.step \in {"draw", "charged", "created", "drawn"} =>
       /\ handler.asked.flags \cap Unsafe = {}
       /\ handler.asked.advice \notin Advice

\* All the runs of a job tell the same, and of three different cards.
ToldAsDrawn ==
    \A r \in Readings :
       /\ told[r] \subseteq {rows[r].draw}
       /\ told[r] # {} /\ rows[r].kind = "tarot" =>
             Cardinality({rows[r].draw[i].id : i \in 1..3}) = 3
       /\ r \in jobs => rows[r].draw # <<>>

(* A reading is what was asked for: no question that a classifier flagged  *)
(* is charged, and the job tells what the row holds however often it runs  *)
(* (handlers/divination.py 108-280, moderation/classifier.py 52-119).      *)
ReadingAsAsked == FlaggedIsNotCharged /\ ToldAsDrawn
=============================================================================
