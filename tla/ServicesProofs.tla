--------------------------- MODULE ServicesProofs ---------------------------
(***************************************************************************)
(* What holds of the horoscopes, the texts and the updates of the bots,    *)
(* for any number of accounts, hours, tenants, readers, editors, bots,     *)
(* updates, deaths and faults: Daily (a horoscope is sent once for a local *)
(* date, whatever the offsets of the zones and the length of a day),       *)
(* StringCache (a hash with an old text has one of four reasons) and       *)
(* BotRuntime (an update is processed once, but for the faults on record). *)
(***************************************************************************)
EXTENDS MCServices, TLAPS

-----------------------------------------------------------------------------
(* Daily.                                                                  *)

Carrying == {"claimed", "done", "marked", "failed", "deliver"}

(* The dates a clock can show.                                             *)
ClockDays ==
    UNION {{(h + Zone[a]) \div DayHours : h \in Nat} : a \in DailyAccounts}

Job == [pc : {"none", "queued", "over"} \cup Carrying,
        day : ClockDays \cup {NoDay}]

Types ==
    /\ hour \in Nat
    /\ jobs \in [DailyAccounts -> [Hours -> Job]]
    /\ horoscope \in [DailyAccounts ->
          [Days -> {"absent", "generating", "done", "failed"}]]
    /\ delivered \in [DailyAccounts -> [Days -> Nat]]

(* The job of account a enqueued at h has claimed day d and may send yet.  *)
Carries(a, h, d) == jobs[a][h].pc \in Carrying /\ jobs[a][h].day = d

(* The row of a day is there before its carrier, a day has one carrier, a  *)
(* day with a carrier was not sent.                                        *)
Kept(a, d) ==
    /\ horoscope[a][d] = "absent" =>
          delivered[a][d] = 0 /\ \A h \in Hours : ~Carries(a, h, d)
    /\ \A h \in Hours :
          Carries(a, h, d) =>
             /\ delivered[a][d] = 0
             /\ \A g \in Hours : Carries(a, g, d) => g = h
    /\ delivered[a][d] \in {0, 1}

AllKept == \A a \in DailyAccounts, d \in Days : Kept(a, d)

LEMMA LocalDayType ==
    ASSUME Types, NEW a \in DailyAccounts
    PROVE  LocalDay(a) \in ClockDays
<1> DEFINE S == {(h + Zone[a]) \div DayHours : h \in Nat}
<1>1. LocalDay(a) \in S
      BY DEF Types, LocalDay
<1>2. S \in {{(h + Zone[b]) \div DayHours : h \in Nat} :
                b \in DailyAccounts}
      BY Zenon
<1> HIDE DEF S
<1> QED
    BY <1>1, <1>2, Zenon DEF ClockDays

LEMMA InitKept == Init => Types /\ AllKept
<1> SUFFICES ASSUME Init PROVE Types /\ AllKept
    OBVIOUS
<1>1. Types
      BY DEF Init, Types, Job, NoJob
<1>2. AllKept
      BY DEF Init, AllKept, Kept, Carries, Carrying, NoJob
<1> QED
    BY <1>1, <1>2

(* One job changes, to a step pc, and keeps its day.                       *)
LEMMA MovesJob ==
    ASSUME Types, NEW a \in DailyAccounts, NEW h \in Hours,
           NEW pc \in {"queued", "over"} \cup Carrying, Moves(<<a, h>>, pc)
    PROVE  /\ jobs' \in [DailyAccounts -> [Hours -> Job]]
           /\ jobs'[a][h].pc = pc /\ jobs'[a][h].day = jobs[a][h].day
           /\ \A b \in DailyAccounts, g \in Hours :
                 ~(b = a /\ g = h) => jobs'[b][g] = jobs[b][g]
<1> DEFINE q == [jobs[a][h] EXCEPT !.pc = pc]
<1>1. jobs[a][h] \in Job
      BY DEF Types
<1>2. q \in Job /\ q.pc = pc /\ q.day = jobs[a][h].day
      BY <1>1 DEF Job
<1>3. jobs' = [jobs EXCEPT ![a][h] = q]
      BY DEF Moves
<1> HIDE DEF q
<1>4. /\ jobs' \in [DailyAccounts -> [Hours -> Job]]
      /\ jobs'[a][h] = q
      /\ \A b \in DailyAccounts, g \in Hours :
            ~(b = a /\ g = h) => jobs'[b][g] = jobs[b][g]
      BY <1>2, <1>3 DEF Types
<1> QED
    BY <1>2, <1>4

(* A job that moves without sending keeps what is kept, if it carries      *)
(* nothing new and no row goes.                                            *)
LEMMA MoveKeeps ==
    ASSUME AllKept, delivered' = delivered,
           \A b \in DailyAccounts, g \in Hours, d \in Days :
              Carries(b, g, d)' => Carries(b, g, d),
           \A b \in DailyAccounts, d \in Days :
              horoscope'[b][d] = "absent" => horoscope[b][d] = "absent"
    PROVE  AllKept'
BY DEF AllKept, Kept

LEMMA NextKept == Types /\ AllKept /\ [Next]_vars => Types' /\ AllKept'
<1> SUFFICES ASSUME Types, AllKept, [Next]_vars PROVE Types' /\ AllKept'
    OBVIOUS
<1>1. ASSUME NEW a \in DailyAccounts, NEW i \in Taps, NEW t,
             Tapped(a, i, t)
      PROVE Types' /\ AllKept'
      BY <1>1 DEF Tapped, Types, AllKept, Kept, Carries
<1>2. ASSUME NEW a \in DailyAccounts, NEW i \in Taps, SaveSettings(a, i)
      PROVE Types' /\ AllKept'
      BY <1>2 DEF SaveSettings, Types, AllKept, Kept, Carries
<1>3. CASE Tick
      BY <1>3 DEF Tick, Types, AllKept, Kept, Carries
<1>4. ASSUME NEW a \in DailyAccounts, SubscriptionEnds(a)
      PROVE Types' /\ AllKept'
      BY <1>4 DEF SubscriptionEnds, Types, AllKept, Kept, Carries
<1>5. CASE Dispatch
  <2>1. \A a \in DailyAccounts :
           /\ jobs'[a] \in [Hours -> Job]
           /\ \A h \in Hours : jobs'[a][h] = jobs[a][h]
                               \/ jobs'[a][h].pc = "queued"
    <3> TAKE a \in DailyAccounts
    <3>1. jobs[a] \in [Hours -> Job]
          BY DEF Types
    <3>2. jobs'[a] = jobs[a]
          \/ jobs'[a] = [jobs[a] EXCEPT ![hour].pc = "queued"]
          BY <1>5 DEF Dispatch
    <3> QED
        BY <3>1, <3>2 DEF Job
  <2>2. jobs' \in [DailyAccounts -> [Hours -> Job]]
        BY <1>5, <2>1 DEF Dispatch
  <2>3. UNCHANGED <<hour, horoscope, delivered>>
        BY <1>5 DEF Dispatch
  <2>4. \A b \in DailyAccounts, g \in Hours, d \in Days :
           Carries(b, g, d)' => Carries(b, g, d)
        BY <2>1 DEF Carries, Carrying
  <2> QED
      BY <2>2, <2>3, <2>4, MoveKeeps DEF Types
<1>6. ASSUME NEW a \in DailyAccounts, NEW h \in Hours, Claim(<<a, h>>)
      PROVE Types' /\ AllKept'
  <2>1. PICK d \in ClockDays : d = LocalDay(a)
        BY LocalDayType
  <2>2. /\ jobs[a][h].pc = "queued" /\ UNCHANGED <<hour, delivered>>
        /\ jobs[a][h] \in Job
        BY <1>6 DEF Claim, At, Types
  <2>3. CASE Free(a, d)
    <3>1. /\ horoscope[a][d] = "absent"
          /\ jobs' = [jobs EXCEPT ![a][h] = [pc |-> "claimed", day |-> d]]
          /\ horoscope' = [horoscope EXCEPT ![a][d] = "generating"]
          BY <1>6, <2>1, <2>3 DEF Claim, Free
    <3>2. /\ jobs' \in [DailyAccounts -> [Hours -> Job]]
          /\ jobs'[a][h] = [pc |-> "claimed", day |-> d]
          /\ \A b \in DailyAccounts, g \in Hours :
                ~(b = a /\ g = h) => jobs'[b][g] = jobs[b][g]
      <4> DEFINE q == [pc |-> "claimed", day |-> d]
      <4>1. q \in Job
            BY DEF Job, Carrying
      <4>2. jobs' = [jobs EXCEPT ![a][h] = q]
            BY <3>1
      <4> HIDE DEF q
      <4>3. /\ jobs' \in [DailyAccounts -> [Hours -> Job]]
            /\ jobs'[a][h] = q
            /\ \A b \in DailyAccounts, g \in Hours :
                  ~(b = a /\ g = h) => jobs'[b][g] = jobs[b][g]
            BY <4>1, <4>2 DEF Types
      <4> QED
          BY <4>3 DEF q
    <3>3. Types'
          BY <2>2, <3>1, <3>2 DEF Types
    <3>4. SUFFICES ASSUME NEW b \in DailyAccounts, NEW e \in Days
                   PROVE  Kept(b, e)'
          BY <3>3 DEF AllKept
    <3>5. CASE b = a /\ e = d
      <4>1. /\ delivered[a][d] = 0 /\ horoscope'[a][d] = "generating"
            /\ \A g \in Hours : ~Carries(a, g, d)
            BY <3>1, <3>4, <3>5 DEF AllKept, Kept, Types
      <4>2. \A g \in Hours : Carries(b, g, e)' => g = h
            BY <3>2, <3>5, <4>1 DEF Carries
      <4> QED
          BY <2>2, <3>5, <4>1, <4>2 DEF Kept
    <3>6. CASE ~(b = a /\ e = d)
      <4>1. /\ horoscope'[b][e] = horoscope[b][e]
            /\ delivered'[b][e] = delivered[b][e]
            BY <2>2, <3>1, <3>6 DEF Types
      <4>2. \A g \in Hours : Carries(b, g, e)' => Carries(b, g, e)
            BY <3>2, <3>6 DEF Carries
      <4> QED
          BY <4>1, <4>2 DEF AllKept, Kept
    <3> QED
        BY <3>5, <3>6
  <2>4. CASE ~Free(a, d)
    <3>1. Moves(<<a, h>>, "over") /\ horoscope' = horoscope
          BY <1>6, <2>1, <2>4 DEF Claim, Moves
    <3>2. /\ jobs' \in [DailyAccounts -> [Hours -> Job]]
          /\ jobs'[a][h].pc = "over"
          /\ \A b \in DailyAccounts, g \in Hours :
                ~(b = a /\ g = h) => jobs'[b][g] = jobs[b][g]
          BY <3>1, MovesJob
    <3>3. \A b \in DailyAccounts, g \in Hours, e \in Days :
             Carries(b, g, e)' => Carries(b, g, e)
          BY <3>2 DEF Carries, Carrying
    <3> QED
        BY <2>2, <3>1, <3>2, <3>3, MoveKeeps DEF Types
  <2> QED
      BY <2>3, <2>4
<1>7. ASSUME NEW a \in DailyAccounts, NEW h \in Hours,
             Generated(<<a, h>>) \/ GenerationFails(<<a, h>>)
      PROVE Types' /\ AllKept'
  <2>1. PICK pc \in {"done", "failed"} :
           /\ jobs[a][h].pc \in Carrying /\ UNCHANGED <<hour, delivered>>
           /\ Moves(<<a, h>>, pc)
           /\ horoscope' = [horoscope EXCEPT ![a][jobs[a][h].day] = pc]
        BY <1>7 DEF Generated, GenerationFails, SetStatus, At, DayOf,
                    Carrying
  <2>2. /\ jobs' \in [DailyAccounts -> [Hours -> Job]]
        /\ jobs'[a][h].day = jobs[a][h].day
        /\ \A b \in DailyAccounts, g \in Hours :
              ~(b = a /\ g = h) => jobs'[b][g] = jobs[b][g]
        BY <2>1, MovesJob DEF Carrying
  <2>3. \A b \in DailyAccounts, g \in Hours, e \in Days :
           Carries(b, g, e)' => Carries(b, g, e)
        BY <2>1, <2>2 DEF Carries, Carrying
  <2>4. \A b \in DailyAccounts, e \in Days :
           horoscope'[b][e] = "absent" => horoscope[b][e] = "absent"
        BY <2>1 DEF Types
  <2> QED
      BY <2>1, <2>2, <2>3, <2>4, MoveKeeps DEF Types
<1>8. ASSUME NEW a \in DailyAccounts, NEW h \in Hours,
             \/ FailureNotWritten(<<a, h>>)
             \/ MarkSent(<<a, h>>)
             \/ FindChat(<<a, h>>)
             \/ WorkerStop(<<a, h>>)
             \/ JobCutOff(<<a, h>>)
      PROVE Types' /\ AllKept'
  <2>1. PICK pc \in {"queued", "over"} \cup Carrying :
           /\ pc \in Carrying => jobs[a][h].pc \in Carrying
           /\ UNCHANGED <<hour, horoscope, delivered>>
           /\ Moves(<<a, h>>, pc)
        BY <1>8 DEF FailureNotWritten, MarkSent, FindChat, WorkerStop, JobCutOff,
                    Fault, At, Carrying
  <2>2. /\ jobs' \in [DailyAccounts -> [Hours -> Job]]
        /\ jobs'[a][h].pc = pc /\ jobs'[a][h].day = jobs[a][h].day
        /\ \A b \in DailyAccounts, g \in Hours :
              ~(b = a /\ g = h) => jobs'[b][g] = jobs[b][g]
        BY <2>1, MovesJob
  <2>3. \A b \in DailyAccounts, g \in Hours, e \in Days :
           Carries(b, g, e)' => Carries(b, g, e)
        BY <2>1, <2>2 DEF Carries
  <2> QED
      BY <2>1, <2>2, <2>3, MoveKeeps DEF Types
<1>9. ASSUME NEW a \in DailyAccounts, NEW h \in Hours, Deliver(<<a, h>>)
      PROVE Types' /\ AllKept'
  <2>1. PICK n \in {0, 1} :
           /\ jobs[a][h].pc = "deliver" /\ UNCHANGED <<hour, horoscope>>
           /\ Moves(<<a, h>>, "over")
           /\ delivered' = [delivered EXCEPT
                 ![a][jobs[a][h].day] = delivered[a][jobs[a][h].day] + n]
        BY <1>9 DEF Deliver, At, DayOf
  <2>2. /\ jobs' \in [DailyAccounts -> [Hours -> Job]]
        /\ jobs'[a][h].pc = "over"
        /\ \A b \in DailyAccounts, g \in Hours :
              ~(b = a /\ g = h) => jobs'[b][g] = jobs[b][g]
        BY <2>1, MovesJob
  <2>3. delivered' \in [DailyAccounts -> [Days -> Nat]]
    <3>1. CASE jobs[a][h].day \in Days
      <4>1. delivered[a][jobs[a][h].day] + n \in Nat
            BY <3>1 DEF Types
      <4> QED
          BY <2>1, <4>1 DEF Types
    <3>2. CASE jobs[a][h].day \notin Days
          BY <2>1, <3>2 DEF Types
    <3> QED
        BY <3>1, <3>2
  <2>4. \A b \in DailyAccounts, g \in Hours, e \in Days :
           Carries(b, g, e)' => Carries(b, g, e) /\ ~(b = a /\ g = h)
        BY <2>2 DEF Carries, Carrying
  <2>5. SUFFICES ASSUME NEW b \in DailyAccounts, NEW e \in Days
                 PROVE  Kept(b, e)'
        BY <2>1, <2>2, <2>3 DEF Types, AllKept
  <2>6. CASE Carries(a, h, e) /\ b = a
    <3>1. /\ delivered[a][e] = 0 /\ horoscope[a][e] # "absent"
          /\ \A g \in Hours : Carries(a, g, e) => g = h
          BY <2>5, <2>6 DEF AllKept, Kept
    <3>2. delivered'[a][e] \in {0, 1}
          BY <2>1, <2>6, <3>1 DEF Carries, Types
    <3>3. \A g \in Hours : ~Carries(b, g, e)'
          BY <2>4, <2>6, <3>1
    <3>4. horoscope'[b][e] # "absent" /\ delivered'[b][e] \in {0, 1}
          BY <2>1, <2>6, <3>1, <3>2
    <3> QED
        BY <3>3, <3>4 DEF Kept
  <2>7. CASE ~(Carries(a, h, e) /\ b = a)
    <3>1. delivered'[b][e] = delivered[b][e]
          BY <2>1, <2>7 DEF Carries, Carrying, Types
    <3> QED
        BY <2>1, <2>4, <3>1 DEF AllKept, Kept
  <2> QED
      BY <2>6, <2>7
<1>10. CASE UNCHANGED vars
       BY <1>10 DEF vars, Types, AllKept, Kept, Carries
<1>11. ASSUME NEW j \in JobIds, Run(j) \/ WorkerStop(j) \/ JobCutOff(j)
       PROVE Types' /\ AllKept'
  <2>1. PICK a \in DailyAccounts, h \in Hours : j = <<a, h>>
        BY DEF JobIds
  <2> QED
      BY <1>6, <1>7, <1>8, <1>9, <1>11, <2>1 DEF Run
<1>12. ASSUME NEW a \in DailyAccounts, NEW i \in Taps,
              \/ Toggle(a, i)
              \/ \E h \in 0..(DayHours - 1) :
                    SetHour(a, i, h) \/ \E on \in BOOLEAN : Put(a, i, on, h)
       PROVE Types' /\ AllKept'
       BY <1>1, <1>12 DEF Toggle, SetHour, Put
<1> QED
    BY <1>2, <1>3, <1>4, <1>5, <1>10, <1>11, <1>12 DEF Next

(* However often a job is enqueued, stopped, cut off and run again, where  *)
(* it fails, and whatever the settings and zones, one horoscope is sent    *)
(* for a local date.                                                       *)
THEOREM OneHoroscopeADay == Spec => []OnePerDay
<1>1. Types /\ AllKept /\ [Next]_vars => Types' /\ AllKept'
      BY NextKept
<1>2. AllKept => OnePerDay
      BY DEF AllKept, Kept, OnePerDay
<1> QED
    BY InitKept, <1>1, <1>2, PTL DEF Spec

-----------------------------------------------------------------------------
(* StringCache.                                                            *)

HashRecord == [loaded : BOOLEAN, text : Nat, ttl : BOOLEAN]
ReaderRecord == [pc : {"idle", "base", "rows", "hset"}, text : Nat,
                dirty : BOOLEAN]

StringTypes ==
    /\ edits \in Nat \ {0}
    /\ platform \in Nat \ {0}
    /\ override \in [Bots -> Nat]
    /\ hash \in [Bots -> HashRecord]
    /\ reader \in [Readers -> [Bots -> ReaderRecord]]
    /\ pending \in [Editors -> SUBSET Bots]

(* What a fill that no edit overlapped has read is what the tables hold.   *)
CleanRead(s, b) ==
    /\ s.pc \in {"base", "rows"} => s.text # C!NoText
    /\ s.pc = "base" /\ ~s.dirty => s.text = platform
    /\ s.pc = "rows" /\ ~s.dirty => s.text = C!MergedStrings(b)

CleanReads == \A r \in Readers, b \in Bots : CleanRead(reader[r][b], b)

(* A hash that is not there has no text.                                   *)
ColdIsEmpty == \A b \in Bots : hash[b].loaded \/ hash[b].text = C!NoText

StringInv == StringTypes /\ CleanReads /\ ColdIsEmpty /\ C!StaleOnlyByOverlap

LEMMA StringInit == C!Init => StringInv
BY DEF C!Init, StringInv, StringTypes, CleanReads, CleanRead, ColdIsEmpty,
       C!StaleOnlyByOverlap, C!Stale, HashRecord, ReaderRecord, C!Cold, C!IdleReader, C!NoText

(* One reader changes.                                                     *)
LEMMA BecomesReader ==
    ASSUME StringTypes, CleanReads, NEW r \in Readers, NEW b \in Bots,
           NEW s \in ReaderRecord, C!Becomes(r, b, s), CleanRead(s, b),
           UNCHANGED <<platform, override>>
    PROVE  reader' \in [Readers -> [Bots -> ReaderRecord]] /\ CleanReads'
<1>1. /\ reader' \in [Readers -> [Bots -> ReaderRecord]]
      /\ reader'[r][b] = s
      /\ \A q \in Readers, c \in Bots :
            ~(q = r /\ c = b) => reader'[q][c] = reader[q][c]
      BY DEF StringTypes, C!Becomes
<1>2. \A x, c : CleanRead(x, c) <=> /\ x.pc \in {"base", "rows"} =>
                                          x.text # C!NoText
                                    /\ x.pc = "base" /\ ~x.dirty =>
                                          x.text = platform'
                                    /\ x.pc = "rows" /\ ~x.dirty =>
                                          x.text = C!MergedStrings(c)'
      BY DEF CleanRead, C!MergedStrings
<1>3. ASSUME NEW q \in Readers, NEW c \in Bots
      PROVE  CleanRead(reader[q][c], c)'
  <2>1. CASE q = r /\ c = b
        BY <1>1, <1>2, <2>1 DEF CleanRead
  <2>2. CASE ~(q = r /\ c = b)
        BY <1>1, <1>2, <2>2 DEF CleanRead, CleanReads
  <2> QED
      BY <2>1, <2>2
<1> QED
    BY <1>1, <1>3 DEF CleanReads

(* An edit of the texts of some tenants, none of whose fills stays clean.  *)
LEMMA OvertakenReaders ==
    ASSUME StringTypes, CleanReads, NEW bs \in SUBSET Bots, C!Overtaken(bs),
           \A b \in Bots \ bs : override'[b] = override[b],
           platform' = platform \/ bs = Bots
    PROVE  reader' \in [Readers -> [Bots -> ReaderRecord]] /\ CleanReads'
<1>1. \A r \in Readers, b \in Bots :
         /\ reader'[r][b].pc = reader[r][b].pc
         /\ reader'[r][b].text = reader[r][b].text
         /\ reader'[r][b].dirty <=>
               reader[r][b].dirty \/ (b \in bs /\ reader[r][b].pc # "idle")
         /\ reader'[r][b] \in ReaderRecord
  <2> TAKE r \in Readers, b \in Bots
  <2> DEFINE d == reader[r][b].dirty \/ (b \in bs /\ reader[r][b].pc # "idle")
  <2>1. reader'[r][b] = [reader[r][b] EXCEPT !.dirty = d]
        BY DEF C!Overtaken
  <2>2. reader[r][b] \in ReaderRecord /\ d \in BOOLEAN
        BY DEF StringTypes, ReaderRecord
  <2> HIDE DEF d
  <2>3. /\ reader'[r][b] \in ReaderRecord
        /\ reader'[r][b].pc = reader[r][b].pc
        /\ reader'[r][b].text = reader[r][b].text
        /\ reader'[r][b].dirty = d
        BY <2>1, <2>2 DEF ReaderRecord
  <2> QED
      BY <2>3 DEF d
<1>2. reader' \in [Readers -> [Bots -> ReaderRecord]]
      BY <1>1 DEF C!Overtaken
<1>3. ASSUME NEW r \in Readers, NEW b \in Bots
      PROVE  CleanRead(reader[r][b], b)'
  <2>1. CleanRead(reader[r][b], b)
        BY DEF CleanReads
  <2>2. CASE b \in bs
        BY <1>1, <2>1, <2>2 DEF CleanRead
  <2>3. CASE b \notin bs
    <3>1. platform' = platform /\ override'[b] = override[b]
          BY <2>3
    <3> QED
        BY <1>1, <2>1, <2>3, <3>1 DEF CleanRead, C!MergedStrings
  <2> QED
      BY <2>2, <2>3
<1> QED
    BY <1>2, <1>3 DEF CleanReads

LEMMA StringNext == StringInv /\ [C!Next]_stringVars => StringInv'
<1> SUFFICES ASSUME StringInv, [C!Next]_stringVars PROVE StringInv'
    OBVIOUS
<1>a. /\ StringTypes /\ CleanReads /\ ColdIsEmpty /\ C!StaleOnlyByOverlap
      /\ \A r \in Readers, b \in Bots :
            reader[r][b] \in ReaderRecord /\ CleanRead(reader[r][b], b)
      BY DEF StringInv, StringTypes, CleanReads
<1>b. ASSUME NEW b \in Bots, NEW x \in Nat \ {0}
      PROVE  C!Overlay(x, override[b]) \in Nat \ {0}
      BY <1>a DEF StringTypes, C!Overlay, C!NoText
<1>1. ASSUME NEW r \in Readers, NEW b \in Bots, C!LoadPlatformStrings(r, b)
      PROVE StringInv'
  <2> DEFINE s == [pc |-> "base", text |-> platform, dirty |-> FALSE]
  <2>1. s \in ReaderRecord /\ CleanRead(s, b)
        BY <1>a DEF ReaderRecord, CleanRead, StringTypes, C!NoText
  <2>2. reader' \in [Readers -> [Bots -> ReaderRecord]] /\ CleanReads'
        BY <1>1, <1>a, <2>1, BecomesReader DEF C!LoadPlatformStrings
  <2> QED
      BY <1>1, <1>a, <2>2 DEF C!LoadPlatformStrings, StringInv, StringTypes, ColdIsEmpty,
         C!StaleOnlyByOverlap, C!Stale, C!MergedStrings
<1>2. ASSUME NEW r \in Readers, NEW b \in Bots, C!LoadTenantOverrides(r, b)
      PROVE StringInv'
  <2> DEFINE s == [reader[r][b] EXCEPT
                     !.pc = "rows",
                     !.text = C!Overlay(reader[r][b].text, override[b])]
  <2>1. reader[r][b].pc = "base" /\ reader[r][b].text \in Nat \ {0}
        BY <1>2, <1>a DEF C!LoadTenantOverrides, CleanRead, ReaderRecord, C!NoText
  <2>2. C!Overlay(reader[r][b].text, override[b]) \in Nat \ {0}
        BY <2>1, <1>b
  <2>3. s \in ReaderRecord
        BY <1>a, <2>2 DEF ReaderRecord
  <2>4. /\ s.pc = "rows" /\ s.dirty = reader[r][b].dirty
        /\ s.text = C!Overlay(reader[r][b].text, override[b])
        BY <1>a DEF ReaderRecord
  <2>5. CleanRead(s, b)
        BY <1>a, <2>1, <2>2, <2>4 DEF CleanRead, C!MergedStrings, C!NoText
  <2>6. C!Becomes(r, b, s) /\ UNCHANGED <<platform, override>>
        BY <1>2 DEF C!LoadTenantOverrides
  <2>7. reader' \in [Readers -> [Bots -> ReaderRecord]] /\ CleanReads'
        BY <1>a, <2>3, <2>5, <2>6, BecomesReader
  <2> QED
      BY <1>2, <1>a, <2>7 DEF C!LoadTenantOverrides, StringInv, StringTypes, ColdIsEmpty,
         C!StaleOnlyByOverlap, C!Stale, C!MergedStrings
<1>3. ASSUME NEW r \in Readers, NEW b \in Bots, C!FillHash(r, b)
      PROVE StringInv'
  <2> DEFINE s == [reader[r][b] EXCEPT !.pc = "hset"]
             t == C!Overlay(hash[b].text, reader[r][b].text)
  <2>1. reader[r][b].pc = "rows" /\ reader[r][b].text \in Nat \ {0}
        BY <1>3, <1>a DEF C!FillHash, CleanRead, ReaderRecord, C!NoText
  <2>2. s \in ReaderRecord /\ s.pc = "hset"
        BY <1>a DEF ReaderRecord
  <2>3. CleanRead(s, b)
        BY <2>2 DEF CleanRead
  <2>4. C!Becomes(r, b, s) /\ UNCHANGED <<platform, override, edits, pending>>
        BY <1>3 DEF C!FillHash
  <2>5. reader' \in [Readers -> [Bots -> ReaderRecord]] /\ CleanReads'
        BY <1>a, <2>2, <2>3, <2>4, BecomesReader
  <2>6. t = reader[r][b].text
        BY <2>1 DEF C!Overlay, C!NoText
  <2>7. /\ hash' \in [Bots -> HashRecord]
        /\ hash'[b].loaded /\ hash'[b].text = reader[r][b].text
        /\ \A c \in Bots \ {b} : hash'[c] = hash[c]
    <3>1. hash' = [hash EXCEPT ![b] =
                     [hash[b] EXCEPT !.loaded = TRUE, !.text = t]]
          BY <1>3 DEF C!FillHash
    <3>2. hash[b] \in HashRecord
          BY <1>a DEF StringTypes
    <3>3. [hash[b] EXCEPT !.loaded = TRUE, !.text = t] \in HashRecord
          BY <2>1, <2>6, <3>2 DEF HashRecord
    <3>4. [hash[b] EXCEPT !.loaded = TRUE, !.text = t].loaded
          /\ [hash[b] EXCEPT !.loaded = TRUE, !.text = t].text = t
          BY <3>2 DEF HashRecord
    <3> QED
        BY <3>1, <3>3, <3>4, <2>6, <1>a DEF StringTypes
  <2>8. ColdIsEmpty'
        BY <1>a, <2>7 DEF ColdIsEmpty
  <2>9. C!StaleOnlyByOverlap'
    <3>1. SUFFICES ASSUME NEW c \in Bots, C!Stale(c)',
                          \A e \in Editors : c \notin pending'[e]
                   PROVE  c \in missed' \cup outrun'
          BY DEF C!StaleOnlyByOverlap
    <3>2. missed' = missed /\ outrun \subseteq outrun'
          BY <1>3 DEF C!FillHash
    <3>3. CASE c = b
      <4>1. reader[r][b].text # C!MergedStrings(b)
            BY <2>4, <2>7, <3>1, <3>3 DEF C!Stale, C!MergedStrings
      <4>2. reader[r][b].dirty
            BY <1>a, <2>1, <4>1 DEF CleanRead
      <4> QED
          BY <1>3, <3>3, <4>2 DEF C!FillHash
    <3>4. CASE c # b
      <4>1. C!Stale(c)
            BY <2>4, <2>7, <3>1, <3>4 DEF C!Stale, C!MergedStrings
      <4> QED
          BY <1>a, <2>4, <3>1, <3>2, <4>1 DEF C!StaleOnlyByOverlap
    <3> QED
        BY <3>3, <3>4
  <2> QED
      BY <1>a, <2>4, <2>5, <2>7, <2>8, <2>9 DEF StringInv, StringTypes
<1>4. ASSUME NEW r \in Readers, NEW b \in Bots,
             C!Becomes(r, b, C!IdleReader),
             UNCHANGED <<edits, platform, override, pending, outrun>>,
             missed' = missed, hash' \in [Bots -> HashRecord],
             \A c \in Bots : hash'[c].loaded = hash[c].loaded
                             /\ hash'[c].text = hash[c].text
      PROVE StringInv'
  <2>1. C!IdleReader \in ReaderRecord /\ CleanRead(C!IdleReader, b)
        BY DEF C!IdleReader, ReaderRecord, CleanRead, C!NoText
  <2>2. reader' \in [Readers -> [Bots -> ReaderRecord]] /\ CleanReads'
        BY <1>4, <1>a, <2>1, BecomesReader
  <2>3. \A c \in Bots : C!Stale(c)' => C!Stale(c)
        BY <1>4 DEF C!Stale, C!MergedStrings
  <2>4. C!StaleOnlyByOverlap'
        BY <1>4, <1>a, <2>3 DEF C!StaleOnlyByOverlap
  <2>5. ColdIsEmpty'
        BY <1>4, <1>a DEF ColdIsEmpty
  <2> QED
      BY <1>4, <1>a, <2>2, <2>4, <2>5 DEF StringInv, StringTypes
<1>5. ASSUME NEW r \in Readers, NEW b \in Bots,
             C!SetTtl(r, b) \/ C!ReaderDies(r, b)
      PROVE StringInv'
  <2>1. /\ hash' \in [Bots -> HashRecord]
        /\ \A c \in Bots : hash'[c].loaded = hash[c].loaded
                           /\ hash'[c].text = hash[c].text
    <3> DEFINE x == hash[b].ttl \/ hash[b].loaded
    <3>1. hash[b] \in HashRecord /\ x \in BOOLEAN
          BY <1>a DEF StringTypes, HashRecord
    <3>2. \/ hash' = [hash EXCEPT ![b] = [hash[b] EXCEPT !.ttl = x]]
          \/ hash' = hash
          BY <1>5 DEF C!SetTtl, C!ReaderDies
    <3> HIDE DEF x
    <3>3. /\ [hash[b] EXCEPT !.ttl = x] \in HashRecord
          /\ [hash[b] EXCEPT !.ttl = x].loaded = hash[b].loaded
          /\ [hash[b] EXCEPT !.ttl = x].text = hash[b].text
          BY <3>1 DEF HashRecord
    <3> QED
        BY <3>2, <3>3, <1>a DEF StringTypes
  <2> QED
      BY <1>4, <1>5, <2>1 DEF C!SetTtl, C!ReaderDies
<1>6. ASSUME NEW bs \in SUBSET Bots, C!Overtaken(bs),
             edits' \in Nat \ {0}, platform' \in Nat \ {0},
             override' \in [Bots -> Nat],
             pending' \in [Editors -> SUBSET Bots],
             \A b \in Bots \ bs : override'[b] = override[b],
             platform' = platform \/ bs = Bots,
             UNCHANGED <<hash, outrun>>, missed \subseteq missed',
             \A e \in Editors : pending[e] \subseteq pending'[e],
             \A b \in bs :
                b \in missed' \/ \E e \in Editors : b \in pending'[e]
      PROVE StringInv'
  <2>1. reader' \in [Readers -> [Bots -> ReaderRecord]] /\ CleanReads'
        BY <1>6, <1>a, OvertakenReaders
  <2>2. \A b \in Bots \ bs : C!Stale(b)' => C!Stale(b)
        BY <1>6 DEF C!Stale, C!MergedStrings
  <2>3. C!StaleOnlyByOverlap'
        BY <1>6, <1>a, <2>2 DEF C!StaleOnlyByOverlap
  <2> QED
      BY <1>6, <1>a, <2>1, <2>3 DEF StringInv, StringTypes, ColdIsEmpty
<1>7. ASSUME NEW e \in Editors, NEW b \in Bots,
             C!PutOverride(e, b) \/ C!DeleteOverride(e, b)
      PROVE StringInv'
      BY <1>6, <1>7, <1>a DEF C!PutOverride, C!DeleteOverride, StringTypes, C!NoText
<1>8. ASSUME NEW e \in Editors, C!PutPlatform(e)
      PROVE StringInv'
      BY <1>6, <1>8, <1>a DEF C!PutPlatform, StringTypes
<1>9. ASSUME NEW b \in Bots, C!EditBranding(b) \/ C!ResetBranding(b)
      PROVE StringInv'
      BY <1>6, <1>9, <1>a DEF C!EditBranding, C!ResetBranding, StringTypes, C!NoText
<1>10. ASSUME NEW b \in Bots, hash' = [hash EXCEPT ![b] = C!Cold],
              pending' \in [Editors -> SUBSET Bots],
              \A e \in Editors : pending[e] \ {b} \subseteq pending'[e],
              outrun' = outrun \ {b}, missed' = missed \ {b},
              UNCHANGED <<edits, platform, override, reader>>
       PROVE StringInv'
  <2>1. /\ hash' \in [Bots -> HashRecord] /\ hash'[b] = C!Cold
        /\ \A c \in Bots \ {b} : hash'[c] = hash[c]
        BY <1>10, <1>a DEF StringTypes, HashRecord, C!Cold, C!NoText
  <2>2. ~C!Stale(b)' /\ \A c \in Bots \ {b} : C!Stale(c)' => C!Stale(c)
        BY <1>10, <2>1 DEF C!Stale, C!MergedStrings, C!Cold
  <2>3. C!StaleOnlyByOverlap'
        BY <1>10, <1>a, <2>2 DEF C!StaleOnlyByOverlap
  <2>4. ColdIsEmpty'
        BY <1>a, <2>1 DEF ColdIsEmpty, C!Cold
  <2>5. CleanReads'
        BY <1>10, <1>a DEF CleanReads, CleanRead, C!MergedStrings
  <2> QED
      BY <1>10, <1>a, <2>1, <2>3, <2>4, <2>5 DEF StringInv, StringTypes
<1>11. ASSUME NEW e \in Editors, NEW b \in Bots, C!DropHash(e, b)
       PROVE StringInv'
  <2>1. /\ pending' \in [Editors -> SUBSET Bots]
        /\ \A d \in Editors : pending[d] \ {b} \subseteq pending'[d]
        BY <1>11, <1>a DEF C!DropHash, StringTypes
  <2> QED
      BY <1>10, <1>11, <2>1 DEF C!DropHash
<1>12. ASSUME NEW b \in Bots, C!TtlEnds(b)
       PROVE StringInv'
       BY <1>10, <1>12, <1>a DEF C!TtlEnds, StringTypes
<1>13. ASSUME NEW e \in Editors, C!EditorDies(e)
       PROVE StringInv'
  <2>1. /\ pending' \in [Editors -> SUBSET Bots]
        /\ \A d \in Editors, b \in Bots :
              b \in pending[d] => b \in pending'[d] \cup missed'
        BY <1>13, <1>a DEF C!EditorDies, StringTypes
  <2>2. C!StaleOnlyByOverlap'
        BY <1>13, <1>a, <2>1
        DEF C!EditorDies, C!StaleOnlyByOverlap, C!Stale, C!MergedStrings
  <2> QED
      BY <1>13, <1>a, <2>1, <2>2
      DEF C!EditorDies, StringInv, StringTypes, ColdIsEmpty, CleanReads, CleanRead,
          C!MergedStrings
<1>14. CASE UNCHANGED stringVars
       BY <1>14, <1>a DEF stringVars, StringInv, StringTypes, CleanReads, CleanRead,
          C!MergedStrings, ColdIsEmpty, C!StaleOnlyByOverlap, C!Stale
<1> QED
    BY <1>1, <1>2, <1>3, <1>5, <1>7, <1>8, <1>9, <1>11, <1>12, <1>13, <1>14
    DEF C!Next, C!Fill

LEMMA StringsRun ==
    [ServicesNext]_serviceVars => [C!Next]_stringVars
BY DEF ServicesNext, serviceVars, OnlyDaily, OnlyBots, OnlyRequests, OnlyBilling

(* Whatever reads, edits, dies or runs out, an old text in a hash is one   *)
(* that an invalidation will drop, or whose reason is on record            *)
(* (i18n/cache.py 29-38, the invalidate calls of the routes).              *)
THEOREM StaleHasAReason == FairSpec => []StaleOnlyByOverlap
<1>1. ServicesInit => StringInv
    BY StringInit DEF ServicesInit
<1>2. StringInv /\ [ServicesNext]_serviceVars => StringInv'
    BY StringsRun, StringNext
<1>3. StringInv => StaleOnlyByOverlap
    BY DEF StringInv, StaleOnlyByOverlap
<1> QED
    BY <1>1, <1>2, <1>3, PTL DEF FairSpec

-----------------------------------------------------------------------------
(* BotRuntime.                                                             *)

UpdateCalls == {"none", "found", "new", "pushed"}
PollStates == {"none", "starting", "polling", "dead"}
BotTypes ==
    /\ held \in [Updates -> {"unsent", "waiting", "answered"}]
    /\ call \in [Updates -> UpdateCalls]
    /\ queue \in Seq(Updates)
    /\ working \subseteq Updates
    /\ poll \in [R!Polled -> PollStates]
    /\ processed \in [Updates -> Nat]

Queued(u) == \E i \in DOMAIN queue : queue[i] = u
QueuedOnce(u) ==
    \A i, j \in DOMAIN queue : queue[i] = u /\ queue[j] = u => i = j

(* The route works for webhooks only; an update whose key is not there has *)
(* not got past the key, and one whose key is there is in one place.       *)
ByWebhook(u) == BotOf[u] \in Webhooks
Unclaimed(u) ==
    call[u] # "new" /\ ~Queued(u) /\ u \notin working /\ processed[u] = 0
InOnePlace(u) ==
    /\ QueuedOnce(u) /\ processed[u] =< 1
    /\ call[u] = "new" => ~Queued(u) /\ u \notin working /\ processed[u] = 0
    /\ Queued(u) => u \notin working /\ processed[u] = 0
    /\ u \in working => processed[u] = 0
PushedOnce(u) ==
    /\ call[u] # "none" \/ Queued(u) \/ u \in working => ByWebhook(u)
    /\ ByWebhook(u) /\ u \notin renewed =>
          (u \notin seen => Unclaimed(u)) /\ InOnePlace(u)

(* An update that a polling task has processed is below its offset for as  *)
(* long as the task polls; when it starts anew, it is answered or renewed. *)
FedOnce(u) ==
    ~ByWebhook(u) /\ u \notin renewed =>
       /\ processed[u] =< 1
       /\ processed[u] = 1 =>
             /\ held[u] # "unsent"
             /\ held[u] = "waiting" /\ BotOf[u] \in R!Polled
                /\ poll[BotOf[u]] = "polling" => u \in handled

BotInv == BotTypes /\ \A u \in Updates : PushedOnce(u) /\ FedOnce(u)

LEMMA BotInit == R!Init => BotInv
<1> SUFFICES ASSUME R!Init PROVE BotInv
    OBVIOUS
<1>1. BotTypes /\ DOMAIN queue = {}
    BY DEF R!Init, BotTypes, UpdateCalls, PollStates
<1> QED
    BY <1>1 DEF R!Init, BotInv, PushedOnce, FedOnce, InOnePlace, Unclaimed,
       Queued, QueuedOnce

(* What one update needs of the state stays when nothing about it changes. *)
LEMMA BotKeeps ==
    ASSUME BotInv, BotTypes', UNCHANGED <<seen, queue, working, processed, held>>,
           renewed \subseteq renewed',
           \A u \in Updates : call'[u] = call[u] \/ call'[u] = "none"
                              \/ (call'[u] = "found" /\ ByWebhook(u)),
           \A b \in R!Polled : poll'[b] = "polling" => poll[b] = "polling",
           \A u \in Updates : u \in handled /\ BotOf[u] \in R!Polled =>
              u \in handled' \/ poll'[BotOf[u]] # "polling"
    PROVE  BotInv'
<1>1. ASSUME NEW u \in Updates PROVE PushedOnce(u)' /\ FedOnce(u)'
    <2>1. PushedOnce(u) /\ FedOnce(u)
        BY DEF BotInv
    <2>2. PushedOnce(u)'
        BY <2>1 DEF PushedOnce, Unclaimed, InOnePlace, Queued, QueuedOnce,
           ByWebhook
    <2>3. FedOnce(u)'
        BY <2>1 DEF FedOnce, ByWebhook
    <2> QED
        BY <2>2, <2>3
<1> QED
    BY <1>1 DEF BotInv

(* An update is given to a handler: only its count can change.             *)
LEMMA FeedCounts ==
    ASSUME BotInv, NEW u \in Updates, R!Feed(u)
    PROVE  /\ processed' \in [Updates -> Nat]
           /\ \A v \in Updates : v # u => processed'[v] = processed[v]
           /\ processed'[u] \in {processed[u], processed[u] + 1}
<1>1. processed \in [Updates -> Nat] /\ processed[u] \in Nat
    BY DEF BotInv, BotTypes
<1>2. processed' = processed
      \/ processed' = [processed EXCEPT ![u] = processed[u] + 1]
    BY DEF R!Feed
<1> QED
    BY <1>1, <1>2

LEMMA BotNext ==
    ASSUME BotInv, [R!Next]_botVars
    PROVE  BotInv'
<1>1. BotTypes /\ \A u \in Updates : PushedOnce(u) /\ FedOnce(u)
    BY DEF BotInv
<1>2. ASSUME NEW u \in Updates, R!Arrive(u) PROVE BotInv'
    <2>1. /\ held[u] = "unsent" /\ held'[u] = "waiting"
          /\ \A v \in Updates : v # u => held'[v] = held[v]
          /\ BotTypes'
        BY <1>1, <1>2 DEF R!Arrive, BotTypes
    <2>2. UNCHANGED <<call, seen, queue, working, poll, handled, processed,
                      renewed>>
        BY <1>2 DEF R!Arrive
    <2>3. ASSUME NEW v \in Updates PROVE PushedOnce(v)' /\ FedOnce(v)'
        <3>1. PushedOnce(v)'
            BY <1>1, <2>2 DEF PushedOnce, Unclaimed, InOnePlace, Queued,
               QueuedOnce, ByWebhook
        <3>2. FedOnce(v) /\ processed[v] \in Nat
            BY <1>1 DEF BotTypes
        <3>3. FedOnce(v)'
            BY <2>1, <2>2, <3>2 DEF FedOnce, ByWebhook
        <3> QED
            BY <3>1, <3>3
    <2> QED
        BY <2>1, <2>3 DEF BotInv
<1>3. ASSUME NEW u \in Updates, R!LookUpBot(u) PROVE BotInv'
    <2>1. BotTypes' /\ call'[u] = "found" /\ ByWebhook(u)
          /\ \A v \in Updates : v # u => call'[v] = call[v]
        BY <1>1, <1>3 DEF R!LookUpBot, BotTypes, UpdateCalls, ByWebhook
    <2> QED
        BY <1>3, <2>1, BotKeeps DEF R!LookUpBot
<1>4. ASSUME NEW u \in Updates, R!MarkUpdateSeen(u) PROVE BotInv'
    <2>1. /\ call[u] = "found" /\ call' \in [Updates -> UpdateCalls]
          /\ held' \in [Updates -> {"unsent", "waiting", "answered"}]
          /\ \A v \in Updates : v # u => call'[v] = call[v] /\ held'[v] = held[v]
          /\ u \in seen => call'[u] = "none" /\ held'[u] = "answered"
          /\ u \notin seen => call'[u] = "new" /\ held'[u] = held[u]
        BY <1>1, <1>4 DEF R!MarkUpdateSeen, BotTypes, UpdateCalls
    <2>2. seen' = seen \cup {u}
          /\ UNCHANGED <<queue, working, poll, handled, processed, renewed>>
        BY <1>4 DEF R!MarkUpdateSeen
    <2>3. ASSUME NEW v \in Updates PROVE PushedOnce(v)' /\ FedOnce(v)'
        <3>1. PushedOnce(v) /\ FedOnce(v)
            BY <1>1
        <3>2. PushedOnce(v)'
            BY <2>1, <2>2, <3>1 DEF PushedOnce, Unclaimed, InOnePlace, Queued,
               QueuedOnce, ByWebhook
        <3>3. FedOnce(v)'
            BY <2>1, <2>2, <3>1 DEF FedOnce, ByWebhook
        <3> QED
            BY <3>2, <3>3
    <2>4. BotTypes'
        BY <1>1, <2>1, <2>2 DEF BotTypes
    <2> QED
        BY <2>3, <2>4 DEF BotInv
<1>5. ASSUME NEW u \in Updates, R!PushUpdate(u) PROVE BotInv'
    <2>1. /\ call[u] = "new" /\ call' \in [Updates -> UpdateCalls]
          /\ call'[u] = "pushed"
          /\ \A v \in Updates : v # u => call'[v] = call[v]
        BY <1>1, <1>5 DEF R!PushUpdate, BotTypes, UpdateCalls
    <2>2. queue' = Append(queue, u)
          /\ UNCHANGED <<held, seen, working, poll, handled, processed, renewed>>
        BY <1>5 DEF R!PushUpdate
    <2>3. /\ queue' \in Seq(Updates) /\ DOMAIN queue' = 1..(Len(queue) + 1)
          /\ queue'[Len(queue) + 1] = u
          /\ \A i \in DOMAIN queue : queue'[i] = queue[i]
          /\ DOMAIN queue = 1..Len(queue) /\ Len(queue) \in Nat
        BY <1>1, <2>2 DEF BotTypes
    <2>4. \A v \in Updates : v # u =>
             (Queued(v)' <=> Queued(v)) /\ (QueuedOnce(v) => QueuedOnce(v)')
        BY <2>3 DEF Queued, QueuedOnce
    <2>5. Queued(u)' /\ (~Queued(u) => QueuedOnce(u)')
        BY <2>3 DEF Queued, QueuedOnce
    <2>6. ASSUME NEW v \in Updates PROVE PushedOnce(v)' /\ FedOnce(v)'
        <3>1. PushedOnce(v) /\ FedOnce(v)
            BY <1>1
        <3>2. CASE v # u
            BY <2>1, <2>2, <2>4, <3>1, <3>2 DEF PushedOnce, Unclaimed,
               InOnePlace, ByWebhook, FedOnce
        <3>3. CASE v = u
            BY <2>1, <2>2, <2>5, <3>1, <3>3 DEF PushedOnce, Unclaimed,
               InOnePlace, ByWebhook, FedOnce
        <3> QED
            BY <3>2, <3>3
    <2>7. BotTypes'
        BY <1>1, <2>1, <2>2, <2>3 DEF BotTypes
    <2> QED
        BY <2>6, <2>7 DEF BotInv
<1>6. ASSUME NEW u \in Updates, R!Respond(u) \/ R!CallFails(u) PROVE BotInv'
    <2>1. /\ call' \in [Updates -> UpdateCalls] /\ call'[u] = "none"
          /\ held' \in [Updates -> {"unsent", "waiting", "answered"}]
          /\ \A v \in Updates : v # u => call'[v] = call[v] /\ held'[v] = held[v]
          /\ held'[u] \in {held[u], "answered"}
        BY <1>1, <1>6 DEF R!Respond, R!CallFails, BotTypes, UpdateCalls
    <2>2. UNCHANGED <<seen, queue, working, poll, handled, processed, renewed>>
        BY <1>6 DEF R!Respond, R!CallFails
    <2>3. ASSUME NEW v \in Updates PROVE PushedOnce(v)' /\ FedOnce(v)'
        <3>1. PushedOnce(v) /\ FedOnce(v)
            BY <1>1
        <3>2. PushedOnce(v)'
            BY <2>1, <2>2, <3>1 DEF PushedOnce, Unclaimed, InOnePlace, Queued,
               QueuedOnce, ByWebhook
        <3>3. FedOnce(v)'
            BY <2>1, <2>2, <3>1 DEF FedOnce, ByWebhook
        <3> QED
            BY <3>2, <3>3
    <2>4. BotTypes'
        BY <1>1, <2>1, <2>2 DEF BotTypes
    <2> QED
        BY <2>3, <2>4 DEF BotInv
\* A key that expires makes its update new.
<1>7. ASSUME NEW u \in Updates, R!SeenExpires(u) PROVE BotInv'
    <2>1. seen' = seen \ {u} /\ renewed' = renewed \cup {u}
          /\ UNCHANGED <<held, call, queue, working, poll, handled, processed>>
        BY <1>7 DEF R!SeenExpires
    <2>2. ASSUME NEW v \in Updates PROVE PushedOnce(v)' /\ FedOnce(v)'
        <3>1. PushedOnce(v) /\ FedOnce(v)
            BY <1>1
        <3> QED
            BY <2>1, <3>1 DEF PushedOnce, Unclaimed, InOnePlace, Queued,
               QueuedOnce, ByWebhook, FedOnce
    <2> QED
        BY <1>1, <2>1, <2>2 DEF BotInv, BotTypes
\* The worker.
<1>8. ASSUME R!PopUpdate PROVE BotInv'
    <2>0. PICK u \in Updates : u = Head(queue)
        BY <1>1, <1>8 DEF R!PopUpdate, BotTypes
    <2>1. /\ working = {} /\ queue # <<>> /\ working' = {u}
          /\ queue' = Tail(queue)
          /\ UNCHANGED <<held, call, seen, poll, handled, processed, renewed>>
        BY <1>8, <2>0 DEF R!PopUpdate
    <2>2. /\ queue' \in Seq(Updates)
          /\ DOMAIN queue' = 1..(Len(queue) - 1) /\ queue[1] = u
          /\ \A i \in DOMAIN queue' : queue'[i] = queue[i + 1]
          /\ DOMAIN queue = 1..Len(queue) /\ Len(queue) \in Nat \ {0}
        BY <1>1, <2>1, <2>0 DEF BotTypes
    <2>3. \A i \in DOMAIN queue' : i \in Nat /\ i + 1 \in DOMAIN queue
        BY <2>2
    <2>4. \A v \in Updates : (Queued(v)' => Queued(v))
                             /\ (QueuedOnce(v) => QueuedOnce(v)')
        BY <2>2, <2>3 DEF Queued, QueuedOnce
    <2>5. Queued(u) /\ (QueuedOnce(u) => ~Queued(u)')
        <3>1. 1 \in DOMAIN queue /\ queue[1] = u
            BY <2>2
        <3>2. ASSUME QueuedOnce(u), NEW i \in DOMAIN queue', queue'[i] = u
              PROVE  FALSE
            <4>1. i >= 1 /\ queue[i + 1] = u /\ i + 1 \in DOMAIN queue
                BY <2>2, <2>3, <3>2
            <4>2. i + 1 = 1
                BY <3>1, <3>2, <4>1 DEF QueuedOnce
            <4> QED
                BY <2>2, <4>1, <4>2
        <3> QED
            BY <3>1, <3>2 DEF Queued
    <2>6. ASSUME NEW v \in Updates PROVE PushedOnce(v)' /\ FedOnce(v)'
        <3>1. PushedOnce(v) /\ FedOnce(v)
            BY <1>1
        <3>2. CASE v # u
            BY <2>1, <2>4, <3>1, <3>2 DEF PushedOnce, Unclaimed, InOnePlace,
               ByWebhook, FedOnce
        <3>3. CASE v = u
            <4>1. FedOnce(v)'
                BY <2>1, <3>1 DEF FedOnce, ByWebhook
            <4>2. ByWebhook(u)
                BY <2>5, <3>1, <3>3 DEF PushedOnce
            <4>3. PushedOnce(v)'
                BY <2>1, <2>4, <2>5, <3>1, <3>3, <4>2 DEF PushedOnce, Unclaimed,
                   InOnePlace, ByWebhook
            <4> QED
                BY <4>1, <4>3
        <3> QED
            BY <3>2, <3>3
    <2>7. BotTypes'
        BY <1>1, <2>1, <2>2 DEF BotTypes
    <2> QED
        BY <2>6, <2>7 DEF BotInv
<1>9. ASSUME R!Process PROVE BotInv'
    <2>1. PICK u \in working : /\ working' = {} /\ R!Feed(u)
                              /\ UNCHANGED <<held, call, seen, queue, poll,
                                            handled, renewed>>
        BY <1>9 DEF R!Process
    <2>2. u \in Updates /\ ByWebhook(u)
        BY <1>1, <2>1 DEF BotTypes, PushedOnce
    <2>3. /\ processed' \in [Updates -> Nat]
          /\ \A v \in Updates : v # u => processed'[v] = processed[v]
          /\ processed'[u] \in {processed[u], processed[u] + 1}
        BY <2>1, <2>2, FeedCounts
    <2>4. ASSUME NEW v \in Updates PROVE PushedOnce(v)' /\ FedOnce(v)'
        <3>1. PushedOnce(v) /\ FedOnce(v)
            BY <1>1
        <3>2. CASE v # u
            BY <2>1, <2>3, <3>1, <3>2 DEF PushedOnce, Unclaimed, InOnePlace,
               ByWebhook, FedOnce, Queued, QueuedOnce
        <3>3. CASE v = u
            <4>1. FedOnce(v)'
                BY <2>2, <3>3 DEF FedOnce, ByWebhook
            <4>2. PushedOnce(v)'
                BY <1>1, <2>1, <2>2, <2>3, <3>1, <3>3 DEF PushedOnce, Unclaimed,
                   InOnePlace, ByWebhook, Queued, QueuedOnce, BotTypes
            <4> QED
                BY <4>1, <4>2
        <3> QED
            BY <3>2, <3>3
    <2>5. BotTypes'
        BY <1>1, <2>1, <2>3 DEF BotTypes
    <2> QED
        BY <2>4, <2>5 DEF BotInv
\* The polling task of a bot, which is no bot of the webhooks.
<1>10. ASSUME NEW b \in R!Polled, R!StartPolling(b) PROVE BotInv'
    <2>1. /\ poll' \in [R!Polled -> PollStates]
          /\ \A c \in R!Polled : c # b => poll'[c] = poll[c]
          /\ poll[b] = "starting"
          /\ UNCHANGED <<call, seen, queue, working, handled, processed>>
        BY <1>1, <1>10 DEF R!StartPolling, BotTypes, PollStates
    <2>2. /\ held' \in [Updates -> {"unsent", "waiting", "answered"}]
          /\ \A v \in Updates : held'[v] \in {held[v], "answered"}
          /\ renewed \subseteq renewed'
          /\ \A v \in Updates : BotOf[v] = b /\ held[v] = "waiting" =>
                held'[v] = "answered" \/ processed[v] = 0 \/ v \in renewed'
        BY <1>1, <1>10 DEF R!StartPolling, BotTypes, R!Ours
    <2>3. ASSUME NEW v \in Updates PROVE PushedOnce(v)' /\ FedOnce(v)'
        <3>1. PushedOnce(v) /\ FedOnce(v) /\ processed[v] \in Nat
            BY <1>1 DEF BotTypes
        <3>2. PushedOnce(v)'
            BY <2>1, <2>2, <3>1 DEF PushedOnce, Unclaimed, InOnePlace, Queued,
               QueuedOnce, ByWebhook
        <3>3. ASSUME BotOf[v] = b PROVE FedOnce(v)'
            BY <2>1, <2>2, <3>1, <3>3 DEF FedOnce, ByWebhook
        <3>4. ASSUME BotOf[v] # b PROVE FedOnce(v)'
            BY <2>1, <2>2, <3>1, <3>4 DEF FedOnce, ByWebhook
        <3> QED
            BY <3>2, <3>3, <3>4
    <2>4. BotTypes'
        BY <1>1, <2>1, <2>2 DEF BotTypes
    <2> QED
        BY <2>3, <2>4 DEF BotInv
<1>11. ASSUME NEW b \in R!Polled, R!PollUpdate(b) PROVE BotInv'
    <2>1. poll[b] = "polling"
          /\ UNCHANGED <<call, seen, queue, working, poll, renewed>>
        BY <1>11 DEF R!PollUpdate
    <2>2. PICK u \in R!Ours(b) :
             /\ held[u] = "waiting" /\ u \notin handled
             /\ held' = [v \in Updates |-> IF v \in R!Ours(b) \cap handled
                                           THEN "answered" ELSE held[v]]
             /\ handled' = handled \cup {u}
             /\ R!Feed(u)
        BY <1>11 DEF R!PollUpdate
    <2>3. u \in Updates /\ BotOf[u] = b /\ ~ByWebhook(u)
        BY <2>2 DEF R!Ours, R!Polled, ByWebhook
    <2>4. /\ processed' \in [Updates -> Nat]
          /\ \A v \in Updates : v # u => processed'[v] = processed[v]
          /\ processed'[u] \in {processed[u], processed[u] + 1}
        BY <2>2, <2>3, FeedCounts
    <2>5. /\ held' \in [Updates -> {"unsent", "waiting", "answered"}]
          /\ \A v \in Updates : held'[v] \in {held[v], "answered"}
          /\ held'[u] = "waiting"
        BY <1>1, <2>2, <2>3 DEF BotTypes
    <2>6. ASSUME NEW v \in Updates PROVE PushedOnce(v)' /\ FedOnce(v)'
        <3>1. PushedOnce(v) /\ FedOnce(v) /\ processed[v] \in Nat
            BY <1>1 DEF BotTypes
        <3>2. CASE v # u
            BY <2>1, <2>2, <2>4, <2>5, <3>1, <3>2 DEF PushedOnce, Unclaimed,
               InOnePlace, ByWebhook, FedOnce, Queued, QueuedOnce
        <3>3. CASE v = u
            <4>1. PushedOnce(v)'
                BY <2>1, <2>3, <3>1, <3>3 DEF PushedOnce, ByWebhook, Queued
            <4>2. u \in renewed \/ processed[u] = 0
                BY <2>1, <2>2, <2>3, <3>1, <3>3 DEF FedOnce
            <4>3. FedOnce(v)'
                BY <2>1, <2>2, <2>4, <2>5, <3>3, <4>2 DEF FedOnce
            <4> QED
                BY <4>1, <4>3
        <3> QED
            BY <3>2, <3>3
    <2>7. BotTypes'
        BY <1>1, <2>1, <2>4, <2>5 DEF BotTypes
    <2> QED
        BY <2>6, <2>7 DEF BotInv
<1>12. ASSUME NEW b \in R!Polled, R!PollDies(b) PROVE BotInv'
    <2>1. /\ poll' \in [R!Polled -> PollStates]
          /\ \A c \in R!Polled : poll'[c] = "polling" => poll[c] = "polling"
        BY <1>1, <1>12 DEF R!PollDies, BotTypes, PollStates
    <2>2. BotTypes'
        BY <1>1, <1>12, <2>1 DEF R!PollDies, BotTypes
    <2> QED
        BY <1>12, <2>1, <2>2, BotKeeps DEF R!PollDies
\* The pools.
<1>13. ASSUME NEW w, NEW old, R!PoolAfter(w, old),
              UNCHANGED <<held, call, seen, queue, working, processed, renewed>>
       PROVE  BotInv'
    <2>1. /\ poll' \in [R!Polled -> PollStates]
          /\ \A c \in R!Polled : poll'[c] = "polling" => poll[c] = "polling"
        BY <1>1, <1>13 DEF R!PoolAfter, BotTypes, PollStates
    <2>2. \A u \in Updates : u \in handled /\ BotOf[u] \in R!Polled =>
             u \in handled' \/ poll'[BotOf[u]] # "polling"
        BY <1>13 DEF R!PoolAfter
    <2>3. BotTypes'
        BY <1>1, <1>13, <2>1 DEF BotTypes
    <2> QED
        BY <1>13, <2>1, <2>2, <2>3, BotKeeps
<1>14. ASSUME NEW w \in R!Workers, R!Reconcile(w) \/ R!WorkerStarts(w)
       PROVE  BotInv'
    BY <1>13, <1>14 DEF R!Reconcile, R!WorkerStarts
<1>15. ASSUME NEW w \in R!Workers, R!WorkerDies(w) PROVE BotInv'
    <2>1. /\ poll' \in [R!Polled -> PollStates]
          /\ \A c \in R!Polled : poll'[c] = "polling" => poll[c] = "polling"
          /\ working' \subseteq working
          /\ UNCHANGED <<held, call, seen, queue, handled, processed, renewed>>
        BY <1>1, <1>15 DEF R!WorkerDies, BotTypes, PollStates
    <2>2. ASSUME NEW v \in Updates PROVE PushedOnce(v)' /\ FedOnce(v)'
        <3>1. PushedOnce(v) /\ FedOnce(v)
            BY <1>1
        <3> QED
            BY <2>1, <3>1 DEF PushedOnce, Unclaimed, InOnePlace, Queued,
               QueuedOnce, ByWebhook, FedOnce
    <2>3. BotTypes'
        BY <1>1, <2>1 DEF BotTypes
    <2> QED
        BY <2>2, <2>3 DEF BotInv
<1>16. ASSUME NEW b, NEW on, R!SetTenantStatus(b, on) PROVE BotInv'
    BY <1>1, <1>16, BotKeeps DEF R!SetTenantStatus, BotTypes
<1>17. CASE UNCHANGED botVars
    BY <1>1, <1>17, BotKeeps DEF botVars, BotTypes
<1> QED
    BY <1>2, <1>3, <1>4, <1>5, <1>6, <1>7, <1>8, <1>9, <1>10, <1>11, <1>12,
       <1>14, <1>15, <1>16, <1>17 DEF R!Next, R!Webhook, R!Consume, R!Poll

LEMMA BotsRun == [ServicesNext]_serviceVars => [R!Next]_botVars
BY DEF ServicesNext, serviceVars, OnlyDaily, OnlyStrings, OnlyRequests,
       OnlyBilling

(* However often Telegram sends an update and whatever dies, it is given to*)
(* a handler once, unless its key expired or a poller that started anew    *)
(* could not drop it (redis_client.py 18-31, bot/reload.py 65-73).         *)
THEOREM ProcessedOnce == FairSpec => []UpdateOnce
<1>1. ServicesInit => BotInv
    BY BotInit DEF ServicesInit
<1>2. BotInv /\ [ServicesNext]_serviceVars => BotInv'
    BY BotsRun, BotNext
<1>3. BotInv => UpdateOnce
    BY DEF BotInv, BotTypes, PushedOnce, FedOnce, InOnePlace, UpdateOnce,
       R!UpdateOnce
<1> QED
    BY <1>1, <1>2, <1>3, PTL DEF FairSpec
=============================================================================
