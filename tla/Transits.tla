------------------------------ MODULE Transits ------------------------------
(***************************************************************************)
(* The forecast of astrology/transits.py for one body and one natal point. *)
(* The sky is sampled once a day; where the signed offset of the body from *)
(* a branch of an aspect is zero at a sample, or changes its sign between  *)
(* two, the aspect becomes exact, and a bisection says when.               *)
(*                                                                         *)
(* The circle has Circle units, a day DayTicks ticks of six hours, and the *)
(* body moves one unit a tick, so that it is exact on a tick; it may turn  *)
(* (retrograde motion).  A bisection of the ticks ends on that tick.       *)
(***************************************************************************)
EXTENDS Integers, Sequences, FiniteSetsExt

CONSTANTS
    Circle,         \* 360 degrees
    DayTicks,       \* GRID_STEP_HOURS, in ticks
    Halvings,       \* BISECTION_ITERS: enough to end on a tick
    Orb,            \* how far from exact an aspect is active
    MinDays, MaxDays, DefaultDays,      \* MIN_, MAX_, DEFAULT_WINDOW_DAYS
    Asked,          \* lengths of the window that are asked for
    Natal,          \* longitudes of the natal point
    MaxTurns        \* bound: turns of the body

VARIABLES
    days,           \* the window
    natal,          \* the longitude of the natal point
    lons,           \* the longitude of the body, tick after tick from as_of
    turns           \* turns of the body

vars == <<days, natal, lons, turns>>

Half == Circle \div 2

\* clamp_window of what is asked for, or of what is no number.
ClampWindow(d) == Max({MinDays, Min({MaxDays, d})})
Windows == {ClampWindow(d) : d \in Asked} \cup {DefaultDays}

Init ==
    /\ days \in Windows
    /\ natal \in Natal
    /\ lons \in {<<l>> : l \in 0..(Circle - 1)}
    /\ turns = 0

\* One day is sampled beyond the window.
LastTick == (days + 1) * DayTicks
WindowEnd == days * DayTicks
Lon(t) == lons[t + 1]

\* ecliptic_longitude at the next tick.
Sky(step) ==
    LET n == Len(lons) IN
    /\ n <= LastTick
    /\ lons' = Append(lons, (lons[n] + step) % Circle)
    /\ turns' = IF n > 1 /\ lons[n - 1] = lons'[n + 1] THEN turns + 1
                ELSE turns
    /\ turns' <= MaxTurns
    /\ UNCHANGED <<days, natal>>

Next == \E step \in {-1, 1} : Sky(step)

Spec == Init /\ [][Next]_vars

-----------------------------------------------------------------------------
\* TRANSIT_ASPECTS
Aspects == {"Conjunction", "Opposition", "Trine", "Square", "Sextile"}
Angle == [Conjunction |-> 0, Opposition |-> Half, Trine |-> Circle \div 3,
          Square |-> Circle \div 4, Sextile |-> Circle \div 6]

\* _branches
Branches(angle) == IF angle \in {0, Half} THEN {angle} ELSE {angle, -angle}

\* _aspect_offset
Fold(angle) == ((angle + Half) % Circle) - Half
Offset(lon, branch) == Fold(lon - natal - branch)

\* _sep180
Abs(i) == IF i < 0 THEN -i ELSE i
Sep180(lon) == Abs(Fold(lon - natal))

\* _bisect: a bracket with a change of sign, halved.
Halve(branch, b) ==
    LET F(t) == Offset(Lon(t), branch)
        mid == (b.lo + b.hi) \div 2
    IN  IF mid \in {b.lo, b.hi} THEN b
        ELSE IF F(b.lo) * F(mid) <= 0 THEN [b EXCEPT !.hi = mid]
        ELSE [b EXCEPT !.lo = mid]

Bisect(branch, t0, t1) ==
    LET bracket[i \in 0..Halvings] ==
            IF i = 0 THEN [lo |-> t0, hi |-> t1] ELSE Halve(branch, bracket[i - 1])
    IN  bracket[Halvings].hi

\* _is_retrograde: six hours later the body is further back.
Retrograde(t) == Fold(Lon(t + 1) - Lon(t)) < 0

(* Seeded fault: the jump of the offset from one half of the circle to the  *)
(* other counts as a change of sign.                                       *)
ExactAt_OverJump(branch, k) ==
    LET t0 == k * DayTicks   t1 == t0 + DayTicks
        f0 == Offset(Lon(t0), branch)   f1 == Offset(Lon(t1), branch)
    IN  IF f0 = 0 THEN {t0}
        ELSE IF f0 * f1 < 0 THEN {Bisect(branch, t0, t1)} ELSE {}

ExactAt(branch, k) ==
    LET t0 == k * DayTicks   t1 == t0 + DayTicks
        f0 == Offset(Lon(t0), branch)   f1 == Offset(Lon(t1), branch)
    IN  IF f0 = 0 THEN {t0}
        ELSE IF f0 * f1 < 0 /\ Abs(f1 - f0) < Half
             THEN {Bisect(branch, t0, t1)}
             ELSE {}

\* _find_hits
Hits ==
    UNION {UNION {{[aspect |-> a, branch |-> b, day |-> k, at |-> t,
                    retrograde |-> Retrograde(t)] :
                      t \in {u \in ExactAt(b, k) : 0 < u /\ u <= WindowEnd}} :
                  b \in Branches(Angle[a]), k \in 0..days} : a \in Aspects}

\* _active_now: the closest aspect within its orb.
OrbOf(a, t) == Abs(Sep180(Lon(t)) - Angle[a])
Active == {a \in Aspects : /\ OrbOf(a, 0) <= Orb
                           /\ \A b \in Aspects : OrbOf(a, 0) <= OrbOf(b, 0)}
Applying(a) == OrbOf(a, 1) < OrbOf(a, 0)
Futures(a) == {h.at : h \in {g \in Hits : g.aspect = a}}
NextExact(a) == IF Futures(a) = {} THEN {} ELSE {Min(Futures(a))}

-----------------------------------------------------------------------------
Sampled == Len(lons) = LastTick + 1
Exact(a, t) == OrbOf(a, t) = 0
Turns(t0, t1) == \E t \in (t0 + 1)..(t1 - 1) : Lon(t - 1) = Lon(t + 1)

(* The forecast: every hit is a moment in the window at which the aspect   *)
(* is exact, and is reported once; every day on which the body does not    *)
(* turn has all its exact moments reported, over the wrap of the circle    *)
(* and on the samples themselves; and an aspect that applies is said to be *)
(* exact when the body gets there, if it goes on for so long               *)
(* (astrology/transits.py 137-223).                                        *)
ForecastIsTrue ==
    Sampled =>
       /\ \A h \in Hits :
             /\ 0 < h.at /\ h.at <= WindowEnd /\ Exact(h.aspect, h.at)
             /\ \A g \in Hits : g.aspect = h.aspect /\ g.at = h.at => g = h
       /\ \A k \in 0..days :
             ~Turns(k * DayTicks, (k + 1) * DayTicks) =>
                \A t \in (k * DayTicks)..((k + 1) * DayTicks - 1) :
                   \A a \in Aspects :
                      0 < t /\ t <= WindowEnd /\ Exact(a, t) =>
                         \E h \in Hits : h.aspect = a /\ h.at = t
       /\ \A a \in Active :
             LET t == OrbOf(a, 0) IN
             /\ Applying(a) /\ t <= WindowEnd
             /\ ~Turns(0, (t \div DayTicks + 1) * DayTicks)
             => NextExact(a) = {t}
=============================================================================
