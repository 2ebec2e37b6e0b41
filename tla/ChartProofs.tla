----------------------------- MODULE ChartProofs -----------------------------
(***************************************************************************)
(* What holds of the calculators: that a forecast holds every exact aspect *)
(* once (Transits), and that what is read off a chart, a cast, a date and  *)
(* a name agrees with itself (HumanDesign, IChing, Almanac).               *)
(*                                                                         *)
(* Tables are used through the few facts the arguments need of them: each  *)
(* gate stands once in the wheel, a channel links two centres, a text of a *)
(* hexagram speaks of the line it stands at.                               *)
(***************************************************************************)
EXTENDS MCPlatform, Sums, FiniteSetTheorems, SequenceTheorems, TLAPS

-----------------------------------------------------------------------------
(* Transits.  Positions on the circle are compared by their differences,   *)
(* which are folded into one turn.                                         *)

Positions == 0..(Circle - 1)

LEMMA Turned ==
    ASSUME NEW x \in Int, NEW q \in {-2, -1, 0, 1, 2}, NEW c \in Nat,
           q * c <= x, x < (q + 1) * c
    PROVE  x % c = x - q * c
OBVIOUS

\* The circle has twelve equal parts.
LEMMA Twelfths ==
    \E c \in Nat : /\ c > 0 /\ Circle = 12 * c /\ F!Half = 6 * c
                   /\ Circle \div 3 = 4 * c /\ Circle \div 4 = 3 * c
                   /\ Circle \div 6 = 2 * c /\ 3 * c > DayTicks
<1>1. PICK c \in Int : Circle = 12 * c
    <2>1. Circle = 12 * (Circle \div 12)
        BY TransitAssumption
    <2> QED
        BY <2>1, TransitAssumption
<1> QED
    BY <1>1, TransitAssumption DEF F!Half

\* What a difference of less than two turns folds into.
Folded(x, y) ==
    /\ y \in (-F!Half)..(F!Half - 1)
    /\ \/ y = x \/ y = x - Circle \/ y = x + Circle
       \/ y = x - 2 * Circle \/ y = x + 2 * Circle

LEMMA FoldFolds ==
    ASSUME NEW x \in (-(2 * Circle))..(2 * Circle)
    PROVE  Folded(x, F!Fold(x))
<1>1. PICK c \in Nat : c > 0 /\ Circle = 12 * c /\ F!Half = 6 * c
    BY Twelfths
<1> DEFINE y == x + F!Half
<1>2. y \in Int /\ -(2 * Circle) < y /\ y < 3 * Circle
    BY <1>1
<1>3. F!Fold(x) = (y % Circle) - F!Half
    BY DEF F!Fold
<1> HIDE DEF y
<1>4. \E q \in {-2, -1, 0, 1, 2} : q * Circle <= y /\ y < (q + 1) * Circle
    BY <1>1, <1>2
<1>5. PICK q \in {-2, -1, 0, 1, 2} : q * Circle <= y /\ y < (q + 1) * Circle
    BY <1>4
<1>6. y % Circle = y - q * Circle
    <2>1. Circle \in Nat
        BY <1>1
    <2> QED
        BY ONLY <1>2, <1>5, <2>1, Turned
<1> QED
    BY <1>1, <1>3, <1>5, <1>6 DEF Folded, y

\* The angle of an aspect, and its branches.
LEMMA Angles ==
    ASSUME NEW a \in F!Aspects
    PROVE  /\ F!Angle[a] \in 0..F!Half /\ F!Angle[a] \in Int
           /\ F!Branches(F!Angle[a])
                = IF F!Angle[a] \in {0, F!Half} THEN {F!Angle[a]}
                  ELSE {F!Angle[a], -F!Angle[a]}
<1>1. PICK c \in Nat : /\ c > 0 /\ Circle = 12 * c /\ F!Half = 6 * c
                       /\ Circle \div 3 = 4 * c /\ Circle \div 4 = 3 * c
                       /\ Circle \div 6 = 2 * c
    BY Twelfths
<1> QED
    BY <1>1 DEF F!Aspects, F!Angle, F!Branches
(* A body is at an aspect exactly when its offset from a branch of it is   *)
(* zero, and from one branch only.                                         *)
LEMMA OffsetFolds ==
    ASSUME x2 \in Positions, NEW l \in Positions, NEW a \in F!Aspects,
           NEW b \in F!Branches(F!Angle[a])
    PROVE  /\ b \in (-F!Half)..F!Half
           /\ Folded(l - x2 - b, F!Offset(l, b))
<1>1. PICK c \in Nat : c > 0 /\ Circle = 12 * c /\ F!Half = 6 * c
    BY Twelfths
<1>2. b \in (-F!Half)..F!Half
    <2>1. b = F!Angle[a] \/ b = -F!Angle[a]
        BY Angles
    <2>2. F!Angle[a] \in 0..F!Half /\ F!Angle[a] \in Int
        BY Angles
    <2> QED
        BY <1>1, <2>1, <2>2
<1>3. l - x2 - b \in (-(2 * Circle))..(2 * Circle)
    BY <1>1, <1>2 DEF Positions
<1> QED
    BY <1>2, <1>3, FoldFolds DEF F!Offset

LEMMA ZeroIsExact ==
    ASSUME x2 \in Positions, NEW l \in Positions, NEW a \in F!Aspects
    PROVE  /\ \A b \in F!Branches(F!Angle[a]) :
                 F!Offset(l, b) = 0 => F!Sep180(l) = F!Angle[a]
           /\ F!Sep180(l) = F!Angle[a] =>
                 \E b \in F!Branches(F!Angle[a]) : F!Offset(l, b) = 0
           /\ \A b, d \in F!Branches(F!Angle[a]) :
                 F!Offset(l, b) = 0 /\ F!Offset(l, d) = 0 => b = d
<1>1. PICK c \in Nat : c > 0 /\ Circle = 12 * c /\ F!Half = 6 * c
    BY Twelfths
<1> DEFINE y == F!Fold(l - x2)
           g == F!Angle[a]
<1>2. Folded(l - x2, y)
    BY <1>1, FoldFolds DEF Positions
<1>3. F!Sep180(l) = IF y < 0 THEN -y ELSE y
    BY DEF F!Sep180, F!Abs
<1>4. /\ g \in 0..F!Half /\ g \in Int
      /\ F!Branches(g) = IF g \in {0, F!Half} THEN {g} ELSE {g, -g}
    BY Angles
<1>5. \A b \in F!Branches(g) : Folded(l - x2 - b, F!Offset(l, b))
    BY OffsetFolds
<1> HIDE DEF y, g
<1>6. ASSUME NEW b \in F!Branches(g), F!Offset(l, b) = 0
      PROVE  F!Sep180(l) = g
    BY <1>1, <1>2, <1>3, <1>4, <1>5, <1>6 DEF Folded, Positions
<1>7. ASSUME F!Sep180(l) = g
      PROVE  \E b \in F!Branches(g) : F!Offset(l, b) = 0
    <2>1. PICK b \in F!Branches(g) : b = y \/ b = y + Circle
        <3>1. y \in (-F!Half)..(F!Half - 1) /\ (y = g \/ y = -g)
            BY <1>1, <1>2, <1>3, <1>7 DEF Folded
        <3>2. CASE y \in F!Branches(g)
            BY <3>2
        <3>3. CASE y \notin F!Branches(g)
            <4>1. y = -g /\ g \in F!Branches(g) /\ g \in {0, F!Half}
                BY <1>1, <1>4, <3>1, <3>3
            <4>2. g = y + Circle
                BY <1>1, <1>4, <3>1, <3>3, <4>1
            <4> QED
                BY <4>1, <4>2
        <3> QED
            BY <3>2, <3>3
    <2>2. F!Offset(l, b) = 0
        BY <1>1, <1>2, <1>4, <1>5, <2>1 DEF Folded, Positions
    <2> QED
        BY <2>2
<1>8. ASSUME NEW b \in F!Branches(g), NEW d \in F!Branches(g),
             F!Offset(l, b) = 0, F!Offset(l, d) = 0
      PROVE  b = d
    BY <1>1, <1>4, <1>5, <1>8 DEF Folded, Positions
<1> QED
    BY <1>6, <1>7, <1>8 DEF g
-----------------------------------------------------------------------------
(* The path of the body: tick after tick it is next to where it was.       *)
Beside(l, m) ==
    \/ m = l + 1 \/ m = l - 1
    \/ l = 0 /\ m = Circle - 1
    \/ l = Circle - 1 /\ m = 0

SkyInv ==
    /\ x1 \in Nat /\ x2 \in Positions
    /\ x3 \in Seq(Positions) /\ x3 # <<>>
    /\ \A i \in 1..(Len(x3) - 1) : Beside(x3[i], x3[i + 1])

LEMMA Ticks ==
    ASSUME SkyInv
    PROVE  /\ \A t \in 0..(Len(x3) - 1) : F!Lon(t) \in Positions
           /\ \A t \in 0..(Len(x3) - 2) : Beside(F!Lon(t), F!Lon(t + 1))
<1>1. ASSUME NEW t \in 0..(Len(x3) - 1) PROVE F!Lon(t) \in Positions
    BY <1>1 DEF SkyInv, F!Lon
<1>2. ASSUME NEW t \in 0..(Len(x3) - 2) PROVE Beside(F!Lon(t), F!Lon(t + 1))
    <2>1. t + 1 \in 1..(Len(x3) - 1)
        BY <1>2 DEF SkyInv
    <2> QED
        BY <2>1 DEF SkyInv, F!Lon
<1> QED
    BY <1>1, <1>2

\* m is where y is, at most once round the circle.
At(m, y) == m = y \/ m = y - Circle \/ m = y + Circle

LEMMA NextAt ==
    ASSUME NEW l \in Positions, NEW m \in Positions, NEW p \in Positions,
           NEW d \in Int, 1 - Circle < d, d < Circle - 1,
           At(m, l + d), Beside(m, p)
    PROVE  \/ p = m + 1 /\ At(p, l + (d + 1))
           \/ p = m - 1 /\ At(p, l + (d - 1))
           \/ m = Circle - 1 /\ p = 0 /\ At(p, l + (d + 1))
           \/ m = 0 /\ p = Circle - 1 /\ At(p, l + (d - 1))
BY TransitAssumption DEF Positions, At, Beside

\* In n ticks the body does not get further than n.
LEMMA Drift ==
    ASSUME SkyInv, NEW t \in Nat, NEW n \in Nat, n < Circle, t + n < Len(x3)
    PROVE  \E d \in (-n)..n : At(F!Lon(t + n), F!Lon(t) + d)
<1> DEFINE Drifts(i) == \E d \in (-i)..i : At(F!Lon(t + i), F!Lon(t) + d)
           bad == {i \in 0..n : ~Drifts(i)}
<1>1. Circle \in Nat /\ Len(x3) \in Nat
    BY TransitAssumption DEF SkyInv
<1>2. CASE bad = {}
    <2>1. n \in 0..n
        OBVIOUS
    <2>2. Drifts(n)
        BY <1>2, <2>1
    <2> QED
        BY <2>2
<1>3. CASE bad # {}
    <2>1. PICK m \in bad : \A i \in bad : m <= i
        <3>1. bad \subseteq Nat
            OBVIOUS
        <3> HIDE DEF bad
        <3> QED
            BY <1>3, <3>1, LeastNumber
    <2>2. m # 0
        <3>1. F!Lon(t) \in Positions
            BY <1>1, Ticks
        <3>2. Drifts(0)
            BY <3>1 DEF At, Positions
        <3> QED
            BY <2>1, <3>2
    <2> DEFINE i == m - 1
    <2>3. i \in Nat /\ i < n /\ m = i + 1 /\ Drifts(i) /\ ~Drifts(i + 1)
        <3> HIDE DEF Drifts
        <3>1. m \in 0..n /\ ~Drifts(m)
            BY <2>1
        <3>2. i \in 0..n /\ m = i + 1 /\ i < n /\ ~(m <= i)
            BY <2>2, <3>1
        <3> QED
            BY <2>1, <3>1, <3>2
    <2> HIDE DEF i, Drifts, bad
    <2>4. /\ F!Lon(t) \in Positions /\ F!Lon(t + i) \in Positions
          /\ F!Lon(t + (i + 1)) \in Positions
          /\ Beside(F!Lon(t + i), F!Lon(t + (i + 1)))
        <3>1. t \in 0..(Len(x3) - 1) /\ t + i \in 0..(Len(x3) - 2)
              /\ t + i \in 0..(Len(x3) - 1)
              /\ t + (i + 1) \in 0..(Len(x3) - 1) /\ (t + i) + 1 = t + (i + 1)
            BY <1>1, <2>3
        <3> QED
            BY <3>1, Ticks
    <2>5. PICK d \in (-i)..i : At(F!Lon(t + i), F!Lon(t) + d)
        BY <2>3 DEF Drifts
    <2>6. \/ At(F!Lon(t + (i + 1)), F!Lon(t) + (d + 1))
          \/ At(F!Lon(t + (i + 1)), F!Lon(t) + (d - 1))
        <3>1. 1 - Circle < d /\ d < Circle - 1 /\ d \in Int
            BY <1>1, <2>3, <2>5
        <3> QED
            BY <2>4, <2>5, <3>1, NextAt
    <2>7. d + 1 \in (-(i + 1))..(i + 1) /\ d - 1 \in (-(i + 1))..(i + 1)
        BY <2>3, <2>5
    <2> QED
        BY <2>3, <2>6, <2>7 DEF Drifts
<1> QED
    BY <1>2, <1>3
-----------------------------------------------------------------------------
(* The bisection.                                                          *)
LEMMA OffsetMoves ==
    ASSUME x2 \in Positions, NEW a \in F!Aspects,
           NEW b \in F!Branches(F!Angle[a]),
           NEW l \in Positions, NEW m \in Positions,
           NEW d \in (1 - Circle)..(Circle - 1), At(m, l + d)
    PROVE  /\ F!Offset(l, b) \in (-F!Half)..(F!Half - 1)
           /\ F!Offset(m, b) \in (-F!Half)..(F!Half - 1)
           /\ At(F!Offset(m, b), F!Offset(l, b) + d)
<1>1. PICK c \in Nat : c > 0 /\ Circle = 12 * c /\ F!Half = 6 * c
    BY Twelfths
<1>2. /\ b \in (-F!Half)..F!Half
      /\ Folded(l - x2 - b, F!Offset(l, b)) /\ Folded(m - x2 - b, F!Offset(m, b))
    BY OffsetFolds
<1> QED
    BY <1>1, <1>2 DEF Folded, At, Positions

Opposed(x, y) == (x > 0 /\ y <= 0) \/ (x < 0 /\ y >= 0)

LEMMA Signs ==
    ASSUME NEW x \in Int, NEW y \in Int
    PROVE  /\ x # 0 => (x * y <= 0 <=> Opposed(x, y))
           /\ x * y < 0 <=> (x > 0 /\ y < 0) \/ (x < 0 /\ y > 0)
<1>1. CASE x = 0
    BY <1>1
<1>2. CASE x > 0
    <2>1. (y > 0 => x * y > 0) /\ (y < 0 => x * y < 0) /\ (y = 0 => x * y = 0)
        BY <1>2
    <2> QED
        BY <1>2, <2>1 DEF Opposed
<1>3. CASE x < 0
    <2>1. (y > 0 => x * y < 0) /\ (y < 0 => x * y > 0) /\ (y = 0 => x * y = 0)
        BY <1>3
    <2> QED
        BY <1>3, <2>1 DEF Opposed
<1> QED
    BY <1>1, <1>2, <1>3

\* Ticks of a day on which the offset changes its sign.
Changes(b, t) ==
    LET f == F!Offset(F!Lon(t), b)
        g == F!Offset(F!Lon(t + DayTicks), b)
    IN  f * g < 0 /\ F!Abs(g - f) < F!Half

\* On such a day the offset does not jump round the circle.
LEMMA NoJump ==
    ASSUME SkyInv, NEW a \in F!Aspects, NEW b \in F!Branches(F!Angle[a]),
           NEW t \in Nat, t + DayTicks < Len(x3), Changes(b, t),
           NEW n \in 0..DayTicks
    PROVE  /\ F!Offset(F!Lon(t + n), b) \in Int
           /\ 1 - F!Half < F!Offset(F!Lon(t + n), b)
           /\ F!Offset(F!Lon(t + n), b) < F!Half - 1
<1>1. PICK c \in Nat : /\ c > 0 /\ Circle = 12 * c /\ F!Half = 6 * c
                       /\ DayTicks < 3 * c
    BY Twelfths
<1>2. /\ DayTicks \in Nat /\ n \in Nat /\ n <= DayTicks /\ DayTicks < Circle
      /\ Len(x3) \in Nat /\ n < Circle /\ t + n < Len(x3)
    BY <1>1, TransitAssumption DEF SkyInv
<1>3. /\ F!Lon(t) \in Positions /\ F!Lon(t + n) \in Positions
      /\ F!Lon(t + DayTicks) \in Positions
    <2>1. /\ t \in 0..(Len(x3) - 1) /\ t + n \in 0..(Len(x3) - 1)
          /\ t + DayTicks \in 0..(Len(x3) - 1)
        BY <1>2
    <2> QED
        BY <2>1, Ticks
<1> DEFINE f == F!Offset(F!Lon(t), b)
           g == F!Offset(F!Lon(t + DayTicks), b)
           h == F!Offset(F!Lon(t + n), b)
<1>4. PICK d \in (-DayTicks)..DayTicks : At(F!Lon(t + DayTicks), F!Lon(t) + d)
    BY <1>2, Drift
<1>5. PICK e \in (-n)..n : At(F!Lon(t + n), F!Lon(t) + e)
    BY <1>2, Drift
<1>6. d \in (1 - Circle)..(Circle - 1) /\ e \in (1 - Circle)..(Circle - 1)
    BY <1>1, <1>2
<1>7. /\ f \in (-F!Half)..(F!Half - 1) /\ g \in (-F!Half)..(F!Half - 1)
      /\ At(g, f + d)
    BY <1>3, <1>4, <1>6, OffsetMoves DEF SkyInv
<1>8. h \in (-F!Half)..(F!Half - 1) /\ At(h, f + e)
    BY <1>3, <1>5, <1>6, OffsetMoves DEF SkyInv
<1>9. f * g < 0 /\ F!Abs(g - f) < F!Half
    BY DEF Changes
<1> HIDE DEF f, g, h
<1>10. (f > 0 /\ g < 0) \/ (f < 0 /\ g > 0)
    BY <1>1, <1>7, <1>9, Signs
<1>11. 1 - F!Half < h /\ h < F!Half - 1
    BY <1>1, <1>2, <1>7, <1>8, <1>9, <1>10 DEF At, F!Abs
<1> QED
    BY <1>1, <1>8, <1>11 DEF h
\* A step that stays within a set can be taken any number of times.
Repeats(f, X, g, x, n) ==
    /\ f \in [0..n -> X]
    /\ \A i \in 0..n : f[i] = IF i = 0 THEN x ELSE g[f[i - 1]]

LEMMA Repeatable ==
    ASSUME NEW X, NEW g \in [X -> X], NEW x \in X, NEW n \in Nat
    PROVE  \E f : Repeats(f, X, g, x, n)
<1> USE DEF Repeats
<1> DEFINE Good(k) == \E f : Repeats(f, X, g, x, k)
           bad == {k \in Nat : ~Good(k)}
<1>1. CASE bad = {}
    BY <1>1
<1>2. CASE bad # {}
    <2>1. PICK m \in bad : \A i \in bad : m <= i
        <3>1. bad \subseteq Nat
            OBVIOUS
        <3> HIDE DEF bad
        <3> QED
            BY <1>2, <3>1, LeastNumber
    <2>2. m \in Nat /\ ~Good(m)
        BY <2>1
    <2>3. m # 0
        <3> DEFINE f == [i \in 0..0 |-> x]
        <3>1. Repeats(f, X, g, x, 0)
            OBVIOUS
        <3>2. Good(0)
            BY <3>1
        <3> QED
            BY <2>2, <3>2
    <2> DEFINE k == m - 1
    <2>4. k \in Nat /\ m = k + 1 /\ Good(k)
        <3> HIDE DEF Good
        <3>1. k \in Nat /\ m = k + 1 /\ ~(m <= k)
            BY <2>2, <2>3
        <3> QED
            BY <2>1, <3>1
    <2>5. PICK f : Repeats(f, X, g, x, k)
        BY <2>4
    <2> HIDE DEF k
    <2> DEFINE h == [i \in 0..m |-> IF i = m THEN g[f[k]] ELSE f[i]]
    <2>6. h \in [0..m -> X]
        BY <2>4, <2>5
    <2>7. ASSUME NEW i \in 0..m
          PROVE  h[i] = IF i = 0 THEN x ELSE g[h[i - 1]]
        <3>1. CASE i = 0
            BY <2>4, <2>5, <3>1
        <3>2. CASE i # 0 /\ i # m
            BY <2>4, <2>5, <3>2
        <3>3. CASE i = m
            BY <2>4, <2>5, <3>3
        <3> QED
            BY <3>1, <3>2, <3>3
    <2> HIDE DEF h
    <2> QED
        BY <2>2, <2>6, <2>7
<1> QED
    BY <1>1, <1>2

\* A bracket within a day: the offset has not crossed zero at its low end and
\* has at its high end.
Brackets(b, t) ==
    {r \in [lo : t..(t + DayTicks), hi : t..(t + DayTicks)] :
        r.lo < r.hi /\ Opposed(F!Offset(F!Lon(r.lo), b), F!Offset(F!Lon(r.hi), b))}

Width(r) == r.hi - r.lo

LEMMA Halves ==
    ASSUME NEW b, NEW t \in Nat, NEW r \in Brackets(b, t),
           \A u \in t..(t + DayTicks) : F!Offset(F!Lon(u), b) \in Int
    PROVE  /\ F!Halve(b, r) \in Brackets(b, t)
           /\ 2 * Width(F!Halve(b, r)) <= Width(r) + 1
<1> DEFINE f(u) == F!Offset(F!Lon(u), b)
           mid == (r.lo + r.hi) \div 2
<1>1. /\ r.lo \in Nat /\ r.hi \in Nat /\ r.lo < r.hi
      /\ t <= r.lo /\ r.hi <= t + DayTicks /\ DayTicks \in Nat
      /\ Opposed(f(r.lo), f(r.hi))
      /\ r \in [lo : t..(t + DayTicks), hi : t..(t + DayTicks)]
    BY TransitAssumption DEF Brackets
<1>2. /\ mid \in Nat /\ r.lo <= mid /\ mid < r.hi
      /\ 2 * mid <= r.lo + r.hi /\ r.lo + r.hi <= 2 * mid + 1
    BY <1>1
<1>3. F!Halve(b, r) = IF mid = r.lo \/ mid = r.hi THEN r
                      ELSE IF f(r.lo) * f(mid) <= 0 THEN [r EXCEPT !.hi = mid]
                      ELSE [r EXCEPT !.lo = mid]
    BY DEF F!Halve
<1>4. mid \in t..(t + DayTicks)
    <2> HIDE DEF mid
    <2> QED
        BY <1>1, <1>2
<1>5. f(r.lo) \in Int /\ f(r.hi) \in Int /\ f(mid) \in Int
    BY <1>1, <1>4
<1> HIDE DEF f, mid
<1>6. CASE mid = r.lo
    BY <1>1, <1>2, <1>3, <1>6 DEF Width
<1>7. CASE mid # r.lo /\ f(r.lo) * f(mid) <= 0
    <2>1. F!Halve(b, r) = [r EXCEPT !.hi = mid]
        BY <1>1, <1>2, <1>3, <1>7
    <2>2. Opposed(f(r.lo), f(mid))
        BY <1>1, <1>5, <1>7, Signs DEF Opposed
    <2> DEFINE h == [r EXCEPT !.hi = mid]
    <2>3. /\ h \in [lo : t..(t + DayTicks), hi : t..(t + DayTicks)]
          /\ h.hi = mid /\ h.lo = r.lo
        BY <1>1, <1>4
    <2>4. h \in Brackets(b, t)
        <3> HIDE DEF h
        <3> QED
            BY <1>1, <1>2, <1>7, <2>2, <2>3 DEF Brackets, f
    <2> QED
        BY <1>1, <1>2, <2>1, <2>3, <2>4 DEF Width
<1>8. CASE mid # r.lo /\ ~(f(r.lo) * f(mid) <= 0)
    <2>1. F!Halve(b, r) = [r EXCEPT !.lo = mid]
        BY <1>1, <1>2, <1>3, <1>8
    <2>2. Opposed(f(mid), f(r.hi))
        BY <1>1, <1>5, <1>8, Signs DEF Opposed
    <2> DEFINE h == [r EXCEPT !.lo = mid]
    <2>3. /\ h \in [lo : t..(t + DayTicks), hi : t..(t + DayTicks)]
          /\ h.lo = mid /\ h.hi = r.hi
        BY <1>1, <1>4
    <2>4. h \in Brackets(b, t)
        <3> HIDE DEF h
        <3> QED
            BY <1>1, <1>2, <1>8, <2>2, <2>3 DEF Brackets, f
    <2> QED
        BY <1>1, <1>2, <2>1, <2>3, <2>4 DEF Width
<1> QED
    BY <1>6, <1>7, <1>8
LEMMA BisectFinds ==
    ASSUME SkyInv, NEW a \in F!Aspects, NEW b \in F!Branches(F!Angle[a]),
           NEW t \in Nat, t + DayTicks < Len(x3), Changes(b, t)
    PROVE  /\ F!Bisect(b, t, t + DayTicks) \in (t + 1)..(t + DayTicks - 1)
           /\ F!Offset(F!Lon(F!Bisect(b, t, t + DayTicks)), b) = 0
<1> DEFINE f(u) == F!Offset(F!Lon(u), b)
           X == Brackets(b, t)
           start == [lo |-> t, hi |-> t + DayTicks]
           g == [r \in X |-> F!Halve(b, r)]
           Is(it) == it = [i \in 0..Halvings |->
                             IF i = 0 THEN start ELSE F!Halve(b, it[i - 1])]
           it == CHOOSE h : Is(h)
<1>1. DayTicks \in Nat \ {0} /\ Halvings \in Nat
    BY TransitAssumption
<1>2. ASSUME NEW u \in t..(t + DayTicks)
      PROVE  f(u) \in Int /\ 1 - F!Half < f(u) /\ f(u) < F!Half - 1
    <2>1. u - t \in 0..DayTicks /\ t + (u - t) = u
        BY <1>1, <1>2
    <2> QED
        BY <2>1, NoJump
<1>3. /\ start \in X
      /\ f(t) # 0 /\ f(t + DayTicks) # 0
    <2>1. t \in t..(t + DayTicks) /\ t + DayTicks \in t..(t + DayTicks)
          /\ t < t + DayTicks
        BY <1>1
    <2>2. f(t) \in Int /\ f(t + DayTicks) \in Int /\ f(t) * f(t + DayTicks) < 0
        BY <1>2, <2>1 DEF Changes
    <2> HIDE DEF f
    <2>3. /\ Opposed(f(t), f(t + DayTicks))
          /\ f(t) # 0 /\ f(t + DayTicks) # 0
        BY <2>2, Signs DEF Opposed
    <2> QED
        BY <2>1, <2>3 DEF Brackets, f
<1>4. \A r \in X : F!Halve(b, r) \in X /\ 2 * Width(F!Halve(b, r)) <= Width(r) + 1
    BY <1>2, Halves
<1>a. ASSUME NEW r \in X
      PROVE  /\ r.lo \in Nat /\ r.hi \in Nat /\ r.lo < r.hi
             /\ t <= r.lo /\ r.hi <= t + DayTicks
             /\ Opposed(f(r.lo), f(r.hi))
             /\ Width(r) = r.hi - r.lo /\ Width(r) \in Int
    BY <1>1, <1>a DEF Brackets, Width
<1> HIDE DEF X, start, f
<1>5. PICK h \in [0..Halvings -> X] : Is(h)
    <2>1. g \in [X -> X]
        BY <1>4
    <2>2. PICK h : Repeats(h, X, g, start, Halvings)
        <3> HIDE DEF g
        <3> QED
            BY <1>1, <1>3, <2>1, Repeatable
    <2>3. ASSUME NEW i \in 0..Halvings, i # 0 PROVE g[h[i - 1]] = F!Halve(b, h[i - 1])
        <3>1. i - 1 \in 0..Halvings
            BY <1>1, <2>3
        <3> QED
            BY <2>2, <3>1 DEF Repeats
    <2> HIDE DEF g
    <2>5. h = [i \in 0..Halvings |-> h[i]]
        BY <2>2 DEF Repeats
    <2>4. Is(h)
        BY <2>2, <2>3, <2>5 DEF Repeats
    <2> QED
        BY <2>2, <2>4 DEF Repeats
<1>6. Is(it)
    BY <1>5
<1>7. F!Bisect(b, t, t + DayTicks) = it[Halvings].hi
    BY DEF F!Bisect, start
<1> HIDE DEF it
<1>8. /\ it[0] = start
      /\ \A i \in 1..Halvings : it[i] = F!Halve(b, it[i - 1])
    BY <1>1, <1>6
<1> HIDE DEF Is
<1>9. PICK left \in [0..Halvings -> 1..DayTicks] :
         /\ left[0] = DayTicks /\ left[Halvings] = 1
         /\ \A i \in 1..Halvings : left[i - 1] <= 2 * left[i]
    BY TransitAssumption
<1> DEFINE Good(i) == it[i] \in X /\ Width(it[i]) <= left[i]
           bad == {i \in 0..Halvings : ~Good(i)}
<1>10. Good(Halvings)
    <2>1. CASE bad = {}
        BY <1>1, <2>1
    <2>2. CASE bad # {}
        <3>1. PICK m \in bad : \A i \in bad : m <= i
            <4>1. bad \subseteq Nat
                OBVIOUS
            <4> HIDE DEF bad
            <4> QED
                BY <2>2, <4>1, LeastNumber
        <3>2. m \in 0..Halvings /\ ~Good(m)
            BY <3>1
        <3>3. Good(0)
            BY <1>1, <1>3, <1>8, <1>9 DEF Width, start
        <3> DEFINE i == m - 1
        <3>4. i \in 0..Halvings /\ m \in 1..Halvings /\ Good(i)
            <4> HIDE DEF Good
            <4>1. m # 0
                BY <3>2, <3>3
            <4>2. i \in 0..Halvings /\ m \in 1..Halvings /\ ~(m <= i)
                BY <1>1, <3>2, <4>1
            <4> QED
                BY <3>1, <4>2
        <3>5. it[m] = F!Halve(b, it[i]) /\ left[i] <= 2 * left[m]
            BY <1>8, <1>9, <3>4
        <3>6. it[m] \in X /\ 2 * Width(it[m]) <= Width(it[i]) + 1
            BY <1>4, <3>4, <3>5
        <3>7. /\ Width(it[m]) \in Int /\ Width(it[i]) \in Int
              /\ left[m] \in Int /\ left[i] \in Int
            <4>1. it[i] \in X /\ m \in 0..Halvings
                BY <1>1, <3>4
            <4>2. left[m] \in 1..DayTicks /\ left[i] \in 1..DayTicks
                BY <1>9, <3>4, <4>1
            <4> HIDE DEF i
            <4>3. Width(it[m]) \in Int /\ Width(it[i]) \in Int
                BY <1>a, <3>6, <4>1
            <4> QED
                BY <1>1, <4>2, <4>3
        <3>8. Width(it[i]) <= left[i]
            BY <3>4
        <3> HIDE DEF Good, i
        <3>9. Width(it[m]) <= left[m]
            BY <3>5, <3>6, <3>7, <3>8
        <3>10. Good(m)
            BY <3>6, <3>9 DEF Good
        <3> QED
            BY <3>2, <3>10
    <2> QED
        BY <2>1, <2>2
<1> DEFINE r == it[Halvings]
<1>11. /\ r.lo \in Nat /\ r.hi = r.lo + 1 /\ t <= r.lo /\ r.hi <= t + DayTicks
       /\ Opposed(f(r.lo), f(r.hi))
    <2>1. r \in X /\ Width(r) <= 1
        BY <1>9, <1>10
    <2> HIDE DEF r
    <2> QED
        BY <1>a, <2>1
<1> HIDE DEF r
<1>12. Beside(F!Lon(r.lo), F!Lon(r.hi))
    <2>1. r.lo \in 0..(Len(x3) - 2)
        BY <1>1, <1>11 DEF SkyInv
    <2> QED
        BY <1>11, <2>1, Ticks
<1>13. f(r.hi) = 0
    <2>2. F!Lon(r.lo) \in Positions /\ F!Lon(r.hi) \in Positions
        <3>1. r.lo \in 0..(Len(x3) - 1) /\ r.hi \in 0..(Len(x3) - 1)
            BY <1>1, <1>11 DEF SkyInv
        <3> QED
            BY <3>1, Ticks
    <2>1. PICK d \in {-1, 1} : At(F!Lon(r.hi), F!Lon(r.lo) + d)
        <3>1. \/ At(F!Lon(r.hi), F!Lon(r.lo) + 1)
              \/ At(F!Lon(r.hi), F!Lon(r.lo) + (-1))
            <4> DEFINE l == F!Lon(r.lo)
                       m == F!Lon(r.hi)
            <4>1. l \in Int /\ m \in Int /\ Circle \in Int /\ Beside(l, m)
                BY <1>12, <2>2, TransitAssumption DEF Positions
            <4> HIDE DEF l, m
            <4>2. At(m, l + 1) \/ At(m, l + (-1))
                BY <4>1 DEF At, Beside
            <4> QED
                BY <4>2 DEF l, m
        <3> QED
            BY <3>1
    <2>3. d \in (1 - Circle)..(Circle - 1)
        BY <2>1, TransitAssumption
    <2>4. /\ f(r.lo) \in (-F!Half)..(F!Half - 1) /\ f(r.hi) \in (-F!Half)..(F!Half - 1)
          /\ At(f(r.hi), f(r.lo) + d)
        BY <2>1, <2>2, <2>3, OffsetMoves DEF SkyInv, f
    <2>5. /\ 1 - F!Half < f(r.lo) /\ f(r.lo) < F!Half - 1
          /\ 1 - F!Half < f(r.hi) /\ f(r.hi) < F!Half - 1
        <3>1. r.lo \in t..(t + DayTicks) /\ r.hi \in t..(t + DayTicks)
            BY <1>1, <1>11
        <3> QED
            BY <1>2, <3>1
    <2>6. PICK c \in Nat : c > 0 /\ Circle = 12 * c /\ F!Half = 6 * c
        BY Twelfths
    <2> DEFINE x == f(r.lo)  y == f(r.hi)
    <2>7. /\ x \in Int /\ y \in Int /\ At(y, x + d) /\ Opposed(x, y)
          /\ 1 - F!Half < x /\ x < F!Half - 1
          /\ 1 - F!Half < y /\ y < F!Half - 1
        BY <1>11, <2>4, <2>5, <2>6
    <2> HIDE DEF f, x, y
    <2>8. y = x + d
        BY ONLY <2>1, <2>6, <2>7 DEF At
    <2>9. y = 0
        BY ONLY <2>1, <2>7, <2>8 DEF Opposed
    <2> QED
        BY <2>9 DEF y
<1>14. r.hi # t + DayTicks
    BY <1>3, <1>13
<1> QED
    <2>1. r.hi \in (t + 1)..(t + DayTicks - 1)
        <3> DEFINE low == r.lo  high == r.hi
        <3>1. /\ t \in Nat /\ low \in Nat /\ DayTicks \in Nat
              /\ high = low + 1 /\ t <= low
              /\ high <= t + DayTicks /\ high # t + DayTicks
            BY <1>1, <1>11, <1>14
        <3> HIDE DEF low, high
        <3>2. high \in (t + 1)..(t + DayTicks - 1)
            BY ONLY <3>1
        <3> QED
            BY <3>2 DEF high
    <2> QED
        BY <1>7, <1>13, <2>1 DEF r, f
-----------------------------------------------------------------------------
(* The hits.                                                               *)
LEMMA HitsAre ==
    ASSUME NEW h
    PROVE  h \in F!Hits <=>
             \E a \in F!Aspects : \E b \in F!Branches(F!Angle[a]), k \in 0..x1 :
                \E t \in F!ExactAt(b, k) :
                   /\ 0 < t /\ t <= F!WindowEnd
                   /\ h = [aspect |-> a, branch |-> b, day |-> k, at |-> t,
                           retrograde |-> F!Retrograde(t)]
<1> DEFINE rec(a, b, k, t) == [aspect |-> a, branch |-> b, day |-> k, at |-> t,
                               retrograde |-> F!Retrograde(t)]
           within(b, k) == {u \in F!ExactAt(b, k) : 0 < u /\ u <= F!WindowEnd}
           of(a, b, k) == {rec(a, b, k, t) : t \in within(b, k)}
           all(a) == {of(a, b, k) : b \in F!Branches(F!Angle[a]), k \in 0..x1}
<1>1. F!Hits = UNION {UNION all(a) : a \in F!Aspects}
    BY DEF F!Hits
<1> HIDE DEF rec
<1>2. ASSUME NEW a, NEW b, NEW k
      PROVE  h \in of(a, b, k) <=>
               \E t \in F!ExactAt(b, k) :
                  0 < t /\ t <= F!WindowEnd /\ h = rec(a, b, k, t)
    OBVIOUS
<1> HIDE DEF of
<1>3. ASSUME NEW a
      PROVE  h \in UNION all(a) <=>
               \E b \in F!Branches(F!Angle[a]), k \in 0..x1 : h \in of(a, b, k)
    OBVIOUS
<1> HIDE DEF all
<1>4. h \in F!Hits <=> \E a \in F!Aspects : h \in UNION all(a)
    BY <1>1
<1> QED
    BY <1>2, <1>3, <1>4 DEF rec

\* The ticks of a day.
LEMMA Daily ==
    ASSUME SkyInv, F!Sampled, NEW k \in 0..x1
    PROVE  /\ k * DayTicks \in Nat /\ k \in Nat
           /\ (k + 1) * DayTicks = k * DayTicks + DayTicks
           /\ k * DayTicks + DayTicks < Len(x3)
           /\ F!WindowEnd \in Nat /\ F!WindowEnd + DayTicks < Len(x3)
<1> DEFINE n == k * DayTicks
           w == x1 * DayTicks
           z == x1 - k
<1>1. /\ DayTicks \in Nat \ {0} /\ x1 \in Nat /\ k \in Nat /\ z \in Nat
      /\ Len(x3) = (x1 + 1) * DayTicks + 1
    BY TransitAssumption DEF SkyInv, F!Sampled, F!LastTick
<1>2. n \in Nat /\ w \in Nat /\ z * DayTicks \in Nat
    BY <1>1
<1>3. (k + 1) * DayTicks = n + DayTicks /\ (x1 + 1) * DayTicks = w + DayTicks
    BY <1>1
<1>4. w = n + z * DayTicks
    <2>1. x1 = k + z
        BY <1>1
    <2> HIDE DEF z
    <2> QED
        BY <1>1, <2>1
<1>5. F!WindowEnd = w
    BY DEF F!WindowEnd
<1> HIDE DEF n, w
<1> QED
    BY <1>1, <1>2, <1>3, <1>4, <1>5 DEF n

LEMMA OneDay ==
    ASSUME NEW k \in Nat, NEW j \in Nat, NEW i \in Nat, NEW l \in Nat,
           i < DayTicks, l < DayTicks, k * DayTicks + i = j * DayTicks + l
    PROVE  k = j
<1>1. DayTicks \in Nat \ {0}
    BY TransitAssumption
<1>2. ASSUME NEW m \in Nat, NEW n \in Nat, m < n
      PROVE  m * DayTicks + DayTicks <= n * DayTicks
    <2> DEFINE z == n - m - 1
    <2>1. z \in Nat /\ n = m + z + 1
        BY <1>2
    <2> HIDE DEF z
    <2>2. n * DayTicks = m * DayTicks + z * DayTicks + DayTicks
        BY <1>1, <2>1
    <2>3. z * DayTicks \in Nat /\ m * DayTicks \in Nat
        BY <1>1, <2>1
    <2> QED
        BY <1>1, <2>2, <2>3
<1> DEFINE p == k * DayTicks
           q == j * DayTicks
<1>3. p \in Nat /\ q \in Nat /\ p + i = q + l
    BY <1>1
<1>4. (k < j => p + DayTicks <= q) /\ (j < k => q + DayTicks <= p)
    BY <1>2
<1> HIDE DEF p, q
<1> QED
    BY <1>1, <1>3, <1>4

LEMMA ExactWithin ==
    ASSUME SkyInv, F!Sampled, NEW a \in F!Aspects,
           NEW b \in F!Branches(F!Angle[a]), NEW k \in 0..x1,
           NEW t \in F!ExactAt(b, k)
    PROVE  /\ t - k * DayTicks \in 0..(DayTicks - 1)
           /\ t \in 0..(Len(x3) - 1) /\ F!Offset(F!Lon(t), b) = 0
<1> DEFINE n == k * DayTicks
<1>1. n \in Nat /\ n + DayTicks < Len(x3) /\ Len(x3) \in Nat
    BY Daily DEF SkyInv
<1>2. DayTicks \in Nat \ {0}
    BY TransitAssumption
<1>3. \/ t = n /\ F!Offset(F!Lon(n), b) = 0
      \/ t = F!Bisect(b, n, n + DayTicks) /\ Changes(b, n)
    BY DEF F!ExactAt, Changes
<1> HIDE DEF n
<1>4. CASE t = n /\ F!Offset(F!Lon(n), b) = 0
    BY <1>1, <1>2, <1>4 DEF n
<1>5. CASE t = F!Bisect(b, n, n + DayTicks) /\ Changes(b, n)
    <2>1. t \in (n + 1)..(n + DayTicks - 1) /\ F!Offset(F!Lon(t), b) = 0
        BY <1>1, <1>5, BisectFinds
    <2> QED
        BY <1>1, <1>2, <2>1 DEF n
<1> QED
    BY <1>3, <1>4, <1>5

\* Every hit is a moment in the window at which the aspect is exact.
LEMMA HitsAreExact ==
    ASSUME SkyInv, F!Sampled, NEW h \in F!Hits
    PROVE  /\ 0 < h.at /\ h.at <= F!WindowEnd /\ F!Exact(h.aspect, h.at)
           /\ h.at \in Nat
<1> DEFINE Hit(a, b, k, t) ==
              /\ 0 < t /\ t <= F!WindowEnd
              /\ h = [aspect |-> a, branch |-> b, day |-> k, at |-> t,
                     retrograde |-> F!Retrograde(t)]
<1>6. PICK a \in F!Aspects : \E b \in F!Branches(F!Angle[a]), k \in 0..x1 :
             \E t \in F!ExactAt(b, k) : Hit(a, b, k, t)
    BY HitsAre
<1>7. PICK b \in F!Branches(F!Angle[a]), k \in 0..x1 :
             \E t \in F!ExactAt(b, k) : Hit(a, b, k, t)
    BY <1>6
<1>8. PICK t \in F!ExactAt(b, k) : Hit(a, b, k, t)
    BY <1>7
<1>1. 0 < t /\ t <= F!WindowEnd /\ h.aspect = a /\ h.at = t
    BY <1>8
<1>2. t \in 0..(Len(x3) - 1) /\ F!Offset(F!Lon(t), b) = 0
    BY ExactWithin
<1>3. F!Lon(t) \in Positions
    BY <1>2, Ticks
<1>4. F!Sep180(F!Lon(t)) = F!Angle[a] /\ F!Angle[a] \in Int
    BY <1>2, <1>3, ZeroIsExact, Angles DEF SkyInv
<1>5. F!Exact(a, t)
    BY <1>4 DEF F!Exact, F!OrbOf, F!Abs
<1> QED
    BY <1>1, <1>2, <1>5 DEF SkyInv

LEMMA HitsAreOnce ==
    ASSUME SkyInv, F!Sampled, NEW h \in F!Hits, NEW g \in F!Hits,
           g.aspect = h.aspect, g.at = h.at
    PROVE  g = h
<1> DEFINE Hit(u, a, b, k, t) ==
              u = [aspect |-> a, branch |-> b, day |-> k, at |-> t,
                   retrograde |-> F!Retrograde(t)]
<1>1. PICK a \in F!Aspects : \E b \in F!Branches(F!Angle[a]), k \in 0..x1 :
             \E t \in F!ExactAt(b, k) : Hit(h, a, b, k, t)
    BY HitsAre
<1>2. PICK b \in F!Branches(F!Angle[a]), k \in 0..x1 :
             \E t \in F!ExactAt(b, k) : Hit(h, a, b, k, t)
    BY <1>1
<1>3. PICK t \in F!ExactAt(b, k) : Hit(h, a, b, k, t)
    BY <1>2
<1>4. PICK c \in F!Aspects : \E d \in F!Branches(F!Angle[c]), j \in 0..x1 :
             \E u \in F!ExactAt(d, j) : Hit(g, c, d, j, u)
    BY HitsAre
<1>5. c = a
    BY <1>3, <1>4
<1>6. PICK d \in F!Branches(F!Angle[a]), j \in 0..x1 :
             \E u \in F!ExactAt(d, j) : Hit(g, a, d, j, u)
    BY <1>4, <1>5
<1>7. PICK u \in F!ExactAt(d, j) : Hit(g, a, d, j, u)
    BY <1>6
<1>8. u = t
    BY <1>3, <1>7
<1>9. /\ t - k * DayTicks \in 0..(DayTicks - 1)
      /\ t \in 0..(Len(x3) - 1) /\ F!Offset(F!Lon(t), b) = 0
    BY <1>3, ExactWithin
<1>10. /\ t - j * DayTicks \in 0..(DayTicks - 1) /\ F!Offset(F!Lon(t), d) = 0
    BY <1>7, <1>8, ExactWithin
<1>11. b = d
    <2>1. F!Lon(t) \in Positions /\ x2 \in Positions
        BY <1>9, Ticks DEF SkyInv
    <2> QED
        BY <1>9, <1>10, <2>1, ZeroIsExact
<1>12. k = j
    <2> DEFINE i == t - k * DayTicks
               l == t - j * DayTicks
    <2>1. k \in Nat /\ j \in Nat /\ k * DayTicks \in Nat /\ j * DayTicks \in Nat
        BY Daily
    <2>2. /\ i \in Nat /\ l \in Nat /\ i < DayTicks /\ l < DayTicks
          /\ t \in Int
        BY <1>9, <1>10, TransitAssumption DEF SkyInv
    <2>3. k * DayTicks + i = j * DayTicks + l
        BY <2>1, <2>2
    <2> HIDE DEF i, l
    <2> QED
        BY <2>1, <2>2, <2>3, OneDay
<1> QED
    BY <1>3, <1>7, <1>8, <1>11, <1>12
-----------------------------------------------------------------------------
(* A body that does not turn.                                              *)
LEMMA Straight ==
    ASSUME SkyInv, NEW t \in Nat, NEW n \in Nat, n < Circle, t + n < Len(x3),
           ~F!Turns(t, t + n)
    PROVE  \E s \in {-1, 1} :
              \A j \in 0..n : At(F!Lon(t + j), F!Lon(t) + s * j)
<1>1. Circle \in Nat /\ Len(x3) \in Nat
    BY TransitAssumption DEF SkyInv
<1>2. ASSUME NEW j \in 0..n
      PROVE  /\ F!Lon(t + j) \in Positions
             /\ j < n => Beside(F!Lon(t + j), F!Lon(t + (j + 1)))
    <2>1. t + j \in 0..(Len(x3) - 1)
        BY <1>1
    <2>2. ASSUME j < n
          PROVE  t + j \in 0..(Len(x3) - 2) /\ (t + j) + 1 = t + (j + 1)
        BY <1>1, <2>2
    <2> QED
        BY <2>1, <2>2, Ticks
<1>3. F!Lon(t) \in Positions
    BY <1>2
<1>4. PICK s \in {-1, 1} : n > 0 => At(F!Lon(t + 1), F!Lon(t) + s)
    <2>1. CASE n = 0
        BY <2>1
    <2>2. CASE n > 0
        <3>1. 0 \in 0..n /\ 1 \in 0..n /\ t + 0 = t /\ 0 + 1 = 1
            BY <2>2
        <3>2. Beside(F!Lon(t), F!Lon(t + 1)) /\ F!Lon(t + 1) \in Positions
            BY <1>2, <2>2, <3>1
        <3>3. \/ At(F!Lon(t + 1), F!Lon(t) + 1)
              \/ At(F!Lon(t + 1), F!Lon(t) + (-1))
            <4> DEFINE l == F!Lon(t)
                       m == F!Lon(t + 1)
            <4>1. l \in Int /\ m \in Int /\ Beside(l, m)
                BY <1>3, <3>2 DEF Positions
            <4> HIDE DEF l, m
            <4>2. At(m, l + 1) \/ At(m, l + (-1))
                BY <1>1, <4>1 DEF Beside, At
            <4> QED
                BY <4>2 DEF l, m
        <3> QED
            BY <3>3
    <2> QED
        BY <2>1, <2>2
<1> DEFINE Goes(j) == At(F!Lon(t + j), F!Lon(t) + s * j)
           bad == {j \in 0..n : ~Goes(j)}
<1>5. Goes(0)
    BY <1>3 DEF At, Positions
<1>6. n > 0 => Goes(1)
    BY <1>4
<1>7. CASE bad = {}
    BY <1>7
<1>8. CASE bad # {}
    <2>1. PICK m \in bad : \A i \in bad : m <= i
        <3>1. bad \subseteq Nat
            OBVIOUS
        <3> HIDE DEF bad
        <3> QED
            BY <1>8, <3>1, LeastNumber
    <2> DEFINE i == m - 1
               h == m - 2
    <2>2. /\ h \in Nat /\ h \in 0..n /\ i \in 0..n /\ i < n /\ m \in 0..n
          /\ i = h + 1 /\ m = i + 1 /\ Goes(h) /\ Goes(i) /\ ~Goes(m)
        <3> HIDE DEF Goes
        <3>1. m \in 0..n /\ ~Goes(m)
            BY <2>1
        <3>2. m # 0 /\ m # 1
            BY <1>5, <1>6, <3>1
        <3>3. /\ h \in Nat /\ h \in 0..n /\ i \in 0..n /\ i < n
              /\ i = h + 1 /\ m = i + 1 /\ ~(m <= h) /\ ~(m <= i)
            BY <3>1, <3>2
        <3> QED
            BY <2>1, <3>1, <3>3
    <2> HIDE DEF i, h, bad
    <2> DEFINE p == F!Lon(t + h)
               q == F!Lon(t + i)
               r == F!Lon(t + m)
               l == F!Lon(t)
    <2>3. /\ p \in Positions /\ q \in Positions /\ r \in Positions
          /\ Beside(p, q) /\ Beside(q, r)
        <3>1. h < n
            BY <2>2
        <3> QED
            BY <1>2, <2>2, <3>1
    <2>4. p # r
        <3>1. t + i \in (t + 1)..(t + n - 1)
            BY <2>2
        <3>2. (t + i) - 1 = t + h /\ (t + i) + 1 = t + m
            BY <2>2
        <3>3. F!Lon((t + i) - 1) # F!Lon((t + i) + 1)
            BY <3>1 DEF F!Turns
        <3> QED
            BY <3>2, <3>3
    <2>5. At(p, l + s * h) /\ At(q, l + s * i) /\ ~At(r, l + s * m)
        BY <2>2
    <2> HIDE DEF p, q, r
    <2>6. l \in Int /\ l \in Positions
        BY <1>3 DEF Positions
    <2> HIDE DEF l, Goes
    <2>7. CASE s = 1
        <3>1. s * h = h /\ s * i = h + 1 /\ s * m = h + 2
            BY <2>2, <2>7
        <3> QED
            BY <1>1, <2>2, <2>3, <2>4, <2>5, <2>6, <3>1
               DEF At, Beside, Positions
    <2>8. CASE s = -1
        <3>1. s * h = -h /\ s * i = -h - 1 /\ s * m = -h - 2
            BY <2>2, <2>8
        <3> QED
            BY <1>1, <2>2, <2>3, <2>4, <2>5, <2>6, <3>1
               DEF At, Beside, Positions
    <2> QED
        BY <2>7, <2>8
<1> QED
    BY <1>7, <1>8
\* Offsets of which one is zero, a few ticks apart.
LEMMA NearZero ==
    ASSUME NEW x \in (-F!Half)..(F!Half - 1), NEW y \in (-F!Half)..(F!Half - 1),
           NEW d \in (-DayTicks)..DayTicks, At(y, x + d)
    PROVE  /\ y = 0 => x = -d
           /\ x \in (-DayTicks)..DayTicks => y = x + d
<1>1. PICK c \in Nat : /\ c > 0 /\ Circle = 12 * c /\ F!Half = 6 * c
                       /\ DayTicks < 3 * c
    BY Twelfths
<1> QED
    BY <1>1, TransitAssumption DEF At

\* On a day without a turn the search finds where the offset is zero.
LEMMA DayFound ==
    ASSUME SkyInv, NEW a \in F!Aspects, NEW b \in F!Branches(F!Angle[a]),
           NEW t \in Nat, t + DayTicks < Len(x3), ~F!Turns(t, t + DayTicks),
           NEW j \in 0..(DayTicks - 1), F!Offset(F!Lon(t + j), b) = 0
    PROVE  \/ j = 0
           \/ /\ F!Offset(F!Lon(t), b) # 0 /\ Changes(b, t)
              /\ F!Bisect(b, t, t + DayTicks) = t + j
<1>1. PICK c \in Nat : /\ c > 0 /\ Circle = 12 * c /\ F!Half = 6 * c
                       /\ DayTicks < 3 * c
    BY Twelfths
<1>2. /\ DayTicks \in Nat \ {0} /\ j \in Nat /\ j < DayTicks
      /\ Len(x3) \in Nat /\ DayTicks < Circle
    BY <1>1, TransitAssumption DEF SkyInv
<1>3. PICK s \in {-1, 1} :
         \A i \in 0..DayTicks : At(F!Lon(t + i), F!Lon(t) + s * i)
    BY <1>2, Straight
<1> DEFINE f(i) == F!Offset(F!Lon(t + i), b)
<1>4. ASSUME NEW i \in 0..DayTicks
      PROVE  /\ f(0) \in (-F!Half)..(F!Half - 1) /\ f(i) \in (-F!Half)..(F!Half - 1)
             /\ s * i \in Int /\ At(f(i), f(0) + s * i)
    <2>1. F!Lon(t) \in Positions /\ F!Lon(t + i) \in Positions
        <3>1. t \in 0..(Len(x3) - 1) /\ t + i \in 0..(Len(x3) - 1)
            BY <1>2, <1>4
        <3> QED
            BY <3>1, Ticks
    <2>2. s * i \in (1 - Circle)..(Circle - 1)
        <3>1. s * i = i \/ s * i = -i
            BY <1>2
        <3> QED
            BY <1>1, <1>2, <3>1
    <2>3. t + 0 = t
        OBVIOUS
    <2> QED
        BY <1>3, <2>1, <2>2, <2>3, OffsetMoves DEF SkyInv
<1>5. f(j) = 0 /\ f(0) = F!Offset(F!Lon(t), b)
      /\ f(DayTicks) = F!Offset(F!Lon(t + DayTicks), b)
    OBVIOUS
<1>6. j \in 0..DayTicks /\ DayTicks \in 0..DayTicks
    BY <1>2
<1>7. ASSUME j # 0
      PROVE  /\ f(0) # 0 /\ Changes(b, t)
             /\ F!Bisect(b, t, t + DayTicks) = t + j
    <2> HIDE DEF f
    <2>a. /\ f(0) \in (-F!Half)..(F!Half - 1) /\ f(j) = 0
          /\ f(j) \in (-F!Half)..(F!Half - 1)
          /\ f(DayTicks) \in (-F!Half)..(F!Half - 1)
        BY <1>4, <1>5, <1>6
    <2>1. f(0) = -(s * j) /\ f(0) # 0 /\ f(DayTicks) = f(0) + s * DayTicks
        <3>1. CASE s = 1
            <4>1. s * j = j /\ s * DayTicks = DayTicks
                BY <1>2, <3>1
            <4>2. At(f(j), f(0) + j) /\ At(f(DayTicks), f(0) + DayTicks)
                BY <1>4, <1>6, <4>1
            <4>a. /\ j \in (-DayTicks)..DayTicks /\ DayTicks \in (-DayTicks)..DayTicks
                  /\ -j \in (-DayTicks)..DayTicks
                BY <1>2
            <4>3. f(0) = -j
                BY <2>a, <4>2, <4>a, NearZero
            <4>4. f(DayTicks) = f(0) + DayTicks
                BY <2>a, <4>2, <4>3, <4>a, NearZero
            <4> QED
                BY <1>2, <1>7, <4>1, <4>3, <4>4
        <3>2. CASE s = -1
            <4>1. s * j = -j /\ s * DayTicks = -DayTicks
                BY <1>2, <3>2
            <4>2. At(f(j), f(0) + (-j)) /\ At(f(DayTicks), f(0) + (-DayTicks))
                BY <1>4, <1>6, <4>1
            <4>a. /\ j \in (-DayTicks)..DayTicks /\ -j \in (-DayTicks)..DayTicks
                  /\ -DayTicks \in (-DayTicks)..DayTicks
                BY <1>2
            <4>b. f(0) = -(-j)
                BY <2>a, <4>2, <4>a, NearZero
            <4>3. f(0) = j
                BY <1>2, <4>b
            <4>c. f(DayTicks) = f(0) + (-DayTicks)
                <5> DEFINE x == f(0)  y == f(DayTicks)
                <5>1. /\ x \in (-F!Half)..(F!Half - 1)
                      /\ y \in (-F!Half)..(F!Half - 1)
                      /\ x \in (-DayTicks)..DayTicks
                      /\ -DayTicks \in (-DayTicks)..DayTicks
                      /\ At(y, x + (-DayTicks))
                    BY <2>a, <4>2, <4>3, <4>a
                <5> HIDE DEF x, y
                <5>2. y = x + (-DayTicks)
                    BY <5>1, NearZero
                <5> QED
                    BY <5>2 DEF x, y
            <4>4. f(DayTicks) = f(0) - DayTicks
                <5> DEFINE x == f(0)  y == f(DayTicks)
                <5>1. x \in Int /\ DayTicks \in Int /\ y = x + (-DayTicks)
                    BY <1>2, <4>3, <4>c
                <5> HIDE DEF x, y
                <5>2. y = x - DayTicks
                    BY ONLY <5>1
                <5> QED
                    BY <5>2 DEF x, y
            <4> QED
                BY <1>2, <1>7, <4>1, <4>3, <4>4
        <3> QED
            BY <3>1, <3>2
    <2>2. f(0) \in Int /\ f(DayTicks) \in Int
        BY <1>1, <1>4, <1>6
    <2>3. \/ f(0) < 0 /\ f(DayTicks) > 0 /\ f(DayTicks) - f(0) = DayTicks
          \/ f(0) > 0 /\ f(DayTicks) < 0 /\ f(DayTicks) - f(0) = -DayTicks
        <3>1. CASE s = 1
            <4>1. s * j = j /\ s * DayTicks = DayTicks
                BY <1>2, <3>1
            <4> QED
                BY <1>2, <1>7, <2>1, <2>2, <4>1
        <3>2. CASE s = -1
            <4>1. s * j = -j /\ s * DayTicks = -DayTicks
                BY <1>2, <3>2
            <4> QED
                BY <1>2, <1>7, <2>1, <2>2, <4>1
        <3> QED
            BY <3>1, <3>2
    <2>4. f(0) * f(DayTicks) < 0 /\ F!Abs(f(DayTicks) - f(0)) < F!Half
        <3>1. f(0) * f(DayTicks) < 0
            BY <2>2, <2>3, Signs
        <3> QED
            BY <1>1, <1>2, <2>3, <3>1 DEF F!Abs
    <2>5. Changes(b, t)
        BY <1>5, <2>4 DEF Changes
    <2> DEFINE u == F!Bisect(b, t, t + DayTicks)
               i == u - t
    <2>6. u \in (t + 1)..(t + DayTicks - 1) /\ F!Offset(F!Lon(u), b) = 0
        BY <2>5, BisectFinds
    <2> HIDE DEF u
    <2>7. i \in 0..DayTicks /\ u = t + i /\ i < DayTicks
        BY <1>2, <2>6
    <2> HIDE DEF i
    <2>8. f(i) = 0
        BY <2>6, <2>7 DEF f
    <2>9. i = j
        <3>1. At(f(i), f(0) + s * i)
            BY <1>4, <2>7
        <3>2. CASE s = 1
            <4>1. s * j = j /\ s * i = i
                BY <1>2, <2>7, <3>2
            <4> QED
                BY <1>1, <1>2, <2>1, <2>7, <2>8, <3>1, <4>1 DEF At
        <3>3. CASE s = -1
            <4>1. s * j = -j /\ s * i = -i
                BY <1>2, <2>7, <3>3
            <4> QED
                BY <1>1, <1>2, <2>1, <2>7, <2>8, <3>1, <4>1 DEF At
        <3> QED
            BY <3>2, <3>3
    <2> QED
        BY <2>1, <2>5, <2>7, <2>9 DEF u
<1> QED
    BY <1>5, <1>7

\* Every exact moment of such a day is a hit.
LEMMA NothingMissed ==
    ASSUME SkyInv, F!Sampled, NEW k \in 0..x1,
           ~F!Turns(k * DayTicks, (k + 1) * DayTicks),
           NEW t \in (k * DayTicks)..((k + 1) * DayTicks - 1),
           NEW a \in F!Aspects, 0 < t, t <= F!WindowEnd, F!Exact(a, t)
    PROVE  \E h \in F!Hits : h.aspect = a /\ h.at = t
<1> DEFINE n == k * DayTicks
           j == t - n
<1>1. DayTicks \in Nat \ {0} /\ Len(x3) \in Nat
    BY TransitAssumption DEF SkyInv
<1>2. n \in Nat /\ (k + 1) * DayTicks = n + DayTicks /\ n + DayTicks < Len(x3)
    BY Daily
<1>3. ~F!Turns(n, n + DayTicks)
    BY <1>2
<1>4. t \in n..(n + DayTicks - 1)
    <2> DEFINE e == (k + 1) * DayTicks
    <2>1. e = n + DayTicks /\ t \in n..(e - 1) /\ n \in Nat
        BY <1>2
    <2> HIDE DEF e, n
    <2> QED
        BY <1>1, <2>1
<1>5. t = n + j /\ j \in 0..(DayTicks - 1) /\ t \in 0..(Len(x3) - 1)
    <2> HIDE DEF n
    <2> QED
        BY <1>1, <1>2, <1>4
<1>6. F!Lon(t) \in Positions
    BY <1>5, Ticks
<1>7. PICK b \in F!Branches(F!Angle[a]) : F!Offset(F!Lon(t), b) = 0
    <2>1. F!Angle[a] \in Int /\ F!Sep180(F!Lon(t)) \in Int
        <3>1. PICK c \in Nat : c > 0 /\ Circle = 12 * c /\ F!Half = 6 * c
            BY Twelfths
        <3>2. Folded(F!Lon(t) - x2, F!Fold(F!Lon(t) - x2))
            BY <1>6, <3>1, FoldFolds DEF Positions, SkyInv
        <3>3. F!Sep180(F!Lon(t)) \in Int
            BY <3>1, <3>2 DEF Folded, F!Sep180, F!Abs
        <3> QED
            BY <3>3, Angles
    <2>2. F!Sep180(F!Lon(t)) = F!Angle[a]
        BY <2>1 DEF F!Exact, F!OrbOf, F!Abs
    <2> QED
        BY <1>6, <2>2, ZeroIsExact DEF SkyInv
<1> HIDE DEF n, j
<1>8. \/ j = 0
      \/ /\ F!Offset(F!Lon(n), b) # 0 /\ Changes(b, n)
         /\ F!Bisect(b, n, n + DayTicks) = n + j
    BY <1>2, <1>3, <1>5, <1>7, DayFound
<1>9. t \in F!ExactAt(b, k)
    <2>1. CASE j = 0
        <3>1. t = n /\ F!Offset(F!Lon(n), b) = 0
            BY <1>2, <1>5, <1>7, <2>1
        <3> QED
            BY <3>1 DEF F!ExactAt, n
    <2>2. CASE /\ F!Offset(F!Lon(n), b) # 0 /\ Changes(b, n)
               /\ F!Bisect(b, n, n + DayTicks) = n + j
        BY <1>5, <2>2 DEF F!ExactAt, Changes, n
    <2> QED
        BY <1>8, <2>1, <2>2
<1> DEFINE h == [aspect |-> a, branch |-> b, day |-> k, at |-> t,
                 retrograde |-> F!Retrograde(t)]
<1>10. h \in F!Hits
    BY <1>7, <1>9, HitsAre
<1>11. h.aspect = a /\ h.at = t
    OBVIOUS
<1> HIDE DEF h
<1> QED
    BY <1>10, <1>11

LEMMA FoldMoves ==
    ASSUME x2 \in Positions, NEW l \in Positions, NEW m \in Positions,
           NEW d \in Int, -F!Half <= d, d <= F!Half, At(m, l + d)
    PROVE  At(F!Fold(m - x2), F!Fold(l - x2) + d)
<1>1. PICK c \in Nat : c > 0 /\ Circle = 12 * c /\ F!Half = 6 * c
    BY Twelfths
<1>2. Folded(l - x2, F!Fold(l - x2)) /\ Folded(m - x2, F!Fold(m - x2))
    BY <1>1, FoldFolds DEF Positions
<1> QED
    BY <1>1, <1>2 DEF Folded, At, Positions

(* An aspect that applies comes nearer tick after tick, for as long as the *)
(* body does not turn, until it is exact.                                  *)
LEMMA Approach ==
    ASSUME SkyInv, NEW a \in F!Aspects, F!Applying(a), F!OrbOf(a, 0) < Len(x3),
           Len(x3) > 1,
           ~F!Turns(0, F!OrbOf(a, 0))
    PROVE  /\ F!OrbOf(a, 0) \in Nat /\ F!OrbOf(a, 0) > 0
           /\ \A j \in 0..F!OrbOf(a, 0) : F!OrbOf(a, j) = F!OrbOf(a, 0) - j
<1>1. PICK c \in Nat : c > 0 /\ Circle = 12 * c /\ F!Half = 6 * c
    BY Twelfths
<1> DEFINE y(j) == F!Fold(F!Lon(j) - x2)
           g == F!Angle[a]
           o == F!OrbOf(a, 0)
<1>2. g \in 0..F!Half /\ g \in Int /\ Len(x3) \in Nat
    <2>1. Len(x3) \in Nat
        BY DEF SkyInv
    <2> QED
        BY <2>1, Angles
<1>3. ASSUME NEW j \in 0..(Len(x3) - 1)
      PROVE  /\ Folded(F!Lon(j) - x2, y(j)) /\ F!Lon(j) \in Positions
             /\ F!OrbOf(a, j) = F!Abs(F!Abs(y(j)) - g)
    <2>1. F!Lon(j) \in Positions
        BY Ticks
    <2> QED
        BY <1>1, <2>1, FoldFolds DEF Positions, SkyInv, F!OrbOf, F!Sep180
<1> HIDE DEF y, g
<1>4. 0 \in 0..(Len(x3) - 1)
    BY DEF SkyInv
<1>5. o \in Nat /\ o <= F!Half /\ y(0) \in Int
    BY <1>1, <1>2, <1>3, <1>4 DEF Folded, F!Abs
<1>6. PICK s \in {-1, 1} :
         \A j \in 0..o : At(F!Lon(0 + j), F!Lon(0) + s * j)
    <2>1. o < Circle /\ 0 + o < Len(x3) /\ ~F!Turns(0, 0 + o)
        BY <1>1, <1>5
    <2> QED
        BY <1>5, <2>1, Straight
<1>7. ASSUME NEW j \in 0..o
      PROVE  /\ At(y(j), y(0) + s * j) /\ s * j \in Int /\ j \in Nat
             /\ (s = 1 => s * j = j) /\ (s = -1 => s * j = -j)
             /\ y(j) \in (-F!Half)..(F!Half - 1)
             /\ y(0) \in (-F!Half)..(F!Half - 1)
             /\ F!OrbOf(a, j) = F!Abs(F!Abs(y(j)) - g)
    <2>1. j \in 0..(Len(x3) - 1) /\ j \in Nat /\ 0 + j = j
        BY <1>2, <1>5
    <2>2. s * j \in Int /\ (s = 1 => s * j = j) /\ (s = -1 => s * j = -j)
        BY <2>1
    <2>3. At(F!Lon(j), F!Lon(0) + s * j)
        BY <1>6, <2>1
    <2>4. /\ Folded(F!Lon(j) - x2, y(j)) /\ Folded(F!Lon(0) - x2, y(0))
          /\ F!Lon(j) \in Positions /\ F!Lon(0) \in Positions
          /\ F!OrbOf(a, j) = F!Abs(F!Abs(y(j)) - g)
        BY <1>3, <1>4, <2>1
    <2>5. x2 \in Int
        BY <1>1 DEF SkyInv, Positions
    <2> DEFINE d == s * j
    <2>6. d \in Int /\ -F!Half <= d /\ d <= F!Half
        BY <1>1, <1>5, <2>1, <2>2
    <2> HIDE DEF d
    <2>7. At(y(j), y(0) + d)
        <3>1. At(F!Lon(j), F!Lon(0) + d)
            BY <2>3 DEF d
        <3>2. x2 \in Positions
            BY DEF SkyInv
        <3> QED
            BY <2>4, <2>6, <3>1, <3>2, FoldMoves DEF y
    <2> QED
        BY <2>1, <2>2, <2>4, <2>7 DEF Folded, d
<1>8. F!OrbOf(a, 0) = F!Abs(F!Abs(y(0)) - g)
    BY <1>3, <1>4
<1>9. o > 0
    <2>1. 1 \in 0..(Len(x3) - 1)
        BY <1>2
    <2>2. F!OrbOf(a, 1) \in Nat
        BY <1>1, <1>2, <1>3, <2>1 DEF Folded, F!Abs
    <2>3. F!OrbOf(a, 1) < o
        BY DEF F!Applying
    <2> QED
        BY <1>5, <2>2, <2>3
<1>10. 1 \in 0..o /\ F!OrbOf(a, 1) < o
    BY <1>5, <1>9 DEF F!Applying
<1> DEFINE z == y(0)
<1>12. z \in (-F!Half)..(F!Half - 1) /\ o = F!Abs(F!Abs(z) - g)
    BY <1>7, <1>8, <1>10
<1> HIDE DEF o, z
<1>11. ASSUME NEW j \in 0..o PROVE F!OrbOf(a, j) = o - j
    <2> DEFINE u == y(1)
               v == y(j)
    <2>1. /\ F!Abs(F!Abs(u) - g) < o /\ F!OrbOf(a, j) = F!Abs(F!Abs(v) - g)
          /\ u \in (-F!Half)..(F!Half - 1) /\ v \in (-F!Half)..(F!Half - 1)
          /\ j \in Nat /\ j <= o
        BY <1>5, <1>7, <1>10 DEF o
    <2>2. CASE s = 1
        <3>1. At(u, z + 1) /\ At(v, z + j)
            BY <1>7, <1>10, <2>2 DEF z
        <3> HIDE DEF u, v
        <3>2. u = z + 1 \/ (z = F!Half - 1 /\ u = -F!Half)
            BY <1>1, <1>12, <2>1, <3>1 DEF At
        <3>3. CASE z >= 0
            <4>1. o = g - z
                BY <1>1, <1>2, <1>12, <2>1, <3>2, <3>3 DEF F!Abs
            <4>2. v = z + j \/ (z + j = F!Half /\ v = -F!Half)
                BY <1>1, <1>2, <1>12, <2>1, <3>1, <3>3, <4>1 DEF At
            <4> QED
                BY <1>1, <1>2, <1>12, <2>1, <3>3, <4>1, <4>2 DEF F!Abs
        <3>4. CASE z < 0
            <4>1. o = -z - g
                BY <1>1, <1>2, <1>12, <2>1, <3>2, <3>4 DEF F!Abs
            <4>2. v = z + j
                BY <1>1, <1>2, <1>12, <2>1, <3>1, <3>4, <4>1 DEF At
            <4> QED
                BY <1>1, <1>2, <1>12, <2>1, <3>4, <4>1, <4>2 DEF F!Abs
        <3> QED
            BY <1>12, <3>3, <3>4
    <2>3. CASE s = -1
        <3>1. At(u, z + (-1)) /\ At(v, z + (-j))
            BY <1>7, <1>10, <2>3 DEF z
        <3> HIDE DEF u, v
        <3>2. u = z - 1 \/ (z = -F!Half /\ u = F!Half - 1)
            BY <1>1, <1>12, <2>1, <3>1 DEF At
        <3>3. CASE z > 0
            <4>1. o = z - g
                BY <1>1, <1>2, <1>12, <2>1, <3>2, <3>3 DEF F!Abs
            <4>2. v = z - j
                BY <1>1, <1>2, <1>12, <2>1, <3>1, <3>3, <4>1 DEF At
            <4> QED
                BY <1>1, <1>2, <1>12, <2>1, <3>3, <4>1, <4>2 DEF F!Abs
        <3>4. CASE z <= 0 /\ z # -F!Half
            <4>1. o = g + z
                BY <1>1, <1>2, <1>12, <2>1, <3>2, <3>4 DEF F!Abs
            <4>2. v = z - j
                BY <1>1, <1>2, <1>12, <2>1, <3>1, <3>4, <4>1 DEF At
            <4> QED
                BY <1>1, <1>2, <1>12, <2>1, <3>4, <4>1, <4>2 DEF F!Abs
        <3>5. CASE z = -F!Half
            <4>1. o = -z - g
                BY <1>1, <1>2, <1>12, <3>5 DEF F!Abs
            <4>2. v = z - j + Circle \/ (j = 0 /\ v = z)
                BY <1>1, <1>2, <1>12, <2>1, <3>1, <3>5, <4>1 DEF At
            <4> QED
                BY <1>1, <1>2, <1>12, <2>1, <3>5, <4>1, <4>2 DEF F!Abs
        <3> QED
            BY <1>12, <3>3, <3>4, <3>5
    <2> QED
        BY <2>2, <2>3
<1> QED
    BY <1>5, <1>9, <1>11 DEF o
-----------------------------------------------------------------------------
LEMMA WindowIsNat ==
    ASSUME NEW w \in F!Windows
    PROVE  w \in Nat
<1>1. CASE w = DefaultWindow
    BY <1>1, TransitAssumption
<1>2. ASSUME NEW d \in Asked, w = F!ClampWindow(d) PROVE w \in Nat
    <2> DEFINE m == IF MaxWindow <= d THEN MaxWindow ELSE d
               v == IF MinWindow <= m THEN m ELSE MinWindow
    <2>1. MinWindow \in Nat /\ MaxWindow \in Nat /\ d \in Int
        BY TransitAssumption
    <2>2. F!Min({MaxWindow, d}) = m
        <3>1. m \in {MaxWindow, d} /\ \A y \in {MaxWindow, d} : m <= y
            BY <2>1
        <3>2. \A n \in {MaxWindow, d} :
                 (\A y \in {MaxWindow, d} : n <= y) => n = m
            BY <2>1
        <3> QED
            BY <3>1, <3>2 DEF F!Min
    <2>3. m \in Int
        BY <2>1
    <2> HIDE DEF m
    <2>4. F!Max({MinWindow, m}) = v
        <3>1. v \in {MinWindow, m} /\ \A y \in {MinWindow, m} : v >= y
            BY <2>1, <2>3
        <3>2. \A n \in {MinWindow, m} :
                 (\A y \in {MinWindow, m} : n >= y) => n = v
            BY <2>1, <2>3
        <3> QED
            BY <3>1, <3>2 DEF F!Max
    <2>5. w = v
        BY <1>2, <2>2, <2>4 DEF F!ClampWindow
    <2> QED
        BY <2>1, <2>3, <2>5
<1> QED
    BY <1>1, <1>2 DEF F!Windows

LEMMA SkyInit == F!Init => SkyInv
<1> SUFFICES ASSUME F!Init PROVE SkyInv
    OBVIOUS
<1>1. x1 \in Nat
    BY WindowIsNat DEF F!Init
<1>2. x2 \in Positions
    BY TransitAssumption DEF F!Init, Positions
<1>3. x3 \in Seq(Positions) /\ Len(x3) = 1
    <2>1. PICK l \in Positions : x3 = <<l>>
        BY DEF F!Init, Positions
    <2> QED
        BY <2>1
<1> QED
    BY <1>1, <1>2, <1>3 DEF SkyInv

LEMMA SkyNext ==
    SkyInv /\ [F!Next]_<<x1, x2, x3, x4>> => SkyInv'
<1> SUFFICES ASSUME SkyInv, [F!Next]_<<x1, x2, x3, x4>> PROVE SkyInv'
    OBVIOUS
<1>1. ASSUME NEW s \in {-1, 1}, F!Sky(s) PROVE SkyInv'
    <2> DEFINE n == Len(x3)
               l == (x3[n] + s) % Circle
    <2>1. x3 \in Seq(Positions) /\ n \in Nat /\ n >= 1 /\ x3[n] \in Positions
        BY DEF SkyInv
    <2>2. Circle \in Nat /\ Circle > 4
        BY TransitAssumption
    <2>3. l \in Positions /\ Beside(x3[n], l)
        <3> DEFINE y == x3[n] + s
        <3>1. x3[n] \in Int /\ 0 <= x3[n] /\ x3[n] < Circle /\ y \in Int
            BY <2>1, <2>2 DEF Positions
        <3>2. CASE y < 0
            <4>1. x3[n] = 0 /\ y = -1
                BY <3>1, <3>2
            <4>2. y % Circle = y - (-1) * Circle
                <5> HIDE DEF y
                <5>1. (-1) * Circle <= y /\ y < ((-1) + 1) * Circle
                    BY <2>2, <3>1, <4>1
                <5> QED
                    BY ONLY <2>2, <3>1, <5>1, Turned
            <4>3. l = Circle - 1
                BY <2>2, <4>1, <4>2
            <4> QED
                BY <2>2, <4>1, <4>3 DEF Positions, Beside
        <3>3. CASE y >= 0 /\ y < Circle
            <4>1. y % Circle = y
                <5> HIDE DEF y
                <5>1. 0 * Circle <= y /\ y < (0 + 1) * Circle
                    BY <2>2, <3>3
                <5>2. y % Circle = y - 0 * Circle
                    BY ONLY <2>2, <3>1, <5>1, Turned
                <5> QED
                    BY <2>2, <3>1, <5>2
            <4>2. y = x3[n] + 1 \/ y = x3[n] - 1
                BY <3>1
            <4> QED
                BY <2>2, <3>1, <3>3, <4>1, <4>2 DEF Positions, Beside
        <3>4. CASE y >= Circle
            <4>1. x3[n] = Circle - 1 /\ y = Circle
                BY <2>2, <3>1, <3>4
            <4>2. Circle % Circle = Circle - 1 * Circle
                BY ONLY <2>2, Turned
            <4> QED
                BY <2>2, <4>1, <4>2 DEF Positions, Beside
        <3> QED
            BY <2>2, <3>1, <3>2, <3>3, <3>4
    <2>4. x3' = Append(x3, l) /\ UNCHANGED <<x1, x2>>
        BY <1>1 DEF F!Sky
    <2> HIDE DEF l
    <2>5. /\ x3' \in Seq(Positions) /\ Len(x3') = n + 1 /\ x3'[n + 1] = l
          /\ \A i \in 1..n : x3'[i] = x3[i]
        BY <2>1, <2>3, <2>4
    <2>6. ASSUME NEW i \in 1..n PROVE Beside(x3'[i], x3'[i + 1])
        <3>1. CASE i = n
            BY <2>1, <2>3, <2>5, <3>1
        <3>2. CASE i # n
            <4>1. i \in 1..(n - 1) /\ i + 1 \in 1..n
                BY <2>1, <3>2
            <4> QED
                BY <2>5, <4>1 DEF SkyInv
        <3> QED
            BY <3>1, <3>2
    <2> HIDE DEF n
    <2>7. \A i \in 1..(Len(x3') - 1) : Beside(x3'[i], x3'[i + 1])
        BY <2>1, <2>5, <2>6
    <2> QED
        BY <2>1, <2>4, <2>5, <2>7 DEF SkyInv, Beside, Positions
<1>2. CASE UNCHANGED <<x1, x2, x3, x4>>
    BY <1>2 DEF SkyInv, Beside, Positions
<1> QED
    BY <1>1, <1>2 DEF F!Next

LEMMA ForecastHolds == SkyInv => F!ForecastIsTrue
<1> SUFFICES ASSUME SkyInv, F!Sampled PROVE F!ForecastIsTrue
    BY DEF F!ForecastIsTrue
<1>1. ASSUME NEW h \in F!Hits
      PROVE  /\ 0 < h.at /\ h.at <= F!WindowEnd /\ F!Exact(h.aspect, h.at)
             /\ \A g \in F!Hits : g.aspect = h.aspect /\ g.at = h.at => g = h
    BY HitsAreExact, HitsAreOnce
<1>2. ASSUME NEW k \in 0..x1, ~F!Turns(k * DayTicks, (k + 1) * DayTicks),
             NEW t \in (k * DayTicks)..((k + 1) * DayTicks - 1),
             NEW a \in F!Aspects, 0 < t /\ t <= F!WindowEnd /\ F!Exact(a, t)
      PROVE  \E h \in F!Hits : h.aspect = a /\ h.at = t
    BY <1>2, NothingMissed
<1>3. ASSUME NEW a \in F!Active, F!Applying(a), F!OrbOf(a, 0) <= F!WindowEnd,
             ~F!Turns(0, (F!OrbOf(a, 0) \div DayTicks + 1) * DayTicks)
      PROVE  F!NextExact(a) = {F!OrbOf(a, 0)}
    <2> DEFINE o == F!OrbOf(a, 0)
               k == o \div DayTicks
               n == k * DayTicks
    <2>1. /\ DayTicks \in Nat \ {0} /\ x1 \in Nat /\ Len(x3) \in Nat
          /\ a \in F!Aspects
        BY TransitAssumption DEF SkyInv, F!Active
    <2>2. F!WindowEnd \in Nat /\ F!WindowEnd + DayTicks < Len(x3)
        <3>1. 0 \in 0..x1
            BY <2>1
        <3> QED
            BY <3>1, Daily
    <2>3. o \in Nat
        <3>1. 0 \in 0..(Len(x3) - 1)
            BY <2>1, <2>2
        <3>2. F!Lon(0) \in Positions
            BY <3>1, Ticks
        <3>3. PICK c \in Nat : c > 0 /\ Circle = 12 * c /\ F!Half = 6 * c
            BY Twelfths
        <3>4. Folded(F!Lon(0) - x2, F!Fold(F!Lon(0) - x2))
            BY <3>2, <3>3, FoldFolds DEF Positions, SkyInv
        <3>5. F!Sep180(F!Lon(0)) \in Int
            BY <3>3, <3>4 DEF Folded, F!Sep180, F!Abs
        <3>6. F!Angle[a] \in Int
            BY <2>1, Angles
        <3> QED
            BY <3>5, <3>6 DEF F!OrbOf, F!Abs
    <2>4. k \in Nat /\ n <= o /\ o < n + DayTicks /\ n \in Nat
        BY <2>1, <2>3
    <2>5. (k + 1) * DayTicks = n + DayTicks
        BY <2>1, <2>4
    <2>6. k \in 0..x1
        <3>1. o <= x1 * DayTicks
            BY <1>3 DEF F!WindowEnd
        <3> QED
            BY <2>1, <2>3, <2>4, <3>1
    <2>7. ~F!Turns(0, o) /\ ~F!Turns(n, (k + 1) * DayTicks)
        <3> HIDE DEF o, k, n
        <3>1. ~F!Turns(0, n + DayTicks)
            BY <1>3, <2>5 DEF o, k
        <3> QED
            BY <2>1, <2>3, <2>4, <2>5, <3>1 DEF F!Turns
    <2>8. /\ o > 0
          /\ \A j \in 0..o : F!OrbOf(a, j) = o - j
        <3>1. o < Len(x3) /\ Len(x3) > 1
            BY <1>3, <2>1, <2>2, <2>3
        <3> QED
            BY <1>3, <2>1, <2>7, <3>1, Approach
    <2> HIDE DEF o
    <2>9. F!Exact(a, o)
        BY <2>3, <2>8 DEF F!Exact
    <2>10. o \in F!Futures(a)
        <3>1. \E h \in F!Hits : h.aspect = a /\ h.at = o
            <4>1. o \in n..((k + 1) * DayTicks - 1)
                BY <2>1, <2>3, <2>4, <2>5
            <4> HIDE DEF n
            <4>2. o <= F!WindowEnd
                BY <1>3 DEF o
            <4> QED
                BY <1>2, <2>1, <2>6, <2>7, <2>8, <2>9, <4>1, <4>2 DEF n
        <3> QED
            BY <3>1 DEF F!Futures
    <2>11. ASSUME NEW t \in F!Futures(a) PROVE t \in Nat /\ o <= t
        <3>1. PICK h \in F!Hits : h.aspect = a /\ t = h.at
            BY DEF F!Futures
        <3>2. t \in Nat /\ 0 < t /\ F!OrbOf(a, t) = 0
            BY <3>1, HitsAreExact DEF F!Exact
        <3>3. ASSUME t < o PROVE FALSE
            BY <2>3, <2>8, <3>2, <3>3
        <3> QED
            BY <2>3, <3>2, <3>3
    <2>12. F!Min(F!Futures(a)) = o
        <3>1. \A t \in F!Futures(a) :
                 (\A u \in F!Futures(a) : t <= u) => t = o
            BY <2>3, <2>10, <2>11
        <3> QED
            BY <2>10, <2>11, <3>1 DEF F!Min
    <2> QED
        BY <2>10, <2>12 DEF F!NextExact, o
<1> QED
    BY <1>1, <1>2, <1>3 DEF F!ForecastIsTrue

LEMMA SkyRuns ==
    [PlatformNext]_platformVars =>
       UNCHANGED part /\ (part = "transits" => [F!Next]_<<x1, x2, x3, x4>>)
BY DEF PlatformNext, platformVars, Only, calculatorVars

(* ForecastIsTrue holds of the platform, for any circle, natal points,     *)
(* windows and paths of the body: a hit is an exact aspect of the window   *)
(* and is found once, none is missed on a day on which the body does not   *)
(* turn, and an aspect that applies becomes exact when it is said to       *)
(* (astrology/transits.py).                                                *)
THEOREM ForecastsAreTrue == PlatformSpec => []ForecastIsTrue
<1>1. PlatformInit => (part = "transits" => SkyInv)
    BY SkyInit DEF PlatformInit
<1>2. (part = "transits" => SkyInv) /\ [PlatformNext]_platformVars
      => (part = "transits" => SkyInv)'
    BY SkyRuns, SkyNext
<1>3. (part = "transits" => SkyInv) => ForecastIsTrue
    BY ForecastHolds DEF ForecastIsTrue
<1> QED
    BY <1>1, <1>2, <1>3, PTL DEF PlatformSpec

-----------------------------------------------------------------------------
(* HumanDesign.  All that the type, the authority and the definition need  *)
(* of the body graph is that a channel links two centres, and that one at  *)
(* the Root links it to a centre of authority.                             *)

LEMMA NineCenters ==
    IsFiniteSet(H!Centers) /\ Cardinality(H!Centers) = 9
<1> DEFINE c1 == {"Head"}
           c2 == c1 \cup {"Ajna"}
           c3 == c2 \cup {"Throat"}
           c4 == c3 \cup {"G"}
           c5 == c4 \cup {"Heart"}
           c6 == c5 \cup {"Spleen"}
           c7 == c6 \cup {"Sacral"}
           c8 == c7 \cup {"SolarPlexus"}
           c9 == c8 \cup {"Root"}
<1>1. IsFiniteSet(c1) /\ Cardinality(c1) = 1
    BY FS_Singleton
<1>2. IsFiniteSet(c2) /\ Cardinality(c2) = 2
    <2>1. "Ajna" \notin c1
        OBVIOUS
    <2> HIDE DEF c1
    <2> QED
        BY <1>1, <2>1, FS_AddElement
<1>3. IsFiniteSet(c3) /\ Cardinality(c3) = 3
    <2>1. "Throat" \notin c2
        OBVIOUS
    <2> HIDE DEF c2
    <2> QED
        BY <1>2, <2>1, FS_AddElement
<1>4. IsFiniteSet(c4) /\ Cardinality(c4) = 4
    <2>1. "G" \notin c3
        OBVIOUS
    <2> HIDE DEF c3
    <2> QED
        BY <1>3, <2>1, FS_AddElement
<1>5. IsFiniteSet(c5) /\ Cardinality(c5) = 5
    <2>1. "Heart" \notin c4
        OBVIOUS
    <2> HIDE DEF c4
    <2> QED
        BY <1>4, <2>1, FS_AddElement
<1>6. IsFiniteSet(c6) /\ Cardinality(c6) = 6
    <2>1. "Spleen" \notin c5
        OBVIOUS
    <2> HIDE DEF c5
    <2> QED
        BY <1>5, <2>1, FS_AddElement
<1>7. IsFiniteSet(c7) /\ Cardinality(c7) = 7
    <2>1. "Sacral" \notin c6
        OBVIOUS
    <2> HIDE DEF c6
    <2> QED
        BY <1>6, <2>1, FS_AddElement
<1>8. IsFiniteSet(c8) /\ Cardinality(c8) = 8
    <2>1. "SolarPlexus" \notin c7
        OBVIOUS
    <2> HIDE DEF c7
    <2> QED
        BY <1>7, <2>1, FS_AddElement
<1>9. IsFiniteSet(c9) /\ Cardinality(c9) = 9
    <2>1. "Root" \notin c8
        OBVIOUS
    <2> HIDE DEF c8
    <2> QED
        BY <1>8, <2>1, FS_AddElement
<1>10. H!Centers = c9
    BY DEF H!Centers
<1> HIDE DEF c9
<1> QED
    BY <1>9, <1>10

\* The centre of each gate, gate after gate.
CenterOf ==
    <<"G", "G", "Sacral", "Ajna", "Sacral", "SolarPlexus", "G", "Throat",
      "Sacral", "G", "Ajna", "Throat", "G", "Sacral", "G", "Throat", "Ajna",
      "Spleen", "Root", "Throat", "Heart", "SolarPlexus", "Throat", "Ajna",
      "G", "Heart", "Sacral", "Spleen", "Sacral", "SolarPlexus", "Throat",
      "Spleen", "Throat", "Sacral", "Throat", "SolarPlexus", "SolarPlexus",
      "Root", "Root", "Heart", "Root", "Sacral", "Ajna", "Spleen", "Throat",
      "G", "Ajna", "Spleen", "SolarPlexus", "Spleen", "Heart", "Root", "Root",
      "Root", "SolarPlexus", "Throat", "Spleen", "Root", "Sacral", "Root",
      "Head", "Throat", "Head", "Head">>

LEMMA CentersOf ==
    /\ CenterOf[1] = "G" /\ CenterOf[2] = "G"
    /\ CenterOf[3] = "Sacral" /\ CenterOf[4] = "Ajna"
    /\ CenterOf[5] = "Sacral" /\ CenterOf[6] = "SolarPlexus"
    /\ CenterOf[7] = "G" /\ CenterOf[8] = "Throat"
    /\ CenterOf[9] = "Sacral" /\ CenterOf[10] = "G"
    /\ CenterOf[11] = "Ajna" /\ CenterOf[12] = "Throat"
    /\ CenterOf[13] = "G" /\ CenterOf[14] = "Sacral"
    /\ CenterOf[15] = "G" /\ CenterOf[16] = "Throat"
    /\ CenterOf[17] = "Ajna" /\ CenterOf[18] = "Spleen"
    /\ CenterOf[19] = "Root" /\ CenterOf[20] = "Throat"
    /\ CenterOf[21] = "Heart" /\ CenterOf[22] = "SolarPlexus"
    /\ CenterOf[23] = "Throat" /\ CenterOf[24] = "Ajna"
    /\ CenterOf[25] = "G" /\ CenterOf[26] = "Heart"
    /\ CenterOf[27] = "Sacral" /\ CenterOf[28] = "Spleen"
    /\ CenterOf[29] = "Sacral" /\ CenterOf[30] = "SolarPlexus"
    /\ CenterOf[31] = "Throat" /\ CenterOf[32] = "Spleen"
    /\ CenterOf[33] = "Throat" /\ CenterOf[34] = "Sacral"
    /\ CenterOf[35] = "Throat" /\ CenterOf[36] = "SolarPlexus"
    /\ CenterOf[37] = "SolarPlexus" /\ CenterOf[38] = "Root"
    /\ CenterOf[39] = "Root" /\ CenterOf[40] = "Heart"
    /\ CenterOf[41] = "Root" /\ CenterOf[42] = "Sacral"
    /\ CenterOf[43] = "Ajna" /\ CenterOf[44] = "Spleen"
    /\ CenterOf[45] = "Throat" /\ CenterOf[46] = "G"
    /\ CenterOf[47] = "Ajna" /\ CenterOf[48] = "Spleen"
    /\ CenterOf[49] = "SolarPlexus" /\ CenterOf[50] = "Spleen"
    /\ CenterOf[51] = "Heart" /\ CenterOf[52] = "Root"
    /\ CenterOf[53] = "Root" /\ CenterOf[54] = "Root"
    /\ CenterOf[55] = "SolarPlexus" /\ CenterOf[56] = "Throat"
    /\ CenterOf[57] = "Spleen" /\ CenterOf[58] = "Root"
    /\ CenterOf[59] = "Sacral" /\ CenterOf[60] = "Root"
    /\ CenterOf[61] = "Head" /\ CenterOf[62] = "Throat"
    /\ CenterOf[63] = "Head" /\ CenterOf[64] = "Head"
BY DEF CenterOf

LEMMA GateAt ==
    ASSUME NEW d \in H!Centers, NEW g \in H!GatesByCenter[d]
    PROVE  g \in 1..64 /\ CenterOf[g] = d
<1>1. CASE d = "Head"
    <2>1. g \in {64, 61, 63}
        BY <1>1 DEF H!GatesByCenter, H!Centers
    <2> QED
        BY ONLY <1>1, <2>1, CentersOf
<1>2. CASE d = "Ajna"
    <2>1. g \in {47, 24, 4, 17, 43, 11}
        BY <1>2 DEF H!GatesByCenter, H!Centers
    <2> QED
        BY ONLY <1>2, <2>1, CentersOf
<1>3. CASE d = "Throat"
    <2>1. g \in {62, 23, 56, 16, 35, 12, 45, 33, 8, 31, 20}
        BY <1>3 DEF H!GatesByCenter, H!Centers
    <2> QED
        BY ONLY <1>3, <2>1, CentersOf
<1>4. CASE d = "G"
    <2>1. g \in {7, 1, 13, 25, 46, 2, 15, 10}
        BY <1>4 DEF H!GatesByCenter, H!Centers
    <2> QED
        BY ONLY <1>4, <2>1, CentersOf
<1>5. CASE d = "Heart"
    <2>1. g \in {21, 26, 51, 40}
        BY <1>5 DEF H!GatesByCenter, H!Centers
    <2> QED
        BY ONLY <1>5, <2>1, CentersOf
<1>6. CASE d = "Spleen"
    <2>1. g \in {48, 57, 44, 50, 32, 28, 18}
        BY <1>6 DEF H!GatesByCenter, H!Centers
    <2> QED
        BY ONLY <1>6, <2>1, CentersOf
<1>7. CASE d = "Sacral"
    <2>1. g \in {5, 14, 29, 59, 9, 3, 42, 27, 34}
        BY <1>7 DEF H!GatesByCenter, H!Centers
    <2> QED
        BY ONLY <1>7, <2>1, CentersOf
<1>8. CASE d = "SolarPlexus"
    <2>1. g \in {36, 22, 37, 6, 49, 55, 30}
        BY <1>8 DEF H!GatesByCenter, H!Centers
    <2> QED
        BY ONLY <1>8, <2>1, CentersOf
<1>9. CASE d = "Root"
    <2>1. g \in {53, 60, 52, 19, 39, 41, 58, 38, 54}
        BY <1>9 DEF H!GatesByCenter, H!Centers
    <2> QED
        BY ONLY <1>9, <2>1, CentersOf
<1> QED
    BY <1>1, <1>2, <1>3, <1>4, <1>5, <1>6, <1>7, <1>8, <1>9 DEF H!Centers

LEMMA CenterAt ==
    ASSUME NEW d \in H!Centers, NEW g \in H!GatesByCenter[d]
    PROVE  H!GateToCenter[g] = d
<1>1. g \in 1..64 /\ \A c \in H!Centers : g \in H!GatesByCenter[c] => c = d
    BY GateAt
<1> QED
    BY <1>1 DEF H!GateToCenter

LEMMA GatesOf ==
    /\ H!GatesByCenter["Head"] = {64, 61, 63}
    /\ H!GatesByCenter["Ajna"] = {47, 24, 4, 17, 43, 11}
    /\ H!GatesByCenter["Throat"] = {62, 23, 56, 16, 35, 12, 45, 33, 8, 31, 20}
    /\ H!GatesByCenter["G"] = {7, 1, 13, 25, 46, 2, 15, 10}
    /\ H!GatesByCenter["Heart"] = {21, 26, 51, 40}
    /\ H!GatesByCenter["Spleen"] = {48, 57, 44, 50, 32, 28, 18}
    /\ H!GatesByCenter["Sacral"] = {5, 14, 29, 59, 9, 3, 42, 27, 34}
    /\ H!GatesByCenter["SolarPlexus"] =
          {36, 22, 37, 6, 49, 55, 30}
    /\ H!GatesByCenter["Root"] = {53, 60, 52, 19, 39, 41, 58, 38, 54}
BY DEF H!GatesByCenter, H!Centers

LEMMA GatesAt ==
    /\ H!GateToCenter[1] = "G"
    /\ H!GateToCenter[2] = "G"
    /\ H!GateToCenter[3] = "Sacral"
    /\ H!GateToCenter[4] = "Ajna"
    /\ H!GateToCenter[5] = "Sacral"
    /\ H!GateToCenter[6] = "SolarPlexus"
    /\ H!GateToCenter[7] = "G"
    /\ H!GateToCenter[8] = "Throat"
    /\ H!GateToCenter[9] = "Sacral"
    /\ H!GateToCenter[10] = "G"
    /\ H!GateToCenter[11] = "Ajna"
    /\ H!GateToCenter[12] = "Throat"
    /\ H!GateToCenter[13] = "G"
    /\ H!GateToCenter[14] = "Sacral"
    /\ H!GateToCenter[15] = "G"
    /\ H!GateToCenter[16] = "Throat"
    /\ H!GateToCenter[17] = "Ajna"
    /\ H!GateToCenter[18] = "Spleen"
    /\ H!GateToCenter[19] = "Root"
    /\ H!GateToCenter[20] = "Throat"
    /\ H!GateToCenter[21] = "Heart"
    /\ H!GateToCenter[22] = "SolarPlexus"
    /\ H!GateToCenter[23] = "Throat"
    /\ H!GateToCenter[24] = "Ajna"
    /\ H!GateToCenter[25] = "G"
    /\ H!GateToCenter[26] = "Heart"
    /\ H!GateToCenter[27] = "Sacral"
    /\ H!GateToCenter[28] = "Spleen"
    /\ H!GateToCenter[29] = "Sacral"
    /\ H!GateToCenter[30] = "SolarPlexus"
    /\ H!GateToCenter[31] = "Throat"
    /\ H!GateToCenter[32] = "Spleen"
    /\ H!GateToCenter[33] = "Throat"
    /\ H!GateToCenter[34] = "Sacral"
    /\ H!GateToCenter[35] = "Throat"
    /\ H!GateToCenter[36] = "SolarPlexus"
    /\ H!GateToCenter[37] = "SolarPlexus"
    /\ H!GateToCenter[38] = "Root"
    /\ H!GateToCenter[39] = "Root"
    /\ H!GateToCenter[40] = "Heart"
    /\ H!GateToCenter[41] = "Root"
    /\ H!GateToCenter[42] = "Sacral"
    /\ H!GateToCenter[43] = "Ajna"
    /\ H!GateToCenter[44] = "Spleen"
    /\ H!GateToCenter[45] = "Throat"
    /\ H!GateToCenter[46] = "G"
    /\ H!GateToCenter[47] = "Ajna"
    /\ H!GateToCenter[48] = "Spleen"
    /\ H!GateToCenter[49] = "SolarPlexus"
    /\ H!GateToCenter[50] = "Spleen"
    /\ H!GateToCenter[51] = "Heart"
    /\ H!GateToCenter[52] = "Root"
    /\ H!GateToCenter[53] = "Root"
    /\ H!GateToCenter[54] = "Root"
    /\ H!GateToCenter[55] = "SolarPlexus"
    /\ H!GateToCenter[56] = "Throat"
    /\ H!GateToCenter[57] = "Spleen"
    /\ H!GateToCenter[58] = "Root"
    /\ H!GateToCenter[59] = "Sacral"
    /\ H!GateToCenter[60] = "Root"
    /\ H!GateToCenter[61] = "Head"
    /\ H!GateToCenter[62] = "Throat"
    /\ H!GateToCenter[63] = "Head"
    /\ H!GateToCenter[64] = "Head"
<1>1. /\ H!GateToCenter[64] = "Head"
      /\ H!GateToCenter[61] = "Head"
      /\ H!GateToCenter[63] = "Head"
    BY CenterAt, GatesOf DEF H!Centers
<1>2. /\ H!GateToCenter[47] = "Ajna"
      /\ H!GateToCenter[24] = "Ajna"
      /\ H!GateToCenter[4] = "Ajna"
      /\ H!GateToCenter[17] = "Ajna"
      /\ H!GateToCenter[43] = "Ajna"
      /\ H!GateToCenter[11] = "Ajna"
    BY CenterAt, GatesOf DEF H!Centers
<1>3. /\ H!GateToCenter[62] = "Throat"
      /\ H!GateToCenter[23] = "Throat"
      /\ H!GateToCenter[56] = "Throat"
      /\ H!GateToCenter[16] = "Throat"
      /\ H!GateToCenter[35] = "Throat"
      /\ H!GateToCenter[12] = "Throat"
      /\ H!GateToCenter[45] = "Throat"
      /\ H!GateToCenter[33] = "Throat"
      /\ H!GateToCenter[8] = "Throat"
      /\ H!GateToCenter[31] = "Throat"
      /\ H!GateToCenter[20] = "Throat"
    BY CenterAt, GatesOf DEF H!Centers
<1>4. /\ H!GateToCenter[7] = "G"
      /\ H!GateToCenter[1] = "G"
      /\ H!GateToCenter[13] = "G"
      /\ H!GateToCenter[25] = "G"
      /\ H!GateToCenter[46] = "G"
      /\ H!GateToCenter[2] = "G"
      /\ H!GateToCenter[15] = "G"
      /\ H!GateToCenter[10] = "G"
    BY CenterAt, GatesOf DEF H!Centers
<1>5. /\ H!GateToCenter[21] = "Heart"
      /\ H!GateToCenter[26] = "Heart"
      /\ H!GateToCenter[51] = "Heart"
      /\ H!GateToCenter[40] = "Heart"
    BY CenterAt, GatesOf DEF H!Centers
<1>6. /\ H!GateToCenter[48] = "Spleen"
      /\ H!GateToCenter[57] = "Spleen"
      /\ H!GateToCenter[44] = "Spleen"
      /\ H!GateToCenter[50] = "Spleen"
      /\ H!GateToCenter[32] = "Spleen"
      /\ H!GateToCenter[28] = "Spleen"
      /\ H!GateToCenter[18] = "Spleen"
    BY CenterAt, GatesOf DEF H!Centers
<1>7. /\ H!GateToCenter[5] = "Sacral"
      /\ H!GateToCenter[14] = "Sacral"
      /\ H!GateToCenter[29] = "Sacral"
      /\ H!GateToCenter[59] = "Sacral"
      /\ H!GateToCenter[9] = "Sacral"
      /\ H!GateToCenter[3] = "Sacral"
      /\ H!GateToCenter[42] = "Sacral"
      /\ H!GateToCenter[27] = "Sacral"
      /\ H!GateToCenter[34] = "Sacral"
    BY CenterAt, GatesOf DEF H!Centers
<1>8. /\ H!GateToCenter[36] = "SolarPlexus"
      /\ H!GateToCenter[22] = "SolarPlexus"
      /\ H!GateToCenter[37] = "SolarPlexus"
      /\ H!GateToCenter[6] = "SolarPlexus"
      /\ H!GateToCenter[49] = "SolarPlexus"
      /\ H!GateToCenter[55] = "SolarPlexus"
      /\ H!GateToCenter[30] = "SolarPlexus"
    BY CenterAt, GatesOf DEF H!Centers
<1>9. /\ H!GateToCenter[53] = "Root"
      /\ H!GateToCenter[60] = "Root"
      /\ H!GateToCenter[52] = "Root"
      /\ H!GateToCenter[19] = "Root"
      /\ H!GateToCenter[39] = "Root"
      /\ H!GateToCenter[41] = "Root"
      /\ H!GateToCenter[58] = "Root"
      /\ H!GateToCenter[38] = "Root"
      /\ H!GateToCenter[54] = "Root"
    BY CenterAt, GatesOf DEF H!Centers
<1> QED
    BY <1>1, <1>2, <1>3, <1>4, <1>5, <1>6, <1>7, <1>8, <1>9

\* A channel links two centres, and one at the Root links it to a centre of
\* an authority.
Linked(p, q) ==
    /\ p \in H!Centers /\ q \in H!Centers /\ p # q
    /\ p = "Root" => q \in {"Sacral", "Spleen", "SolarPlexus"}
    /\ q = "Root" => p \in {"Sacral", "Spleen", "SolarPlexus"}
Ends(ch) == {H!GateToCenter[g] : g \in ch}
Links(ch) == \E p, q : Linked(p, q) /\ Ends(ch) = {p, q}

LEMMA LinksOf ==
    ASSUME NEW g, NEW h, Linked(H!GateToCenter[g], H!GateToCenter[h])
    PROVE  Links({g, h})
BY DEF Links, Ends

LEMMA ChannelLinks ==
    ASSUME NEW ch \in H!Channels
    PROVE  Links(ch)
<1>1. CASE ch = {1, 8}
    <2>1. Linked(H!GateToCenter[1], H!GateToCenter[8])
        BY GatesAt DEF Linked, H!Centers
    <2> QED
        BY <1>1, <2>1, LinksOf
<1>2. CASE ch = {2, 14}
    <2>1. Linked(H!GateToCenter[2], H!GateToCenter[14])
        BY GatesAt DEF Linked, H!Centers
    <2> QED
        BY <1>2, <2>1, LinksOf
<1>3. CASE ch = {3, 60}
    <2>1. Linked(H!GateToCenter[3], H!GateToCenter[60])
        BY GatesAt DEF Linked, H!Centers
    <2> QED
        BY <1>3, <2>1, LinksOf
<1>4. CASE ch = {4, 63}
    <2>1. Linked(H!GateToCenter[4], H!GateToCenter[63])
        BY GatesAt DEF Linked, H!Centers
    <2> QED
        BY <1>4, <2>1, LinksOf
<1>5. CASE ch = {5, 15}
    <2>1. Linked(H!GateToCenter[5], H!GateToCenter[15])
        BY GatesAt DEF Linked, H!Centers
    <2> QED
        BY <1>5, <2>1, LinksOf
<1>6. CASE ch = {6, 59}
    <2>1. Linked(H!GateToCenter[6], H!GateToCenter[59])
        BY GatesAt DEF Linked, H!Centers
    <2> QED
        BY <1>6, <2>1, LinksOf
<1>7. CASE ch = {7, 31}
    <2>1. Linked(H!GateToCenter[7], H!GateToCenter[31])
        BY GatesAt DEF Linked, H!Centers
    <2> QED
        BY <1>7, <2>1, LinksOf
<1>8. CASE ch = {9, 52}
    <2>1. Linked(H!GateToCenter[9], H!GateToCenter[52])
        BY GatesAt DEF Linked, H!Centers
    <2> QED
        BY <1>8, <2>1, LinksOf
<1>9. CASE ch = {10, 20}
    <2>1. Linked(H!GateToCenter[10], H!GateToCenter[20])
        BY GatesAt DEF Linked, H!Centers
    <2> QED
        BY <1>9, <2>1, LinksOf
<1>10. CASE ch = {10, 34}
    <2>1. Linked(H!GateToCenter[10], H!GateToCenter[34])
        BY GatesAt DEF Linked, H!Centers
    <2> QED
        BY <1>10, <2>1, LinksOf
<1>11. CASE ch = {10, 57}
    <2>1. Linked(H!GateToCenter[10], H!GateToCenter[57])
        BY GatesAt DEF Linked, H!Centers
    <2> QED
        BY <1>11, <2>1, LinksOf
<1>12. CASE ch = {11, 56}
    <2>1. Linked(H!GateToCenter[11], H!GateToCenter[56])
        BY GatesAt DEF Linked, H!Centers
    <2> QED
        BY <1>12, <2>1, LinksOf
<1>13. CASE ch = {12, 22}
    <2>1. Linked(H!GateToCenter[12], H!GateToCenter[22])
        BY GatesAt DEF Linked, H!Centers
    <2> QED
        BY <1>13, <2>1, LinksOf
<1>14. CASE ch = {13, 33}
    <2>1. Linked(H!GateToCenter[13], H!GateToCenter[33])
        BY GatesAt DEF Linked, H!Centers
    <2> QED
        BY <1>14, <2>1, LinksOf
<1>15. CASE ch = {16, 48}
    <2>1. Linked(H!GateToCenter[16], H!GateToCenter[48])
        BY GatesAt DEF Linked, H!Centers
    <2> QED
        BY <1>15, <2>1, LinksOf
<1>16. CASE ch = {17, 62}
    <2>1. Linked(H!GateToCenter[17], H!GateToCenter[62])
        BY GatesAt DEF Linked, H!Centers
    <2> QED
        BY <1>16, <2>1, LinksOf
<1>17. CASE ch = {18, 58}
    <2>1. Linked(H!GateToCenter[18], H!GateToCenter[58])
        BY GatesAt DEF Linked, H!Centers
    <2> QED
        BY <1>17, <2>1, LinksOf
<1>18. CASE ch = {19, 49}
    <2>1. Linked(H!GateToCenter[19], H!GateToCenter[49])
        BY GatesAt DEF Linked, H!Centers
    <2> QED
        BY <1>18, <2>1, LinksOf
<1>19. CASE ch = {20, 34}
    <2>1. Linked(H!GateToCenter[20], H!GateToCenter[34])
        BY GatesAt DEF Linked, H!Centers
    <2> QED
        BY <1>19, <2>1, LinksOf
<1>20. CASE ch = {20, 57}
    <2>1. Linked(H!GateToCenter[20], H!GateToCenter[57])
        BY GatesAt DEF Linked, H!Centers
    <2> QED
        BY <1>20, <2>1, LinksOf
<1>21. CASE ch = {21, 45}
    <2>1. Linked(H!GateToCenter[21], H!GateToCenter[45])
        BY GatesAt DEF Linked, H!Centers
    <2> QED
        BY <1>21, <2>1, LinksOf
<1>22. CASE ch = {23, 43}
    <2>1. Linked(H!GateToCenter[23], H!GateToCenter[43])
        BY GatesAt DEF Linked, H!Centers
    <2> QED
        BY <1>22, <2>1, LinksOf
<1>23. CASE ch = {24, 61}
    <2>1. Linked(H!GateToCenter[24], H!GateToCenter[61])
        BY GatesAt DEF Linked, H!Centers
    <2> QED
        BY <1>23, <2>1, LinksOf
<1>24. CASE ch = {25, 51}
    <2>1. Linked(H!GateToCenter[25], H!GateToCenter[51])
        BY GatesAt DEF Linked, H!Centers
    <2> QED
        BY <1>24, <2>1, LinksOf
<1>25. CASE ch = {26, 44}
    <2>1. Linked(H!GateToCenter[26], H!GateToCenter[44])
        BY GatesAt DEF Linked, H!Centers
    <2> QED
        BY <1>25, <2>1, LinksOf
<1>26. CASE ch = {27, 50}
    <2>1. Linked(H!GateToCenter[27], H!GateToCenter[50])
        BY GatesAt DEF Linked, H!Centers
    <2> QED
        BY <1>26, <2>1, LinksOf
<1>27. CASE ch = {28, 38}
    <2>1. Linked(H!GateToCenter[28], H!GateToCenter[38])
        BY GatesAt DEF Linked, H!Centers
    <2> QED
        BY <1>27, <2>1, LinksOf
<1>28. CASE ch = {29, 46}
    <2>1. Linked(H!GateToCenter[29], H!GateToCenter[46])
        BY GatesAt DEF Linked, H!Centers
    <2> QED
        BY <1>28, <2>1, LinksOf
<1>29. CASE ch = {30, 41}
    <2>1. Linked(H!GateToCenter[30], H!GateToCenter[41])
        BY GatesAt DEF Linked, H!Centers
    <2> QED
        BY <1>29, <2>1, LinksOf
<1>30. CASE ch = {32, 54}
    <2>1. Linked(H!GateToCenter[32], H!GateToCenter[54])
        BY GatesAt DEF Linked, H!Centers
    <2> QED
        BY <1>30, <2>1, LinksOf
<1>31. CASE ch = {34, 57}
    <2>1. Linked(H!GateToCenter[34], H!GateToCenter[57])
        BY GatesAt DEF Linked, H!Centers
    <2> QED
        BY <1>31, <2>1, LinksOf
<1>32. CASE ch = {35, 36}
    <2>1. Linked(H!GateToCenter[35], H!GateToCenter[36])
        BY GatesAt DEF Linked, H!Centers
    <2> QED
        BY <1>32, <2>1, LinksOf
<1>33. CASE ch = {37, 40}
    <2>1. Linked(H!GateToCenter[37], H!GateToCenter[40])
        BY GatesAt DEF Linked, H!Centers
    <2> QED
        BY <1>33, <2>1, LinksOf
<1>34. CASE ch = {39, 55}
    <2>1. Linked(H!GateToCenter[39], H!GateToCenter[55])
        BY GatesAt DEF Linked, H!Centers
    <2> QED
        BY <1>34, <2>1, LinksOf
<1>35. CASE ch = {42, 53}
    <2>1. Linked(H!GateToCenter[42], H!GateToCenter[53])
        BY GatesAt DEF Linked, H!Centers
    <2> QED
        BY <1>35, <2>1, LinksOf
<1>36. CASE ch = {47, 64}
    <2>1. Linked(H!GateToCenter[47], H!GateToCenter[64])
        BY GatesAt DEF Linked, H!Centers
    <2> QED
        BY <1>36, <2>1, LinksOf
<1> QED
    BY <1>1, <1>2, <1>3, <1>4, <1>5, <1>6, <1>7, <1>8, <1>9, <1>10, <1>11,
       <1>12, <1>13, <1>14, <1>15, <1>16, <1>17, <1>18, <1>19, <1>20, <1>21,
       <1>22, <1>23, <1>24, <1>25, <1>26, <1>27, <1>28, <1>29, <1>30, <1>31,
       <1>32, <1>33, <1>34, <1>35, <1>36
    DEF H!Channels
LinkSet(links) ==
    \A l \in links : \E p, q : Linked(p, q) /\ l = {p, q}

LEMMA LinksAre ==
    ASSUME NEW gs
    PROVE  LinkSet(H!CenterLinks(gs))
<1>1. ASSUME NEW ch \in H!Channels
      PROVE  \E p, q : Linked(p, q) /\ {H!GateToCenter[g] : g \in ch} = {p, q}
    BY ChannelLinks DEF Links, Ends
<1> QED
    BY <1>1 DEF LinkSet, H!CenterLinks

LEMMA SameCardinality ==
    ASSUME NEW X
    PROVE  H!Cardinality(X) = Cardinality(X)
BY DEF H!Cardinality, Cardinality, H!IsFiniteSet, IsFiniteSet

\* Every round finds another centre, until all are found that there are to be
\* found: nine rounds are enough for nine centres.
LEMMA FoundIs ==
    ASSUME NEW links, LinkSet(links), NEW c \in H!Centers
    PROVE  LET f == H!Found(links, c) IN
           /\ c \in f /\ f \subseteq H!Centers
           /\ f \subseteq {c} \cup H!Defined(links)
           /\ H!Closed(links, f)
           /\ \A cs : c \in cs /\ H!Closed(links, cs) => f \subseteq cs
<1> DEFINE X == SUBSET H!Centers
           g == [s \in X |-> H!Widened(links, s)]
           Is(f) == f = [n \in 0..9 |->
                           IF n = 0 THEN {c} ELSE H!Widened(links, f[n - 1])]
           it == CHOOSE f : Is(f)
<1>1. ASSUME NEW l \in links PROVE l \subseteq H!Centers
    BY <1>1 DEF LinkSet, Linked
<1>2. ASSUME NEW s \in X PROVE H!Widened(links, s) \in X
    BY <1>1 DEF H!Widened
<1>3. g \in [X -> X] /\ {c} \in X
    BY <1>2
<1>4. \E f : Is(f)
    <2>1. PICK h : Repeats(h, X, g, {c}, 9)
        <3> HIDE DEF g, X
        <3> QED
            BY <1>3, Repeatable
    <2>2. ASSUME NEW n \in 0..9, n # 0
          PROVE  g[h[n - 1]] = H!Widened(links, h[n - 1])
        <3>1. n - 1 \in 0..9
            BY <2>2
        <3> QED
            BY <2>1, <3>1 DEF Repeats
    <2> HIDE DEF g
    <2>3. h = [n \in 0..9 |-> h[n]]
        BY <2>1 DEF Repeats
    <2>4. Is(h)
        BY <2>1, <2>2, <2>3 DEF Repeats
    <2> QED
        BY <2>4
<1>5. Is(it)
    BY <1>4
<1>6. H!Found(links, c) = it[9]
    BY NineCenters, SameCardinality DEF H!Found
<1> HIDE DEF it
<1>7. it[0] = {c} /\ \A n \in 1..9 : it[n] = H!Widened(links, it[n - 1])
    BY <1>5
<1> HIDE DEF Is
<1> DEFINE Fine(s) == /\ c \in s /\ s \subseteq H!Centers
                      /\ s \subseteq {c} \cup H!Defined(links)
                      /\ \A cs : c \in cs /\ H!Closed(links, cs) => s \subseteq cs
           Far(s, n) == H!Closed(links, s) \/ Cardinality(s) > n
<1>8. Fine(it[0]) /\ Far(it[0], 0)
    BY <1>7, FS_Singleton
<1>9. ASSUME NEW s, NEW n \in Nat, Fine(s), Far(s, n)
      PROVE  Fine(H!Widened(links, s)) /\ Far(H!Widened(links, s), n + 1)
    <2> DEFINE w == H!Widened(links, s)
    <2>1. s \subseteq w /\ s \in X /\ w \in X
        BY <1>2, <1>9 DEF H!Widened
    <2>2. Fine(w)
        BY <1>9, <2>1 DEF H!Widened, H!Closed, H!Defined
    <2>3. CASE w = s
        <3>1. H!Closed(links, s)
            BY <2>3 DEF H!Widened, H!Closed
        <3> QED
            BY <2>2, <2>3, <3>1
    <2>4. CASE w # s
        <3>1. IsFiniteSet(w) /\ IsFiniteSet(s)
            BY <2>1, NineCenters, FS_Subset
        <3>2. Cardinality(s) \in Nat /\ Cardinality(w) \in Nat
            BY <3>1, FS_CardinalityType
        <3>3. Cardinality(s) < Cardinality(w)
            <4> HIDE DEF w
            <4>1. Cardinality(s) <= Cardinality(w) /\ Cardinality(s) # Cardinality(w)
                BY <2>1, <2>4, <3>1, FS_Subset
            <4> QED
                BY <3>2, <4>1
        <3>4. ~H!Closed(links, s)
            BY <2>4 DEF H!Widened, H!Closed
        <3> HIDE DEF w
        <3>5. Far(w, n + 1)
            BY <1>9, <3>2, <3>3, <3>4
        <3> QED
            BY <2>2, <3>5 DEF w
    <2> QED
        BY <2>3, <2>4
<1> HIDE DEF Fine, Far
<1>10. Fine(it[9]) /\ Far(it[9], 9)
    <2> DEFINE Good(n) == Fine(it[n]) /\ Far(it[n], n)
    <2>1. Good(0)
        BY <1>8
    <2>2. ASSUME NEW n \in 0..8, Good(n) PROVE Good(n + 1)
        <3>1. n + 1 \in 1..9 /\ (n + 1) - 1 = n
            OBVIOUS
        <3>2. it[n + 1] = H!Widened(links, it[n])
            BY <1>7, <3>1
        <3> QED
            BY <1>9, <2>2, <3>2
    <2> HIDE DEF Good
    <2>3. Good(1) /\ Good(2) /\ Good(3) /\ Good(4) /\ Good(5) /\ Good(6)
          /\ Good(7) /\ Good(8) /\ Good(9)
        BY <2>1, <2>2
    <2> QED
        BY <2>3 DEF Good
<1>11. ~(Cardinality(it[9]) > 9)
    <2>1. it[9] \in SUBSET H!Centers
        BY <1>10 DEF Fine
    <2>2. IsFiniteSet(it[9]) /\ Cardinality(it[9]) <= 9
        BY <2>1, NineCenters, FS_Subset
    <2>3. Cardinality(it[9]) \in Nat
        BY <2>2, FS_CardinalityType
    <2> QED
        BY <2>2, <2>3
<1> QED
    BY <1>6, <1>10, <1>11 DEF Fine, Far

\* The components of the graph: either the same or apart.
LEMMA Component ==
    ASSUME NEW links, LinkSet(links), NEW c \in H!Centers, NEW d \in H!Centers,
           d \in H!Found(links, c)
    PROVE  H!Found(links, d) = H!Found(links, c)
<1> DEFINE f == H!Found(links, c)
           g == H!Found(links, d)
           cs == f \ g
<1>1. /\ c \in f /\ H!Closed(links, f)
      /\ \A s : c \in s /\ H!Closed(links, s) => f \subseteq s
    BY FoundIs
<1>2. /\ d \in g /\ H!Closed(links, g)
      /\ \A s : d \in s /\ H!Closed(links, s) => g \subseteq s
    BY FoundIs
<1>3. d \in f
    OBVIOUS
<1> HIDE DEF f, g
<1>4. g \subseteq f
    BY <1>1, <1>2, <1>3
<1>5. H!Closed(links, cs)
    BY <1>1, <1>2 DEF H!Closed
<1>6. c \in g
    BY <1>1, <1>2, <1>3, <1>5
<1>7. f \subseteq g
    BY <1>1, <1>2, <1>6
<1> QED
    BY <1>4, <1>7 DEF f, g

LEMMA DefinedAre ==
    ASSUME NEW links, LinkSet(links), NEW c \in H!Defined(links)
    PROVE  c \in H!Centers /\ \E d \in H!Found(links, c) : d # c
<1>1. PICK l \in links : c \in l
    BY DEF H!Defined
<1>2. PICK p, q : Linked(p, q) /\ l = {p, q}
    BY DEF LinkSet
<1>3. c \in H!Centers
    BY <1>1, <1>2 DEF Linked
<1>4. c \in H!Found(links, c) /\ H!Closed(links, H!Found(links, c))
    BY <1>3, FoundIs
<1>5. l \subseteq H!Found(links, c)
    BY <1>1, <1>4 DEF H!Closed
<1> QED
    BY <1>1, <1>2, <1>3, <1>5 DEF Linked

\* Two centres at least to a component, of nine: four components at most.
LEMMA FourAtMost ==
    ASSUME NEW links, LinkSet(links)
    PROVE  /\ H!DetermineDefinition(links) \in 0..4
           /\ H!DetermineDefinition(links) = 0 <=> links = {}
<1> DEFINE parts == {H!Found(links, c) : c \in H!Defined(links)}
           one == [p \in parts |-> CHOOSE c : c \in p]
           two == [p \in parts |-> CHOOSE c : c \in p /\ c # one[p]]
           f == [x \in parts \X {1, 2} |-> IF x[2] = 1 THEN one[x[1]] ELSE two[x[1]]]
<1>1. ASSUME NEW p \in parts
      PROVE  /\ p \subseteq H!Centers
             /\ \E c, d : c \in p /\ d \in p /\ c # d
             /\ \A c \in p : p = H!Found(links, c)
    <2>1. PICK c \in H!Defined(links) : p = H!Found(links, c)
        BY <1>1
    <2>2. c \in H!Centers /\ (\E d \in p : d # c)
        BY <2>1, DefinedAre
    <2>3. c \in p /\ p \subseteq H!Centers
        BY <2>1, <2>2, FoundIs
    <2>4. ASSUME NEW d \in p PROVE p = H!Found(links, d)
        BY <2>1, <2>2, <2>3, Component
    <2> QED
        BY <2>2, <2>3, <2>4
<1> HIDE DEF parts
<1>2. ASSUME NEW p \in parts
      PROVE  one[p] \in p /\ two[p] \in p /\ one[p] # two[p]
    <2>1. one[p] \in p
        BY <1>1
    <2>2. \E c : c \in p /\ c # one[p]
        <3> HIDE DEF one
        <3> QED
            BY <1>1, <2>1
    <2>3. two[p] \in p /\ two[p] # one[p]
        <3> HIDE DEF one
        <3> QED
            BY <2>2
    <2> QED
        BY <2>1, <2>3
<1> HIDE DEF one, two
<1>3. f \in Injection(parts \X {1, 2}, H!Centers)
    <2>1. f \in [parts \X {1, 2} -> H!Centers]
        BY <1>1, <1>2
    <2>2. ASSUME NEW x \in parts \X {1, 2}, NEW y \in parts \X {1, 2}, f[x] = f[y]
          PROVE  x = y
        <3>1. PICK p \in parts, i \in {1, 2} : x = <<p, i>>
            OBVIOUS
        <3>2. PICK q \in parts, j \in {1, 2} : y = <<q, j>>
            OBVIOUS
        <3>3. /\ f[x] = IF i = 1 THEN one[p] ELSE two[p]
              /\ f[y] = IF j = 1 THEN one[q] ELSE two[q]
            BY <3>1, <3>2
        <3>4. f[x] \in p /\ f[y] \in q
            BY <1>2, <3>3
        <3>5. p = q
            BY <1>1, <2>2, <3>4
        <3> HIDE DEF f
        <3>6. i = j
            BY <1>2, <2>2, <3>3, <3>5
        <3> QED
            BY <3>1, <3>2, <3>5, <3>6
    <2> QED
        BY <2>1, <2>2 DEF Injection, IsInjective
<1>4. /\ IsFiniteSet(parts \X {1, 2})
      /\ Cardinality(parts \X {1, 2}) <= 9
    <2> HIDE DEF f
    <2> QED
        BY <1>3, NineCenters, FS_Injection
<1>5. IsFiniteSet(parts)
    <2>1. parts \in SUBSET (SUBSET H!Centers)
        BY <1>1
    <2>2. IsFiniteSet(SUBSET H!Centers)
        BY NineCenters, FS_SUBSET
    <2> QED
        BY <2>1, <2>2, FS_Subset
<1>6. IsFiniteSet({1, 2}) /\ Cardinality({1, 2}) = 2
    <2>1. {1, 2} = {1} \cup {2} /\ 2 \notin {1}
        OBVIOUS
    <2>2. IsFiniteSet({1}) /\ Cardinality({1}) = 1
        BY FS_Singleton
    <2> QED
        BY <2>1, <2>2, FS_AddElement
<1>7. Cardinality(parts \X {1, 2}) = Cardinality(parts) * 2
    BY <1>5, <1>6, FS_Product
<1>8. Cardinality(parts) \in Nat
    BY <1>5, FS_CardinalityType
<1>9. Cardinality(parts) \in 0..4
    BY <1>4, <1>7, <1>8
<1>10. H!DetermineDefinition(links) = Cardinality(parts)
    BY SameCardinality DEF H!DetermineDefinition, parts
<1>11. Cardinality(parts) = 0 <=> parts = {}
    BY <1>5, FS_EmptySet
<1>12. parts = {} <=> links = {}
    BY DEF parts, H!Defined, LinkSet
<1> QED
    BY <1>9, <1>10, <1>11, <1>12

LEMMA TypesMeetAuthorities == H!TypeMeetsAuthority
<1> DEFINE links == H!CenterLinks(x2)
           defined == H!Defined(links)
           type == H!DetermineType(links)
           authority == H!DetermineAuthority(type, defined)
           Reaches(m) == \A cs \in SUBSET H!Centers :
                            m \in cs /\ H!Closed(links, cs) => "Throat" \in cs
<1>1. LinkSet(links)
    BY LinksAre
<1> HIDE DEF links
<1>2. defined \subseteq H!Centers
    BY <1>1, DefinedAre
<1>3. ASSUME NEW m \in H!Motors \cap defined
      PROVE  /\ H!PathExists(links, m, "Throat") <=> Reaches(m)
             /\ Reaches(m) => "Throat" \in defined
    <2> DEFINE f == H!Found(links, m)
    <2>1. /\ m \in f /\ f \subseteq H!Centers /\ f \subseteq {m} \cup defined
          /\ H!Closed(links, f)
          /\ \A cs : m \in cs /\ H!Closed(links, cs) => f \subseteq cs
        BY <1>1, <1>2, FoundIs
    <2>2. "Throat" # m
        BY DEF H!Motors
    <2>3. H!PathExists(links, m, "Throat") <=> "Throat" \in f
        BY DEF H!PathExists
    <2> HIDE DEF f
    <2>4. Reaches(m) <=> "Throat" \in f
        BY <2>1
    <2> HIDE DEF Reaches
    <2> QED
        BY <2>1, <2>2, <2>3, <2>4
<1>4. H!MotorToThroat(links) <=> \E m \in H!Motors \cap defined : Reaches(m)
    <2> HIDE DEF Reaches
    <2> QED
        BY <1>3 DEF H!MotorToThroat
<1>5. links = {} <=> defined = {}
    BY <1>1 DEF LinkSet, H!Defined
<1>6. type \in {"Manifestor", "ManifestingGenerator"}
         <=> \E m \in H!Motors \cap defined : Reaches(m)
    <2> HIDE DEF Reaches, defined
    <2>1. H!MotorToThroat(links) => defined # {}
        BY <1>4
    <2> QED
        BY <1>4, <1>5, <2>1 DEF H!DetermineType, defined
<1>7. type \in {"Generator", "ManifestingGenerator"} =>
         authority \in {"Emotional", "Sacral"}
    BY DEF H!DetermineType, H!DetermineAuthority
<1>8. type = "Manifestor" =>
         authority \in {"Emotional", "Splenic", "EgoManifested"}
    <2> SUFFICES ASSUME type = "Manifestor"
                 PROVE  authority \in {"Emotional", "Splenic", "EgoManifested"}
        OBVIOUS
    <2>1. "Sacral" \notin defined /\ H!MotorToThroat(links)
        BY DEF H!DetermineType
    <2>2. PICK m \in H!Motors \cap defined : TRUE
        BY <2>1 DEF H!MotorToThroat
    <2>3. m = "Root" => defined \cap {"Spleen", "SolarPlexus"} # {}
        <3> SUFFICES ASSUME m = "Root"
                     PROVE  defined \cap {"Spleen", "SolarPlexus"} # {}
            OBVIOUS
        <3>1. PICK l \in links : "Root" \in l
            BY <2>2 DEF H!Defined
        <3>2. l \subseteq defined
            BY <3>1 DEF H!Defined
        <3>3. PICK p, q : Linked(p, q) /\ l = {p, q}
            BY <1>1 DEF LinkSet
        <3> HIDE DEF defined
        <3>4. \E r \in l : r \in {"Sacral", "Spleen", "SolarPlexus"}
            BY <3>1, <3>3 DEF Linked
        <3> QED
            BY <2>1, <3>2, <3>4
    <2>4. \/ "SolarPlexus" \in defined \/ "Spleen" \in defined
          \/ "Heart" \in defined
        <3> HIDE DEF defined
        <3> QED
            BY <2>1, <2>2, <2>3 DEF H!Motors
    <2> HIDE DEF defined
    <2> QED
        BY <2>1, <2>4 DEF H!DetermineAuthority
<1>9. type = "Reflector" <=> links = {}
    BY DEF H!DetermineType
<1>10. /\ H!DetermineDefinition(links) \in 0..4
       /\ type = "Reflector" <=> H!DetermineDefinition(links) = 0
    <2> HIDE DEF type
    <2> QED
        BY <1>1, <1>9, FourAtMost
<1> QED
    <2> HIDE DEF Reaches
    <2>1. /\ type \in {"Manifestor", "ManifestingGenerator"}
                <=> \E m \in H!Motors \cap defined : Reaches(m)
          /\ type \in {"Generator", "ManifestingGenerator"} =>
                authority \in {"Emotional", "Sacral"}
          /\ type = "Manifestor" =>
                authority \in {"Emotional", "Splenic", "EgoManifested"}
          /\ type = "Reflector" <=> H!DetermineDefinition(links) = 0
          /\ H!DetermineDefinition(links) \in 0..4
        BY <1>6, <1>7, <1>8, <1>10
    <2> QED
        BY <2>1 DEF H!TypeMeetsAuthority, links, Reaches

-----------------------------------------------------------------------------
(* HumanDesign: the wheel.                                                 *)

\* Where each gate stands in the wheel.
PlaceOf ==
    <<51, 19, 16, 36, 56, 42, 35, 21, 55, 59, 58, 26, 3, 53, 27, 23, 12, 44, 2,
      22, 13, 9, 20, 18, 11, 57, 17, 49, 37, 5, 33, 47, 34, 54, 24, 10, 7, 61,
      29, 39, 1, 15, 52, 50, 25, 43, 41, 45, 4, 48, 14, 28, 30, 62, 6, 32, 46,
      60, 38, 64, 63, 31, 8, 40>>

LEMMA GatesStand ==
    /\ H!GateOrder[1] = 41 /\ H!GateOrder[2] = 19
    /\ H!GateOrder[3] = 13 /\ H!GateOrder[4] = 49
    /\ H!GateOrder[5] = 30 /\ H!GateOrder[6] = 55
    /\ H!GateOrder[7] = 37 /\ H!GateOrder[8] = 63
    /\ H!GateOrder[9] = 22 /\ H!GateOrder[10] = 36
    /\ H!GateOrder[11] = 25 /\ H!GateOrder[12] = 17
    /\ H!GateOrder[13] = 21 /\ H!GateOrder[14] = 51
    /\ H!GateOrder[15] = 42 /\ H!GateOrder[16] = 3
    /\ H!GateOrder[17] = 27 /\ H!GateOrder[18] = 24
    /\ H!GateOrder[19] = 2 /\ H!GateOrder[20] = 23
    /\ H!GateOrder[21] = 8 /\ H!GateOrder[22] = 20
    /\ H!GateOrder[23] = 16 /\ H!GateOrder[24] = 35
    /\ H!GateOrder[25] = 45 /\ H!GateOrder[26] = 12
    /\ H!GateOrder[27] = 15 /\ H!GateOrder[28] = 52
    /\ H!GateOrder[29] = 39 /\ H!GateOrder[30] = 53
    /\ H!GateOrder[31] = 62 /\ H!GateOrder[32] = 56
    /\ H!GateOrder[33] = 31 /\ H!GateOrder[34] = 33
    /\ H!GateOrder[35] = 7 /\ H!GateOrder[36] = 4
    /\ H!GateOrder[37] = 29 /\ H!GateOrder[38] = 59
    /\ H!GateOrder[39] = 40 /\ H!GateOrder[40] = 64
    /\ H!GateOrder[41] = 47 /\ H!GateOrder[42] = 6
    /\ H!GateOrder[43] = 46 /\ H!GateOrder[44] = 18
    /\ H!GateOrder[45] = 48 /\ H!GateOrder[46] = 57
    /\ H!GateOrder[47] = 32 /\ H!GateOrder[48] = 50
    /\ H!GateOrder[49] = 28 /\ H!GateOrder[50] = 44
    /\ H!GateOrder[51] = 1 /\ H!GateOrder[52] = 43
    /\ H!GateOrder[53] = 14 /\ H!GateOrder[54] = 34
    /\ H!GateOrder[55] = 9 /\ H!GateOrder[56] = 5
    /\ H!GateOrder[57] = 26 /\ H!GateOrder[58] = 11
    /\ H!GateOrder[59] = 10 /\ H!GateOrder[60] = 58
    /\ H!GateOrder[61] = 38 /\ H!GateOrder[62] = 54
    /\ H!GateOrder[63] = 61 /\ H!GateOrder[64] = 60
BY DEF H!GateOrder

LEMMA PlacesStand ==
    /\ PlaceOf[1] = 51 /\ PlaceOf[2] = 19
    /\ PlaceOf[3] = 16 /\ PlaceOf[4] = 36
    /\ PlaceOf[5] = 56 /\ PlaceOf[6] = 42
    /\ PlaceOf[7] = 35 /\ PlaceOf[8] = 21
    /\ PlaceOf[9] = 55 /\ PlaceOf[10] = 59
    /\ PlaceOf[11] = 58 /\ PlaceOf[12] = 26
    /\ PlaceOf[13] = 3 /\ PlaceOf[14] = 53
    /\ PlaceOf[15] = 27 /\ PlaceOf[16] = 23
    /\ PlaceOf[17] = 12 /\ PlaceOf[18] = 44
    /\ PlaceOf[19] = 2 /\ PlaceOf[20] = 22
    /\ PlaceOf[21] = 13 /\ PlaceOf[22] = 9
    /\ PlaceOf[23] = 20 /\ PlaceOf[24] = 18
    /\ PlaceOf[25] = 11 /\ PlaceOf[26] = 57
    /\ PlaceOf[27] = 17 /\ PlaceOf[28] = 49
    /\ PlaceOf[29] = 37 /\ PlaceOf[30] = 5
    /\ PlaceOf[31] = 33 /\ PlaceOf[32] = 47
    /\ PlaceOf[33] = 34 /\ PlaceOf[34] = 54
    /\ PlaceOf[35] = 24 /\ PlaceOf[36] = 10
    /\ PlaceOf[37] = 7 /\ PlaceOf[38] = 61
    /\ PlaceOf[39] = 29 /\ PlaceOf[40] = 39
    /\ PlaceOf[41] = 1 /\ PlaceOf[42] = 15
    /\ PlaceOf[43] = 52 /\ PlaceOf[44] = 50
    /\ PlaceOf[45] = 25 /\ PlaceOf[46] = 43
    /\ PlaceOf[47] = 41 /\ PlaceOf[48] = 45
    /\ PlaceOf[49] = 4 /\ PlaceOf[50] = 48
    /\ PlaceOf[51] = 14 /\ PlaceOf[52] = 28
    /\ PlaceOf[53] = 30 /\ PlaceOf[54] = 62
    /\ PlaceOf[55] = 6 /\ PlaceOf[56] = 32
    /\ PlaceOf[57] = 46 /\ PlaceOf[58] = 60
    /\ PlaceOf[59] = 38 /\ PlaceOf[60] = 64
    /\ PlaceOf[61] = 63 /\ PlaceOf[62] = 31
    /\ PlaceOf[63] = 8 /\ PlaceOf[64] = 40
BY DEF PlaceOf

LEMMA GatePlace ==
    ASSUME NEW i \in 1..64
    PROVE  H!GateOrder[i] \in 1..64 /\ PlaceOf[H!GateOrder[i]] = i
BY GatesStand, PlacesStand

LEMMA PlaceIs ==
    ASSUME NEW i \in 1..64
    PROVE  (CHOOSE j \in 1..64 : H!GateOrder[j] = H!GateOrder[i]) = i
<1>1. ASSUME NEW j \in 1..64, H!GateOrder[j] = H!GateOrder[i]
      PROVE  j = i
    BY <1>1, GatePlace
<1> QED
    BY <1>1

LEMMA WheelIs ==
    /\ H!LineSize = 180 /\ H!GateSize = 1080 /\ H!Wheel = 69120
    /\ H!Degrees(302) = 57984 /\ H!Degrees(180) = 34560 /\ H!Degrees(88) = 16896
BY DEF H!LineSize, H!GateSize, H!Wheel, H!Degrees

\* Whole turns of the wheel do not count.
LEMMA Turning ==
    ASSUME NEW x \in Int, NEW y \in Int, NEW q \in Int, x = y + 69120 * q
    PROVE  x % 69120 = y % 69120
OBVIOUS

LEMMA Remains ==
    ASSUME NEW x \in Int
    PROVE  /\ x % 69120 \in Nat /\ x % 69120 < 69120
           /\ \E q \in Int : x = (x % 69120) + 69120 * q
<1> DEFINE r == x % 69120
           d == x \div 69120
<1>1. r \in Nat /\ r < 69120 /\ d \in Int /\ x = r + 69120 * d
    OBVIOUS
<1> HIDE DEF r, d
<1>2. r \in Nat /\ r < 69120 /\ \E q \in Int : x = r + 69120 * q
    BY <1>1
<1> QED
    BY <1>2 DEF r

LEMMA Shifting ==
    ASSUME NEW l \in Int, NEW m \in Int
    PROVE  (((l + m) % 69120) - 57984) % 69120
              = (((l - 57984) % 69120) + m) % 69120
<1> DEFINE u == (l + m) % 69120
           v == (l - 57984) % 69120
<1>1. u \in Nat /\ u < 69120 /\ \E p \in Int : l + m = u + 69120 * p
    <2>1. l + m \in Int
        OBVIOUS
    <2> QED
        BY ONLY <2>1, Remains DEF u
<1>2. v \in Nat /\ v < 69120 /\ \E q \in Int : l - 57984 = v + 69120 * q
    <2> DEFINE w == l - 57984
    <2>1. w \in Int
        OBVIOUS
    <2> HIDE DEF w
    <2>2. /\ w % 69120 \in Nat /\ w % 69120 < 69120
          /\ \E q \in Int : w = (w % 69120) + 69120 * q
        BY ONLY <2>1, Remains
    <2> QED
        BY <2>2 DEF v, w
<1> HIDE DEF u, v
<1>3. PICK p \in Int : l + m = u + 69120 * p
    BY <1>1
<1>4. PICK q \in Int : l - 57984 = v + 69120 * q
    BY <1>2
<1> DEFINE x == u - 57984
           y == v + m
<1>5. x \in Int /\ y \in Int /\ x = y + 69120 * (q - p) /\ q - p \in Int
    BY <1>1, <1>2, <1>3, <1>4
<1> HIDE DEF x, y
<1>6. x % 69120 = y % 69120
    BY <1>5, Turning
<1> QED
    BY <1>6 DEF x, y, u, v

LEMMA OffsetIs ==
    ASSUME NEW l \in Int
    PROVE  /\ H!Offset(l) \in Nat /\ H!Offset(l) < 69120
           /\ H!Earth(l) \in Int /\ H!DesignSun(l) \in Int
           /\ H!Offset(H!Earth(l)) = (H!Offset(l) + 34560) % 69120
           /\ H!Offset(H!DesignSun(l)) = (H!Offset(l) - 16896) % 69120
<1>1. H!Offset(l) = (l - 57984) % 69120 /\ H!Offset(l) \in Nat /\ H!Offset(l) < 69120
    BY WheelIs, Remains DEF H!Offset
<1>2. /\ H!Offset(H!Earth(l)) = (((l + 34560) % 69120) - 57984) % 69120
      /\ H!Earth(l) \in Int
    BY WheelIs, Remains DEF H!Offset, H!Earth
<1>3. /\ H!Offset(H!DesignSun(l)) = (((l + (-16896)) % 69120) - 57984) % 69120
      /\ H!DesignSun(l) \in Int
    <2>1. l - 16896 = l + (-16896)
        OBVIOUS
    <2> QED
        BY <2>1, WheelIs, Remains DEF H!Offset, H!DesignSun
<1>4. H!Offset(H!Earth(l)) = (H!Offset(l) + 34560) % 69120
    BY <1>1, <1>2, Shifting
<1>5. H!Offset(H!DesignSun(l)) = (H!Offset(l) + (-16896)) % 69120
    BY <1>1, <1>3, Shifting
<1>6. H!Offset(l) + (-16896) = H!Offset(l) - 16896
    BY <1>1
<1> QED
    BY <1>1, <1>2, <1>3, <1>4, <1>5, <1>6

LEMMA LineOf ==
    ASSUME NEW a \in Int, NEW n \in 0..5, NEW r \in Nat, r < 180
    PROVE  ((1080 * a + 180 * n + r) % 1080) \div 180 = n
<1>1. (1080 * a + 180 * n + r) % 1080 = 180 * n + r
    OBVIOUS
<1>2. (180 * n + r) \div 180 = n
    OBVIOUS
<1> QED
    BY <1>1, <1>2

LEMMA Placed ==
    ASSUME NEW o \in Nat
    PROVE  \E a \in Nat, n \in 0..5, r \in Nat :
              r < 180 /\ o = 1080 * a + 180 * n + r
<1> DEFINE a == o \div 1080
           m == o % 1080
<1>1. a \in Nat /\ m \in Nat /\ m < 1080 /\ o = 1080 * a + m
    OBVIOUS
<1> HIDE DEF a, m
<1> DEFINE n == m \div 180
           r == m % 180
<1>2. n \in 0..5 /\ r \in Nat /\ r < 180 /\ m = 180 * n + r
    BY <1>1
<1> HIDE DEF n, r
<1> QED
    BY <1>1, <1>2

\* Half the wheel is 32 gates.
LEMMA EarthFaces ==
    ASSUME NEW o \in Nat, o < 69120, NEW e, e = (o + 34560) % 69120
    PROVE  /\ (e % 1080) \div 180 = (o % 1080) \div 180
           /\ ((o \div 1080) - (e \div 1080)) % 64 = 32
<1>1. CASE o < 34560
    BY <1>1
<1>2. CASE o >= 34560
    BY <1>2
<1> QED
    BY <1>1, <1>2

\* 88 degrees are 94 lines less 24 bases.
LEMMA DesignFollows ==
    ASSUME NEW o \in Nat, o < 69120, NEW d, d = (o - 16896) % 69120
    PROVE  LET n == (o % 1080) \div 180
           IN  (d % 1080) \div 180 \in {(n + 2) % 6, (n + 3) % 6}
<1>1. PICK a \in Nat, n \in 0..5, r \in Nat :
         r < 180 /\ o = 1080 * a + 180 * n + r
    BY Placed
<1>2. (o % 1080) \div 180 = n
    BY <1>1, LineOf
<1>3. \E q \in Int : d = o - 16896 + 69120 * q
    <2> DEFINE w == o - 16896
    <2>1. w \in Int
        OBVIOUS
    <2>2. d = w % 69120
        OBVIOUS
    <2> HIDE DEF w
    <2>3. /\ w % 69120 \in Nat
          /\ \E q \in Int : w = (w % 69120) + 69120 * q
        BY ONLY <2>1, Remains
    <2>4. PICK q \in Int : w = d + 69120 * q
        BY <2>2, <2>3
    <2>5. d = w + 69120 * (-q) /\ -q \in Int
        BY <2>1, <2>2, <2>3, <2>4
    <2> QED
        BY <2>5 DEF w
<1>4. PICK q \in Int : d = o - 16896 + 69120 * q
    BY <1>3
<1> DEFINE b == a - 16 + 64 * q
<1>5. b \in Int /\ d = 1080 * b + 180 * (n + 2) + (r + 24)
    BY <1>1, <1>4
<1> HIDE DEF b
<1> DEFINE line == (d % 1080) \div 180
<1>6. CASE r < 156 /\ n < 4
    <2>1. n + 2 \in 0..5 /\ (n + 2) % 6 = n + 2 /\ r + 24 \in Nat /\ r + 24 < 180
        BY <1>6
    <2>2. line = n + 2
        BY <1>5, <2>1, LineOf
    <2> QED
        BY <1>2, <2>1, <2>2
<1>7. CASE r < 156 /\ n >= 4
    <2>1. n - 4 \in 0..5 /\ (n + 2) % 6 = n - 4 /\ r + 24 \in Nat /\ r + 24 < 180
        BY <1>7
    <2>2. d = 1080 * (b + 1) + 180 * (n - 4) + (r + 24) /\ b + 1 \in Int
        BY <1>5
    <2>3. line = n - 4
        BY <2>1, <2>2, LineOf
    <2> QED
        BY <1>2, <2>1, <2>3
<1>8. CASE r >= 156 /\ n < 3
    <2>1. n + 3 \in 0..5 /\ (n + 3) % 6 = n + 3 /\ r - 156 \in Nat /\ r - 156 < 180
        BY <1>1, <1>8
    <2>2. d = 1080 * b + 180 * (n + 3) + (r - 156)
        BY <1>5
    <2>3. line = n + 3
        BY <1>5, <2>1, <2>2, LineOf
    <2> QED
        BY <1>2, <2>1, <2>3
<1>9. CASE r >= 156 /\ n >= 3
    <2>1. n - 3 \in 0..5 /\ (n + 3) % 6 = n - 3 /\ r - 156 \in Nat /\ r - 156 < 180
        BY <1>1, <1>9
    <2>2. d = 1080 * (b + 1) + 180 * (n - 3) + (r - 156) /\ b + 1 \in Int
        BY <1>5
    <2>3. line = n - 3
        BY <2>1, <2>2, LineOf
    <2> QED
        BY <1>2, <2>1, <2>3
<1> QED
    BY <1>6, <1>7, <1>8, <1>9

LEMMA LinesAre ==
    ASSUME NEW l \in Int
    PROVE  /\ H!Line(l) = ((H!Offset(l) % 1080) \div 180) + 1
           /\ (H!Offset(l) % 1080) \div 180 \in 0..5
           /\ H!Gate(l) = H!GateOrder[(H!Offset(l) \div 1080) + 1]
           /\ (H!Offset(l) \div 1080) + 1 \in 1..64
<1>1. H!Offset(l) \in Nat /\ H!Offset(l) < 69120
    BY OffsetIs
<1> DEFINE o == H!Offset(l)
<1>2. o \in Nat /\ o < 69120
    BY <1>1
<1> HIDE DEF o
<1>3. (o % 1080) \div 180 \in 0..5
    BY <1>2
<1>4. (o \div 1080) + 1 \in 1..64
    BY <1>2
<1> QED
    BY <1>3, <1>4, WheelIs DEF H!Line, H!Gate, o

Face(a, b) ==
    LET Place(g) == CHOOSE i \in 1..64 : H!GateOrder[i] = g IN
    a.line = b.line /\ (Place(a.gate) - Place(b.gate)) % 64 = 32

LEMMA EarthFaced ==
    ASSUME NEW l \in Int
    PROVE  Face(H!Enrich(l), H!Enrich(H!Earth(l)))
<1> DEFINE o == H!Offset(l)
           e == H!Offset(H!Earth(l))
           i == (o \div 1080) + 1
           j == (e \div 1080) + 1
<1>1. o \in Nat /\ o < 69120 /\ e = (o + 34560) % 69120 /\ H!Earth(l) \in Int
      /\ e \in Nat /\ e < 69120
    BY OffsetIs
<1>2. /\ H!Gate(l) = H!GateOrder[i] /\ i \in 1..64
      /\ H!Gate(H!Earth(l)) = H!GateOrder[j] /\ j \in 1..64
      /\ H!Line(l) = ((o % 1080) \div 180) + 1
      /\ H!Line(H!Earth(l)) = ((e % 1080) \div 180) + 1
    BY <1>1, LinesAre
<1> HIDE DEF o, e
<1>3. H!Line(l) = H!Line(H!Earth(l))
    BY <1>1, <1>2, EarthFaces
<1>4. (i - j) % 64 = 32
    <2>1. ((o \div 1080) - (e \div 1080)) % 64 = 32
        BY <1>1, EarthFaces
    <2>2. i - j = (o \div 1080) - (e \div 1080)
        BY <1>1
    <2> QED
        BY <2>1, <2>2
<1> HIDE DEF i, j
<1>5. /\ H!Enrich(l).gate = H!GateOrder[i] /\ H!Enrich(l).line = H!Line(l)
      /\ H!Enrich(H!Earth(l)).gate = H!GateOrder[j]
      /\ H!Enrich(H!Earth(l)).line = H!Line(H!Earth(l))
    <2>1. H!GateOrder[i] \in 1..64 /\ H!GateOrder[j] \in 1..64
        BY <1>2, GatePlace
    <2>2. \A g \in 1..64 : (CHOOSE h \in 1..64 : h = g) = g
        OBVIOUS
    <2> QED
        BY <1>2, <2>1, <2>2 DEF H!Enrich, H!HexagramGates
<1>6. /\ (CHOOSE k \in 1..64 : H!GateOrder[k] = H!Enrich(l).gate) = i
      /\ (CHOOSE k \in 1..64 : H!GateOrder[k] = H!Enrich(H!Earth(l)).gate) = j
    BY <1>2, <1>5, PlaceIs
<1> QED
    BY <1>3, <1>4, <1>5, <1>6 DEF Face

LEMMA ProfilesAreTwelve ==
    ASSUME x1 \in Int
    PROVE  H!TwelveProfiles
<1> DEFINE o == H!Offset(x1)
           d == H!Offset(H!DesignSun(x1))
           n == (o % 1080) \div 180
<1>1. o \in Nat /\ o < 69120 /\ d = (o - 16896) % 69120 /\ H!DesignSun(x1) \in Int
    BY OffsetIs
<1>2. /\ H!Line(x1) = n + 1 /\ n \in 0..5
      /\ H!Line(H!DesignSun(x1)) = ((d % 1080) \div 180) + 1
    BY <1>1, LinesAre
<1>3. (d % 1080) \div 180 \in {(n + 2) % 6, (n + 3) % 6}
    <2> HIDE DEF o, d
    <2> QED
        BY <1>1, DesignFollows
<1> HIDE DEF o, d, n
<1>4. H!Profile(x1)[1] = n + 1
      /\ H!Profile(x1)[2] \in {((n + 2) % 6) + 1, ((n + 3) % 6) + 1}
    BY <1>2, <1>3 DEF H!Profile
<1>5. H!Profile(x1)[2] \in {((H!Profile(x1)[1] + m) % 6) + 1 : m \in {1, 2}}
    <2>1. (n + 1) + 1 = n + 2 /\ (n + 1) + 2 = n + 3
        BY <1>2
    <2> QED
        BY <1>4, <2>1
<1>6. /\ Face(H!Spheres(x1).lifes_work, H!Spheres(x1).evolution)
      /\ Face(H!Spheres(x1).radiance, H!Spheres(x1).purpose)
    BY <1>1, EarthFaced DEF H!Spheres
<1> QED
    BY <1>5, <1>6 DEF H!TwelveProfiles, Face

-----------------------------------------------------------------------------
(* IChing.  The texts of a hexagram speak of the lines its trigrams are    *)
(* made of, row by row.                                                    *)

Whole(h) == [i \in K!Positions |-> K!Bit(h.texts[i])]
               = K!Trigram[h.below] \o K!Trigram[h.above]

LEMMA Bits == K!Bit(9) = 1 /\ K!Bit(6) = 0 /\ K!Bit(7) = 1 /\ K!Bit(8) = 0
BY DEF K!Bit, K!Yang

LEMMA TrigramsAre ==
    /\ K!Trigram["heaven"] = <<1, 1, 1>>
    /\ K!Trigram["lake"] = <<1, 1, 0>>
    /\ K!Trigram["fire"] = <<1, 0, 1>>
    /\ K!Trigram["thunder"] = <<1, 0, 0>>
    /\ K!Trigram["wind"] = <<0, 1, 1>>
    /\ K!Trigram["water"] = <<0, 1, 0>>
    /\ K!Trigram["mountain"] = <<0, 0, 1>>
    /\ K!Trigram["earth"] = <<0, 0, 0>>
BY DEF K!Trigram

LEMMA Joined ==
    ASSUME NEW a, NEW b, NEW c, NEW d, NEW e, NEW f
    PROVE  <<a, b, c>> \o <<d, e, f>> = <<a, b, c, d, e, f>>
<1> DEFINE X == {a, b, c, d, e, f}
           s == <<a, b, c>>
           t == <<d, e, f>>
           u == <<a, b, c, d, e, f>>
<1>1. s \in Seq(X) /\ t \in Seq(X) /\ u \in Seq(X)
    OBVIOUS
<1>2. Len(s) = 3 /\ Len(t) = 3 /\ Len(u) = 6
    OBVIOUS
<1>3. \A i \in 1..6 : u[i] = IF i <= 3 THEN s[i] ELSE t[i - 3]
    OBVIOUS
<1> HIDE DEF s, t, u, X
<1>4. /\ s \o t \in Seq(X) /\ Len(s \o t) = Len(s) + Len(t)
      /\ \A i \in 1..(Len(s) + Len(t)) :
            (s \o t)[i] = IF i <= Len(s) THEN s[i] ELSE t[i - Len(s)]
    BY <1>1, ConcatProperties
<1> DEFINE v == s \o t
<1>5. v \in Seq(X) /\ Len(v) = Len(u) /\ \A i \in 1..Len(v) : v[i] = u[i]
    BY <1>2, <1>3, <1>4
<1> HIDE DEF v
<1>6. v = u
    BY <1>1, <1>5, SeqEqual
<1> QED
    BY <1>6 DEF s, t, u, v

LEMMA Row ==
    ASSUME NEW a, NEW b, NEW t1, NEW t2, NEW t3, NEW t4, NEW t5, NEW t6,
           K!Trigram[b] = <<K!Bit(t1), K!Bit(t2), K!Bit(t3)>>,
           K!Trigram[a] = <<K!Bit(t4), K!Bit(t5), K!Bit(t6)>>
    PROVE  Whole(K!H(a, b, <<t1, t2, t3, t4, t5, t6>>))
<1> DEFINE h == K!H(a, b, <<t1, t2, t3, t4, t5, t6>>)
<1>1. /\ h.above = a /\ h.below = b /\ h.texts = <<t1, t2, t3, t4, t5, t6>>
    BY DEF K!H
<1> HIDE DEF h
<1>2. [i \in K!Positions |-> K!Bit(h.texts[i])]
         = <<K!Bit(t1), K!Bit(t2), K!Bit(t3), K!Bit(t4), K!Bit(t5), K!Bit(t6)>>
    BY <1>1 DEF K!Positions
<1>3. <<K!Bit(t1), K!Bit(t2), K!Bit(t3)>> \o <<K!Bit(t4), K!Bit(t5), K!Bit(t6)>>
         = <<K!Bit(t1), K!Bit(t2), K!Bit(t3), K!Bit(t4), K!Bit(t5), K!Bit(t6)>>
    BY Joined
<1> QED
    BY <1>1, <1>2, <1>3 DEF Whole, h

LEMMA Rows1To8 == \A i \in 1..8 : Whole(K!Hexagrams1To8[i])
<1>1. Whole(K!H("heaven", "heaven", <<9, 9, 9, 9, 9, 9>>))
    BY Row, Bits, TrigramsAre
<1>2. Whole(K!H("earth", "earth", <<6, 6, 6, 6, 6, 6>>))
    BY Row, Bits, TrigramsAre
<1>3. Whole(K!H("water", "thunder", <<9, 6, 6, 6, 9, 6>>))
    BY Row, Bits, TrigramsAre
<1>4. Whole(K!H("mountain", "water", <<6, 9, 6, 6, 6, 9>>))
    BY Row, Bits, TrigramsAre
<1>5. Whole(K!H("water", "heaven", <<9, 9, 9, 6, 9, 6>>))
    BY Row, Bits, TrigramsAre
<1>6. Whole(K!H("heaven", "water", <<6, 9, 6, 9, 9, 9>>))
    BY Row, Bits, TrigramsAre
<1>7. Whole(K!H("earth", "water", <<6, 9, 6, 6, 6, 6>>))
    BY Row, Bits, TrigramsAre
<1>8. Whole(K!H("water", "earth", <<6, 6, 6, 6, 9, 6>>))
    BY Row, Bits, TrigramsAre
<1> HIDE DEF Whole, K!H
<1> QED
    BY <1>1, <1>2, <1>3, <1>4, <1>5, <1>6, <1>7, <1>8 DEF K!Hexagrams1To8

LEMMA Rows9To16 == \A i \in 1..8 : Whole(K!Hexagrams9To16[i])
<1>1. Whole(K!H("wind", "heaven", <<9, 9, 9, 6, 9, 9>>))
    BY Row, Bits, TrigramsAre
<1>2. Whole(K!H("heaven", "lake", <<9, 9, 6, 9, 9, 9>>))
    BY Row, Bits, TrigramsAre
<1>3. Whole(K!H("earth", "heaven", <<9, 9, 9, 6, 6, 6>>))
    BY Row, Bits, TrigramsAre
<1>4. Whole(K!H("heaven", "earth", <<6, 6, 6, 9, 9, 9>>))
    BY Row, Bits, TrigramsAre
<1>5. Whole(K!H("heaven", "fire", <<9, 6, 9, 9, 9, 9>>))
    BY Row, Bits, TrigramsAre
<1>6. Whole(K!H("fire", "heaven", <<9, 9, 9, 9, 6, 9>>))
    BY Row, Bits, TrigramsAre
<1>7. Whole(K!H("earth", "mountain", <<6, 6, 9, 6, 6, 6>>))
    BY Row, Bits, TrigramsAre
<1>8. Whole(K!H("thunder", "earth", <<6, 6, 6, 9, 6, 6>>))
    BY Row, Bits, TrigramsAre
<1> HIDE DEF Whole, K!H
<1> QED
    BY <1>1, <1>2, <1>3, <1>4, <1>5, <1>6, <1>7, <1>8 DEF K!Hexagrams9To16

LEMMA Rows17To24 == \A i \in 1..8 : Whole(K!Hexagrams17To24[i])
<1>1. Whole(K!H("lake", "thunder", <<9, 6, 6, 9, 9, 6>>))
    BY Row, Bits, TrigramsAre
<1>2. Whole(K!H("mountain", "wind", <<6, 9, 9, 6, 6, 9>>))
    BY Row, Bits, TrigramsAre
<1>3. Whole(K!H("earth", "lake", <<9, 9, 6, 6, 6, 6>>))
    BY Row, Bits, TrigramsAre
<1>4. Whole(K!H("wind", "earth", <<6, 6, 6, 6, 9, 9>>))
    BY Row, Bits, TrigramsAre
<1>5. Whole(K!H("fire", "thunder", <<9, 6, 6, 9, 6, 9>>))
    BY Row, Bits, TrigramsAre
<1>6. Whole(K!H("mountain", "fire", <<9, 6, 9, 6, 6, 9>>))
    BY Row, Bits, TrigramsAre
<1>7. Whole(K!H("mountain", "earth", <<6, 6, 6, 6, 6, 9>>))
    BY Row, Bits, TrigramsAre
<1>8. Whole(K!H("earth", "thunder", <<9, 6, 6, 6, 6, 6>>))
    BY Row, Bits, TrigramsAre
<1> HIDE DEF Whole, K!H
<1> QED
    BY <1>1, <1>2, <1>3, <1>4, <1>5, <1>6, <1>7, <1>8 DEF K!Hexagrams17To24

LEMMA Rows25To32 == \A i \in 1..8 : Whole(K!Hexagrams25To32[i])
<1>1. Whole(K!H("heaven", "thunder", <<9, 6, 6, 9, 9, 9>>))
    BY Row, Bits, TrigramsAre
<1>2. Whole(K!H("mountain", "heaven", <<9, 9, 9, 6, 6, 9>>))
    BY Row, Bits, TrigramsAre
<1>3. Whole(K!H("mountain", "thunder", <<9, 6, 6, 6, 6, 9>>))
    BY Row, Bits, TrigramsAre
<1>4. Whole(K!H("lake", "wind", <<6, 9, 9, 9, 9, 6>>))
    BY Row, Bits, TrigramsAre
<1>5. Whole(K!H("water", "water", <<6, 9, 6, 6, 9, 6>>))
    BY Row, Bits, TrigramsAre
<1>6. Whole(K!H("fire", "fire", <<9, 6, 9, 9, 6, 9>>))
    BY Row, Bits, TrigramsAre
<1>7. Whole(K!H("lake", "mountain", <<6, 6, 9, 9, 9, 6>>))
    BY Row, Bits, TrigramsAre
<1>8. Whole(K!H("thunder", "wind", <<6, 9, 9, 9, 6, 6>>))
    BY Row, Bits, TrigramsAre
<1> HIDE DEF Whole, K!H
<1> QED
    BY <1>1, <1>2, <1>3, <1>4, <1>5, <1>6, <1>7, <1>8 DEF K!Hexagrams25To32

LEMMA Rows33To40 == \A i \in 1..8 : Whole(K!Hexagrams33To40[i])
<1>1. Whole(K!H("heaven", "mountain", <<6, 6, 9, 9, 9, 9>>))
    BY Row, Bits, TrigramsAre
<1>2. Whole(K!H("thunder", "heaven", <<9, 9, 9, 9, 6, 6>>))
    BY Row, Bits, TrigramsAre
<1>3. Whole(K!H("fire", "earth", <<6, 6, 6, 9, 6, 9>>))
    BY Row, Bits, TrigramsAre
<1>4. Whole(K!H("earth", "fire", <<9, 6, 9, 6, 6, 6>>))
    BY Row, Bits, TrigramsAre
<1>5. Whole(K!H("wind", "fire", <<9, 6, 9, 6, 9, 9>>))
    BY Row, Bits, TrigramsAre
<1>6. Whole(K!H("fire", "lake", <<9, 9, 6, 9, 6, 9>>))
    BY Row, Bits, TrigramsAre
<1>7. Whole(K!H("water", "mountain", <<6, 6, 9, 6, 9, 6>>))
    BY Row, Bits, TrigramsAre
<1>8. Whole(K!H("thunder", "water", <<6, 9, 6, 9, 6, 6>>))
    BY Row, Bits, TrigramsAre
<1> HIDE DEF Whole, K!H
<1> QED
    BY <1>1, <1>2, <1>3, <1>4, <1>5, <1>6, <1>7, <1>8 DEF K!Hexagrams33To40

LEMMA Rows41To48 == \A i \in 1..8 : Whole(K!Hexagrams41To48[i])
<1>1. Whole(K!H("mountain", "lake", <<9, 9, 6, 6, 6, 9>>))
    BY Row, Bits, TrigramsAre
<1>2. Whole(K!H("wind", "thunder", <<9, 6, 6, 6, 9, 9>>))
    BY Row, Bits, TrigramsAre
<1>3. Whole(K!H("lake", "heaven", <<9, 9, 9, 9, 9, 6>>))
    BY Row, Bits, TrigramsAre
<1>4. Whole(K!H("heaven", "wind", <<6, 9, 9, 9, 9, 9>>))
    BY Row, Bits, TrigramsAre
<1>5. Whole(K!H("lake", "earth", <<6, 6, 6, 9, 9, 6>>))
    BY Row, Bits, TrigramsAre
<1>6. Whole(K!H("earth", "wind", <<6, 9, 9, 6, 6, 6>>))
    BY Row, Bits, TrigramsAre
<1>7. Whole(K!H("lake", "water", <<6, 9, 6, 9, 9, 6>>))
    BY Row, Bits, TrigramsAre
<1>8. Whole(K!H("water", "wind", <<6, 9, 9, 6, 9, 6>>))
    BY Row, Bits, TrigramsAre
<1> HIDE DEF Whole, K!H
<1> QED
    BY <1>1, <1>2, <1>3, <1>4, <1>5, <1>6, <1>7, <1>8 DEF K!Hexagrams41To48

LEMMA Rows49To56 == \A i \in 1..8 : Whole(K!Hexagrams49To56[i])
<1>1. Whole(K!H("lake", "fire", <<9, 6, 9, 9, 9, 6>>))
    BY Row, Bits, TrigramsAre
<1>2. Whole(K!H("fire", "wind", <<6, 9, 9, 9, 6, 9>>))
    BY Row, Bits, TrigramsAre
<1>3. Whole(K!H("thunder", "thunder", <<9, 6, 6, 9, 6, 6>>))
    BY Row, Bits, TrigramsAre
<1>4. Whole(K!H("mountain", "mountain", <<6, 6, 9, 6, 6, 9>>))
    BY Row, Bits, TrigramsAre
<1>5. Whole(K!H("wind", "mountain", <<6, 6, 9, 6, 9, 9>>))
    BY Row, Bits, TrigramsAre
<1>6. Whole(K!H("thunder", "lake", <<9, 9, 6, 9, 6, 6>>))
    BY Row, Bits, TrigramsAre
<1>7. Whole(K!H("thunder", "fire", <<9, 6, 9, 9, 6, 6>>))
    BY Row, Bits, TrigramsAre
<1>8. Whole(K!H("fire", "mountain", <<6, 6, 9, 9, 6, 9>>))
    BY Row, Bits, TrigramsAre
<1> HIDE DEF Whole, K!H
<1> QED
    BY <1>1, <1>2, <1>3, <1>4, <1>5, <1>6, <1>7, <1>8 DEF K!Hexagrams49To56

LEMMA Rows57To64 == \A i \in 1..8 : Whole(K!Hexagrams57To64[i])
<1>1. Whole(K!H("wind", "wind", <<6, 9, 9, 6, 9, 9>>))
    BY Row, Bits, TrigramsAre
<1>2. Whole(K!H("lake", "lake", <<9, 9, 6, 9, 9, 6>>))
    BY Row, Bits, TrigramsAre
<1>3. Whole(K!H("wind", "water", <<6, 9, 6, 6, 9, 9>>))
    BY Row, Bits, TrigramsAre
<1>4. Whole(K!H("water", "lake", <<9, 9, 6, 6, 9, 6>>))
    BY Row, Bits, TrigramsAre
<1>5. Whole(K!H("wind", "lake", <<9, 9, 6, 6, 9, 9>>))
    BY Row, Bits, TrigramsAre
<1>6. Whole(K!H("thunder", "mountain", <<6, 6, 9, 9, 6, 6>>))
    BY Row, Bits, TrigramsAre
<1>7. Whole(K!H("water", "fire", <<9, 6, 9, 6, 9, 6>>))
    BY Row, Bits, TrigramsAre
<1>8. Whole(K!H("fire", "water", <<6, 9, 6, 9, 6, 9>>))
    BY Row, Bits, TrigramsAre
<1> HIDE DEF Whole, K!H
<1> QED
    BY <1>1, <1>2, <1>3, <1>4, <1>5, <1>6, <1>7, <1>8 DEF K!Hexagrams57To64

\* Where each hexagram stands in _KING_WEN.
PatternOf ==
    <<64, 1, 18, 35, 24, 59, 3, 17, 32, 62, 8, 57, 63, 56, 5, 9, 42, 36, 6, 25,
      50, 39, 33, 2, 58, 40, 34, 44, 19, 55, 45, 12, 61, 16, 49, 7, 31, 54, 21,
      11, 38, 26, 48, 60, 41, 4, 43, 20, 47, 52, 10, 37, 29, 14, 15, 53, 28,
      46, 27, 22, 30, 13, 23, 51>>

LEMMA HexagramsStand ==
    /\ K!KingWen[1] = 2 /\ K!KingWen[2] = 24
    /\ K!KingWen[3] = 7 /\ K!KingWen[4] = 46
    /\ K!KingWen[5] = 15 /\ K!KingWen[6] = 19
    /\ K!KingWen[7] = 36 /\ K!KingWen[8] = 11
    /\ K!KingWen[9] = 16 /\ K!KingWen[10] = 51
    /\ K!KingWen[11] = 40 /\ K!KingWen[12] = 32
    /\ K!KingWen[13] = 62 /\ K!KingWen[14] = 54
    /\ K!KingWen[15] = 55 /\ K!KingWen[16] = 34
    /\ K!KingWen[17] = 8 /\ K!KingWen[18] = 3
    /\ K!KingWen[19] = 29 /\ K!KingWen[20] = 48
    /\ K!KingWen[21] = 39 /\ K!KingWen[22] = 60
    /\ K!KingWen[23] = 63 /\ K!KingWen[24] = 5
    /\ K!KingWen[25] = 20 /\ K!KingWen[26] = 42
    /\ K!KingWen[27] = 59 /\ K!KingWen[28] = 57
    /\ K!KingWen[29] = 53 /\ K!KingWen[30] = 61
    /\ K!KingWen[31] = 37 /\ K!KingWen[32] = 9
    /\ K!KingWen[33] = 23 /\ K!KingWen[34] = 27
    /\ K!KingWen[35] = 4 /\ K!KingWen[36] = 18
    /\ K!KingWen[37] = 52 /\ K!KingWen[38] = 41
    /\ K!KingWen[39] = 22 /\ K!KingWen[40] = 26
    /\ K!KingWen[41] = 45 /\ K!KingWen[42] = 17
    /\ K!KingWen[43] = 47 /\ K!KingWen[44] = 28
    /\ K!KingWen[45] = 31 /\ K!KingWen[46] = 58
    /\ K!KingWen[47] = 49 /\ K!KingWen[48] = 43
    /\ K!KingWen[49] = 35 /\ K!KingWen[50] = 21
    /\ K!KingWen[51] = 64 /\ K!KingWen[52] = 50
    /\ K!KingWen[53] = 56 /\ K!KingWen[54] = 38
    /\ K!KingWen[55] = 30 /\ K!KingWen[56] = 14
    /\ K!KingWen[57] = 12 /\ K!KingWen[58] = 25
    /\ K!KingWen[59] = 6 /\ K!KingWen[60] = 44
    /\ K!KingWen[61] = 33 /\ K!KingWen[62] = 10
    /\ K!KingWen[63] = 13 /\ K!KingWen[64] = 1
BY DEF K!KingWen

LEMMA PatternsStand ==
    /\ PatternOf[1] = 64 /\ PatternOf[2] = 1
    /\ PatternOf[3] = 18 /\ PatternOf[4] = 35
    /\ PatternOf[5] = 24 /\ PatternOf[6] = 59
    /\ PatternOf[7] = 3 /\ PatternOf[8] = 17
    /\ PatternOf[9] = 32 /\ PatternOf[10] = 62
    /\ PatternOf[11] = 8 /\ PatternOf[12] = 57
    /\ PatternOf[13] = 63 /\ PatternOf[14] = 56
    /\ PatternOf[15] = 5 /\ PatternOf[16] = 9
    /\ PatternOf[17] = 42 /\ PatternOf[18] = 36
    /\ PatternOf[19] = 6 /\ PatternOf[20] = 25
    /\ PatternOf[21] = 50 /\ PatternOf[22] = 39
    /\ PatternOf[23] = 33 /\ PatternOf[24] = 2
    /\ PatternOf[25] = 58 /\ PatternOf[26] = 40
    /\ PatternOf[27] = 34 /\ PatternOf[28] = 44
    /\ PatternOf[29] = 19 /\ PatternOf[30] = 55
    /\ PatternOf[31] = 45 /\ PatternOf[32] = 12
    /\ PatternOf[33] = 61 /\ PatternOf[34] = 16
    /\ PatternOf[35] = 49 /\ PatternOf[36] = 7
    /\ PatternOf[37] = 31 /\ PatternOf[38] = 54
    /\ PatternOf[39] = 21 /\ PatternOf[40] = 11
    /\ PatternOf[41] = 38 /\ PatternOf[42] = 26
    /\ PatternOf[43] = 48 /\ PatternOf[44] = 60
    /\ PatternOf[45] = 41 /\ PatternOf[46] = 4
    /\ PatternOf[47] = 43 /\ PatternOf[48] = 20
    /\ PatternOf[49] = 47 /\ PatternOf[50] = 52
    /\ PatternOf[51] = 10 /\ PatternOf[52] = 37
    /\ PatternOf[53] = 29 /\ PatternOf[54] = 14
    /\ PatternOf[55] = 15 /\ PatternOf[56] = 53
    /\ PatternOf[57] = 28 /\ PatternOf[58] = 46
    /\ PatternOf[59] = 27 /\ PatternOf[60] = 22
    /\ PatternOf[61] = 30 /\ PatternOf[62] = 13
    /\ PatternOf[63] = 23 /\ PatternOf[64] = 51
BY DEF PatternOf

LEMMA KingWenIs ==
    ASSUME NEW i \in 1..64
    PROVE  K!KingWen[i] \in 1..64 /\ PatternOf[K!KingWen[i]] = i
BY HexagramsStand, PatternsStand

LEMMA HexagramsAreWhole ==
    ASSUME NEW n \in 1..64
    PROVE  Whole(K!Hexagrams[n])
<1> DEFINE eights == <<K!Hexagrams1To8, K!Hexagrams9To16, K!Hexagrams17To24,
                       K!Hexagrams25To32, K!Hexagrams33To40, K!Hexagrams41To48,
                       K!Hexagrams49To56, K!Hexagrams57To64>>
           e == ((n - 1) \div 8) + 1
           i == ((n - 1) % 8) + 1
<1>1. K!Hexagrams[n] = eights[e][i]
    BY DEF K!Hexagrams
<1>2. e \in 1..8 /\ i \in 1..8
    OBVIOUS
<1> HIDE DEF e, i
<1>3. \/ eights[e] = K!Hexagrams1To8
      \/ eights[e] = K!Hexagrams9To16
      \/ eights[e] = K!Hexagrams17To24
      \/ eights[e] = K!Hexagrams25To32
      \/ eights[e] = K!Hexagrams33To40
      \/ eights[e] = K!Hexagrams41To48
      \/ eights[e] = K!Hexagrams49To56
      \/ eights[e] = K!Hexagrams57To64
    BY <1>2
<1> HIDE DEF eights
<1> QED
    BY <1>1, <1>2, <1>3, Rows1To8, Rows9To16, Rows17To24, Rows25To32,
       Rows33To40, Rows41To48, Rows49To56, Rows57To64

\* Six lines, a number of six digits: which is 0 or 1 is read off it.
LEMMA Digits ==
    ASSUME NEW a1 \in {0, 1}, NEW a2 \in {0, 1}, NEW a3 \in {0, 1},
           NEW a4 \in {0, 1}, NEW a5 \in {0, 1}, NEW a6 \in {0, 1},
           NEW b1 \in {0, 1}, NEW b2 \in {0, 1}, NEW b3 \in {0, 1},
           NEW b4 \in {0, 1}, NEW b5 \in {0, 1}, NEW b6 \in {0, 1},
           a1 + 2 * a2 + 4 * a3 + 8 * a4 + 16 * a5 + 32 * a6
              = b1 + 2 * b2 + 4 * b3 + 8 * b4 + 16 * b5 + 32 * b6
    PROVE  /\ a1 = b1 /\ a2 = b2 /\ a3 = b3
           /\ a4 = b4 /\ a5 = b5 /\ a6 = b6
OBVIOUS

LEMMA BitIs ==
    ASSUME NEW v
    PROVE  K!Bit(v) \in {0, 1}
BY DEF K!Bit

LEMMA PatternIs ==
    ASSUME NEW ls
    PROVE  K!Pattern(ls) \in 0..63
<1>1. /\ K!Bit(ls[1]) \in {0, 1} /\ K!Bit(ls[2]) \in {0, 1}
      /\ K!Bit(ls[3]) \in {0, 1} /\ K!Bit(ls[4]) \in {0, 1}
      /\ K!Bit(ls[5]) \in {0, 1} /\ K!Bit(ls[6]) \in {0, 1}
    BY BitIs
<1> QED
    BY <1>1 DEF K!Pattern

LEMMA PatternsDiffer ==
    ASSUME NEW ls, NEW ms, K!Pattern(ls) = K!Pattern(ms), NEW i \in K!Positions
    PROVE  K!Bit(ls[i]) = K!Bit(ms[i])
<1>1. /\ K!Bit(ls[1]) = K!Bit(ms[1]) /\ K!Bit(ls[2]) = K!Bit(ms[2])
      /\ K!Bit(ls[3]) = K!Bit(ms[3]) /\ K!Bit(ls[4]) = K!Bit(ms[4])
      /\ K!Bit(ls[5]) = K!Bit(ms[5]) /\ K!Bit(ls[6]) = K!Bit(ms[6])
    BY BitIs, Digits DEF K!Pattern
<1>2. i \in {1, 2, 3, 4, 5, 6}
    BY DEF K!Positions
<1> QED
    BY <1>1, <1>2

LEMMA ReadingHolds == K!ReadingHangsTogether
<1> DEFINE p == K!PrimaryId(x2)
           q == K!TransformedId(x2)
           ms == K!Transform(x2)
<1>1. p \in 1..64 /\ PatternOf[p] = K!Pattern(x2) + 1
    <2>1. K!Pattern(x2) + 1 \in 1..64
        BY PatternIs
    <2> QED
        BY <2>1, KingWenIs DEF K!PrimaryId
<1>2. \/ q = 0
      \/ /\ q \in 1..64 /\ PatternOf[q] = K!Pattern(ms) + 1
         /\ K!Changing(x2) # {}
    <2>1. K!Pattern(ms) + 1 \in 1..64
        BY PatternIs
    <2> QED
        BY <2>1, KingWenIs DEF K!TransformedId, K!NoHexagram
<1>3. q # p
    <2> SUFFICES ASSUME q = p, q # 0 PROVE FALSE
        BY <1>1
    <2>1. K!Pattern(ms) = K!Pattern(x2)
        <3>1. K!Pattern(ms) \in 0..63 /\ K!Pattern(x2) \in 0..63
            BY PatternIs
        <3> HIDE DEF p, q, ms
        <3> QED
            BY <1>1, <1>2, <3>1
    <2>2. PICK i \in K!Positions : x2[i] \in {6, 9}
        BY <1>2 DEF K!Changing
    <2>3. ms[i] = IF x2[i] = 6 THEN 7 ELSE 8
        BY <2>2 DEF K!Transform
    <2>4. K!Bit(ms[i]) = K!Bit(x2[i])
        BY <2>1, PatternsDiffer
    <2> HIDE DEF ms
    <2> QED
        BY <2>2, <2>3, <2>4, Bits
<1>4. ASSUME NEW n \in {p, q} \ {K!NoHexagram}
      PROVE  Whole(K!Hexagrams[n])
    <2>1. n \in 1..64
        <3> HIDE DEF p, q
        <3> QED
            BY <1>1, <1>2 DEF K!NoHexagram
    <2> QED
        BY <2>1, HexagramsAreWhole
<1> HIDE DEF p, q
<1> QED
    BY <1>3, <1>4 DEF K!ReadingHangsTogether, Whole, p, q

-----------------------------------------------------------------------------
(* Almanac: the calendar.                                                  *)
LEMMA Carries ==
    ASSUME NEW x \in Nat, NEW k \in {4, 100, 400}
    PROVE  /\ x \div k \in Nat
           /\ (x + 1) % k = 0 => (x + 1) \div k = (x \div k) + 1
           /\ (x + 1) % k # 0 => (x + 1) \div k = x \div k
<1>1. CASE k = 4
    BY <1>1
<1>2. CASE k = 100
    BY <1>2
<1>3. CASE k = 400
    BY <1>3
<1> QED
    BY <1>1, <1>2, <1>3

LEMMA Cycles ==
    ASSUME NEW y \in Nat
    PROVE  /\ (y + 4800) % 4 = y % 4
           /\ (y + 4800) % 100 = y % 100
           /\ (y + 4800) % 400 = y % 400
<1>1. (y + 4800) % 4 = y % 4
    OBVIOUS
<1>2. (y + 4800) % 100 = y % 100
    OBVIOUS
<1>3. (y + 4800) % 400 = y % 400
    OBVIOUS
<1> QED
    BY <1>1, <1>2, <1>3

LEMMA Centuries ==
    ASSUME NEW y \in Nat
    PROVE  /\ y % 400 = 0 => y % 100 = 0
           /\ y % 100 = 0 => y % 4 = 0
OBVIOUS

\* The days before a year that begins in March.
Before(y) == 365 * y + (y \div 4) + (y \div 400) - (y \div 100)

LEMMA LeapDays ==
    ASSUME NEW y \in Nat
    PROVE  /\ Before(y + 4799) \in Int
           /\ N!Leap(y) => Before(y + 4800) = Before(y + 4799) + 366
           /\ ~N!Leap(y) => Before(y + 4800) = Before(y + 4799) + 365
<1> DEFINE x == y + 4799
<1>1. x \in Nat /\ x + 1 = y + 4800
    OBVIOUS
<1>2. /\ (x + 1) % 4 = y % 4
      /\ (x + 1) % 100 = y % 100
      /\ (x + 1) % 400 = y % 400
    BY Cycles, <1>1
<1> DEFINE q4 == x \div 4  q100 == x \div 100  q400 == x \div 400
           p4 == (x + 1) \div 4  p100 == (x + 1) \div 100  p400 == (x + 1) \div 400
           r4 == y % 4  r100 == y % 100  r400 == y % 400
<1>3. /\ q4 \in Nat /\ q100 \in Nat /\ q400 \in Nat
      /\ p4 = IF r4 = 0 THEN q4 + 1 ELSE q4
      /\ p100 = IF r100 = 0 THEN q100 + 1 ELSE q100
      /\ p400 = IF r400 = 0 THEN q400 + 1 ELSE q400
    BY <1>1, <1>2, Carries
<1>4. (r400 = 0 => r100 = 0) /\ (r100 = 0 => r4 = 0)
    BY Centuries
<1>5. N!Leap(y) <=> (r4 = 0 /\ (r100 # 0 \/ r400 = 0))
    BY DEF N!Leap
<1>6. /\ Before(y + 4799) = 365 * x + q4 + q400 - q100
      /\ Before(y + 4800) = 365 * (x + 1) + p4 + p400 - p100
    BY <1>1 DEF Before
<1> HIDE DEF x, q4, q100, q400, p4, p100, p400, r4, r100, r400
<1> QED
    BY <1>1, <1>3, <1>4, <1>5, <1>6


\* The days before a month of a year that begins in March.
MonthStart == <<306, 337, 0, 31, 61, 92, 122, 153, 184, 214, 245, 275>>
\* The year it belongs to.
MarchYear(y, m) == IF m <= 2 THEN y + 4799 ELSE y + 4800

LEMMA Starting ==
    /\ MonthStart[1] = 306 /\ MonthStart[2] = 337 /\ MonthStart[3] = 0
    /\ MonthStart[4] = 31 /\ MonthStart[5] = 61 /\ MonthStart[6] = 92
    /\ MonthStart[7] = 122 /\ MonthStart[8] = 153 /\ MonthStart[9] = 184
    /\ MonthStart[10] = 214 /\ MonthStart[11] = 245 /\ MonthStart[12] = 275
BY DEF MonthStart

LEMMA DaysCounted ==
    ASSUME NEW y \in Nat, NEW m \in 1..12, NEW d \in Nat
    PROVE  N!JulianDay(<<y, m, d>>)
               = d + MonthStart[m] + Before(MarchYear(y, m)) - 32045
<1> DEFINE a == (14 - m) \div 12
           yy == y + 4800 - a
           mm == m + 12 * a - 3
           past == (153 * mm + 2) \div 5
<1>1. a = IF m <= 2 THEN 1 ELSE 0
    OBVIOUS
<1>2. yy = MarchYear(y, m)
    BY <1>1 DEF MarchYear
<1>3. past = MonthStart[m]
    <2>1. mm = IF m <= 2 THEN m + 9 ELSE m - 3
        BY <1>1
    <2> HIDE DEF mm
    <2>2. CASE m \in 1..4
        BY <2>1, <2>2, Starting
    <2>3. CASE m \in 5..8
        BY <2>1, <2>3, Starting
    <2>4. CASE m \in 9..12
        BY <2>1, <2>4, Starting
    <2> QED
        BY <2>2, <2>3, <2>4
<1>4. N!JulianDay(<<y, m, d>>)
          = d + past + 365 * yy + (yy \div 4) + (yy \div 400) - (yy \div 100)
            - 32045
    BY DEF N!JulianDay
<1>5. /\ yy \in Nat /\ past \in Int
      /\ yy \div 4 \in Int /\ yy \div 100 \in Int /\ yy \div 400 \in Int
    <2>1. yy \in Nat
        BY <1>2 DEF MarchYear
    <2>2. past \in Int
        BY <1>3, Starting
    <2> QED
        BY <2>1, <2>2
<1> HIDE DEF a, yy, mm, past
<1> DEFINE q4 == yy \div 4  q100 == yy \div 100  q400 == yy \div 400
<1>6. Before(yy) = 365 * yy + q4 + q400 - q100
    BY DEF Before
<1>7. N!JulianDay(<<y, m, d>>)
          = d + past + 365 * yy + q4 + q400 - q100 - 32045
    BY <1>4
<1>8. q4 \in Int /\ q100 \in Int /\ q400 \in Int /\ yy \in Nat /\ past \in Int
    BY <1>5
<1> HIDE DEF q4, q100, q400
<1>9. N!JulianDay(<<y, m, d>>) = d + past + Before(yy) - 32045
    BY <1>6, <1>7, <1>8
<1> QED
    BY <1>2, <1>3, <1>9

LEMMA BeforeIsInt ==
    ASSUME NEW y \in Nat
    PROVE  Before(y) \in Int
BY DEF Before

\* The day after a date.
DayAfter(t) ==
    IF t[3] < N!DaysOf(t[1], t[2]) THEN <<t[1], t[2], t[3] + 1>>
    ELSE IF t[2] < 12 THEN <<t[1], t[2] + 1, 1>>
    ELSE <<t[1] + 1, 1, 1>>

LEMMA DayFollows ==
    ASSUME NEW t, N!IsDate(t), t # N!LastDate
    PROVE  /\ N!IsDate(DayAfter(t))
           /\ N!JulianDay(t) \in Int
           /\ N!JulianDay(DayAfter(t)) = N!JulianDay(t) + 1
<1> DEFINE y == t[1]  m == t[2]  d == t[3]
<1>1. /\ t = <<y, m, d>> /\ y \in Nat /\ 1 <= y /\ y <= 9999
      /\ m \in 1..12 /\ d \in Nat /\ 1 <= d /\ d <= N!DaysOf(y, m)
    BY DEF N!IsDate
<1>2. \A i, j, k : <<i, j, k>>[1] = i /\ <<i, j, k>>[2] = j /\ <<i, j, k>>[3] = k
    OBVIOUS
<1>3. N!DaysOf(y, m) \in 28..31
    BY <1>1 DEF N!DaysOf
<1>4. DayAfter(t) = IF d < N!DaysOf(y, m) THEN <<y, m, d + 1>>
                    ELSE IF m < 12 THEN <<y, m + 1, 1>> ELSE <<y + 1, 1, 1>>
    BY DEF DayAfter
<1>5. t = N!LastDate <=> (y = 9999 /\ m = 12 /\ d = 31)
    BY <1>1, <1>2 DEF N!LastDate
<1> HIDE DEF y, m, d
<1>6. N!JulianDay(t) = d + MonthStart[m] + Before(MarchYear(y, m)) - 32045
    BY <1>1, DaysCounted
<1>7. /\ MarchYear(y, m) \in Nat /\ Before(MarchYear(y, m)) \in Int
      /\ MonthStart[m] \in Int
    <2>1. MarchYear(y, m) \in Nat
        BY <1>1 DEF MarchYear
    <2>2. MonthStart[m] \in Int
        BY <1>1, Starting
    <2> QED
        BY <2>1, <2>2, BeforeIsInt
<1>8. CASE d < N!DaysOf(y, m)
    <2>1. DayAfter(t) = <<y, m, d + 1>>
        BY <1>4, <1>8
    <2>2. N!IsDate(<<y, m, d + 1>>)
        BY <1>1, <1>2, <1>3, <1>8 DEF N!IsDate
    <2>3. N!JulianDay(<<y, m, d + 1>>)
              = (d + 1) + MonthStart[m] + Before(MarchYear(y, m)) - 32045
        BY <1>1, DaysCounted
    <2> QED
        BY <1>1, <1>6, <1>7, <2>1, <2>2, <2>3
<1>9. CASE d = N!DaysOf(y, m) /\ m < 12
    <2>1. DayAfter(t) = <<y, m + 1, 1>>
        BY <1>1, <1>3, <1>4, <1>9
    <2>2. m + 1 \in 1..12
        BY <1>1, <1>9
    <2>3. N!IsDate(<<y, m + 1, 1>>)
        <3>1. 1 <= N!DaysOf(y, m + 1)
            BY <1>1, <2>2 DEF N!DaysOf
        <3> QED
            BY <1>1, <1>2, <2>2, <3>1 DEF N!IsDate
    <2>4. N!JulianDay(<<y, m + 1, 1>>)
              = 1 + MonthStart[m + 1] + Before(MarchYear(y, m + 1)) - 32045
        BY <1>1, <2>2, DaysCounted
    <2>5. MonthStart[m + 1] + Before(MarchYear(y, m + 1))
              = N!DaysOf(y, m) + MonthStart[m] + Before(MarchYear(y, m))
        <3>1. CASE m = 1
            BY <1>1, <1>7, <3>1, Starting DEF N!DaysOf, MarchYear
        <3>2. CASE m = 2
            <4>1. /\ MarchYear(y, m) = y + 4799 /\ MarchYear(y, m + 1) = y + 4800
                  /\ MonthStart[m] = 337 /\ MonthStart[m + 1] = 0
                BY <1>1, <3>2, Starting DEF MarchYear
            <4>2. N!DaysOf(y, m) = IF N!Leap(y) THEN 29 ELSE 28
                BY <3>2 DEF N!DaysOf
            <4> QED
                BY <1>1, <4>1, <4>2, LeapDays
        <3>3. CASE m \in 3..6
            BY <1>1, <1>7, <3>3, Starting DEF N!DaysOf, MarchYear
        <3>4. CASE m \in 7..11
            BY <1>1, <1>7, <3>4, Starting DEF N!DaysOf, MarchYear
        <3> QED
            BY <1>1, <1>9, <3>1, <3>2, <3>3, <3>4
    <2> HIDE DEF N!JulianDay
    <2>6. N!JulianDay(t) \in Int
        BY <1>1, <1>6, <1>7
    <2>7. N!JulianDay(DayAfter(t)) = N!JulianDay(t) + 1
        <3> DEFINE u == MonthStart[m + 1] + Before(MarchYear(y, m + 1))
                   v == MonthStart[m] + Before(MarchYear(y, m))
        <3>1. /\ u = N!DaysOf(y, m) + v /\ v \in Int /\ N!DaysOf(y, m) \in Int
            BY <1>3, <1>7, <2>5
        <3>2. MonthStart[m + 1] \in Int /\ Before(MarchYear(y, m + 1)) \in Int
            <4>1. MarchYear(y, m + 1) \in Nat
                BY <1>1, <2>2 DEF MarchYear
            <4> QED
                BY <2>2, <4>1, Starting, BeforeIsInt
        <3>3. N!JulianDay(DayAfter(t)) = 1 + u - 32045
            BY <2>1, <2>4, <3>2
        <3>4. N!JulianDay(t) = d + v - 32045
            BY <1>1, <1>6, <1>7
        <3> HIDE DEF u, v
        <3> QED
            BY <1>1, <1>9, <3>1, <3>3, <3>4
    <2> QED
        BY <2>1, <2>3, <2>6, <2>7
<1>10. CASE d = N!DaysOf(y, m) /\ m = 12
    <2>1. N!DaysOf(y, m) = 31
        BY <1>10 DEF N!DaysOf
    <2>2. y + 1 <= 9999 /\ y + 1 \in Nat
        BY <1>1, <1>5, <1>10, <2>1
    <2>3. DayAfter(t) = <<y + 1, 1, 1>>
        BY <1>1, <1>4, <1>10, <2>1
    <2>4. N!IsDate(<<y + 1, 1, 1>>)
        <3>1. N!DaysOf(y + 1, 1) = 31
            BY DEF N!DaysOf
        <3> QED
            BY <1>1, <1>2, <2>2, <3>1 DEF N!IsDate
    <2>5. N!JulianDay(<<y + 1, 1, 1>>)
              = 1 + 306 + Before(MarchYear(y + 1, 1)) - 32045
        BY <2>2, DaysCounted, Starting
    <2>6. MarchYear(y + 1, 1) = MarchYear(y, m) /\ MonthStart[m] = 275
        BY <1>1, <1>10, Starting DEF MarchYear
    <2> QED
        BY <1>1, <1>6, <1>7, <1>10, <2>1, <2>3, <2>4, <2>5, <2>6
<1> QED
    BY <1>1, <1>3, <1>8, <1>9, <1>10


-----------------------------------------------------------------------------
(* Almanac: the Tzolkin.                                                   *)
LEMMA Thirteen ==
    ASSUME NEW n \in Int
    PROVE  /\ ((((n % 13) + 3) % 13) + 13) % 13 = (n + 3) % 13
           /\ ((n + 159) % 260) % 13 = (n + 3) % 13
<1>1. (n % 13) \in 0..12
    OBVIOUS
<1>2. ((n % 13) + 3) % 13 = (n + 3) % 13
    OBVIOUS
<1>3. \A r \in 0..12 : (r + 13) % 13 = r
    OBVIOUS
<1>4. (n + 3) % 13 \in 0..12
    OBVIOUS
<1>5. ((n + 159) % 260) % 13 = (n + 159) % 13
    OBVIOUS
<1>6. (n + 159) % 13 = (n + 3) % 13
    OBVIOUS
<1> QED
    BY <1>2, <1>3, <1>4, <1>5, <1>6

LEMMA Twenty ==
    ASSUME NEW n \in Int
    PROVE  /\ ((n % 20) + 19 + 20) % 20 = (n + 19) % 20
           /\ ((n + 159) % 260) % 20 = (n + 19) % 20
<1>1. ((n % 20) + 19 + 20) % 20 = (n + 19) % 20
    OBVIOUS
<1>2. ((n + 159) % 260) % 20 = (n + 159) % 20
    OBVIOUS
<1>3. (n + 159) % 20 = (n + 19) % 20
    OBVIOUS
<1> QED
    BY <1>1, <1>2, <1>3

LEMMA KinOf ==
    ASSUME NEW n \in Int
    PROVE  /\ ((((n % 260) + 159) % 260) + 260) % 260 = (n + 159) % 260
           /\ (n + 159) % 260 \in 0..259
<1>1. ((n % 260) + 159) % 260 = (n + 159) % 260
    OBVIOUS
<1>2. (n + 159) % 260 \in 0..259
    OBVIOUS
<1>3. ASSUME NEW r \in 0..259 PROVE (r + 260) % 260 = r
    BY <1>3
<1> QED
    BY <1>1, <1>2, <1>3

LEMMA KinHolds ==
    ASSUME N!JulianDay(x2) \in Int
    PROVE  N!KinHangsTogether
<1> DEFINE n == N!JulianDay(x2) - N!Epoch
           kin == (n + 159) % 260
<1>1. n \in Int
    BY DEF N!Epoch
<1>2. N!Tzolkin.kin = kin + 1 /\ kin \in 0..259
    <2>1. N!Tzolkin.kin = (((((n % 260) + 159) % 260) + 260) % 260) + 1
        BY DEF N!Tzolkin
    <2> QED
        BY <1>1, <2>1, KinOf
<1>3. N!Tzolkin.tone = ((n + 3) % 13) + 1 /\ kin % 13 = (n + 3) % 13
    <2>1. N!Tzolkin.tone = (((((n % 13) + 3) % 13) + 13) % 13) + 1
        BY DEF N!Tzolkin
    <2> QED
        BY <1>1, <2>1, Thirteen
<1>4. N!Tzolkin.sign = (n + 19) % 20 /\ kin % 20 = (n + 19) % 20
    <2>1. N!Tzolkin.sign = ((n % 20) + 19 + 20) % 20
        BY DEF N!Tzolkin
    <2> QED
        BY <1>1, <2>1, Twenty
<1> HIDE DEF n, kin
<1>5. N!Tzolkin.kin - 1 = kin /\ N!Tzolkin.kin \in 1..260
    BY <1>2
<1> QED
    BY <1>2, <1>3, <1>4, <1>5 DEF N!KinHangsTogether


-----------------------------------------------------------------------------
(* Almanac: the numbers.                                                   *)
LEMMA Multiples ==
    ASSUME NEW n \in Int, NEW k \in Int
    PROVE  (n + 9 * k) % 9 = n % 9
OBVIOUS

LEMMA DigitsSummed ==
    ASSUME NEW n \in Nat
    PROVE  /\ N!DigitSum(n) \in Nat
           /\ N!DigitSum(n) % 9 = n % 9
           /\ n > 0 => N!DigitSum(n) > 0
           /\ n <= 9999 => N!DigitSum(n) <= 36
           /\ n <= 36 => N!DigitSum(n) <= 11
           /\ n <= 11 => N!DigitSum(n) <= 9
<1> DEFINE n1 == n \div 10  n2 == n \div 100  q == n \div 1000
           b == n1 % 10  a == n2 % 10  c == n % 10
<1>1. /\ n1 \in Nat /\ n = 10 * n1 + c /\ c \in 0..9
    OBVIOUS
<1>2. n2 = n1 \div 10 /\ q = n2 \div 10
    OBVIOUS
<1>3. N!DigitSum(n) = c + b + a + q
    BY DEF N!DigitSum
<1> HIDE DEF n1, n2, q, c
<1>4. n2 \in Nat /\ n1 = 10 * n2 + b /\ b \in 0..9
    BY <1>1, <1>2
<1> HIDE DEF b
<1>5. q \in Nat /\ n2 = 10 * q + a /\ a \in 0..9
    BY <1>2, <1>4
<1> HIDE DEF a
<1>6. /\ q \in Nat /\ a \in 0..9 /\ b \in 0..9 /\ c \in 0..9
      /\ n = 1000 * q + 100 * a + 10 * b + c
      /\ N!DigitSum(n) = c + b + a + q
    BY <1>1, <1>3, <1>4, <1>5
<1> DEFINE s == N!DigitSum(n)  k == 111 * q + 11 * a + b
<1>7. s \in Nat /\ k \in Nat /\ n = s + 9 * k
    BY <1>6
<1>8. s % 9 = n % 9
    <2> HIDE DEF s, k
    <2> QED
        BY <1>7, Multiples
<1> QED
    BY <1>6, <1>8

LEMMA Rounds ==
    ASSUME NEW n \in Nat, NEW keep \in BOOLEAN
    PROVE  /\ N!Round(n, keep) \in Nat
           /\ N!Round(n, keep) % 9 = n % 9
           /\ n > 0 => N!Round(n, keep) > 0
           /\ n = 0 => N!Round(n, keep) = 0
           /\ n <= 9 => N!Round(n, keep) = n
           /\ n <= 9999 => N!Round(n, keep) <= 36
           /\ n <= 36 => \/ N!Round(n, keep) <= 11
                         \/ keep /\ N!Round(n, keep) \in N!Masters
           /\ n <= 11 => \/ N!Round(n, keep) <= 9
                         \/ keep /\ N!Round(n, keep) \in N!Masters
           /\ keep /\ n \in N!Masters => N!Round(n, keep) = n
<1>1. CASE n <= 9 \/ (keep /\ n \in N!Masters)
    BY <1>1 DEF N!Round, N!Masters
<1>2. CASE ~(n <= 9 \/ (keep /\ n \in N!Masters))
    <2>1. N!Round(n, keep) = N!DigitSum(n)
        BY <1>2 DEF N!Round
    <2> QED
        BY <1>2, <2>1, DigitsSummed
<1> QED
    BY <1>1, <1>2

LEMMA Reduced ==
    ASSUME NEW n \in Nat, NEW keep \in BOOLEAN
    PROVE  /\ N!Reduce(n, keep) \in Nat
           /\ N!Reduce(n, keep) % 9 = n % 9
           /\ N!Reduce(n, keep) = 0 <=> n = 0
           /\ n <= 9 => N!Reduce(n, keep) = n
           /\ n <= 9999 => \/ N!Reduce(n, keep) <= 9
                           \/ keep /\ N!Reduce(n, keep) \in N!Masters
<1> DEFINE r1 == N!Round(n, keep)  r2 == N!Round(r1, keep)
           r3 == N!Round(r2, keep)  r4 == N!Round(r3, keep)
<1>1. N!Reduce(n, keep) = r4
    BY DEF N!Reduce
<1>2. /\ r1 \in Nat /\ r1 % 9 = n % 9 /\ (n > 0 => r1 > 0) /\ (n = 0 => r1 = 0)
      /\ n <= 9 => r1 = n
      /\ n <= 9999 => r1 <= 36
    BY Rounds
<1> HIDE DEF r1
<1>3. /\ r2 \in Nat /\ r2 % 9 = n % 9 /\ (n > 0 => r2 > 0) /\ (n = 0 => r2 = 0)
      /\ n <= 9 => r2 = n
      /\ n <= 9999 => r2 <= 11 \/ (keep /\ r2 \in N!Masters)
    BY <1>2, Rounds
<1> HIDE DEF r2
<1>4. /\ r3 \in Nat /\ r3 % 9 = n % 9 /\ (n > 0 => r3 > 0) /\ (n = 0 => r3 = 0)
      /\ n <= 9 => r3 = n
      /\ n <= 9999 => r3 <= 9 \/ (keep /\ r3 \in N!Masters)
    BY <1>3, Rounds
<1> HIDE DEF r3
<1>5. /\ r4 \in Nat /\ r4 % 9 = n % 9 /\ (n > 0 => r4 > 0) /\ (n = 0 => r4 = 0)
      /\ n <= 9 => r4 = n
      /\ n <= 9999 => r4 <= 9 \/ (keep /\ r4 \in N!Masters)
    BY <1>4, Rounds
<1> HIDE DEF r4
<1> QED
    BY <1>1, <1>5

LEMMA KeptIs ==
    ASSUME NEW n \in Nat
    PROVE  /\ N!Kept(n) \in Nat
           /\ N!Kept(n) % 9 = n % 9
           /\ N!Kept(n) = 0 <=> n = 0
           /\ n <= 9999 => N!Kept(n) <= 9 \/ N!Kept(n) \in N!Masters
<1> DEFINE keep == TRUE
<1>1. N!Kept(n) = N!Reduce(n, keep) /\ keep \in BOOLEAN
    BY DEF N!Kept
<1> HIDE DEF keep
<1> QED
    BY <1>1, Reduced

LEMMA PlainIs ==
    ASSUME NEW n \in Nat
    PROVE  /\ N!Plain(n) \in Nat
           /\ N!Plain(n) = 0 <=> n = 0
           /\ n <= 9 => N!Plain(n) = n
           /\ n <= 9999 => N!Plain(n) <= 9
<1> DEFINE keep == FALSE
<1>1. N!Plain(n) = N!Reduce(n, keep) /\ keep \in BOOLEAN /\ ~keep
    BY DEF N!Plain
<1> HIDE DEF keep
<1> QED
    BY <1>1, Reduced

\* Sums keep their remainders by nine.
LEMMA SameSums ==
    ASSUME NEW a \in Nat, NEW b \in Nat, NEW c \in Nat, NEW d \in Nat,
           a % 9 = c % 9, b % 9 = d % 9
    PROVE  (a + b) % 9 = (c + d) % 9
<1>1. (a + b) % 9 = ((a % 9) + (b % 9)) % 9
    OBVIOUS
<1>2. (c + d) % 9 = ((c % 9) + (d % 9)) % 9
    OBVIOUS
<1> QED
    BY <1>1, <1>2

\* Adding two or three numbers that are reduced.
LEMMA KeptSum ==
    ASSUME NEW a \in Nat, NEW b \in Nat, 0 < a, 0 < b, a <= 9999, b <= 9999
    PROVE  /\ N!Kept(N!Kept(a) + N!Kept(b)) \in (1..9) \cup N!Masters
           /\ N!Kept(N!Kept(a) + N!Kept(b)) % 9 = (a + b) % 9
<1> DEFINE i == N!Kept(a)  j == N!Kept(b)
<1>1. /\ i \in Nat /\ i # 0 /\ i % 9 = a % 9 /\ (i <= 9 \/ i \in N!Masters)
      /\ j \in Nat /\ j # 0 /\ j % 9 = b % 9 /\ (j <= 9 \/ j \in N!Masters)
    BY KeptIs
<1> HIDE DEF i, j
<1>2. i + j \in Nat /\ i + j # 0 /\ i + j <= 66
    BY <1>1 DEF N!Masters
<1>3. (i + j) % 9 = (a + b) % 9
    BY <1>1, SameSums
<1> DEFINE k == N!Kept(i + j)
<1>4. /\ k \in Nat /\ k # 0 /\ k % 9 = (i + j) % 9
      /\ k <= 9 \/ k \in N!Masters
    BY <1>2, KeptIs
<1> HIDE DEF k
<1>5. k \in (1..9) \cup N!Masters
    BY <1>4
<1>6. k % 9 = (a + b) % 9
    BY <1>3, <1>4
<1> QED
    BY <1>5, <1>6 DEF k, i, j

LEMMA KeptSumOfThree ==
    ASSUME NEW a \in Nat, NEW b \in Nat, NEW c \in Nat,
           0 < a, 0 < b, 0 < c, a <= 9999, b <= 9999, c <= 9999
    PROVE  /\ N!Kept(N!Kept(a) + N!Kept(b) + N!Kept(c))
                  \in (1..9) \cup N!Masters
           /\ N!Kept(N!Kept(a) + N!Kept(b) + N!Kept(c)) % 9 = (a + b + c) % 9
<1> DEFINE i == N!Kept(a)  j == N!Kept(b)  l == N!Kept(c)
<1>1. /\ i \in Nat /\ i # 0 /\ i % 9 = a % 9 /\ (i <= 9 \/ i \in N!Masters)
      /\ j \in Nat /\ j # 0 /\ j % 9 = b % 9 /\ (j <= 9 \/ j \in N!Masters)
      /\ l \in Nat /\ l # 0 /\ l % 9 = c % 9 /\ (l <= 9 \/ l \in N!Masters)
    BY KeptIs
<1> HIDE DEF i, j, l
<1>2. i + j + l \in Nat /\ i + j + l # 0 /\ i + j + l <= 99
    BY <1>1 DEF N!Masters
<1>3. (i + j + l) % 9 = (a + b + c) % 9
    <2>1. (i + j) % 9 = (a + b) % 9 /\ i + j \in Nat /\ a + b \in Nat
        BY <1>1, SameSums
    <2>2. ((i + j) + l) % 9 = ((a + b) + c) % 9
        BY <1>1, <2>1, SameSums
    <2> QED
        BY <2>2
<1> DEFINE k == N!Kept(i + j + l)
<1>4. /\ k \in Nat /\ k # 0 /\ k % 9 = (i + j + l) % 9
      /\ k <= 9 \/ k \in N!Masters
    BY <1>2, KeptIs
<1> HIDE DEF k
<1>5. k \in (1..9) \cup N!Masters
    BY <1>4
<1>6. k % 9 = (a + b + c) % 9
    BY <1>3, <1>4
<1> QED
    BY <1>5, <1>6 DEF k, i, j, l


-----------------------------------------------------------------------------
(* Almanac: the letters of a name.                                         *)
LettersOf(f, k) ==
    f = [n \in 0..k |-> IF n = 0 THEN <<>>
                        ELSE IF x4[n] \in N!Latin THEN Append(f[n - 1], x4[n])
                        ELSE f[n - 1]]

LEMMA LettersExist ==
    ASSUME NEW n \in Nat
    PROVE  \E f : LettersOf(f, n)
<1> DEFINE Good(k) == \E f : LettersOf(f, k)
           bad == {k \in Nat : ~Good(k)}
<1>1. CASE bad = {}
    BY <1>1
<1>2. CASE bad # {}
    <2>1. PICK m \in bad : \A i \in bad : m <= i
        <3>1. bad \subseteq Nat
            OBVIOUS
        <3> HIDE DEF bad
        <3> QED
            BY <1>2, <3>1, LeastNumber
    <2>2. m \in Nat /\ ~Good(m)
        BY <2>1
    <2>3. m # 0
        <3> DEFINE f == [i \in 0..0 |-> <<>>]
        <3>1. LettersOf(f, 0)
            BY DEF LettersOf
        <3>2. Good(0)
            BY <3>1
        <3> QED
            BY <2>2, <3>2
    <2> DEFINE k == m - 1
    <2>4. k \in Nat /\ m = k + 1 /\ Good(k)
        <3> HIDE DEF Good
        <3>1. k \in Nat /\ m = k + 1 /\ ~(m <= k)
            BY <2>2, <2>3
        <3> QED
            BY <2>1, <3>1
    <2>5. PICK f : LettersOf(f, k)
        BY <2>4
    <2> HIDE DEF k
    <2> DEFINE h == [i \in 0..m |->
                        IF i = m
                        THEN IF x4[m] \in N!Latin THEN Append(f[k], x4[m])
                             ELSE f[k]
                        ELSE f[i]]
    <2>6. ASSUME NEW i \in 0..m
          PROVE  h[i] = IF i = 0 THEN <<>>
                        ELSE IF x4[i] \in N!Latin THEN Append(h[i - 1], x4[i])
                        ELSE h[i - 1]
        <3>1. CASE i = m
            <4>1. h[m - 1] = f[k] /\ m # 0
                BY <2>4
            <4> QED
                BY <3>1, <4>1
        <3>2. CASE i # m
            <4>1. i \in 0..k /\ h[i] = f[i]
                BY <2>4, <3>2
            <4>2. i # 0 => h[i - 1] = f[i - 1]
                BY <2>4, <3>2
            <4>3. f[i] = IF i = 0 THEN <<>>
                         ELSE IF x4[i] \in N!Latin THEN Append(f[i - 1], x4[i])
                         ELSE f[i - 1]
                BY <2>5, <4>1 DEF LettersOf
            <4> QED
                BY <4>1, <4>2, <4>3
        <3> QED
            BY <3>1, <3>2
    <2>7. h = [i \in 0..m |-> h[i]]
        OBVIOUS
    <2> HIDE DEF h
    <2>8. LettersOf(h, m)
        BY <2>6, <2>7 DEF LettersOf
    <2> QED
        BY <2>2, <2>8
<1> QED
    BY <1>1, <1>2

LEMMA LettersAreLatin ==
    ASSUME NEW k \in Nat, NEW f, LettersOf(f, k)
    PROVE  \A n \in 0..k : f[n] \in Seq(N!Latin)
<1> DEFINE bad == {n \in 0..k : f[n] \notin Seq(N!Latin)}
<1>1. CASE bad = {}
    BY <1>1
<1>2. CASE bad # {}
    <2>1. PICK m \in bad : \A i \in bad : m <= i
        <3>1. bad \subseteq Nat
            OBVIOUS
        <3> HIDE DEF bad
        <3> QED
            BY <1>2, <3>1, LeastNumber
    <2>2. m \in 0..k /\ f[m] \notin Seq(N!Latin)
        BY <2>1
    <2>3. f[m] = IF m = 0 THEN <<>>
                 ELSE IF x4[m] \in N!Latin THEN Append(f[m - 1], x4[m])
                 ELSE f[m - 1]
        BY <2>2 DEF LettersOf
    <2>4. m # 0
        BY <2>2, <2>3
    <2>5. f[m - 1] \in Seq(N!Latin)
        <3>1. m - 1 \in 0..k /\ ~(m <= m - 1)
            BY <2>2, <2>4
        <3> QED
            BY <2>1, <3>1
    <2> QED
        BY <2>2, <2>3, <2>4, <2>5
<1> QED
    BY <1>1, <1>2

LEMMA WordIs ==
    ASSUME Len(x4) \in Nat
    PROVE  N!LettersOnly \in Seq(N!Latin)
<1> DEFINE it == CHOOSE f : LettersOf(f, Len(x4))
<1>1. LettersOf(it, Len(x4))
    BY LettersExist
<1>2. N!LettersOnly = it[Len(x4)]
    BY DEF N!LettersOnly, LettersOf
<1> HIDE DEF it
<1> QED
    BY <1>1, <1>2, LettersAreLatin


LEMMA LettersHaveValues ==
    ASSUME NEW l \in N!Latin
    PROVE  N!LetterValue[l] \in Nat /\ N!LetterValue[l] > 0
<1> DEFINE i == CHOOSE k \in 1..26 : N!Alphabet[k] = l
<1>1. i \in 1..26
    BY DEF N!Latin
<1>2. N!LetterValue[l] = ((i - 1) % 9) + 1
    BY DEF N!LetterValue
<1> HIDE DEF i
<1>3. (i - 1) % 9 \in Nat
    BY <1>1
<1> QED
    BY <1>2, <1>3

\* The sums of the instance are those that Sums is about.
LEMMA LetterSum ==
    ASSUME NEW f, NEW X
    PROVE  N!SumFunctionOnSet(f, X) = SumFunctionOnSet(f, X)
BY DEF N!SumFunctionOnSet, N!FoldFunctionOnSet, N!MapThenFoldSet,
       SumFunctionOnSet, FoldFunctionOnSet, MapThenFoldSet

\* A letter is a vowel or a consonant, and not both.
LEMMA VowelsApart ==
    /\ N!Included("all") = DOMAIN N!LettersOnly
    /\ N!Included("vowels") \cup N!Included("consonants") = N!Included("all")
    /\ N!Included("vowels") \cap N!Included("consonants") = {}
<1> DEFINE w == N!LettersOnly
<1>1. N!Included("all") = DOMAIN w
    BY DEF N!Included
<1>2. N!Included("vowels") = {i \in DOMAIN w : N!IsVowel(w, i)}
    BY DEF N!Included
<1>3. N!Included("consonants") = {i \in DOMAIN w : N!IsConsonant(w, i)}
    BY DEF N!Included
<1>4. \A i : N!IsConsonant(w, i) <=> ~N!IsVowel(w, i)
    BY DEF N!IsConsonant
<1> HIDE DEF w
<1> QED
    BY <1>1, <1>2, <1>3, <1>4 DEF w

\* The three sums of a name.
LEMMA NameNumbers ==
    ASSUME Len(x4) \in Nat
    PROVE  /\ N!Destiny \in Nat /\ N!SoulUrge \in Nat /\ N!Personality \in Nat
           /\ N!Destiny % 9 = (N!SoulUrge + N!Personality) % 9
           /\ N!Destiny = 0 <=> N!LettersOnly = <<>>
<1> DEFINE w == N!LettersOnly
           all == DOMAIN w
           f == [i \in all |-> N!LetterValue[w[i]]]
           vowels == N!Included("vowels")
           consonants == N!Included("consonants")
           a == SumFunctionOnSet(f, vowels)
           b == SumFunctionOnSet(f, consonants)
           s == SumFunctionOnSet(f, all)
<1>1. w \in Seq(N!Latin)
    BY WordIs
<1>2. /\ all = vowels \cup consonants /\ vowels \cap consonants = {}
      /\ N!Included("all") = all
    BY VowelsApart
<1>3. /\ N!Destiny = N!Kept(s)
      /\ N!SoulUrge = N!Kept(a)
      /\ N!Personality = N!Kept(b)
    BY <1>2, LetterSum DEF N!Destiny, N!SoulUrge, N!Personality, N!NameSum
<1>4. IsFiniteSet(all) /\ (all = {} <=> w = <<>>)
    <2> HIDE DEF w
    <2>1. all = 1..Len(w) /\ Len(w) \in Nat
        BY <1>1
    <2>2. IsFiniteSet(all)
        BY <2>1, FS_Interval
    <2>3. Len(w) = 0 <=> w = <<>>
        BY <1>1
    <2>4. all = {} <=> Len(w) = 0
        <3> DEFINE n == Len(w)
        <3>1. all = 1..n /\ n \in Nat
            BY <2>1
        <3> HIDE DEF all, n
        <3>2. all = {} <=> n = 0
            BY <3>1
        <3> QED
            BY <3>2 DEF n
    <2> HIDE DEF all
    <2> QED
        BY <2>2, <2>3, <2>4
<1>5. \A i \in all : f[i] \in Nat /\ f[i] > 0
    <2> HIDE DEF w
    <2>1. ASSUME NEW i \in all PROVE w[i] \in N!Latin
        BY <1>1
    <2> QED
        BY <2>1, LettersHaveValues
<1> HIDE DEF w, all, f, vowels, consonants
<1>6. \A i \in all : f[i] \in Int
    BY <1>5
<1>7. a \in Nat /\ b \in Nat /\ s \in Nat
    <2>1. IsFiniteSet(vowels) /\ IsFiniteSet(consonants)
        BY <1>2, <1>4, FS_Subset
    <2> QED
        BY <1>2, <1>4, <1>5, <2>1, SumNat
<1>8. s = a + b
    <2>1. /\ vowels \in SUBSET all /\ consonants \in SUBSET all
          /\ vowels \cap consonants = {} /\ IsFiniteSet(all)
        BY <1>2, <1>4
    <2>2. SumFunctionOnSet(f, vowels \cup consonants) = a + b
        BY <1>6, <2>1, SumApart
    <2> QED
        BY <1>2, <2>2
<1>9. s = 0 <=> all = {}
    <2>1. CASE all = {}
        BY <2>1, SumEmpty
    <2>2. CASE all # {}
        <3>1. PICK p \in all : TRUE
            BY <2>2
        <3>2. s = f[p] + SumFunctionOnSet(f, all \ {p})
            BY <1>4, <1>6, SumMember
        <3>3. SumFunctionOnSet(f, all \ {p}) \in Nat
            <4>1. IsFiniteSet(all \ {p})
                BY <1>4, FS_Subset
            <4> QED
                BY <1>5, <4>1, SumNat
        <3> QED
            BY <1>5, <2>2, <3>2, <3>3
    <2> QED
        BY <2>1, <2>2
<1> HIDE DEF a, b, s
<1>10. /\ N!Destiny \in Nat /\ N!Destiny % 9 = s % 9
       /\ N!Destiny = 0 <=> s = 0
       /\ N!SoulUrge \in Nat /\ N!SoulUrge % 9 = a % 9
       /\ N!Personality \in Nat /\ N!Personality % 9 = b % 9
    <2>1. a \in Nat
        BY <1>7
    <2>2. b \in Nat
        BY <1>7
    <2>3. s \in Nat
        BY <1>7
    <2>4. N!Kept(a) \in Nat /\ N!Kept(a) % 9 = a % 9
        BY ONLY <2>1, KeptIs
    <2>5. N!Kept(b) \in Nat /\ N!Kept(b) % 9 = b % 9
        BY ONLY <2>2, KeptIs
    <2>6. /\ N!Kept(s) \in Nat /\ N!Kept(s) % 9 = s % 9
          /\ N!Kept(s) = 0 <=> s = 0
        BY ONLY <2>3, KeptIs
    <2> QED
        BY <1>3, <2>4, <2>5, <2>6
<1>11. N!Destiny % 9 = (N!SoulUrge + N!Personality) % 9
    <2>1. (N!SoulUrge + N!Personality) % 9 = (a + b) % 9
        BY <1>7, <1>10, SameSums
    <2> QED
        BY <1>8, <1>10, <2>1
<1>12. N!Destiny = 0 <=> N!LettersOnly = <<>>
    BY <1>4, <1>9, <1>10 DEF w
<1> QED
    BY <1>10, <1>11, <1>12


-----------------------------------------------------------------------------
(* Almanac: what the numbers of a date and a name have to do with another. *)
LEMMA Differences ==
    ASSUME NEW a \in 1..9, NEW b \in 1..9
    PROVE  /\ N!Abs(a - b) \in 0..8
           /\ N!Plain(N!Abs(a - b)) = N!Abs(a - b)
<1>1. N!Abs(a - b) \in 0..8
    BY DEF N!Abs
<1> HIDE DEF N!Abs
<1> QED
    BY <1>1, PlainIs

LEMMA PartsOfDate ==
    ASSUME N!IsDate(x2)
    PROVE  /\ N!Year \in Nat /\ 0 < N!Year /\ N!Year <= 9999
           /\ N!Month \in Nat /\ 0 < N!Month /\ N!Month <= 9999
           /\ N!Day \in Nat /\ 0 < N!Day /\ N!Day <= 9999
<1> DEFINE y == x2[1]  m == x2[2]  d == x2[3]
<1>1. N!Year = y /\ N!Month = m /\ N!Day = d
    BY DEF N!Year, N!Month, N!Day
<1>2. /\ y \in Nat /\ 1 <= y /\ y <= 9999
      /\ m \in 1..12
      /\ d \in Nat /\ 1 <= d /\ d <= N!DaysOf(y, m)
    BY DEF N!IsDate
<1>3. N!DaysOf(y, m) \in 28..31
    BY DEF N!DaysOf
<1> HIDE DEF y, m, d
<1> QED
    BY <1>1, <1>2, <1>3

LEMMA ChallengesAreDigits ==
    ASSUME N!IsDate(x2)
    PROVE  \A i \in 1..4 : N!Challenges[i] \in 0..8
<1> DEFINE m == N!Plain(N!Month)  d == N!Plain(N!Day)  y == N!Plain(N!Year)
           c1 == N!Plain(N!Abs(m - d))
           c2 == N!Plain(N!Abs(d - y))
           c3 == N!Plain(N!Abs(c1 - c2))
           c4 == N!Plain(N!Abs(m - y))
<1>1. N!Challenges = <<c1, c2, c3, c4>>
    BY DEF N!Challenges
<1>2. /\ N!Year \in Nat /\ 0 < N!Year /\ N!Year <= 9999
      /\ N!Month \in Nat /\ 0 < N!Month /\ N!Month <= 9999
      /\ N!Day \in Nat /\ 0 < N!Day /\ N!Day <= 9999
    BY PartsOfDate
<1>3. m \in 1..9 /\ d \in 1..9 /\ y \in 1..9
    BY <1>2, PlainIs
<1> HIDE DEF m, d, y
<1>4. c1 \in 0..8 /\ c2 \in 0..8 /\ c4 \in 0..8
    BY <1>3, Differences
<1> HIDE DEF c1, c2, c4
<1>5. c3 \in 0..8
    <2>1. N!Abs(c1 - c2) \in 0..8
        BY <1>4 DEF N!Abs
    <2> HIDE DEF N!Abs
    <2> QED
        BY <2>1, PlainIs
<1> HIDE DEF c3
<1> QED
    BY <1>1, <1>4, <1>5

LEMMA NumbersHold ==
    ASSUME N!IsDate(x2), Len(x4) \in Nat
    PROVE  N!NumbersAgree
<1> DEFINE y == N!Year  m == N!Month  d == N!Day
           Number == (1..9) \cup N!Masters
           p1 == N!Kept(N!Kept(m) + N!Kept(d))
           p2 == N!Kept(N!Kept(d) + N!Kept(y))
           p3 == N!Kept(p1 + p2)
           p4 == N!Kept(N!Kept(m) + N!Kept(y))
<1>1. /\ y \in Nat /\ 0 < y /\ y <= 9999
      /\ m \in Nat /\ 0 < m /\ m <= 9999
      /\ d \in Nat /\ 0 < d /\ d <= 9999
    BY PartsOfDate
<1>2. /\ N!LifePath = N!Kept(N!Kept(m) + N!Kept(d) + N!Kept(y))
      /\ N!Maturity = N!Kept(N!LifePath + N!Destiny)
      /\ N!Attitude = p1
      /\ N!Pinnacles = <<p1, p2, p3, p4>>
      /\ \A x : N!PersonalYear(x) = N!Kept(N!Kept(m) + N!Kept(d) + N!Kept(x))
    BY DEF N!LifePath, N!Maturity, N!Attitude, N!Pinnacles, N!PersonalYear
<1> HIDE DEF y, m, d
<1>3. N!LifePath \in Number /\ N!LifePath % 9 = (m + d + y) % 9
    <2> DEFINE k == N!Kept(N!Kept(m) + N!Kept(d) + N!Kept(y))
    <2>1. k \in Number /\ k % 9 = (m + d + y) % 9
        BY <1>1, KeptSumOfThree
    <2> HIDE DEF Number, k
    <2>2. N!LifePath = k
        BY <1>2 DEF k
    <2> QED
        BY <2>1, <2>2
<1>4. /\ N!Destiny \in Nat
      /\ N!Destiny % 9 = (N!SoulUrge + N!Personality) % 9
      /\ N!Destiny = 0 <=> N!LettersOnly = <<>>
    BY NameNumbers
<1>5. N!Maturity % 9 = (N!LifePath + N!Destiny) % 9
    <2>1. N!LifePath + N!Destiny \in Nat
        BY <1>3, <1>4 DEF N!Masters
    <2> QED
        BY <1>2, <2>1, KeptIs
<1>6. N!PersonalYear(y + 1) % 9 = (N!PersonalYear(y) + 1) % 9
    <2> DEFINE i == N!Kept(m)  j == N!Kept(d)  k == N!Kept(y)  l == N!Kept(y + 1)
               s == i + j + k  u == i + j + l
    <2>1. /\ i \in Nat /\ j \in Nat /\ k \in Nat /\ l \in Nat
          /\ k % 9 = y % 9 /\ l % 9 = (y + 1) % 9
        <3>1. y + 1 \in Nat
            BY <1>1
        <3>2. l \in Nat /\ l % 9 = (y + 1) % 9
            BY ONLY <3>1, KeptIs
        <3>3. i \in Nat /\ j \in Nat
            <4>1. m \in Nat /\ d \in Nat
                BY <1>1
            <4> QED
                BY ONLY <4>1, KeptIs
        <3>4. y \in Nat
            BY <1>1
        <3>5. k \in Nat /\ k % 9 = y % 9
            BY ONLY <3>4, KeptIs
        <3> HIDE DEF i, j, k, l
        <3> QED
            BY <3>2, <3>3, <3>5
    <2>2. N!PersonalYear(y) = N!Kept(s) /\ N!PersonalYear(y + 1) = N!Kept(u)
        BY <1>2
    <2> HIDE DEF i, j, k, l
    <2>3. s \in Nat /\ u \in Nat
        BY <2>1
    <2>4. u % 9 = (s + 1) % 9
        <3> DEFINE h == i + j
        <3>1. h \in Nat /\ 1 \in Nat
            BY <2>1
        <3>2. l % 9 = (k + 1) % 9
            <4>1. (k + 1) % 9 = (y + 1) % 9
                BY <1>1, <2>1, SameSums
            <4> QED
                BY <2>1, <4>1
        <3>3. s = h + k /\ u = h + l
            OBVIOUS
        <3> HIDE DEF h, s, u
        <3>4. (h + l) % 9 = (h + (k + 1)) % 9
            BY <2>1, <3>1, <3>2, SameSums
        <3>5. h + (k + 1) = s + 1
            BY <2>1, <3>1, <3>3
        <3> QED
            BY <3>3, <3>4, <3>5
    <2> HIDE DEF s, u
    <2> DEFINE v == N!Kept(s)  w == N!Kept(u)
    <2>5. v \in Nat /\ w \in Nat /\ v % 9 = s % 9 /\ w % 9 = u % 9
        <3>1. v \in Nat /\ v % 9 = s % 9
            BY ONLY <2>3, KeptIs
        <3>2. w \in Nat /\ w % 9 = u % 9
            BY ONLY <2>3, KeptIs
        <3> HIDE DEF v, w
        <3> QED
            BY <3>1, <3>2
    <2> HIDE DEF v, w
    <2>6. (v + 1) % 9 = (s + 1) % 9
        BY <2>3, <2>5, SameSums
    <2>7. w % 9 = (v + 1) % 9
        BY <2>4, <2>5, <2>6
    <2> QED
        BY <2>2, <2>7 DEF v, w
<1>7. /\ p1 \in Number /\ p1 % 9 = (m + d) % 9
      /\ p2 \in Number /\ p2 % 9 = (d + y) % 9
      /\ p4 \in Number
    BY <1>1, KeptSum
<1> HIDE DEF p1, p2, p4
<1>8. p3 \in Number /\ p3 % 9 = (m + 2 * d + y) % 9
    <2> DEFINE s == p1 + p2
    <2>1. p1 \in Nat /\ p2 \in Nat /\ s \in Nat /\ s # 0 /\ s <= 9999
        BY <1>7 DEF N!Masters
    <2>2. s % 9 = ((m + d) + (d + y)) % 9
        BY <1>1, <1>7, <2>1, SameSums
    <2>3. (m + d) + (d + y) = m + 2 * d + y
        BY <1>1
    <2>4. p3 = N!Kept(s)
        OBVIOUS
    <2> HIDE DEF s, p3
    <2>5. /\ p3 \in Nat /\ p3 # 0 /\ p3 % 9 = s % 9
          /\ p3 <= 9 \/ p3 \in N!Masters
        BY <2>1, <2>4, KeptIs
    <2>6. p3 \in Number
        BY <2>5
    <2> QED
        BY <2>2, <2>3, <2>5, <2>6
<1> HIDE DEF p3
<1>9. \A i \in 1..4 : N!Challenges[i] \in 0..8 /\ N!Pinnacles[i] \in Number
    <2> HIDE DEF Number
    <2>1. \A i \in 1..4 : N!Pinnacles[i] \in Number
        BY <1>2, <1>7, <1>8
    <2> QED
        BY <2>1, ChallengesAreDigits
<1>10. N!Pinnacles[1] = N!Attitude /\ N!Pinnacles[3] = p3
    BY <1>2
<1> QED
    BY <1>3, <1>4, <1>5, <1>6, <1>8, <1>9, <1>10 DEF N!NumbersAgree, y, m, d

-----------------------------------------------------------------------------
(* What the parts keep.                                                    *)
LEMMA DayIsInt ==
    ASSUME NEW t, N!IsDate(t)
    PROVE  N!JulianDay(t) \in Int
<1> DEFINE y == t[1]  m == t[2]  d == t[3]
<1>1. t = <<y, m, d>> /\ y \in Nat /\ m \in 1..12 /\ d \in Nat
    BY DEF N!IsDate
<1> HIDE DEF y, m, d
<1>2. N!JulianDay(<<y, m, d>>)
          = d + MonthStart[m] + Before(MarchYear(y, m)) - 32045
    BY <1>1, DaysCounted
<1>3. MarchYear(y, m) \in Nat /\ MonthStart[m] \in Int
    BY <1>1, Starting DEF MarchYear
<1>4. Before(MarchYear(y, m)) \in Int
    BY <1>3, BeforeIsInt
<1> QED
    BY <1>1, <1>2, <1>3, <1>4

\* The calendar has gone on day by day, and a name is made of letters.
DateInv ==
    /\ N!IsDate(x1) /\ N!IsDate(x2) /\ x3 \in Nat
    /\ N!JulianDay(x2) = N!JulianDay(x1) + x3
    /\ x4 \in Seq(Letters)

LEMMA DateInit == N!Init => DateInv
<1> SUFFICES ASSUME N!Init PROVE DateInv
    OBVIOUS
<1>1. N!IsDate(x1) /\ x2 = x1 /\ x3 = 0 /\ x4 = <<>>
    BY DateAssumption DEF N!Init
<1>2. N!JulianDay(x1) \in Int
    BY <1>1, DayIsInt
<1> QED
    BY <1>1, <1>2 DEF DateInv

LEMMA DateNext ==
    DateInv /\ [N!Next]_<<x1, x2, x3, x4>> => DateInv'
<1> SUFFICES ASSUME DateInv, [N!Next]_<<x1, x2, x3, x4>> PROVE DateInv'
    OBVIOUS
<1> USE DEF DateInv
<1>1. CASE N!NextDay
    <2>1. /\ x2 # N!LastDate /\ x3' = x3 + 1 /\ x1' = x1 /\ x4' = x4
          /\ x2' = DayAfter(x2)
        BY <1>1 DEF N!NextDay, N!Year, N!Month, N!Day, DayAfter
    <2>2. N!IsDate(x2') /\ N!JulianDay(x2') = N!JulianDay(x2) + 1
        BY <2>1, DayFollows
    <2>3. N!JulianDay(x1) \in Int
        BY DayIsInt
    <2>4. N!JulianDay(x2') = N!JulianDay(x1) + (x3 + 1)
        BY <2>2, <2>3
    <2> QED
        BY <2>1, <2>2, <2>4
<1>2. ASSUME NEW l \in Letters, N!NextLetter(l) PROVE DateInv'
    <2>1. x1' = x1 /\ x2' = x2 /\ x3' = x3 /\ x4' = Append(x4, l)
        BY <1>2 DEF N!NextLetter
    <2>2. x4' \in Seq(Letters)
        BY <2>1
    <2> QED
        BY <2>1, <2>2
<1>3. CASE UNCHANGED <<x1, x2, x3, x4>>
    BY <1>3
<1> QED
    BY <1>1, <1>2, <1>3 DEF N!Next

LEMMA AlmanacHolds == DateInv => N!AlmanacAgrees
<1> SUFFICES ASSUME DateInv PROVE N!AlmanacAgrees
    OBVIOUS
<1>1. N!DaysFollow
    BY DEF DateInv, N!DaysFollow
<1>2. N!KinHangsTogether
    BY DayIsInt, KinHolds DEF DateInv
<1>3. N!NumbersAgree
    <2>1. Len(x4) \in Nat
        BY DEF DateInv
    <2> QED
        BY <2>1, NumbersHold DEF DateInv
<1> QED
    BY <1>1, <1>2, <1>3 DEF N!AlmanacAgrees

\* The Sun of a design stays on the wheel.
ChartInv ==
    /\ part = "designs" => x1 \in Int
    /\ part = "dates" => DateInv

LEMMA SunIsInt == H!Init => x1 \in Int
<1>1. ASSUME NEW s \in Suns PROVE s \in Int
    BY SunAssumption DEF H!Wheel
<1> QED
    BY <1>1 DEF H!Init

LEMMA ChartsRun ==
    [PlatformNext]_platformVars =>
       /\ UNCHANGED part
       /\ part = "designs" => UNCHANGED x1
       /\ part = "dates" => [N!Next]_<<x1, x2, x3, x4>>
BY DEF PlatformNext, platformVars, Only, calculatorVars, H!Next, H!Activate

(* ChartsAgree holds of the platform, for any longitudes, channels, dates  *)
(* and letters: the type of a design is the one its body graph allows and  *)
(* its authority fits it, the profile is one of the twelve and the spheres *)
(* face each other (human_design.py).  Of a cast: a changing line leads to *)
(* another hexagram, so that no two patterns of lines read out the same    *)
(* one, and the texts of those read out fit their own two trigrams         *)
(* (iching.py); that these are the trigrams thrown does not hold           *)
(* (TrigramsAsThrown).  Days, kins and numbers agree (mayan.py,            *)
(* numerology.py).                                                         *)
THEOREM ChartsAlwaysAgree == PlatformSpec => []ChartsAgree
<1>1. PlatformInit => ChartInv
    BY SunIsInt, DateInit DEF PlatformInit, ChartInv
<1>2. ChartInv /\ [PlatformNext]_platformVars => ChartInv'
    BY ChartsRun, DateNext DEF ChartInv
<1>3. ChartInv => ChartsAgree
    BY TypesMeetAuthorities, ProfilesAreTwelve, ReadingHolds, AlmanacHolds
       DEF ChartInv, ChartsAgree
<1> QED
    BY <1>1, <1>2, <1>3, PTL DEF PlatformSpec
=============================================================================
