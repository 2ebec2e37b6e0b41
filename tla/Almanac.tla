------------------------------ MODULE Almanac ------------------------------
(***************************************************************************)
(* The numbers a date and a name are turned into: the day of the Tzolkin   *)
(* (astrology/mayan.py) and the numbers of astrology/numerology.py.  The   *)
(* calendar goes on day by day from a start, and a name gets its letters   *)
(* one by one, so that each number can be compared with its predecessor or *)
(* with a count.                                                           *)
(***************************************************************************)
EXTENDS Integers, Sequences, Functions

CONSTANTS
    Starts,         \* dates <<year, month, day>> the calendar starts from
    MaxDays,        \* bound: days the calendar goes on
    Letters,        \* characters of a name; "-" stands for any but A to Z
    MaxName         \* bound: length of a name

VARIABLES
    start,          \* the date the calendar started from
    date,           \* the date
    gone,           \* days gone since the start
    name            \* the name, letter by letter

vars == <<start, date, gone, name>>

Year == date[1]
Month == date[2]
Day == date[3]

Init ==
    /\ start \in Starts
    /\ date = start
    /\ gone = 0
    /\ name = <<>>

\* The Gregorian calendar, as Python's dates keep it.
Leap(y) == y % 4 = 0 /\ (y % 100 # 0 \/ y % 400 = 0)
DaysOf(y, m) == IF m = 2 THEN (IF Leap(y) THEN 29 ELSE 28)
                ELSE IF m \in {4, 6, 9, 11} THEN 30 ELSE 31

IsDate(t) ==
    /\ t = <<t[1], t[2], t[3]>>
    /\ t[1] \in Nat /\ 1 <= t[1] /\ t[1] <= 9999
    /\ t[2] \in 1..12
    /\ t[3] \in Nat /\ 1 <= t[3] /\ t[3] <= DaysOf(t[1], t[2])
LastDate == <<9999, 12, 31>>

NextDay ==
    /\ gone < MaxDays /\ name = <<>> /\ date # LastDate
    /\ gone' = gone + 1
    /\ date' = IF Day < DaysOf(Year, Month) THEN <<Year, Month, Day + 1>>
               ELSE IF Month < 12 THEN <<Year, Month + 1, 1>>
               ELSE <<Year + 1, 1, 1>>
    /\ UNCHANGED <<start, name>>

NextLetter(l) ==
    /\ gone = 0 /\ Len(name) < MaxName
    /\ name' = Append(name, l)
    /\ UNCHANGED <<start, date, gone>>

Next == NextDay \/ \E l \in Letters : NextLetter(l)

Spec == Init /\ [][Next]_vars

-----------------------------------------------------------------------------
(* Seeded fault: every fourth year is a leap year.                          *)
JulianDay_EveryFourth(t) ==
    LET a == (14 - t[2]) \div 12
        yy == t[1] + 4800 - a
        mm == t[2] + 12 * a - 3
    IN  t[3] + (153 * mm + 2) \div 5 + 365 * yy + yy \div 4 - 32083

\* julian_day_number
JulianDay(t) ==
    LET a == (14 - t[2]) \div 12
        yy == t[1] + 4800 - a
        mm == t[2] + 12 * a - 3
    IN  t[3] + (153 * mm + 2) \div 5 + 365 * yy + yy \div 4
        + yy \div 400 - yy \div 100 - 32045

\* tzolkin
Epoch == 584283
Tzolkin ==
    LET offset == JulianDay(date) - Epoch IN
    [sign |-> ((offset % 20) + 19 + 20) % 20,
     tone |-> (((((offset % 13) + 3) % 13) + 13) % 13) + 1,
     kin |-> (((((offset % 260) + 159) % 260) + 260) % 260) + 1]

-----------------------------------------------------------------------------
Masters == {11, 22, 33}
DigitSum(n) ==
    (n % 10) + ((n \div 10) % 10) + ((n \div 100) % 10) + (n \div 1000)
Round(n, keep) ==
    IF n <= 9 \/ (keep /\ n \in Masters) THEN n ELSE DigitSum(n)

\* reduce_numerology: four rounds are enough for a number of four digits.
Reduce(n, keep) == Round(Round(Round(Round(n, keep), keep), keep), keep)
Kept(n) == Reduce(n, TRUE)
Plain(n) == Reduce(n, FALSE)

Alphabet == <<"A", "B", "C", "D", "E", "F", "G", "H", "I", "J", "K", "L", "M",
              "N", "O", "P", "Q", "R", "S", "T", "U", "V", "W", "X", "Y", "Z">>
Latin == {Alphabet[i] : i \in 1..26}
Vowels == {"A", "E", "I", "O", "U"}

\* letters_only
LettersOnly ==
    LET only[n \in 0..Len(name)] ==
            IF n = 0 THEN <<>>
            ELSE IF name[n] \in Latin THEN Append(only[n - 1], name[n])
            ELSE only[n - 1]
    IN  only[Len(name)]

\* PYTHAGOREAN: the letters in nine columns.
LetterValue == [l \in Latin |->
                  (((CHOOSE i \in 1..26 : Alphabet[i] = l) - 1) % 9) + 1]

\* is_vowel: Y is one after a consonant.
IsVowel(word, i) ==
    \/ word[i] \in Vowels
    \/ word[i] = "Y" /\ i > 1 /\ word[i - 1] \notin Vowels

\* name_sum: the letters of a mode, by their places in the name.
IsConsonant(word, i) ==
    \/ ~IsVowel(word, i) /\ word[i] # "Y"
    \/ word[i] = "Y" /\ ~IsVowel(word, i)
Included(mode) ==
    LET word == LettersOnly IN
    {i \in DOMAIN word : CASE mode = "vowels" -> IsVowel(word, i)
                           [] mode = "consonants" -> IsConsonant(word, i)
                           [] mode = "all" -> TRUE}
NameSum(mode) ==
    LET word == LettersOnly IN
    Kept(SumFunctionOnSet([i \in DOMAIN word |-> LetterValue[word[i]]],
                          Included(mode)))

\* calculate_numerology
LifePath == Kept(Kept(Month) + Kept(Day) + Kept(Year))
Destiny == NameSum("all")
SoulUrge == NameSum("vowels")
Personality == NameSum("consonants")
Maturity == Kept(LifePath + Destiny)
Attitude == Kept(Kept(Month) + Kept(Day))
PersonalYear(y) == Kept(Kept(Month) + Kept(Day) + Kept(y))

Abs(i) == IF i < 0 THEN -i ELSE i
Challenges ==
    LET c1 == Plain(Abs(Plain(Month) - Plain(Day)))
        c2 == Plain(Abs(Plain(Day) - Plain(Year)))
    IN  <<c1, c2, Plain(Abs(c1 - c2)), Plain(Abs(Plain(Month) - Plain(Year)))>>

Pinnacles ==
    LET p1 == Kept(Kept(Month) + Kept(Day))
        p2 == Kept(Kept(Day) + Kept(Year))
    IN  <<p1, p2, Kept(p1 + p2), Kept(Kept(Month) + Kept(Year))>>

-----------------------------------------------------------------------------
\* Over leap days and the ends of months and years no day is left out.
DaysFollow == JulianDay(date) = JulianDay(start) + gone

\* The three cycles of a day agree.
KinHangsTogether ==
    /\ Tzolkin.kin \in 1..260
    /\ Tzolkin.tone = ((Tzolkin.kin - 1) % 13) + 1
    /\ Tzolkin.sign = (Tzolkin.kin - 1) % 20

\* A number keeps its remainder by nine, the vowels and the consonants make
\* up the name, and a challenge is the difference of two digits.
NumbersAgree ==
    LET Same(n, m) == n % 9 = m % 9   Number == (1..9) \cup Masters IN
    /\ LifePath \in Number /\ Same(LifePath, Month + Day + Year)
    /\ Same(Destiny, SoulUrge + Personality)
    /\ Destiny = 0 <=> LettersOnly = <<>>
    /\ Same(Maturity, LifePath + Destiny)
    /\ Attitude = Pinnacles[1]
    /\ Same(PersonalYear(Year + 1), PersonalYear(Year) + 1)
    /\ \A i \in 1..4 : Challenges[i] \in 0..8 /\ Pinnacles[i] \in Number
    /\ Same(Pinnacles[3], Month + 2 * Day + Year)

(* The almanac agrees with the calendar it goes by and with itself         *)
(* (astrology/mayan.py 41-93, numerology.py 43-199, util.py 166-185).      *)
AlmanacAgrees == DaysFollow /\ KinHangsTogether /\ NumbersAgree
=============================================================================
