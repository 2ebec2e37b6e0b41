------------------------------- MODULE IChing -------------------------------
(***************************************************************************)
(* The three-coin cast of divination/iching.py: three coins give a line,   *)
(* six lines from the bottom up a hexagram, and the lines that change a    *)
(* second one.  Both are looked up in _KING_WEN, which has the lower       *)
(* trigram in bits 0 to 2 and the upper one in bits 3 to 5, and read out   *)
(* of HEXAGRAMS: the trigrams, and for every line that changes its text.   *)
(* A text is kept as the line it speaks of, a nine or a six.               *)
(***************************************************************************)
EXTENDS Integers, Sequences

VARIABLES
    coins,          \* values of the coins thrown for the line
    lines           \* the lines thrown so far

vars == <<coins, lines>>

\* Trigrams, from the bottom line up.
Trigram == [heaven |-> <<1, 1, 1>>, lake |-> <<1, 1, 0>>,
            fire |-> <<1, 0, 1>>, thunder |-> <<1, 0, 0>>,
            wind |-> <<0, 1, 1>>, water |-> <<0, 1, 0>>,
            mountain |-> <<0, 0, 1>>, earth |-> <<0, 0, 0>>]

H(above, below, texts) == [above |-> above, below |-> below, texts |-> texts]

Hexagrams1To8 ==
    <<H("heaven", "heaven", <<9, 9, 9, 9, 9, 9>>),
      H("earth", "earth", <<6, 6, 6, 6, 6, 6>>),
      H("water", "thunder", <<9, 6, 6, 6, 9, 6>>),
      H("mountain", "water", <<6, 9, 6, 6, 6, 9>>),
      H("water", "heaven", <<9, 9, 9, 6, 9, 6>>),
      H("heaven", "water", <<6, 9, 6, 9, 9, 9>>),
      H("earth", "water", <<6, 9, 6, 6, 6, 6>>),
      H("water", "earth", <<6, 6, 6, 6, 9, 6>>)>>

Hexagrams9To16 ==
    <<H("wind", "heaven", <<9, 9, 9, 6, 9, 9>>),
      H("heaven", "lake", <<9, 9, 6, 9, 9, 9>>),
      H("earth", "heaven", <<9, 9, 9, 6, 6, 6>>),
      H("heaven", "earth", <<6, 6, 6, 9, 9, 9>>),
      H("heaven", "fire", <<9, 6, 9, 9, 9, 9>>),
      H("fire", "heaven", <<9, 9, 9, 9, 6, 9>>),
      H("earth", "mountain", <<6, 6, 9, 6, 6, 6>>),
      H("thunder", "earth", <<6, 6, 6, 9, 6, 6>>)>>

Hexagrams17To24 ==
    <<H("lake", "thunder", <<9, 6, 6, 9, 9, 6>>),
      H("mountain", "wind", <<6, 9, 9, 6, 6, 9>>),
      H("earth", "lake", <<9, 9, 6, 6, 6, 6>>),
      H("wind", "earth", <<6, 6, 6, 6, 9, 9>>),
      H("fire", "thunder", <<9, 6, 6, 9, 6, 9>>),
      H("mountain", "fire", <<9, 6, 9, 6, 6, 9>>),
      H("mountain", "earth", <<6, 6, 6, 6, 6, 9>>),
      H("earth", "thunder", <<9, 6, 6, 6, 6, 6>>)>>

Hexagrams25To32 ==
    <<H("heaven", "thunder", <<9, 6, 6, 9, 9, 9>>),
      H("mountain", "heaven", <<9, 9, 9, 6, 6, 9>>),
      H("mountain", "thunder", <<9, 6, 6, 6, 6, 9>>),
      H("lake", "wind", <<6, 9, 9, 9, 9, 6>>),
      H("water", "water", <<6, 9, 6, 6, 9, 6>>),
      H("fire", "fire", <<9, 6, 9, 9, 6, 9>>),
      H("lake", "mountain", <<6, 6, 9, 9, 9, 6>>),
      H("thunder", "wind", <<6, 9, 9, 9, 6, 6>>)>>

Hexagrams33To40 ==
    <<H("heaven", "mountain", <<6, 6, 9, 9, 9, 9>>),
      H("thunder", "heaven", <<9, 9, 9, 9, 6, 6>>),
      H("fire", "earth", <<6, 6, 6, 9, 6, 9>>),
      H("earth", "fire", <<9, 6, 9, 6, 6, 6>>),
      H("wind", "fire", <<9, 6, 9, 6, 9, 9>>),
      H("fire", "lake", <<9, 9, 6, 9, 6, 9>>),
      H("water", "mountain", <<6, 6, 9, 6, 9, 6>>),
      H("thunder", "water", <<6, 9, 6, 9, 6, 6>>)>>

Hexagrams41To48 ==
    <<H("mountain", "lake", <<9, 9, 6, 6, 6, 9>>),
      H("wind", "thunder", <<9, 6, 6, 6, 9, 9>>),
      H("lake", "heaven", <<9, 9, 9, 9, 9, 6>>),
      H("heaven", "wind", <<6, 9, 9, 9, 9, 9>>),
      H("lake", "earth", <<6, 6, 6, 9, 9, 6>>),
      H("earth", "wind", <<6, 9, 9, 6, 6, 6>>),
      H("lake", "water", <<6, 9, 6, 9, 9, 6>>),
      H("water", "wind", <<6, 9, 9, 6, 9, 6>>)>>

Hexagrams49To56 ==
    <<H("lake", "fire", <<9, 6, 9, 9, 9, 6>>),
      H("fire", "wind", <<6, 9, 9, 9, 6, 9>>),
      H("thunder", "thunder", <<9, 6, 6, 9, 6, 6>>),
      H("mountain", "mountain", <<6, 6, 9, 6, 6, 9>>),
      H("wind", "mountain", <<6, 6, 9, 6, 9, 9>>),
      H("thunder", "lake", <<9, 9, 6, 9, 6, 6>>),
      H("thunder", "fire", <<9, 6, 9, 9, 6, 6>>),
      H("fire", "mountain", <<6, 6, 9, 9, 6, 9>>)>>

Hexagrams57To64 ==
    <<H("wind", "wind", <<6, 9, 9, 6, 9, 9>>),
      H("lake", "lake", <<9, 9, 6, 9, 9, 6>>),
      H("wind", "water", <<6, 9, 6, 6, 9, 9>>),
      H("water", "lake", <<9, 9, 6, 6, 9, 6>>),
      H("wind", "lake", <<9, 9, 6, 6, 9, 9>>),
      H("thunder", "mountain", <<6, 6, 9, 9, 6, 6>>),
      H("water", "fire", <<9, 6, 9, 6, 9, 6>>),
      H("fire", "water", <<6, 9, 6, 9, 6, 9>>)>>

\* HEXAGRAMS, by the number of the hexagram.
Hexagrams ==
    LET eights == <<Hexagrams1To8, Hexagrams9To16, Hexagrams17To24,
                    Hexagrams25To32, Hexagrams33To40, Hexagrams41To48,
                    Hexagrams49To56, Hexagrams57To64>>
    IN  [n \in 1..64 |-> eights[((n - 1) \div 8) + 1][((n - 1) % 8) + 1]]

\* _KING_WEN, pattern after pattern from 0 to 63.
KingWen ==
    <<2, 24, 7, 46, 15, 19, 36, 11, 16, 51, 40, 32, 62, 54, 55, 34,
      8, 3, 29, 48, 39, 60, 63, 5, 20, 42, 59, 57, 53, 61, 37, 9,
      23, 27, 4, 18, 52, 41, 22, 26, 45, 17, 47, 28, 31, 58, 49, 43,
      35, 21, 64, 50, 56, 38, 30, 14, 12, 25, 6, 44, 33, 10, 13, 1>>

-----------------------------------------------------------------------------
Positions == 1..6
Yang(v) == v \in {7, 9}

Bit(v) == IF Yang(v) THEN 1 ELSE 0

\* _lines_to_pattern: the first line is the lowest bit.
Pattern(ls) ==
    Bit(ls[1]) + 2 * Bit(ls[2]) + 4 * Bit(ls[3])
    + 8 * Bit(ls[4]) + 16 * Bit(ls[5]) + 32 * Bit(ls[6])

(* Seeded fault: only the old yin lines turn.                               *)
Transform_YinOnly(ls) ==
    [i \in Positions |-> IF ls[i] = 6 THEN 7 ELSE ls[i]]

\* _transform: an old line turns into its opposite.
Transform(ls) ==
    [i \in Positions |-> IF ls[i] = 6 THEN 7 ELSE IF ls[i] = 9 THEN 8
                         ELSE ls[i]]

Complete == Len(lines) = 6
Changing(ls) == {i \in Positions : ls[i] \in {6, 9}}
PrimaryId(ls) == KingWen[Pattern(ls) + 1]
NoHexagram == 0
TransformedId(ls) == IF Changing(ls) = {} THEN NoHexagram
                     ELSE KingWen[Pattern(Transform(ls)) + 1]

Init ==
    /\ coins = <<>>
    /\ lines = <<>>

\* cast_three_coins: each coin counts two or three.
ThrowCoin(v) ==
    /\ ~Complete /\ Len(coins) < 3
    /\ coins' = Append(coins, v)
    /\ UNCHANGED lines

DrawLine ==
    /\ Len(coins) = 3
    /\ lines' = Append(lines, coins[1] + coins[2] + coins[3])
    /\ coins' = <<>>

Next ==
    \/ \E v \in {2, 3} : ThrowCoin(v)
    \/ DrawLine

Spec == Init /\ [][Next]_vars

-----------------------------------------------------------------------------
(* A reading hangs together: the texts of the lines of the hexagrams that  *)
(* are read out speak of the lines their two trigrams are made of, and a   *)
(* cast in which a line changes reads out a second, different hexagram     *)
(* (iching.py 25-998, 1018-1032).                                          *)
ReadingHangsTogether ==
    Complete =>
       /\ \A n \in {PrimaryId(lines), TransformedId(lines)} \ {NoHexagram} :
             LET h == Hexagrams[n] IN
             [i \in Positions |-> Bit(h.texts[i])]
                = Trigram[h.below] \o Trigram[h.above]
       /\ TransformedId(lines) # PrimaryId(lines)

(* The hexagram that is read out is made of the trigrams that were thrown: *)
(* "Lower trigram occupies bits 0-2, upper trigram occupies bits 3-5"      *)
(* (iching.py 928-931).                                                    *)
TrigramsAsThrown ==
    Complete =>
       LET h == Hexagrams[PrimaryId(lines)] IN
       [i \in Positions |-> Bit(lines[i])]
          = Trigram[h.below] \o Trigram[h.above]
=============================================================================
