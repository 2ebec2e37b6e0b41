----------------------------- MODULE HumanDesign -----------------------------
(***************************************************************************)
(* The Human Design chart (astrology/human_design.py).  Every body of the  *)
(* sky activates a gate; a channel is active when both its gates are, a    *)
(* centre is defined when a channel of its is; type, authority, profile    *)
(* and cross are read off that.                                            *)
(*                                                                         *)
(* Longitudes are counted in bases, the smallest part of the wheel:        *)
(* 64 gates of 6 lines of 6 colours of 6 tones of 5 bases.  A gate whose   *)
(* partner is not active changes nothing, so the bodies other than the Sun *)
(* and the Earth activate a channel at a time.                             *)
(***************************************************************************)
EXTENDS Integers, FiniteSets

CONSTANTS
    Suns,           \* longitudes of the Sun at birth, in bases
    MaxChannels     \* bound: channels the other bodies activate

VARIABLES
    sun,            \* the Sun at birth
    gates,          \* active_gates
    placed          \* channels activated so far

vars == <<sun, gates, placed>>

LineSize == 180
GateSize == 6 * LineSize
Wheel == 64 * GateSize
Degrees(d) == (d * Wheel) \div 360

-----------------------------------------------------------------------------
(* The wheel.                                                              *)

GateOrder ==
    <<41, 19, 13, 49, 30, 55, 37, 63, 22, 36, 25, 17, 21, 51, 42, 3,
      27, 24, 2, 23, 8, 20, 16, 35, 45, 12, 15, 52, 39, 53, 62, 56,
      31, 33, 7, 4, 29, 59, 40, 64, 47, 6, 46, 18, 48, 57, 32, 50,
      28, 44, 1, 43, 14, 34, 9, 5, 26, 11, 10, 58, 38, 54, 61, 60>>

\* longitude_to_gate, from 2 degrees Aquarius on.
Offset(longitude) == (longitude - Degrees(302)) % Wheel
Gate(longitude) == GateOrder[(Offset(longitude) \div GateSize) + 1]
Line(longitude) == ((Offset(longitude) % GateSize) \div LineSize) + 1

\* body_longitude of the Earth; and the Sun 88 degrees before the birth.
Earth(longitude) == (longitude + Degrees(180)) % Wheel
DesignSun(longitude) == (longitude - Degrees(88)) % Wheel

-----------------------------------------------------------------------------
(* The body graph.                                                         *)

Centers == {"Head", "Ajna", "Throat", "G", "Heart", "Spleen", "Sacral",
            "SolarPlexus", "Root"}

GatesByCenter ==
    [c \in Centers |->
       CASE c = "Head" -> {64, 61, 63}
         [] c = "Ajna" -> {47, 24, 4, 17, 43, 11}
         [] c = "Throat" -> {62, 23, 56, 16, 35, 12, 45, 33, 8, 31, 20}
         [] c = "G" -> {7, 1, 13, 25, 46, 2, 15, 10}
         [] c = "Heart" -> {21, 26, 51, 40}
         [] c = "Spleen" -> {48, 57, 44, 50, 32, 28, 18}
         [] c = "Sacral" -> {5, 14, 29, 59, 9, 3, 42, 27, 34}
         [] c = "SolarPlexus" -> {36, 22, 37, 6, 49, 55, 30}
         [] c = "Root" -> {53, 60, 52, 19, 39, 41, 58, 38, 54}]
GateToCenter == [g \in 1..64 |-> CHOOSE c \in Centers : g \in GatesByCenter[c]]

Channels ==
    {{1, 8}, {2, 14}, {3, 60}, {4, 63}, {5, 15}, {6, 59}, {7, 31}, {9, 52},
     {10, 20}, {10, 34}, {10, 57}, {11, 56}, {12, 22}, {13, 33}, {16, 48},
     {17, 62}, {18, 58}, {19, 49}, {20, 34}, {20, 57}, {21, 45}, {23, 43},
     {24, 61}, {25, 51}, {26, 44}, {27, 50}, {28, 38}, {29, 46}, {30, 41},
     {32, 54}, {34, 57}, {35, 36}, {37, 40}, {39, 55}, {42, 53}, {47, 64}}
Motors == {"Sacral", "SolarPlexus", "Heart", "Root"}

\* What calculate_human_design reads off the gates: the active channels, as
\* the pairs of centres they link, and the defined centres.
CenterLinks(gs) ==
    {{GateToCenter[g] : g \in ch} : ch \in {c \in Channels : c \subseteq gs}}
Defined(links) == UNION links

(* Seeded fault: only the neighbours of a centre are found.                 *)
Found_Neighbours(links, from) ==
    {from} \cup UNION {link \in links : from \in link}

\* path_exists: the centres found in as many rounds as there are centres.
Widened(links, seen) ==
    seen \cup UNION {link \in links : link \cap seen # {}}
Found(links, from) ==
    LET found[n \in 0..Cardinality(Centers)] ==
            IF n = 0 THEN {from} ELSE Widened(links, found[n - 1])
    IN  found[Cardinality(Centers)]
PathExists(links, from, to) == to \in Found(links, from)

MotorToThroat(links) ==
    /\ "Throat" \in Defined(links)
    /\ \E c \in Motors \cap Defined(links) : PathExists(links, c, "Throat")

DetermineType(links) ==
    IF links = {} THEN "Reflector"
    ELSE IF "Sacral" \in Defined(links)
         THEN IF MotorToThroat(links) THEN "ManifestingGenerator"
              ELSE "Generator"
    ELSE IF MotorToThroat(links) THEN "Manifestor" ELSE "Projector"

DetermineAuthority(type, defined) ==
    IF type = "Reflector" THEN "Lunar"
    ELSE IF "SolarPlexus" \in defined THEN "Emotional"
    ELSE IF "Sacral" \in defined THEN "Sacral"
    ELSE IF "Spleen" \in defined THEN "Splenic"
    ELSE IF "Heart" \in defined
         THEN IF type = "Manifestor" THEN "EgoManifested"
              ELSE "EgoProjected"
    ELSE IF "G" \in defined THEN "SelfProjected" ELSE "Mental"

\* The components that determine_definition counts.
DetermineDefinition(links) ==
    Cardinality({Found(links, c) : c \in Defined(links)})

Profile(longitude) == <<Line(longitude), Line(DesignSun(longitude))>>

\* The Gene Keys: HEXAGRAMS has one for each gate, _enrich looks it up, and
\* calculate_gene_keys gives the Suns and the Earths as four spheres.
HexagramGates == 1..64
Enrich(longitude) ==
    [gate |-> CHOOSE g \in HexagramGates : g = Gate(longitude),
     line |-> Line(longitude)]
Spheres(longitude) ==
    [lifes_work |-> Enrich(longitude),
     evolution |-> Enrich(Earth(longitude)),
     radiance |-> Enrich(DesignSun(longitude)),
     purpose |-> Enrich(Earth(DesignSun(longitude)))]

-----------------------------------------------------------------------------
\* The Sun and the Earth, of the birth and of the design.
SunGates(longitude) ==
    {Gate(longitude), Gate(Earth(longitude)),
     Gate(DesignSun(longitude)), Gate(Earth(DesignSun(longitude)))}

Init ==
    /\ sun \in Suns
    /\ gates = SunGates(sun)
    /\ placed = 0

\* activations_for: two more bodies stand in the gates of a channel.
Activate(ch) ==
    /\ placed < MaxChannels /\ placed' = placed + 1
    /\ gates' = gates \cup ch
    /\ UNCHANGED sun

Next == \E ch \in Channels : Activate(ch)

Spec == Init /\ [][Next]_vars

-----------------------------------------------------------------------------
Closed(links, cs) ==
    \A link \in links : link \cap cs # {} => link \subseteq cs

(* The type is what the body graph says: the four types of somebody with a *)
(* defined centre follow from the Sacral and from whether a set of centres *)
(* that the channels do not leave can hold a motor and not the Throat; and *)
(* a type and its authority belong together: who initiates has an          *)
(* authority of emotion, spleen or ego, who responds one of emotion or     *)
(* sacral; and a definition is split into four at most, which all have a   *)
(* name (human_design.py 292-349, 382-413).                                *)
TypeMeetsAuthority ==
    LET links == CenterLinks(gates)
        type == DetermineType(links)
        authority == DetermineAuthority(type, Defined(links))
        reaches == \E m \in Motors \cap Defined(links) :
                     \A cs \in SUBSET Centers :
                        m \in cs /\ Closed(links, cs) => "Throat" \in cs
    IN
    /\ type \in {"Manifestor", "ManifestingGenerator"} <=> reaches
    /\ type \in {"Generator", "ManifestingGenerator"} =>
          authority \in {"Emotional", "Sacral"}
    /\ type = "Manifestor" =>
          authority \in {"Emotional", "Splenic", "EgoManifested"}
    /\ type = "Reflector" <=> DetermineDefinition(links) = 0
    /\ DetermineDefinition(links) \in 0..4

(* The profile is one of the twelve there are, wherever the Sun stands: 88 *)
(* degrees are a little less than 94 lines, so the line of the design is   *)
(* two or three lines on; and the spheres are two pairs that face each     *)
(* other in the wheel (human_design.py 68-83, 490-535, gene_keys.py).      *)
TwelveProfiles ==
    LET Place(g) == CHOOSE i \in 1..64 : GateOrder[i] = g
        Face(a, b) == /\ a.line = b.line
                      /\ (Place(a.gate) - Place(b.gate)) % 64 = 32
    IN
    /\ Profile(sun)[2] \in {((Profile(sun)[1] + n) % 6) + 1 : n \in {1, 2}}
    /\ Face(Spheres(sun).lifes_work, Spheres(sun).evolution)
    /\ Face(Spheres(sun).radiance, Spheres(sun).purpose)
=============================================================================
