-------------------------------- MODULE Sums --------------------------------
(***************************************************************************)
(* What the sum of a function over a finite set is: the community modules  *)
(* define it by taking elements in an order that CHOOSE fixes, and what is *)
(* used of it elsewhere is that the order does not matter.                 *)
(*                                                                         *)
(* Each fact is proved for the smallest set it could be false of; that     *)
(* there is one follows from the finiteness of the set that is summed.     *)
(***************************************************************************)
EXTENDS Integers, Functions, FiniteSetsExt, FiniteSetTheorems, TLAPS

LEMMA SmallestSet ==
    ASSUME NEW S, IsFiniteSet(S), NEW T, T \subseteq SUBSET S, T # {}
    PROVE  \E m \in T : \A t \in T : t \subseteq m => t = m
<1>1. IsWellFoundedOn(StrictSubsetOrdering(S), SUBSET S)
    BY FS_StrictSubsetOrderingWellFounded, FS_FiniteSubsetsOfFinite
<1>2. PICK m \in T : \A t \in T : <<t, m>> \notin StrictSubsetOrdering(S)
    BY <1>1, WFMin
<1>3. ASSUME NEW t \in T, t \subseteq m PROVE t = m
    BY <1>2, <1>3 DEF StrictSubsetOrdering
<1> QED
    BY <1>3

-----------------------------------------------------------------------------
(* The function of the subsets of S that the definition recurs on, which   *)
(* exists and is the only one.                                             *)
First(s) == CHOOSE x \in s : TRUE
Step(f, it, s) == IF s = {} THEN 0 ELSE f[First(s)] + it[s \ {First(s)}]
Recurs(f, S, it) == it = [s \in SUBSET S |-> Step(f, it, s)]
Iterated(f, S) == CHOOSE it : Recurs(f, S, it)

LEMMA SumIsIterated ==
    ASSUME NEW f, NEW S
    PROVE  SumFunctionOnSet(f, S) = Iterated(f, S)[S]
BY DEF SumFunctionOnSet, FoldFunctionOnSet, MapThenFoldSet, Iterated, Recurs,
       Step, First

LEMMA FirstIn ==
    ASSUME NEW s, s # {}
    PROVE  First(s) \in s
BY DEF First

LEMMA RecursWithin ==
    ASSUME NEW f, NEW S, NEW it, Recurs(f, S, it), NEW T \in SUBSET S
    PROVE  Recurs(f, T, [s \in SUBSET T |-> it[s]])
<1> DEFINE jt == [s \in SUBSET T |-> it[s]]
<1>1. ASSUME NEW s \in SUBSET T PROVE jt[s] = Step(f, jt, s)
    <2>1. it[s] = Step(f, it, s)
        <3>1. it = [r \in SUBSET S |-> Step(f, it, r)]
            BY DEF Recurs
        <3> QED
            BY <3>1
    <2>2. s \ {First(s)} \in SUBSET T
        OBVIOUS
    <2> QED
        BY <2>1, <2>2 DEF Step
<1>2. jt = [s \in SUBSET T |-> jt[s]]
    OBVIOUS
<1> HIDE DEF jt
<1>3. jt = [s \in SUBSET T |-> Step(f, jt, s)]
    BY <1>1, <1>2
<1> QED
    BY <1>3 DEF Recurs, jt

LEMMA RecursOnce ==
    ASSUME NEW f, NEW S, IsFiniteSet(S),
           NEW it, Recurs(f, S, it), NEW jt, Recurs(f, S, jt)
    PROVE  it = jt
<1>1. it = [s \in SUBSET S |-> Step(f, it, s)]
    BY DEF Recurs
<1>2. jt = [s \in SUBSET S |-> Step(f, jt, s)]
    BY DEF Recurs
<1> DEFINE bad == {s \in SUBSET S : it[s] # jt[s]}
<1>3. CASE bad = {}
    BY <1>1, <1>2, <1>3
<1>4. CASE bad # {}
    <2>1. PICK m \in bad : \A t \in bad : t \subseteq m => t = m
        <3>1. bad \subseteq SUBSET S /\ bad # {} /\ IsFiniteSet(S)
            BY <1>4
        <3> HIDE DEF bad
        <3> QED
            BY <3>1, SmallestSet
    <2>2. CASE m = {}
        BY <1>1, <1>2, <2>1, <2>2 DEF Step
    <2>3. CASE m # {}
        <3>1. First(m) \in m
            BY <2>3, FirstIn
        <3>2. m \ {First(m)} \in SUBSET S /\ m \ {First(m)} \notin bad
            BY <2>1, <3>1
        <3>3. it[m] = f[First(m)] + it[m \ {First(m)}]
            BY <1>1, <2>3 DEF Step
        <3>4. jt[m] = f[First(m)] + jt[m \ {First(m)}]
            BY <1>2, <2>3 DEF Step
        <3> QED
            BY <2>1, <3>2, <3>3, <3>4
    <2> QED
        BY <2>2, <2>3
<1> QED
    BY <1>3, <1>4

(* The sum of T takes its first element and the sum of the others, when    *)
(* there is a function for T.                                              *)
LEMMA SumRecurs ==
    ASSUME NEW f, NEW T, IsFiniteSet(T), Recurs(f, T, Iterated(f, T)),
           NEW r, r = T \ {First(T)}, Recurs(f, r, Iterated(f, r))
    PROVE  SumFunctionOnSet(f, T)
             = IF T = {} THEN 0 ELSE f[First(T)] + SumFunctionOnSet(f, r)
<1> DEFINE it == Iterated(f, T)
<1>1. it = [s \in SUBSET T |-> Step(f, it, s)]
    BY DEF Recurs
<1>2. SumFunctionOnSet(f, T) = it[T]
    BY SumIsIterated
<1>3. SumFunctionOnSet(f, r) = it[r]
    <2>1. r \in SUBSET T /\ IsFiniteSet(r)
        BY FS_Subset
    <2>2. Recurs(f, r, [s \in SUBSET r |-> it[s]])
        BY <2>1, RecursWithin
    <2>3. Iterated(f, r) = [s \in SUBSET r |-> it[s]]
        BY <2>1, <2>2, RecursOnce
    <2>4. Iterated(f, r)[r] = it[r]
        BY <2>3
    <2> QED
        BY <2>4, SumIsIterated
<1>4. it[T] = Step(f, it, T)
    BY <1>1
<1> QED
    BY <1>2, <1>3, <1>4 DEF Step

LEMMA RecursExists ==
    ASSUME NEW f, NEW S, IsFiniteSet(S)
    PROVE  Recurs(f, S, Iterated(f, S))
<1> DEFINE Good(s) == Recurs(f, s, Iterated(f, s))
           bad == {s \in SUBSET S : ~Good(s)}
<1>1. CASE bad = {}
    BY <1>1
<1>2. CASE bad # {}
    <2>1. PICK m \in bad : \A t \in bad : t \subseteq m => t = m
        <3>1. bad \subseteq SUBSET S /\ bad # {} /\ IsFiniteSet(S)
            BY <1>2
        <3> HIDE DEF bad
        <3> QED
            BY <3>1, SmallestSet
    <2>2. ASSUME NEW q \in SUBSET m, q # m PROVE Good(q) /\ IsFiniteSet(q)
        BY <2>1, <2>2, FS_Subset
    <2> DEFINE V(s) == SumFunctionOnSet(f, s)
               it == [s \in SUBSET m |-> IF s = {} THEN 0
                                          ELSE f[First(s)] + V(s \ {First(s)})]
    <2>3. ASSUME NEW q \in SUBSET m, q # m PROVE it[q] = V(q)
        <3> DEFINE r == q \ {First(q)}
        <3>1. r \in SUBSET m /\ r # m
            BY <2>3
        <3>2. V(q) = IF q = {} THEN 0 ELSE f[First(q)] + V(r)
            BY <2>2, <2>3, <3>1, SumRecurs
        <3> QED
            BY <3>2
    <2>4. ASSUME NEW s \in SUBSET m PROVE it[s] = Step(f, it, s)
        <3>1. CASE s = {}
            BY <3>1 DEF Step
        <3>2. CASE s # {}
            <4>1. s \ {First(s)} \in SUBSET m /\ s \ {First(s)} # m
                BY <3>2, FirstIn
            <4>2. it[s \ {First(s)}] = V(s \ {First(s)})
                BY <2>3, <4>1
            <4> QED
                BY <3>2, <4>2 DEF Step
        <3> QED
            BY <3>1, <3>2
    <2>5. it = [s \in SUBSET m |-> it[s]]
        OBVIOUS
    <2> HIDE DEF it
    <2>6. Recurs(f, m, it)
        BY <2>4, <2>5 DEF Recurs
    <2>7. Good(m)
        BY <2>6 DEF Iterated
    <2> QED
        BY <2>1, <2>7
<1> QED
    BY <1>1, <1>2

-----------------------------------------------------------------------------
(* What is used of sums.                                                   *)

LEMMA SumEmpty ==
    ASSUME NEW f
    PROVE  SumFunctionOnSet(f, {}) = 0
<1>1. {} \ {First({})} = {}
    OBVIOUS
<1> QED
    BY <1>1, SumRecurs, RecursExists, FS_EmptySet

(* A sum of integers takes any element and the sum of the others.          *)
LEMMA SumMember ==
    ASSUME NEW S, IsFiniteSet(S), NEW f, \A x \in S : f[x] \in Int
    PROVE  /\ SumFunctionOnSet(f, S) \in Int
           /\ \A p \in S :
                 SumFunctionOnSet(f, S) = f[p] + SumFunctionOnSet(f, S \ {p})
<1> DEFINE V(s) == SumFunctionOnSet(f, s)
           Good(s) == V(s) \in Int /\ \A p \in s : V(s) = f[p] + V(s \ {p})
           bad == {s \in SUBSET S : ~Good(s)}
<1>1. CASE bad = {}
    BY <1>1
<1>2. CASE bad # {}
    <2>1. PICK m \in bad : \A t \in bad : t \subseteq m => t = m
        <3>1. bad \subseteq SUBSET S /\ bad # {} /\ IsFiniteSet(S)
            BY <1>2
        <3> HIDE DEF bad
        <3> QED
            BY <3>1, SmallestSet
    <2>2. ASSUME NEW q \in SUBSET m, q # m PROVE Good(q)
        BY <2>1, <2>2
    <2>3. CASE m = {}
        BY <2>1, <2>3, SumEmpty
    <2>4. CASE m # {}
        <3> DEFINE x == First(m)
                   r == m \ {x}
        <3>1. x \in m
            BY <2>4, FirstIn
        <3>2. V(m) = f[x] + V(r)
            <4>1. IsFiniteSet(m) /\ IsFiniteSet(r)
                BY FS_Subset
            <4> QED
                BY <2>4, <4>1, SumRecurs, RecursExists
        <3> HIDE DEF x
        <3>3. Good(r) /\ f[x] \in Int
            BY <2>2, <3>1
        <3>4. V(m) \in Int
            BY <3>2, <3>3
        <3>5. ASSUME NEW p \in m PROVE V(m) = f[p] + V(m \ {p})
            <4>1. CASE p = x
                BY <3>2, <4>1
            <4>2. CASE p # x
                <5> DEFINE u == r \ {p}
                <5>1. V(r) = f[p] + V(u)
                    BY <3>3, <4>2
                <5>2. Good(m \ {p}) /\ x \in m \ {p} /\ (m \ {p}) \ {x} = u
                    BY <2>2, <3>1, <4>2
                <5>3. V(m \ {p}) = f[x] + V(u)
                    BY <5>2
                <5>4. V(u) \in Int /\ f[p] \in Int
                    BY <2>2, <3>1
                <5> QED
                    BY <3>2, <3>3, <5>1, <5>3, <5>4
            <4> QED
                BY <4>1, <4>2
        <3> QED
            BY <2>1, <3>4, <3>5
    <2> QED
        BY <2>3, <2>4
<1> QED
    BY <1>1, <1>2

LEMMA SumOne ==
    ASSUME NEW f, NEW p, f[p] \in Int
    PROVE  SumFunctionOnSet(f, {p}) = f[p]
<1>1. IsFiniteSet({p}) /\ {p} \ {p} = {}
    BY FS_Singleton
<1>2. SumFunctionOnSet(f, {p}) = f[p] + SumFunctionOnSet(f, {})
    BY <1>1, SumMember
<1> QED
    BY <1>2, SumEmpty

(* Functions that agree on a set have the same sum.                        *)
LEMMA SumSame ==
    ASSUME NEW S, IsFiniteSet(S), NEW f, NEW g,
           \A x \in S : f[x] \in Int /\ g[x] = f[x]
    PROVE  SumFunctionOnSet(f, S) = SumFunctionOnSet(g, S)
<1> DEFINE bad == {s \in SUBSET S :
                      SumFunctionOnSet(f, s) # SumFunctionOnSet(g, s)}
<1>1. CASE bad = {}
    BY <1>1
<1>2. CASE bad # {}
    <2>1. PICK m \in bad : \A t \in bad : t \subseteq m => t = m
        <3>1. bad \subseteq SUBSET S /\ bad # {} /\ IsFiniteSet(S)
            BY <1>2
        <3> HIDE DEF bad
        <3> QED
            BY <3>1, SmallestSet
    <2>2. m # {}
        BY <2>1, SumEmpty
    <2>3. PICK p \in m : TRUE
        BY <2>2
    <2>4. m \ {p} \in SUBSET S /\ m \ {p} \notin bad /\ IsFiniteSet(m)
        BY <2>1, FS_Subset
    <2>5. SumFunctionOnSet(f, m) = f[p] + SumFunctionOnSet(f, m \ {p})
        BY <2>4, SumMember
    <2>6. SumFunctionOnSet(g, m) = g[p] + SumFunctionOnSet(g, m \ {p})
        BY <2>4, SumMember
    <2> QED
        BY <2>1, <2>4, <2>5, <2>6
<1> QED
    BY <1>1, <1>2

(* The sum over two sets apart is the sum of the sums.                     *)
LEMMA SumApart ==
    ASSUME NEW S, IsFiniteSet(S), NEW f, \A x \in S : f[x] \in Int,
           NEW A \in SUBSET S, NEW B \in SUBSET S, A \cap B = {}
    PROVE  SumFunctionOnSet(f, A \cup B)
             = SumFunctionOnSet(f, A) + SumFunctionOnSet(f, B)
<1> DEFINE V(s) == SumFunctionOnSet(f, s)
           bad == {s \in SUBSET B : V(A \cup s) # V(A) + V(s)}
<1>1. \A s \in SUBSET S : V(s) \in Int /\ IsFiniteSet(s)
    BY FS_Subset, SumMember
<1>2. CASE bad = {}
    BY <1>2
<1>3. CASE bad # {}
    <2>1. PICK m \in bad : \A t \in bad : t \subseteq m => t = m
        <3>1. bad \subseteq SUBSET B /\ bad # {} /\ IsFiniteSet(B)
            BY <1>1, <1>3
        <3> HIDE DEF bad
        <3> QED
            BY <3>1, SmallestSet
    <2>2. CASE m = {}
        <3>1. V(A \cup m) = V(A) /\ V(m) = 0
            BY <2>2, SumEmpty
        <3> QED
            BY <1>1, <2>1, <3>1
    <2>3. CASE m # {}
        <3>1. PICK p \in m : TRUE
            BY <2>3
        <3>2. m \ {p} \in SUBSET B /\ m \ {p} \notin bad
            BY <2>1
        <3>3. V(A \cup (m \ {p})) = V(A) + V(m \ {p})
            BY <3>2
        <3>4. (A \cup m) \ {p} = A \cup (m \ {p})
            BY <2>1
        <3>5. V(A \cup m) = f[p] + V(A \cup (m \ {p}))
            BY <1>1, <3>4, SumMember
        <3>6. V(m) = f[p] + V(m \ {p})
            BY <1>1, SumMember
        <3>7. V(A) \in Int /\ V(m \ {p}) \in Int /\ f[p] \in Int
            BY <1>1
        <3> QED
            BY <2>1, <3>3, <3>5, <3>6, <3>7
    <2> QED
        BY <2>2, <2>3
<1> QED
    BY <1>2, <1>3

(* A sum of numbers that are not negative is one, and no less than the sum *)
(* over a part.                                                            *)
LEMMA SumNat ==
    ASSUME NEW S, IsFiniteSet(S), NEW f, \A x \in S : f[x] \in Nat
    PROVE  SumFunctionOnSet(f, S) \in Nat
<1> DEFINE bad == {s \in SUBSET S : SumFunctionOnSet(f, s) \notin Nat}
<1>1. CASE bad = {}
    BY <1>1
<1>2. CASE bad # {}
    <2>1. PICK m \in bad : \A t \in bad : t \subseteq m => t = m
        <3>1. bad \subseteq SUBSET S /\ bad # {} /\ IsFiniteSet(S)
            BY <1>2
        <3> HIDE DEF bad
        <3> QED
            BY <3>1, SmallestSet
    <2>2. m # {}
        <3>1. SumFunctionOnSet(f, {}) \in Nat
            BY SumEmpty
        <3> QED
            BY <2>1, <3>1
    <2>3. PICK p \in m : TRUE
        BY <2>2
    <2>4. m \ {p} \in SUBSET S /\ m \ {p} \notin bad /\ IsFiniteSet(m)
        BY <2>1, FS_Subset
    <2>5. SumFunctionOnSet(f, m) = f[p] + SumFunctionOnSet(f, m \ {p})
        BY <2>4, SumMember
    <2>6. f[p] \in Nat
        BY <2>1
    <2> QED
        BY <2>1, <2>4, <2>5, <2>6
<1> QED
    BY <1>1, <1>2

LEMMA SumWithin ==
    ASSUME NEW S, IsFiniteSet(S), NEW f, \A x \in S : f[x] \in Nat,
           NEW A \in SUBSET S
    PROVE  SumFunctionOnSet(f, A) <= SumFunctionOnSet(f, S)
<1>1. A \cup (S \ A) = S /\ A \cap (S \ A) = {}
    OBVIOUS
<1>2. IsFiniteSet(A) /\ IsFiniteSet(S \ A)
    BY FS_Subset
<1>3. SumFunctionOnSet(f, A) \in Nat /\ SumFunctionOnSet(f, S \ A) \in Nat
    BY <1>2, SumNat
<1>4. SumFunctionOnSet(f, S)
        = SumFunctionOnSet(f, A) + SumFunctionOnSet(f, S \ A)
    BY <1>1, SumApart
<1> QED
    BY <1>3, <1>4

LEMMA SumZero ==
    ASSUME NEW S, IsFiniteSet(S), NEW f, \A x \in S : f[x] = 0
    PROVE  SumFunctionOnSet(f, S) = 0
<1> DEFINE bad == {s \in SUBSET S : SumFunctionOnSet(f, s) # 0}
<1>1. CASE bad = {}
    BY <1>1
<1>2. CASE bad # {}
    <2>1. PICK m \in bad : \A t \in bad : t \subseteq m => t = m
        <3>1. bad \subseteq SUBSET S /\ bad # {} /\ IsFiniteSet(S)
            BY <1>2
        <3> HIDE DEF bad
        <3> QED
            BY <3>1, SmallestSet
    <2>2. m # {}
        BY <2>1, SumEmpty
    <2>3. PICK p \in m : TRUE
        BY <2>2
    <2>4. m \ {p} \in SUBSET S /\ m \ {p} \notin bad /\ IsFiniteSet(m)
        BY <2>1, FS_Subset
    <2>5. SumFunctionOnSet(f, m) = f[p] + SumFunctionOnSet(f, m \ {p})
        BY <2>4, SumMember
    <2>6. f[p] = 0
        BY <2>1
    <2> QED
        BY <2>1, <2>4, <2>5, <2>6
<1> QED
    BY <1>1, <1>2

-----------------------------------------------------------------------------
(* Sets of numbers have the least and the greatest members that the        *)
(* community modules choose.                                               *)

LEMMA LeastNumber ==
    ASSUME NEW T, T \subseteq Nat, T # {}
    PROVE  Min(T) \in T /\ \A n \in T : Min(T) <= n
<1>1. PICK m \in T : \A n \in T : <<n, m>> \notin OpToRel(<, Nat)
    BY NatLessThanWellFounded, WFMin
<1>2. ASSUME NEW n \in T PROVE m <= n
    <2>1. OpToRel(<, Nat) = {ss \in Nat \X Nat : ss[1] < ss[2]}
        BY DEF OpToRel
    <2>2. m \in Nat /\ n \in Nat /\ <<n, m>> \in Nat \X Nat
        OBVIOUS
    <2>3. ~(n < m)
        BY <1>1, <2>1, <2>2
    <2> QED
        BY <2>2, <2>3
<1> QED
    BY <1>2 DEF Min

LEMMA GreatestNumber ==
    ASSUME NEW M, M \subseteq Nat, M # {}, IsFiniteSet(M)
    PROVE  Max(M) \in M /\ \A n \in M : n <= Max(M)
<1>a. IsFiniteSet(M)
    OBVIOUS
<1>b. ASSUME NEW F, F \subseteq SUBSET M, F # {}
      PROVE  \E m \in F : \A t \in F : t \subseteq m => t = m
    BY ONLY <1>a, <1>b, SmallestSet
<1> DEFINE Above(k) == {n \in M : n > k}
           tails == {Above(k) : k \in M}
<1>1. PICK m \in tails : \A t \in tails : t \subseteq m => t = m
    <2>1. tails \subseteq SUBSET M /\ tails # {} /\ IsFiniteSet(M)
        <3>1. \A k \in M : Above(k) \in SUBSET M
            OBVIOUS
        <3>2. PICK k \in M : TRUE
            OBVIOUS
        <3> QED
            BY <3>1, <3>2
    <2> HIDE DEF tails
    <2> QED
        BY ONLY <2>1, <1>b
<1>2. PICK k \in M : m = Above(k)
    BY <1>1
<1>3. ASSUME NEW n \in M, n > k PROVE FALSE
    <2>1. k \in Nat /\ n \in Nat /\ \A x \in M : x \in Nat
        OBVIOUS
    <2>2. ASSUME NEW x \in Above(n) PROVE x \in Above(k)
        <3>1. x \in Nat /\ x > n
            BY <2>1
        <3> QED
            BY <1>3, <2>1, <3>1
    <2>3. n \in Above(k) /\ n \notin Above(n)
        BY <1>3, <2>1
    <2>4. Above(n) \in tails
        OBVIOUS
    <2> QED
        BY <1>1, <1>2, <2>2, <2>3, <2>4
<1>4. \A n \in M : n <= k
    BY <1>3
<1> QED
    BY <1>4 DEF Max

LEMMA OfTwo ==
    ASSUME NEW a \in Int, NEW b \in Int
    PROVE  /\ Max({a, b}) = IF a <= b THEN b ELSE a
           /\ Min({a, b}) = IF a <= b THEN a ELSE b
<1>1. PICK m \in {a, b} : \A y \in {a, b} : m >= y
    OBVIOUS
<1>2. PICK l \in {a, b} : \A y \in {a, b} : l <= y
    OBVIOUS
<1>3. Max({a, b}) \in {a, b} /\ \A y \in {a, b} : Max({a, b}) >= y
    BY <1>1 DEF Max
<1>4. Min({a, b}) \in {a, b} /\ \A y \in {a, b} : Min({a, b}) <= y
    BY <1>2 DEF Min
<1> QED
    BY <1>3, <1>4
=============================================================================
