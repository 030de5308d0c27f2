------------------------------ MODULE Extrema ------------------------------
(* Max and Min of FiniteSetsExt choose a greatest and a least number: that    *)
(* there is one to choose, and the induction that follows from it.            *)
EXTENDS Integers, FiniteSetsExt, WellFoundedInduction, TLAPS

\* A set of positions of a sequence that is not empty has a last one.
LEMMA MaxExists ==
    ASSUME NEW n \in Nat, NEW S \in SUBSET (1 .. n), S # {}
    PROVE  \E m \in S : \A j \in S : j <= m
<1> DEFINE R == OpToRel(<, Nat)
           T == {n - j : j \in S}
<1>1. IsWellFoundedOn(R, Nat)
    BY NatLessThanWellFounded
<1>2. \A x, y \in Nat : x < y => <<x, y>> \in R
    BY Zenon DEF OpToRel
<1> HIDE DEF R
<1>3. T \subseteq Nat /\ T # {}
    <2>1. PICK j \in S : TRUE
        OBVIOUS
    <2>2. n - j \in T
        BY <2>1
    <2>3. \A i \in S : n - i \in Nat
        OBVIOUS
    <2> QED
        BY <2>2, <2>3
<1>4. \E x \in T : \A y \in T : ~(<<y, x>> \in R)
    <2> HIDE DEF T
    <2> QED
        BY <1>1, <1>3, WFMin
<1>5. PICK x \in T : \A y \in T : ~(<<y, x>> \in R)
    BY <1>4
<1>6. PICK m \in S : x = n - m
    BY <1>5
<1>7. ASSUME NEW j \in S
      PROVE  j <= m
    <2>1. n - j \in T /\ n - j \in Nat /\ x \in Nat
        BY <1>3
    <2>2. ~(<<n - j, x>> \in R)
        BY <1>5, <2>1
    <2>3. ~(n - j < x)
        BY <2>1, <2>2, <1>2
    <2> QED
        BY <2>3, <1>6
<1> QED
    BY <1>7

\* Max finds it: the last row of a tenant, which entry's SELECT reads, and the last
\* step of an id, which execute_dag's insert leaves.
LEMMA MaxIsMember ==
    ASSUME NEW n \in Nat, NEW S \in SUBSET (1 .. n), S # {}
    PROVE  Max(S) \in S
<1>1. PICK m \in S : \A j \in S : j <= m
    BY MaxExists
<1>2. m \in S /\ \A j \in S : m >= j
    BY <1>1
<1> QED
    BY <1>2, Zenon DEF Max

LEMMA MaxIsGreatest ==
    ASSUME NEW n \in Nat, NEW S \in SUBSET (1 .. n), S # {}
    PROVE  Max(S) \in S /\ \A j \in S : j <= Max(S)
<1>1. PICK m \in S : \A j \in S : j <= m
    BY MaxExists
<1>2. m \in S /\ \A j \in S : m >= j
    BY <1>1
<1>3. Max(S) \in S /\ \A j \in S : Max(S) >= j
    BY <1>2, Zenon DEF Max
<1> QED
    BY <1>3

\* A set of naturals that is not empty has a least element, and Min finds it: the
\* oldest queued row and the first work not given out, which next_work picks.
LEMMA MinIsLeast ==
    ASSUME NEW S \in SUBSET Nat, S # {}
    PROVE  Min(S) \in S /\ \A j \in S : Min(S) <= j
<1> DEFINE R == OpToRel(<, Nat)
<1>1. IsWellFoundedOn(R, Nat)
    BY NatLessThanWellFounded
<1>2. \A x, y \in Nat : x < y => <<x, y>> \in R
    BY Zenon DEF OpToRel
<1> HIDE DEF R
<1>3. PICK x \in S : \A y \in S : ~(<<y, x>> \in R)
    BY <1>1, WFMin
<1>4. \A y \in S : ~(y < x)
    BY <1>2, <1>3
<1>5. \A y \in S : x <= y
    BY <1>4
<1> QED
    BY <1>5, Zenon DEF Min

\* Induction up to n, for a set: what the folds and recursive functions over the pieces
\* of a Containerfile need.
LEMMA UpTo ==
    ASSUME NEW n \in Nat, NEW S, 0 \in S, \A k \in 0 .. n - 1 : k \in S => k + 1 \in S
    PROVE  \A k \in 0 .. n : k \in S
<1> SUFFICES ASSUME NEW x \in 0 .. n, x \notin S
             PROVE  FALSE
    OBVIOUS
<1> DEFINE Out == {k \in 0 .. n : k \notin S}
<1>1. Out \subseteq Nat /\ Out # {}
    OBVIOUS
<1>2. PICK m \in Out : \A j \in Out : m <= j
    BY <1>1, MinIsLeast
<1>3. m \in 0 .. n /\ m \notin S /\ m # 0
    BY <1>2
<1>4. m - 1 \in 0 .. n - 1 /\ m - 1 \notin Out
    BY <1>2, <1>3
<1>5. m - 1 \in S
    BY <1>4
<1>6. (m - 1) + 1 \in S
    BY <1>4, <1>5
<1> QED
    BY <1>3, <1>6
=============================================================================
