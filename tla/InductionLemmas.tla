---- MODULE InductionLemmas ----
(***************************************************************************)
(* Induction and finite sets of numbers, for the proofs that need them. A  *)
(* property to be shown by induction is given as the set of the numbers    *)
(* that have it, which no operator parameter is needed for.                *)
(***************************************************************************)
EXTENDS Integers, FiniteSets, FiniteSetsExt, WellFoundedInduction, TLAPS

LEMMA LeastIsMin ==
    ASSUME NEW T, T \subseteq Int, NEW m \in T, \A n \in T : m <= n
    PROVE  Min(T) = m
    <1>1. Min(T) \in T /\ \A n \in T : Min(T) <= n
        BY DEF Min
    <1>2. Min(T) <= m /\ m <= Min(T) /\ m \in Int /\ Min(T) \in Int
        BY <1>1
    <1> QED BY <1>2

LEMMA GreatestIsMax ==
    ASSUME NEW T, T \subseteq Int, NEW m \in T, \A n \in T : n <= m
    PROVE  Max(T) = m
    <1>1. Max(T) \in T /\ \A n \in T : Max(T) >= n
        BY DEF Max
    <1>2. Max(T) <= m /\ m <= Max(T) /\ m \in Int /\ Max(T) \in Int
        BY <1>1
    <1> QED BY <1>2

\* The natural numbers are well-founded.
LEMMA LeastNatural ==
    ASSUME NEW T, T \subseteq Nat, T # {}
    PROVE  \E m \in T : \A n \in T : m <= n
    <1> DEFINE R == {ss \in Nat \X Nat : ss[1] < ss[2]}
    <1>1. IsWellFoundedOn(R, Nat)
        BY NatLessThanWellFounded DEF OpToRel
    <1> HIDE DEF R
    <1>2. PICK m \in T : \A n \in T : <<n, m>> \notin R
        BY <1>1, WFMin, Zenon
    <1>3. \A n \in T : m <= n
        <2> SUFFICES ASSUME NEW n \in T, n < m PROVE FALSE
            OBVIOUS
        <2>1. <<n, m>> \in Nat \X Nat /\ <<n, m>>[1] = n /\ <<n, m>>[2] = m
            OBVIOUS
        <2>2. <<n, m>> \in R
            BY <2>1 DEF R
        <2> QED BY <1>2, <2>2
    <1> QED BY <1>3

\* A set of numbers bounded above has a greatest one.
LEMMA GreatestBounded ==
    ASSUME NEW T, T \subseteq Int, T # {}, NEW top \in Int, \A n \in T : n <= top
    PROVE  \E m \in T : \A n \in T : n <= m
    <1> DEFINE gaps == {top - n : n \in T}
    <1>1. gaps \subseteq Nat /\ gaps # {}
        <2>1. \A n \in T : top - n \in Nat
            OBVIOUS
        <2>2. PICK n \in T : TRUE
            OBVIOUS
        <2>3. top - n \in gaps
            OBVIOUS
        <2> QED BY <2>1, <2>3
    <1>2. PICK g \in gaps : \A h \in gaps : g <= h
        BY <1>1, LeastNatural
    <1>3. PICK m \in T : g = top - m
        BY <1>2
    <1>4. \A n \in T : top - n \in gaps
        OBVIOUS
    <1> HIDE DEF gaps
    <1>5. \A n \in T : top - m <= top - n
        BY <1>2, <1>3, <1>4
    <1> QED BY <1>5

\* A set of numbers bounded below has a least one.
LEMMA LeastBounded ==
    ASSUME NEW T, T \subseteq Int, T # {}, NEW bottom \in Int, \A n \in T : bottom <= n
    PROVE  \E m \in T : \A n \in T : m <= n
    <1> DEFINE gaps == {n - bottom : n \in T}
    <1>1. gaps \subseteq Nat /\ gaps # {}
        <2>1. \A n \in T : n - bottom \in Nat
            OBVIOUS
        <2>2. PICK n \in T : TRUE
            OBVIOUS
        <2>3. n - bottom \in gaps
            OBVIOUS
        <2> QED BY <2>1, <2>3
    <1>2. PICK g \in gaps : \A h \in gaps : g <= h
        BY <1>1, LeastNatural
    <1>3. PICK m \in T : g = m - bottom
        BY <1>2
    <1>4. \A n \in T : n - bottom \in gaps
        OBVIOUS
    <1> HIDE DEF gaps
    <1>5. \A n \in T : m - bottom <= n - bottom
        BY <1>2, <1>3, <1>4
    <1> QED BY <1>5

LEMMA SetInduction ==
    ASSUME NEW T, 0 \in T, \A n \in Nat : n \in T => n + 1 \in T
    PROVE  Nat \subseteq T
    <1> SUFFICES ASSUME Nat \ T # {} PROVE FALSE
        OBVIOUS
    <1>1. PICK m \in Nat \ T : \A n \in Nat \ T : m <= n
        BY LeastNatural
    <1>2. m - 1 \in Nat /\ m - 1 \in T
        BY <1>1
    <1> QED BY <1>2

\* Steps that never go down never go down in the long run.
LEMMA NeverDown ==
    ASSUME NEW n \in Nat, NEW f \in [1..n -> Int],
           \A k \in 1..(n - 1) : f[k] <= f[k + 1]
    PROVE  \A i, j \in 1..n : i <= j => f[i] <= f[j]
    <1> DEFINE T == {d \in Nat : \A i \in 1..n : i + d \in 1..n => f[i] <= f[i + d]}
    <1>1. 0 \in T
        OBVIOUS
    <1>2. ASSUME NEW d \in Nat, d \in T PROVE d + 1 \in T
        <2> SUFFICES ASSUME NEW i \in 1..n, i + (d + 1) \in 1..n
                     PROVE  f[i] <= f[i + (d + 1)]
            OBVIOUS
        <2> DEFINE j == i + d
        <2>1. j \in 1..(n - 1) /\ i + (d + 1) = j + 1 /\ j \in 1..n /\ j + 1 \in 1..n
            OBVIOUS
        <2>2. f[i] <= f[j]
            BY <1>2, <2>1
        <2> HIDE DEF j
        <2>3. f[j] <= f[j + 1] /\ f[i] \in Int /\ f[j] \in Int /\ f[j + 1] \in Int
            BY <2>1
        <2>4. f[i] <= f[j + 1]
            BY <2>2, <2>3
        <2> QED BY <2>1, <2>4
    <1> HIDE DEF T
    <1>3. Nat \subseteq T
        BY <1>1, <1>2, SetInduction
    <1> SUFFICES ASSUME NEW i \in 1..n, NEW j \in 1..n, i <= j PROVE f[i] <= f[j]
        OBVIOUS
    <1>4. j - i \in T /\ i + (j - i) = j
        BY <1>3
    <1> QED BY <1>4 DEF T
====
