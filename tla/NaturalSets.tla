------------------------------ MODULE NaturalSets -------------------------------
(***************************************************************************)
(* Sets of natural numbers: their least and greatest elements, which the   *)
(* event buffer is built on (Min and Max of the community module are       *)
(* choices, and these are the facts that make them what they are called),  *)
(* and their elements in order, which Selection is built on.  The first    *)
(* rest on the naturals being well-founded.                                *)
(***************************************************************************)
EXTENDS Selection, FiniteSetsExt, FiniteSetTheorems,
        SequenceTheorems, WellFoundedInduction, TLAPS

LessThan == {pair \in Nat \X Nat : pair[1] < pair[2]}

\* A set of naturals that is not empty has a least element.
LEMMA LeastNatural ==
  ASSUME NEW S \in SUBSET Nat, S # {}
  PROVE  \E x \in S : \A y \in S : x <= y
<1>1. IsWellFoundedOn(LessThan, Nat)
  BY NatLessThanWellFounded DEF OpToRel, LessThan
<1>2. PICK x \in S : \A y \in S : <<y, x>> \notin LessThan
  BY <1>1, WFMin
<1>3. \A y \in S : ~(y < x)
  BY <1>2 DEF LessThan
<1> QED BY <1>3

\* What holds of 0, and of n + 1 if it holds of n, holds of every natural.
LEMMA InductiveSet ==
  ASSUME NEW S, 0 \in S, \A n \in Nat : n \in S => n + 1 \in S
  PROVE  Nat \subseteq S
<1>1. SUFFICES ASSUME Nat \ S # {} PROVE FALSE
  OBVIOUS
<1>2. PICK n \in Nat \ S : \A m \in Nat \ S : n <= m
  BY <1>1, LeastNatural
<1>3. n # 0 /\ n - 1 \in Nat /\ n - 1 \in S
  BY <1>2
<1> QED BY <1>2, <1>3

\* Min of such a set is its least element.
LEMMA MinIsLeast ==
  ASSUME NEW S \in SUBSET Nat, S # {}
  PROVE  Min(S) \in S /\ \A y \in S : Min(S) <= y
BY LeastNatural DEF Min

\* A bounded set of naturals that is not empty has a greatest element, and that is
\* its Max.
LEMMA MaxIsGreatest ==
  ASSUME NEW b \in Nat, NEW S \in SUBSET (0..b), S # {}
  PROVE  Max(S) \in S /\ \A y \in S : y <= Max(S)
<1> DEFINE T == {x \in Nat : \E y \in S : x = b - y}
<1>1. \A y \in S : y \in 0..b /\ b - y \in T
  OBVIOUS
<1>2. PICK x \in T : \A z \in T : x <= z
  BY <1>1, LeastNatural
<1>3. PICK m \in S : x = b - m
  OBVIOUS
<1>4. ASSUME NEW y \in S PROVE y <= m
  <2>1. x <= b - y /\ y \in 0..b /\ m \in 0..b
    BY <1>1, <1>2
  <2> QED BY <1>3, <2>1
<1>5. \E w \in S : \A y \in S : w >= y
  BY <1>1, <1>4
<1>6. Max(S) \in S /\ \A y \in S : Max(S) >= y
  BY <1>5 DEF Max
<1> HIDE DEF T
<1>7. S \subseteq Int
  OBVIOUS
<1> QED BY <1>6, <1>7

--------------------------------------------------------------------------------
(* Their elements in order. *)

\* The positions up to each position of a set number the set from 1.
LEMMA RankNumbers ==
  ASSUME NEW b \in Nat, NEW K \in SUBSET (1 .. b)
  PROVE  /\ IsFiniteSet(K) /\ Cardinality(K) \in 0 .. b
         /\ \A k \in 1 .. Cardinality(K) :
              \E n \in K : Cardinality({m \in K : m <= n}) = k
         /\ \A n \in K : Cardinality({m \in K : m <= n}) \in 1 .. Cardinality(K)
         /\ \A m, n \in K :
              Cardinality({j \in K : j <= m}) = Cardinality({j \in K : j <= n}) => m = n
<1> DEFINE UpTo(n) == {m \in K : m <= n}
           f == [n \in K |-> Cardinality(UpTo(n))]
<1>1. IsFiniteSet(K) /\ Cardinality(K) \in Nat /\ Cardinality(K) <= b
  <2>1. IsFiniteSet(1 .. b) /\ Cardinality(1 .. b) = b
    BY FS_Interval
  <2> QED BY <2>1, FS_Subset, FS_CardinalityType
<1>2. ASSUME NEW n \in K
      PROVE  /\ UpTo(n) \in SUBSET K /\ IsFiniteSet(UpTo(n))
             /\ Cardinality(UpTo(n)) \in 1 .. Cardinality(K)
  <2>1. UpTo(n) \in SUBSET K /\ n \in UpTo(n)
    OBVIOUS
  <2>2. IsFiniteSet(UpTo(n)) /\ Cardinality(UpTo(n)) <= Cardinality(K)
    BY <1>1, <2>1, FS_Subset
  <2>3. Cardinality(UpTo(n)) \in Nat /\ Cardinality(UpTo(n)) # 0
    BY <2>1, <2>2, FS_CardinalityType, FS_EmptySet
  <2> QED BY <1>1, <2>1, <2>2, <2>3
<1>3. ASSUME NEW m \in K, NEW n \in K, m < n
      PROVE  Cardinality(UpTo(m)) # Cardinality(UpTo(n))
  <2>1. UpTo(m) \in SUBSET UpTo(n)
    <3>1. ASSUME NEW j \in K, j <= m PROVE j <= n
      <4>1. j \in Int /\ m \in Int /\ n \in Int
        OBVIOUS
      <4> QED BY <1>3, <3>1, <4>1
    <3> QED BY <3>1
  <2>2. n \in UpTo(n) /\ n \notin UpTo(m)
    BY <1>3
  <2>3. UpTo(m) # UpTo(n)
    BY <2>2
  <2> QED BY <1>2, <2>1, <2>3, FS_Subset
<1>4. ASSUME NEW m \in K, NEW n \in K, Cardinality(UpTo(m)) = Cardinality(UpTo(n))
      PROVE  m = n
  <2>1. m < n \/ n < m \/ m = n
    OBVIOUS
  <2> QED BY <1>3, <1>4, <2>1
<1>5. f \in Injection(K, 1 .. Cardinality(K))
  BY <1>2, <1>4 DEF Injection, IsInjective
<1>6. f \in Surjection(K, 1 .. Cardinality(K))
  <2>1. IsFiniteSet(1 .. Cardinality(K)) /\ Cardinality(1 .. Cardinality(K)) = Cardinality(K)
    BY <1>1, FS_Interval
  <2> QED BY <1>5, <2>1, FS_Injection
<1>7. \A k \in 1 .. Cardinality(K) : \E n \in K : Cardinality(UpTo(n)) = k
  BY <1>6 DEF Surjection
<1> QED BY <1>1, <1>2, <1>4, <1>7

\* Selected takes exactly what is stored at the positions it is given, each once.
LEMMA SelectedIs ==
  ASSUME NEW R, NEW s \in Seq(R), NEW K \in SUBSET DOMAIN s
  PROVE  /\ Selected(s, K) \in Seq(R) /\ Len(Selected(s, K)) = Cardinality(K)
         /\ Cardinality(K) \in 0 .. Len(s) /\ IsFiniteSet(K)
         /\ \A k \in 1 .. Cardinality(K) : Nth(K, k) \in K /\ Selected(s, K)[k] = s[Nth(K, k)]
         /\ \A n \in K : \E k \in 1 .. Cardinality(K) : Nth(K, k) = n
         /\ \A j, k \in 1 .. Cardinality(K) : Nth(K, j) = Nth(K, k) => j = k
<1>1. Len(s) \in Nat /\ DOMAIN s = 1 .. Len(s) /\ K \in SUBSET (1 .. Len(s))
  OBVIOUS
<1>2. /\ IsFiniteSet(K) /\ Cardinality(K) \in 0 .. Len(s)
      /\ \A k \in 1 .. Cardinality(K) : \E n \in K : Cardinality({m \in K : m <= n}) = k
      /\ \A n \in K : Cardinality({m \in K : m <= n}) \in 1 .. Cardinality(K)
      /\ \A m, n \in K :
           Cardinality({j \in K : j <= m}) = Cardinality({j \in K : j <= n}) => m = n
  BY <1>1, RankNumbers
<1>3. \A k \in 1 .. Cardinality(K) :
        Nth(K, k) \in K /\ Cardinality({m \in K : m <= Nth(K, k)}) = k
  BY <1>2 DEF Nth
<1>4. \A n \in K : \E k \in 1 .. Cardinality(K) : Nth(K, k) = n
  BY <1>2, <1>3
<1>5. \A j, k \in 1 .. Cardinality(K) : Nth(K, j) = Nth(K, k) => j = k
  BY <1>3
<1>6. /\ Selected(s, K) \in Seq(R) /\ Len(Selected(s, K)) = Cardinality(K)
      /\ \A k \in 1 .. Cardinality(K) : Selected(s, K)[k] = s[Nth(K, k)]
  <2>1. Cardinality(K) \in Nat
    BY <1>1, <1>2
  <2>2. \A k \in 1 .. Cardinality(K) : s[Nth(K, k)] \in R
    <3>1. \A n \in 1 .. Len(s) : s[n] \in R
      OBVIOUS
    <3>2. \A n \in K : n \in 1 .. Len(s)
      BY <1>1
    <3> QED BY <1>3, <3>1, <3>2
  <2> QED BY <2>1, <2>2 DEF Selected
<1> QED BY <1>2, <1>3, <1>4, <1>5, <1>6

\* What is appended is the last entry; nothing else changes.
LEMMA AppendOne ==
  ASSUME NEW S, NEW q \in Seq(S), NEW x \in S
  PROVE  /\ Append(q, x) \in Seq(S) /\ Len(q) \in Nat
         /\ Len(Append(q, x)) = Len(q) + 1 /\ Append(q, x)[Len(q) + 1] = x
         /\ \A n \in 1..Len(q) : Append(q, x)[n] = q[n]
         /\ \A n \in 1..Len(Append(q, x)) : n \in 1..Len(q) \/ n = Len(q) + 1
OBVIOUS

\* What is selected from a sequence that grows: the same, and the new element behind
\* it if that is selected too.
LEMMA SelectedGrows ==
  ASSUME NEW R, NEW s \in Seq(R), NEW e \in R, NEW K \in SUBSET DOMAIN s
  PROVE  /\ Selected(Append(s, e), K) = Selected(s, K)
         /\ Selected(Append(s, e), K \cup {Len(s) + 1}) = Append(Selected(s, K), e)
<1> DEFINE last == Len(s) + 1
           t == Append(s, e)
           L == K \cup {last}
           c == Cardinality(K)
<1>1. /\ Len(s) \in Nat /\ DOMAIN s = 1 .. Len(s) /\ K \in SUBSET (1 .. Len(s))
      /\ t \in Seq(R) /\ Len(t) = last /\ DOMAIN t = 1 .. last /\ t[last] = e
      /\ last \in Nat /\ last \notin K
      /\ \A n \in 1 .. Len(s) : t[n] = s[n]
  OBVIOUS
<1>2. IsFiniteSet(K) /\ c \in Nat /\ Cardinality(L) = c + 1
  <2>1. IsFiniteSet(K) /\ c \in Nat
    BY <1>1, RankNumbers
  <2> QED BY <1>1, <2>1, FS_AddElement
<1>3. \A n \in K : n \in 1 .. Len(s) /\ n <= last /\ n < last /\ n \in Int
  BY <1>1
<1>4. ASSUME NEW n \in K PROVE {m \in L : m <= n} = {m \in K : m <= n}
  <2>1. n < last /\ ~(last <= n)
    BY <1>1, <1>3
  <2> QED BY <2>1
<1>5. {m \in L : m <= last} = L
  <2>1. \A m \in L : m <= last
    BY <1>1, <1>3
  <2> QED BY <2>1
<1> HIDE DEF last, t, L, c
<1>6. /\ \A k \in 1 .. c : Nth(K, k) \in K /\ Selected(s, K)[k] = s[Nth(K, k)]
      /\ Selected(s, K) \in Seq(R) /\ Len(Selected(s, K)) = c
  BY <1>1, SelectedIs DEF c
<1>6a. /\ \A n \in K : Cardinality({m \in K : m <= n}) \in 1 .. c
       /\ \A k \in 1 .. c : \E n \in K : Cardinality({m \in K : m <= n}) = k
       /\ \A m, n \in K :
            Cardinality({j \in K : j <= m}) = Cardinality({j \in K : j <= n}) => m = n
  BY <1>1, RankNumbers DEF c
<1>7. ASSUME NEW k \in 1 .. c PROVE Nth(L, k) = Nth(K, k)
  <2>1. Nth(K, k) \in K /\ Cardinality({m \in K : m <= Nth(K, k)}) = k
    <3>1. \E n \in K : Cardinality({m \in K : m <= n}) = k
      BY <1>6a
    <3> QED BY <3>1 DEF Nth
  <2>2. ASSUME NEW n \in L, Cardinality({m \in L : m <= n}) = k PROVE n = Nth(K, k)
    <3>1. n # last
      <4>1. CASE n = last
        <5>1. Cardinality(L) = k
          BY <1>5, <2>2, <4>1
        <5> QED BY <1>2, <5>1
      <4> QED BY <4>1
    <3>2. n \in K
      BY <3>1 DEF L
    <3> QED BY <1>4, <1>6a, <2>1, <2>2, <3>2
  <2>3. Nth(K, k) \in L /\ Cardinality({m \in L : m <= Nth(K, k)}) = k
    BY <1>4, <2>1 DEF L
  <2> QED BY <2>2, <2>3 DEF Nth
<1>8. Nth(L, c + 1) = last
  <2>1. last \in L /\ Cardinality({m \in L : m <= last}) = c + 1
    BY <1>2, <1>5 DEF L
  <2>2. ASSUME NEW n \in L, Cardinality({m \in L : m <= n}) = c + 1 PROVE n = last
    <3>1. n \notin K
      <4>1. CASE n \in K
        <5>1. Cardinality({m \in K : m <= n}) \in 1 .. c /\ Cardinality({m \in K : m <= n}) = c + 1
          BY <1>4, <1>6a, <2>2, <4>1
        <5> QED BY <1>2, <5>1
      <4> QED BY <4>1
    <3> QED BY <3>1 DEF L
  <2> QED BY <2>1, <2>2 DEF Nth
<1>9. Selected(t, K) = Selected(s, K)
  <2>1. \A k \in 1 .. c : t[Nth(K, k)] = s[Nth(K, k)]
    BY <1>1, <1>3, <1>6
  <2> QED BY <2>1 DEF Selected, c
<1>10. Selected(t, L) = Append(Selected(s, K), e)
  <2> DEFINE q == Selected(s, K)
  <2>1. L \in SUBSET DOMAIN t
    <3>1. \A n \in 1 .. Len(s) : n \in 1 .. last
      BY <1>1 DEF last
    <3>2. last \in 1 .. last
      BY <1>1 DEF last
    <3> QED BY <1>1, <1>3, <3>1, <3>2 DEF L
  <2>2. Selected(t, L) \in Seq(R) /\ Len(Selected(t, L)) = c + 1
        /\ \A k \in 1 .. (c + 1) : Selected(t, L)[k] = t[Nth(L, k)]
    BY <1>1, <1>2, <2>1, SelectedIs
  <2>3. q \in Seq(R) /\ Len(q) = c
    BY <1>6
  <2> HIDE DEF q
  <2>4. /\ Append(q, e) \in Seq(R) /\ Len(Append(q, e)) = c + 1 /\ Append(q, e)[c + 1] = e
        /\ \A k \in 1 .. c : Append(q, e)[k] = q[k]
    BY <2>3, AppendOne
  <2>5. ASSUME NEW k \in 1 .. (c + 1) PROVE Selected(t, L)[k] = Append(q, e)[k]
    <3>1. CASE k \in 1 .. c
      BY <1>1, <1>3, <1>6, <1>7, <2>2, <2>4, <3>1 DEF q
    <3>2. CASE k = c + 1
      BY <1>1, <1>8, <2>2, <2>4, <3>2
    <3>3. k \in 1 .. c \/ k = c + 1
      BY <1>2
    <3> QED BY <3>1, <3>2, <3>3
  <2>6. Selected(t, L) = Append(q, e)
    BY <2>2, <2>4, <2>5, SeqEqual
  <2> QED BY <2>6 DEF q
<1> QED BY <1>9, <1>10 DEF t, L, last

================================================================================
