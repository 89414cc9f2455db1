--------------------------- MODULE KeyOrderProofs ---------------------------
(***************************************************************************)
(* What deletion does to a key order, and what a sum over a set of keys    *)
(* obeys.  Both are recursive functions; their properties are proved by    *)
(* taking a least counterexample, which needs no induction scheme.         *)
(***************************************************************************)
EXTENDS KeyOrder, SequencesExt, SequenceTheorems, FiniteSetTheorems, TLAPS

-----------------------------------------------------------------------------
(* Least counterexamples.                                                  *)

(* A set of natural numbers that is not empty has a least member. *)
LEMMA LeastNatural ==
  ASSUME NEW T \in SUBSET Nat, T # {}
  PROVE  \E m \in T : \A n \in T : m <= n
<1> DEFINE I == {0..n : n \in T}
<1>1. I \subseteq FiniteSubsetsOf(Nat) /\ I # {}
  <2>1. ASSUME NEW n \in T PROVE 0..n \in FiniteSubsetsOf(Nat)
    <3>1. IsFiniteSet(0..n)
      BY FS_Interval
    <3>2. 0..n \in SUBSET Nat
      OBVIOUS
    <3> QED BY <3>1, <3>2 DEF FiniteSubsetsOf
  <2> QED BY <2>1
<1>2. PICK x \in I : \A y \in I : ~ (<<y, x>> \in StrictSubsetOrdering(Nat))
  BY <1>1, FS_StrictSubsetOrderingWellFounded, WFMin
<1>3. PICK m \in T : x = 0..m
  BY <1>2
<1>4. ASSUME NEW n \in T, n < m PROVE FALSE
  <2>1. 0..n \subseteq 0..m /\ m \in 0..m /\ m \notin 0..n
    BY <1>4
  <2>2. 0..n \in SUBSET Nat /\ 0..m \in SUBSET Nat
    BY <1>4
  <2>3. <<0..n, 0..m>> \in StrictSubsetOrdering(Nat)
    BY <2>1, <2>2 DEF StrictSubsetOrdering
  <2> QED BY <1>2, <1>3, <2>3
<1> QED BY <1>3, <1>4

(* Min of such a set is that member. *)
LEMMA MinOfNaturals ==
  ASSUME NEW T \in SUBSET Nat, T # {}
  PROVE  Min(T) \in T /\ \A n \in T : Min(T) <= n
  BY LeastNatural DEF Min

(* Max of a bounded one is its greatest member. *)
LEMMA MaxOfNaturals ==
  ASSUME NEW b \in Nat, NEW T \in SUBSET (0..b), T # {}
  PROVE  Max(T) \in T
<1>1. PICK U : U = {b - n : n \in T}
  OBVIOUS
<1>2. U \in SUBSET Nat /\ U # {}
  <2>1. \A n \in 0..b : b - n \in Nat
    OBVIOUS
  <2> QED BY <1>1, <2>1
<1>3. PICK m \in U : \A n \in U : m <= n
  BY <1>2, LeastNatural
<1>4. b - m \in T /\ \A n \in T : b - m >= n
  <2>1. \A n \in T : n \in 0..b /\ b - n \in U
    BY <1>1
  <2>2. PICK x \in T : m = b - x
    BY <1>1, <1>3
  <2>3. b - m = x
    BY <2>1, <2>2
  <2>4. ASSUME NEW n \in T PROVE x >= n
    <3>1. b - x <= b - n /\ n \in 0..b /\ x \in 0..b
      BY <1>3, <2>1, <2>2
    <3> QED BY <3>1
  <2> QED BY <2>3, <2>4
<1> QED BY <1>4 DEF Max

(* A set of finite sets that is not empty has a smallest member: none of   *)
(* the others is part of it.                                               *)
LEMMA SmallestSet ==
  ASSUME NEW C, C # {}, \A T \in C : IsFiniteSet(T)
  PROVE  \E T \in C : \A U \in C : U \subseteq T => U = T
<1> DEFINE D == UNION C
<1>1. C \subseteq FiniteSubsetsOf(D)
  BY DEF FiniteSubsetsOf
<1>2. PICK T \in C : \A U \in C : ~ (<<U, T>> \in StrictSubsetOrdering(D))
  BY <1>1, FS_StrictSubsetOrderingWellFounded, WFMin
<1>3. ASSUME NEW U \in C, U \subseteq T PROVE U = T
  BY <1>2, <1>3 DEF StrictSubsetOrdering
<1> QED BY <1>3

-----------------------------------------------------------------------------
(* Deleting keys from an order.                                            *)

(* F is the function Without iterates, over the first n keys. *)
Keeps(F, n, s, S) ==
    F = [i \in 0..n |-> IF i = 0 THEN <<>>
                        ELSE IF s[i] \in S THEN F[i - 1] ELSE Append(F[i - 1], s[i])]

(* There is such a function. *)
LEMMA KeepsExists ==
  ASSUME NEW s, NEW S, NEW n \in Nat
  PROVE  \E F : Keeps(F, n, s, S)
<1> DEFINE T == {m \in Nat : ~ \E F : Keeps(F, m, s, S)}
<1> SUFFICES ASSUME T # {} PROVE FALSE
  OBVIOUS
<1>1. PICK m \in T : \A k \in T : m <= k
  BY LeastNatural
<1>2. CASE m = 0
  <2> DEFINE G == [i \in 0..0 |-> <<>>]
  <2>1. Keeps(G, 0, s, S)
    BY DEF Keeps
  <2> QED BY <1>1, <1>2, <2>1
<1>3. CASE m # 0
  <2>1. m \in Nat /\ m - 1 \in Nat /\ m - 1 \notin T
    BY <1>1, <1>3
  <2>2. PICK F : Keeps(F, m - 1, s, S)
    BY <2>1
  <2> DEFINE last == IF s[m] \in S THEN F[m - 1] ELSE Append(F[m - 1], s[m])
             G == [i \in 0..m |-> IF i = m THEN last ELSE F[i]]
  <2>3. \A i \in 0..(m - 1) : G[i] = F[i]
    BY <2>1
  <2>4. ASSUME NEW i \in 0..m
        PROVE  G[i] = IF i = 0 THEN <<>>
                      ELSE IF s[i] \in S THEN G[i - 1] ELSE Append(G[i - 1], s[i])
    <3>1. CASE i = m
      <4>1. G[m] = last /\ G[m - 1] = F[m - 1]
        BY <2>1, <2>3
      <4> QED BY <3>1, <4>1, <1>3
    <3>2. CASE i # m
      <4>1. i \in 0..(m - 1) /\ (i # 0 => i - 1 \in 0..(m - 1))
        BY <2>1, <3>2
      <4>2. F[i] = IF i = 0 THEN <<>>
                   ELSE IF s[i] \in S THEN F[i - 1] ELSE Append(F[i - 1], s[i])
        BY <2>2, <4>1 DEF Keeps
      <4> HIDE DEF G
      <4> QED BY <2>3, <4>1, <4>2
    <3> QED BY <3>1, <3>2
  <2>5. G = [i \in 0..m |-> G[i]]
    OBVIOUS
  <2> HIDE DEF G
  <2>6. Keeps(G, m, s, S)
    BY <2>4, <2>5 DEF Keeps
  <2> QED BY <1>1, <2>6
<1> QED BY <1>2, <1>3

(* Without is its last value. *)
LEMMA WithoutKeeps ==
  ASSUME NEW s, NEW S, Len(s) \in Nat
  PROVE  \E F : Keeps(F, Len(s), s, S) /\ Without(s, S) = F[Len(s)]
<1>1. Without(s, S) = (CHOOSE F : Keeps(F, Len(s), s, S))[Len(s)]
  BY DEF Without, Keeps
<1>2. Keeps((CHOOSE F : Keeps(F, Len(s), s, S)), Len(s), s, S)
  BY KeepsExists
<1> QED BY <1>1, <1>2

(* What the function has collected after i keys: the keys among the first  *)
(* i that stay, each pair of them in the order it has in s.                *)
Collected(t, i, s, S, A) ==
    /\ t \in Seq(A)
    /\ \A k : (\E a \in 1..Len(t) : t[a] = k) <=> (k \notin S /\ \E c \in 1..i : s[c] = k)
    /\ \A a, b \in 1..Len(t) : a < b => \E c, d \in 1..i : c < d /\ s[c] = t[a] /\ s[d] = t[b]

(* Taking one more key keeps this up. *)
LEMMA CollectedStep ==
  ASSUME NEW A, NEW s \in Seq(A), NEW S, NEW m \in 1..Len(s), NEW t,
         Collected(t, m - 1, s, S, A)
  PROVE  Collected(IF s[m] \in S THEN t ELSE Append(t, s[m]), m, s, S, A)
<1>0. m \in Nat /\ m - 1 \in Nat /\ s[m] \in A /\ t \in Seq(A) /\ Len(t) \in Nat
  BY LenProperties DEF Collected
<1>1. \A c \in 1..(m - 1) : c \in 1..m
  BY <1>0
<1>2. CASE s[m] \in S
  <2>1. \A k : k \notin S => ((\E c \in 1..m : s[c] = k) <=> (\E c \in 1..(m - 1) : s[c] = k))
    <3>1. \A c \in 1..m : c = m \/ c \in 1..(m - 1)
      BY <1>0
    <3> QED BY <1>1, <1>2, <3>1
  <2>2. Collected(t, m, s, S, A)
    BY <1>1, <2>1 DEF Collected
  <2> QED BY <1>2, <2>2
<1>3. CASE s[m] \notin S
  <2>1. PICK u : u = Append(t, s[m])
    OBVIOUS
  <2>2. /\ u \in Seq(A) /\ Len(u) = Len(t) + 1
        /\ \A a \in 1..Len(t) : u[a] = t[a]
        /\ u[Len(t) + 1] = s[m]
    BY <1>0, <2>1, AppendProperties
  <2>3. \A a \in 1..Len(u) : a = Len(t) + 1 \/ a \in 1..Len(t)
    BY <1>0, <2>2
  <2>4. \A c \in 1..m : c = m \/ c \in 1..(m - 1)
    BY <1>0
  <2>5. \A a \in 1..Len(t) : a \in 1..Len(u)
    BY <1>0, <2>2
  <2>6. Len(t) + 1 \in 1..Len(u) /\ m \in 1..m
    BY <1>0, <2>2
  <2>7. ASSUME NEW k
        PROVE  (\E a \in 1..Len(u) : u[a] = k) <=> (k \notin S /\ \E c \in 1..m : s[c] = k)
    <3>1. CASE k = s[m]
      BY <1>3, <2>2, <2>6, <3>1
    <3>2. CASE k # s[m]
      <4>1. (\E a \in 1..Len(u) : u[a] = k) <=> (\E a \in 1..Len(t) : t[a] = k)
        BY <2>2, <2>3, <2>5, <3>2
      <4>2. (\E c \in 1..m : s[c] = k) <=> (\E c \in 1..(m - 1) : s[c] = k)
        BY <1>1, <2>4, <3>2
      <4> QED BY <4>1, <4>2 DEF Collected
    <3> QED BY <3>1, <3>2
  <2>8. ASSUME NEW a \in 1..Len(u), NEW b \in 1..Len(u), a < b
        PROVE  \E c, d \in 1..m : c < d /\ s[c] = u[a] /\ s[d] = u[b]
    <3>1. a \in 1..Len(t)
      BY <1>0, <2>2, <2>8
    <3>2. CASE b = Len(t) + 1
      <4>1. PICK c \in 1..(m - 1) : s[c] = t[a]
        BY <3>1 DEF Collected
      <4>2. c < m /\ c \in 1..m
        BY <1>0
      <4> QED BY <2>2, <2>6, <3>1, <3>2, <4>1, <4>2
    <3>3. CASE b \in 1..Len(t)
      <4>1. PICK c \in 1..(m - 1), d \in 1..(m - 1) : c < d /\ s[c] = t[a] /\ s[d] = t[b]
        BY <2>8, <3>1, <3>3 DEF Collected
      <4> QED BY <1>1, <2>2, <3>1, <3>3, <4>1
    <3> QED BY <2>3, <3>2, <3>3
  <2>9. Collected(u, m, s, S, A)
    BY <2>2, <2>7, <2>8 DEF Collected
  <2> QED BY <1>3, <2>1, <2>9
<1> QED BY <1>2, <1>3

(* Without leaves the keys outside S, each pair in its old order. *)
LEMMA WithoutCollected ==
  ASSUME NEW A, NEW s \in Seq(A), NEW S
  PROVE  Collected(Without(s, S), Len(s), s, S, A)
<1>0. Len(s) \in Nat
  BY LenProperties
<1>1. PICK F : Keeps(F, Len(s), s, S) /\ Without(s, S) = F[Len(s)]
  BY <1>0, WithoutKeeps
<1>2. \A i \in 0..Len(s) :
        F[i] = IF i = 0 THEN <<>> ELSE IF s[i] \in S THEN F[i - 1] ELSE Append(F[i - 1], s[i])
  BY <1>1 DEF Keeps
<1> DEFINE T == {i \in 0..Len(s) : ~ Collected(F[i], i, s, S, A)}
<1>3. T = {}
  <2> SUFFICES ASSUME T # {} PROVE FALSE
    OBVIOUS
  <2>1. PICK m \in T : \A k \in T : m <= k
    <3>1. T \in SUBSET Nat
      BY <1>0
    <3> HIDE DEF T
    <3> QED BY <3>1, LeastNatural
  <2>2. CASE m = 0
    <3>1. F[0] = <<>>
      BY <1>0, <1>2
    <3>2. Collected(<<>>, 0, s, S, A)
      BY DEF Collected
    <3> QED BY <2>1, <2>2, <3>1, <3>2
  <2>3. CASE m # 0
    <3>1. m \in 1..Len(s) /\ m - 1 \in 0..Len(s) /\ ~ (m <= m - 1)
      BY <1>0, <2>1, <2>3
    <3>2. Collected(F[m - 1], m - 1, s, S, A)
      BY <2>1, <3>1
    <3>3. F[m] = IF s[m] \in S THEN F[m - 1] ELSE Append(F[m - 1], s[m])
      BY <1>2, <2>1, <2>3
    <3>4. Collected(F[m], m, s, S, A)
      BY <3>1, <3>2, <3>3, CollectedStep
    <3> QED BY <2>1, <3>4
  <2> QED BY <2>2, <2>3
<1>4. Len(s) \in 0..Len(s)
  BY <1>0
<1> QED BY <1>1, <1>3, <1>4

(* No key stands twice in the order. *)
Distinct(s) == \A i, j \in 1..Len(s) : s[i] = s[j] => i = j

(* Deleting keys leaves the other keys. *)
LEMMA WithoutSet ==
  ASSUME NEW A, NEW s \in Seq(A), NEW S
  PROVE  /\ Without(s, S) \in Seq(A)
         /\ ToSet(Without(s, S)) = ToSet(s) \ S
<1>1. Collected(Without(s, S), Len(s), s, S, A)
  BY WithoutCollected
<1>2. PICK t \in Seq(A) : t = Without(s, S)
  BY <1>1 DEF Collected
<1>3. DOMAIN t = 1..Len(t) /\ DOMAIN s = 1..Len(s)
  BY <1>2, LenProperties
<1>4. ASSUME NEW k PROVE k \in ToSet(t) <=> k \in ToSet(s) \ S
  <2>1. k \in ToSet(t) <=> \E a \in 1..Len(t) : t[a] = k
    BY <1>3 DEF ToSet
  <2>2. k \in ToSet(s) <=> \E c \in 1..Len(s) : s[c] = k
    BY <1>3 DEF ToSet
  <2> QED BY <1>1, <1>2, <2>1, <2>2 DEF Collected
<1>5. ToSet(t) = ToSet(s) \ S
  BY <1>4
<1> QED BY <1>2, <1>5

(* Deleting keys keeps an order without repetitions. *)
LEMMA WithoutDistinct ==
  ASSUME NEW A, NEW s \in Seq(A), NEW S, Distinct(s)
  PROVE  Distinct(Without(s, S))
<1> DEFINE t == Without(s, S)
<1>1. Collected(t, Len(s), s, S, A)
  BY WithoutCollected
<1>2. t \in Seq(A) /\ Len(t) \in Nat /\ Len(s) \in Nat
  BY <1>1, LenProperties DEF Collected
<1> HIDE DEF t
<1>3. ASSUME NEW i \in 1..Len(t), NEW j \in 1..Len(t), i < j, t[i] = t[j] PROVE FALSE
  <2>1. PICK c \in 1..Len(s), d \in 1..Len(s) : c < d /\ s[c] = t[i] /\ s[d] = t[j]
    BY <1>1, <1>3 DEF Collected
  <2> QED BY <1>2, <1>3, <2>1 DEF Distinct
<1>4. Distinct(t)
  BY <1>2, <1>3 DEF Distinct
<1> QED BY <1>4 DEF t

(* As many keys as places, if no key stands twice. *)
LEMMA DistinctLen ==
  ASSUME NEW A, NEW s \in Seq(A), Distinct(s)
  PROVE  IsFiniteSet(ToSet(s)) /\ Cardinality(ToSet(s)) = Len(s)
<1>1. Len(s) \in Nat /\ DOMAIN s = 1..Len(s)
  BY LenProperties
<1>2. s \in Bijection(1..Len(s), ToSet(s))
  BY <1>1 DEF ToSet, Distinct, Bijection, Injection, Surjection, IsInjective
<1>3. ExistsBijection(1..Len(s), ToSet(s))
  BY <1>2 DEF ExistsBijection
<1>4. Cardinality(ToSet(s)) = Len(s)
  BY <1>1, <1>3, FS_CountingElements
<1>5. IsFiniteSet(ToSet(s))
  BY <1>1, <1>3, FS_Bijection, FS_Interval
<1> QED BY <1>4, <1>5

(* The key that goes to the end is there, and there once. *)
LEMMA AppendKey ==
  ASSUME NEW A, NEW s \in Seq(A), NEW k \in A
  PROVE  /\ Append(s, k) \in Seq(A)
         /\ ToSet(Append(s, k)) = ToSet(s) \cup {k}
         /\ Distinct(s) /\ k \notin ToSet(s) => Distinct(Append(s, k))
<1>0. PICK t : t = Append(s, k)
  OBVIOUS
<1>1. /\ t \in Seq(A) /\ Len(t) = Len(s) + 1 /\ Len(s) \in Nat
      /\ \A i \in 1..Len(s) : t[i] = s[i]
      /\ t[Len(s) + 1] = k
  BY <1>0, AppendProperties, LenProperties
<1>2. DOMAIN t = 1..Len(t) /\ DOMAIN s = 1..Len(s)
  BY <1>1, LenProperties
<1>3. /\ \A i \in 1..Len(t) : i \in 1..Len(s) \/ i = Len(s) + 1
      /\ \A i \in 1..Len(s) : i \in 1..Len(t)
      /\ Len(s) + 1 \in 1..Len(t)
  BY <1>1
<1>4. ToSet(t) = ToSet(s) \cup {k}
  <2>1. ASSUME NEW x \in ToSet(t) PROVE x \in ToSet(s) \cup {k}
    BY <1>1, <1>2, <1>3 DEF ToSet
  <2>2. ASSUME NEW x \in ToSet(s) PROVE x \in ToSet(t)
    BY <1>1, <1>2, <1>3 DEF ToSet
  <2>3. k \in ToSet(t)
    BY <1>1, <1>2, <1>3 DEF ToSet
  <2> QED BY <2>1, <2>2, <2>3
<1>5. ASSUME Distinct(s), k \notin ToSet(s) PROVE Distinct(t)
  <2>1. \A i \in 1..Len(s) : t[i] # k
    BY <1>1, <1>2, <1>5 DEF ToSet
  <2> QED BY <1>1, <1>3, <1>5, <2>1 DEF Distinct
<1> QED BY <1>0, <1>1, <1>4, <1>5

(* u lists the keys of s and then those of t. *)
Joined(u, s, t, A) ==
    \E m, n \in Nat :
      /\ m = Len(s) /\ n = Len(t)
      /\ u \in Seq(A) /\ Len(u) = m + n
      /\ \A i \in 1..m : u[i] = s[i]
      /\ \A i \in 1..n : u[m + i] = t[i]
      /\ \A i \in 1..(m + n) : i \in 1..m \/ \E j \in 1..n : i = m + j
      /\ ToSet(u) = ToSet(s) \cup ToSet(t)

(* So does their concatenation. *)
LEMMA Concatenated ==
  ASSUME NEW A, NEW s \in Seq(A), NEW t \in Seq(A)
  PROVE  Joined(s \o t, s, t, A)
<1>0. PICK u, m, n : u = s \o t /\ m = Len(s) /\ n = Len(t)
  OBVIOUS
<1>1. m \in Nat /\ n \in Nat /\ DOMAIN s = 1..m /\ DOMAIN t = 1..n
  BY <1>0, LenProperties
<1>2. u \in Seq(A) /\ Len(u) = m + n
  BY <1>0, ConcatProperties
<1>3. \A i \in 1..(m + n) : u[i] = IF i <= m THEN s[i] ELSE t[i - m]
  BY <1>0, ConcatProperties
<1>4. \A i \in 1..m : i \in 1..(m + n) /\ i <= m
  BY <1>1
<1>5. \A i \in 1..n : m + i \in 1..(m + n) /\ ~ (m + i <= m) /\ (m + i) - m = i
  BY <1>1
<1>6. \A i \in 1..m : u[i] = s[i]
  BY <1>3, <1>4
<1>7. \A i \in 1..n : u[m + i] = t[i]
  BY <1>3, <1>5
<1>8. ASSUME NEW i \in 1..(m + n), i \notin 1..m PROVE \E j \in 1..n : i = m + j
  <2>1. i - m \in 1..n /\ i = m + (i - m)
    BY <1>1, <1>8
  <2> QED BY <2>1
<1>9. DOMAIN u = 1..(m + n)
  BY <1>2, LenProperties
<1>10. ASSUME NEW k PROVE k \in ToSet(u) <=> k \in ToSet(s) \/ k \in ToSet(t)
  <2>1. k \in ToSet(s) <=> \E i \in 1..m : s[i] = k
    BY <1>1 DEF ToSet
  <2>2. k \in ToSet(t) <=> \E i \in 1..n : t[i] = k
    BY <1>1 DEF ToSet
  <2>3. k \in ToSet(u) <=> \E i \in 1..(m + n) : u[i] = k
    BY <1>9 DEF ToSet
  <2>4. k \in ToSet(s) => k \in ToSet(u)
    BY <2>1, <2>3, <1>4, <1>6
  <2>5. k \in ToSet(t) => k \in ToSet(u)
    BY <2>2, <2>3, <1>5, <1>7
  <2>6. k \in ToSet(u) => k \in ToSet(s) \/ k \in ToSet(t)
    BY <2>1, <2>2, <2>3, <1>6, <1>7, <1>8
  <2> QED BY <2>4, <2>5, <2>6
<1>11. ToSet(u) = ToSet(s) \cup ToSet(t)
  BY <1>10
<1>12. Joined(u, s, t, A)
  BY <1>0, <1>1, <1>2, <1>6, <1>7, <1>8, <1>11 DEF Joined
<1> QED BY <1>0, <1>12

(* The keys stand in the order of their stamps a. *)
Ordered(s, a) == \A i, j \in 1..Len(s) : i < j => a[s[i]] <= a[s[j]]

(* Deleting keys keeps the others in order. *)
LEMMA WithoutOrdered ==
  ASSUME NEW A, NEW s \in Seq(A), NEW S, NEW a, Ordered(s, a)
  PROVE  Ordered(Without(s, S), a)
<1>1. PICK t : t = Without(s, S)
  OBVIOUS
<1>2. Collected(t, Len(s), s, S, A)
  BY <1>1, WithoutCollected
<1>3. ASSUME NEW i \in 1..Len(t), NEW j \in 1..Len(t), i < j PROVE a[t[i]] <= a[t[j]]
  <2>1. PICK c \in 1..Len(s), d \in 1..Len(s) : c < d /\ s[c] = t[i] /\ s[d] = t[j]
    BY <1>2, <1>3 DEF Collected
  <2>2. a[s[c]] <= a[s[d]]
    BY <2>1 DEF Ordered
  <2> QED BY <2>1, <2>2
<1>4. Ordered(t, a)
  BY <1>3 DEF Ordered
<1> QED BY <1>1, <1>4

(* A key that goes to the end with the latest stamp is in order there. *)
LEMMA AppendOrdered ==
  ASSUME NEW A, NEW s \in Seq(A), NEW k \in A, NEW a, Ordered(s, a),
         \A x \in ToSet(s) : a[x] <= a[k]
  PROVE  Ordered(Append(s, k), a)
<1>0. PICK t : t = Append(s, k)
  OBVIOUS
<1>1. /\ t \in Seq(A) /\ Len(t) = Len(s) + 1 /\ Len(s) \in Nat
      /\ \A i \in 1..Len(s) : t[i] = s[i]
      /\ t[Len(s) + 1] = k
  BY <1>0, AppendProperties, LenProperties
<1>2. \A i \in 1..Len(s) : s[i] \in ToSet(s)
  BY LenProperties DEF ToSet
<1>3. ASSUME NEW i \in 1..Len(t), NEW j \in 1..Len(t), i < j PROVE a[t[i]] <= a[t[j]]
  <2>1. i \in 1..Len(s) /\ (j \in 1..Len(s) \/ j = Len(s) + 1)
    BY <1>1, <1>3
  <2>2. CASE j \in 1..Len(s)
    BY <1>1, <1>3, <2>1, <2>2 DEF Ordered
  <2>3. CASE j = Len(s) + 1
    BY <1>1, <1>2, <2>1, <2>3
  <2> QED BY <2>1, <2>2, <2>3
<1>4. Ordered(t, a)
  BY <1>3 DEF Ordered
<1> QED BY <1>0, <1>4

(* Only the stamps of the keys in the order count. *)
LEMMA OrderedSame ==
  ASSUME NEW A, NEW s \in Seq(A), NEW a, NEW b, Ordered(s, a), \A x \in ToSet(s) : b[x] = a[x]
  PROVE  Ordered(s, b)
<1>1. \A i \in 1..Len(s) : s[i] \in ToSet(s)
  BY LenProperties DEF ToSet
<1> QED BY <1>1 DEF Ordered

(* The keys of a beginning of the order. *)
LEMMA BeginningSet ==
  ASSUME NEW A, NEW s \in Seq(A), NEW n \in 0..Len(s)
  PROVE  /\ SubSeq(s, 1, n) \in Seq(A)
         /\ ToSet(SubSeq(s, 1, n)) = {s[i] : i \in 1..n}
         /\ {s[i] : i \in 1..n} \subseteq ToSet(s)
<1>0. Len(s) \in Nat /\ DOMAIN s = 1..Len(s) /\ \A i \in 1..Len(s) : s[i] \in A
  BY LenProperties
<1>1. n \in Int /\ \A i \in 1..n : s[i] \in A /\ i \in DOMAIN s
  BY <1>0
<1>2. PICK t : t = SubSeq(s, 1, n)
  OBVIOUS
<1>3. /\ t \in Seq(A)
      /\ Len(t) = IF 1 <= n THEN n - 1 + 1 ELSE 0
      /\ \A i \in 1..(n - 1 + 1) : t[i] = s[1 + i - 1]
  BY <1>1, <1>2, SubSeqProperties
<1>4. Len(t) = n /\ DOMAIN t = 1..Len(t)
  BY <1>0, <1>3, LenProperties
<1>5. \A i \in 1..n : t[i] = s[i]
  BY <1>1, <1>3
<1>6. ToSet(t) = {s[i] : i \in 1..n}
  BY <1>4, <1>5 DEF ToSet
<1>7. {s[i] : i \in 1..n} \subseteq ToSet(s)
  BY <1>1 DEF ToSet
<1> QED BY <1>2, <1>3, <1>6, <1>7

-----------------------------------------------------------------------------
(* Sums over finite sets.                                                  *)

(* F is the function SumFunctionOnSet iterates, over the subsets of D. *)
Picked(T) == CHOOSE x \in T : TRUE
Sums(F, w, D) ==
    F = [T \in SUBSET D |-> IF T = {} THEN 0 ELSE w[Picked(T)] + F[T \ {Picked(T)}]]

(* Two such functions agree where both are defined. *)
LEMMA SumsAgree ==
  ASSUME NEW w, NEW D, NEW E, NEW F, NEW G, Sums(F, w, D), Sums(G, w, E),
         NEW T, T \subseteq D, T \subseteq E, IsFiniteSet(T)
  PROVE  F[T] = G[T]
<1> DEFINE C == {U \in SUBSET T : F[U] # G[U]}
<1> SUFFICES ASSUME C # {} PROVE FALSE
  OBVIOUS
<1>1. \A U \in C : IsFiniteSet(U)
  BY FS_Subset
<1>2. PICK U \in C : \A V \in C : V \subseteq U => V = U
  <2> HIDE DEF C
  <2> QED BY <1>1, SmallestSet
<1>3. U \in SUBSET D /\ U \in SUBSET E /\ F[U] # G[U]
  BY <1>2
<1>4. /\ F[U] = IF U = {} THEN 0 ELSE w[Picked(U)] + F[U \ {Picked(U)}]
      /\ G[U] = IF U = {} THEN 0 ELSE w[Picked(U)] + G[U \ {Picked(U)}]
  BY <1>3 DEF Sums
<1>5. U # {}
  BY <1>3, <1>4
<1>6. Picked(U) \in U
  BY <1>5 DEF Picked
<1>7. U \ {Picked(U)} \notin C
  BY <1>2, <1>6
<1>8. F[U \ {Picked(U)}] = G[U \ {Picked(U)}]
  BY <1>2, <1>7
<1> QED BY <1>3, <1>4, <1>8

(* There is such a function over the subsets of a finite set. *)
LEMMA SumsExists ==
  ASSUME NEW w, NEW D, IsFiniteSet(D)
  PROVE  \E F : Sums(F, w, D)
<1> DEFINE C == {T \in SUBSET D : ~ \E F : Sums(F, w, T)}
<1> SUFFICES ASSUME C # {} PROVE FALSE
  OBVIOUS
<1>1. \A T \in C : IsFiniteSet(T)
  BY FS_Subset
<1>2. PICK E \in C : \A U \in C : U \subseteq E => U = E
  <2> HIDE DEF C
  <2> QED BY <1>1, SmallestSet
<1> DEFINE SumsOf(T) == CHOOSE F : Sums(F, w, T)
           value(T) == SumsOf(T)[T]
           G == [T \in SUBSET E |-> IF T = {} THEN 0
                                    ELSE w[Picked(T)] + value(T \ {Picked(T)})]
<1>3. ASSUME NEW T, T \subseteq E, T # E PROVE Sums(SumsOf(T), w, T)
  <2>1. T \notin C /\ T \in SUBSET D
    BY <1>2, <1>3
  <2> QED BY <2>1
<1>4. ASSUME NEW T, T \subseteq E, T # E PROVE G[T] = value(T)
  <2>1. Sums(SumsOf(T), w, T)
    BY <1>3, <1>4
  <2>2. value(T) = IF T = {} THEN 0 ELSE w[Picked(T)] + SumsOf(T)[T \ {Picked(T)}]
    BY <2>1 DEF Sums
  <2>3. CASE T = {}
    BY <1>4, <2>2, <2>3
  <2>4. CASE T # {}
    <3> DEFINE U == T \ {Picked(T)}
    <3>1. U \subseteq E /\ U # E /\ U \subseteq T
      BY <1>4
    <3>2. Sums(SumsOf(U), w, U)
      BY <1>3, <3>1
    <3>3. IsFiniteSet(U)
      BY <1>1, <1>2, <3>1, FS_Subset
    <3> HIDE DEF U, SumsOf
    <3>4. SumsOf(T)[U] = SumsOf(U)[U]
      BY <2>1, <3>1, <3>2, <3>3, SumsAgree
    <3>5. G[T] = w[Picked(T)] + value(U)
      BY <1>4, <2>4 DEF U
    <3> QED BY <2>2, <2>4, <3>4, <3>5 DEF U
  <2> QED BY <2>3, <2>4
<1>5. ASSUME NEW T \in SUBSET E
      PROVE  G[T] = IF T = {} THEN 0 ELSE w[Picked(T)] + G[T \ {Picked(T)}]
  <2>1. CASE T = {}
    BY <2>1
  <2>2. CASE T # {}
    <3>1. Picked(T) \in T
      BY <2>2 DEF Picked
    <3>2. T \ {Picked(T)} \subseteq E /\ T \ {Picked(T)} # E
      BY <3>1
    <3>3. G[T \ {Picked(T)}] = value(T \ {Picked(T)})
      BY <1>4, <3>2
    <3>4. G[T] = w[Picked(T)] + value(T \ {Picked(T)})
      BY <2>2
    <3> QED BY <2>2, <3>3, <3>4
  <2> QED BY <2>1, <2>2
<1>6. G = [T \in SUBSET E |-> G[T]]
  OBVIOUS
<1> HIDE DEF G
<1>7. Sums(G, w, E)
  BY <1>5, <1>6 DEF Sums
<1> QED BY <1>2, <1>7

(* The sum is the value of such a function. *)
LEMMA SumSums ==
  ASSUME NEW w, NEW D, IsFiniteSet(D)
  PROVE  \E F : Sums(F, w, D) /\ SumFunctionOnSet(w, D) = F[D]
<1>1. SumFunctionOnSet(w, D) = (CHOOSE F : Sums(F, w, D))[D]
  BY DEF SumFunctionOnSet, FoldFunctionOnSet, MapThenFoldSet, Sums, Picked
<1>2. Sums((CHOOSE F : Sums(F, w, D)), w, D)
  BY SumsExists
<1> QED BY <1>1, <1>2

(* The recursion of the sum itself. *)
LEMMA SumUnfold ==
  ASSUME NEW w, NEW D, IsFiniteSet(D)
  PROVE  SumFunctionOnSet(w, D) =
           IF D = {} THEN 0 ELSE w[Picked(D)] + SumFunctionOnSet(w, D \ {Picked(D)})
<1>1. PICK F : Sums(F, w, D) /\ SumFunctionOnSet(w, D) = F[D]
  BY SumSums
<1> DEFINE E == D \ {Picked(D)}
<1>2. IsFiniteSet(E) /\ E \subseteq D
  BY FS_Subset
<1>3. PICK G : Sums(G, w, E) /\ SumFunctionOnSet(w, E) = G[E]
  BY <1>2, SumSums
<1>4. F[E] = G[E]
  BY <1>1, <1>2, <1>3, SumsAgree
<1>5. F[D] = IF D = {} THEN 0 ELSE w[Picked(D)] + F[E]
  BY <1>1 DEF Sums
<1> QED BY <1>1, <1>3, <1>4, <1>5

(* A sum of natural numbers is one. *)
LEMMA SumNat ==
  ASSUME NEW w, NEW D, IsFiniteSet(D), \A k \in D : w[k] \in Nat
  PROVE  SumFunctionOnSet(w, D) \in Nat
<1> DEFINE C == {T \in SUBSET D : SumFunctionOnSet(w, T) \notin Nat}
<1> SUFFICES ASSUME C # {} PROVE FALSE
  OBVIOUS
<1>1. \A T \in C : IsFiniteSet(T)
  BY FS_Subset
<1>2. PICK T \in C : \A U \in C : U \subseteq T => U = T
  <2> HIDE DEF C
  <2> QED BY <1>1, SmallestSet
<1>3. SumFunctionOnSet(w, T) =
        IF T = {} THEN 0 ELSE w[Picked(T)] + SumFunctionOnSet(w, T \ {Picked(T)})
  BY <1>1, <1>2, SumUnfold
<1>4. T # {}
  BY <1>2, <1>3
<1>5. Picked(T) \in T
  BY <1>4 DEF Picked
<1>6. SumFunctionOnSet(w, T \ {Picked(T)}) \in Nat
  BY <1>2, <1>5
<1>7. w[Picked(T)] \in Nat
  BY <1>2, <1>5
<1> QED BY <1>2, <1>3, <1>4, <1>6, <1>7

(* Any member may be summed last. *)
LEMMA SumRemove ==
  ASSUME NEW w, NEW D, IsFiniteSet(D), \A k \in D : w[k] \in Nat, NEW x \in D
  PROVE  SumFunctionOnSet(w, D) = w[x] + SumFunctionOnSet(w, D \ {x})
<1> DEFINE Fails(T, y) == SumFunctionOnSet(w, T) # w[y] + SumFunctionOnSet(w, T \ {y})
           C == {T \in SUBSET D : \E y \in T : Fails(T, y)}
<1> SUFFICES ASSUME C # {} PROVE FALSE
  OBVIOUS
<1>1. \A T \in C : IsFiniteSet(T)
  BY FS_Subset
<1>2. PICK T \in C : \A U \in C : U \subseteq T => U = T
  <2> HIDE DEF C
  <2> QED BY <1>1, SmallestSet
<1>3. T \subseteq D /\ IsFiniteSet(T)
  BY <1>1, <1>2
<1>4. PICK y \in T : Fails(T, y)
  BY <1>2
<1>5. PICK p \in T : p = Picked(T)
  BY <1>4 DEF Picked
<1>6. SumFunctionOnSet(w, T) = w[p] + SumFunctionOnSet(w, T \ {p})
  BY <1>3, <1>5, SumUnfold
<1>7. p # y
  BY <1>4, <1>6
<1>8. T \ {p} \notin C /\ T \ {y} \notin C
  BY <1>2
<1>9. SumFunctionOnSet(w, T \ {p}) = w[y] + SumFunctionOnSet(w, (T \ {p}) \ {y})
  BY <1>3, <1>7, <1>8
<1>10. SumFunctionOnSet(w, T \ {y}) = w[p] + SumFunctionOnSet(w, (T \ {y}) \ {p})
  BY <1>3, <1>7, <1>8
<1>11. (T \ {p}) \ {y} = (T \ {y}) \ {p}
  OBVIOUS
<1>12. w[y] \in Nat /\ w[p] \in Nat /\ SumFunctionOnSet(w, (T \ {y}) \ {p}) \in Nat
  <2>1. IsFiniteSet((T \ {y}) \ {p}) /\ (T \ {y}) \ {p} \subseteq D
    BY <1>3, FS_Subset
  <2> QED BY <1>3, <2>1, SumNat
<1>13. PICK X \in Nat : X = SumFunctionOnSet(w, (T \ {y}) \ {p})
  BY <1>12
<1>14. SumFunctionOnSet(w, T \ {p}) = w[y] + X
  BY <1>9, <1>11, <1>13
<1>15. SumFunctionOnSet(w, T \ {y}) = w[p] + X
  BY <1>10, <1>13
<1>16. SumFunctionOnSet(w, T) = w[p] + (w[y] + X) /\ w[p] + (w[y] + X) = w[y] + (w[p] + X)
  BY <1>6, <1>12, <1>14
<1> QED BY <1>4, <1>15, <1>16

(* A sum is made of the sums of two parts. *)
LEMMA SumSplit ==
  ASSUME NEW w, NEW D, IsFiniteSet(D), \A k \in D : w[k] \in Nat, NEW P \in SUBSET D
  PROVE  SumFunctionOnSet(w, D) = SumFunctionOnSet(w, P) + SumFunctionOnSet(w, D \ P)
<1> DEFINE C == {T \in SUBSET D : SumFunctionOnSet(w, D)
                                    # SumFunctionOnSet(w, T) + SumFunctionOnSet(w, D \ T)}
<1> SUFFICES ASSUME C # {} PROVE FALSE
  OBVIOUS
<1>1. \A T \in C : IsFiniteSet(T)
  BY FS_Subset
<1>2. PICK T \in C : \A U \in C : U \subseteq T => U = T
  <2> HIDE DEF C
  <2> QED BY <1>1, SmallestSet
<1>3. T \subseteq D /\ IsFiniteSet(T) /\ IsFiniteSet({}) /\ IsFiniteSet(D \ T)
  BY <1>1, <1>2, FS_Subset, FS_EmptySet
<1>4. T # {}
  <2>1. SumFunctionOnSet(w, {}) = 0
    BY <1>3, SumUnfold
  <2>2. SumFunctionOnSet(w, D) \in Nat
    BY SumNat
  <2>3. D \ {} = D
    OBVIOUS
  <2>4. SumFunctionOnSet(w, D) = SumFunctionOnSet(w, {}) + SumFunctionOnSet(w, D \ {})
    BY <2>1, <2>2, <2>3
  <2> QED BY <1>2, <2>4
<1>5. PICK x \in T : TRUE
  BY <1>4
<1>6. PICK U \in SUBSET D : U = T \ {x}
  BY <1>3
<1>7. SumFunctionOnSet(w, D) = SumFunctionOnSet(w, U) + SumFunctionOnSet(w, D \ U)
  BY <1>2, <1>5, <1>6
<1>8. SumFunctionOnSet(w, T) = w[x] + SumFunctionOnSet(w, U)
  BY <1>3, <1>6, SumRemove
<1>9. SumFunctionOnSet(w, D \ U) = w[x] + SumFunctionOnSet(w, D \ T)
  <2>1. (D \ U) \ {x} = D \ T /\ x \in D \ U
    BY <1>3, <1>5, <1>6
  <2>2. IsFiniteSet(D \ U)
    BY FS_Subset
  <2> QED BY <2>1, <2>2, SumRemove
<1>10. /\ SumFunctionOnSet(w, U) \in Nat /\ SumFunctionOnSet(w, D \ T) \in Nat
       /\ w[x] \in Nat
  <2>1. IsFiniteSet(U)
    BY FS_Subset
  <2> QED BY <1>3, <1>5, <2>1, SumNat
<1>11. SumFunctionOnSet(w, D) = SumFunctionOnSet(w, T) + SumFunctionOnSet(w, D \ T)
  <2>1. PICK a \in Nat, b \in Nat :
          a = SumFunctionOnSet(w, U) /\ b = SumFunctionOnSet(w, D \ T)
    BY <1>10
  <2>2. a + (w[x] + b) = (w[x] + a) + b
    BY <1>10
  <2> QED BY <1>7, <1>8, <1>9, <2>1, <2>2
<1> QED BY <1>2, <1>11

(* A sum depends on the values of its members alone. *)
LEMMA SumSame ==
  ASSUME NEW w, NEW v, NEW D, IsFiniteSet(D), \A k \in D : w[k] = v[k]
  PROVE  SumFunctionOnSet(w, D) = SumFunctionOnSet(v, D)
<1> DEFINE C == {T \in SUBSET D : SumFunctionOnSet(w, T) # SumFunctionOnSet(v, T)}
<1> SUFFICES ASSUME C # {} PROVE FALSE
  OBVIOUS
<1>1. \A T \in C : IsFiniteSet(T)
  BY FS_Subset
<1>2. PICK T \in C : \A U \in C : U \subseteq T => U = T
  <2> HIDE DEF C
  <2> QED BY <1>1, SmallestSet
<1>3. IsFiniteSet(T) /\ T \subseteq D /\ SumFunctionOnSet(w, T) # SumFunctionOnSet(v, T)
  BY <1>1, <1>2
<1>4. /\ SumFunctionOnSet(w, T) =
           IF T = {} THEN 0 ELSE w[Picked(T)] + SumFunctionOnSet(w, T \ {Picked(T)})
      /\ SumFunctionOnSet(v, T) =
           IF T = {} THEN 0 ELSE v[Picked(T)] + SumFunctionOnSet(v, T \ {Picked(T)})
  BY <1>3, SumUnfold
<1>5. T # {}
  BY <1>3, <1>4
<1>6. Picked(T) \in T
  BY <1>5 DEF Picked
<1>7. SumFunctionOnSet(w, T \ {Picked(T)}) = SumFunctionOnSet(v, T \ {Picked(T)})
  BY <1>2, <1>6
<1>8. w[Picked(T)] = v[Picked(T)]
  BY <1>3, <1>6
<1> QED BY <1>3, <1>4, <1>5, <1>7, <1>8
=============================================================================
