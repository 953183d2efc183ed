---------------------------- MODULE OrderProofs ----------------------------
(* What Orders and FlattenSeq return, for every sequence: the lemmas that the *)
(* proofs of the components share.                                            *)
EXTENDS Orders, FiniteSets, TLAPS, SequenceTheorems, FiniteSetTheorems, WellFoundedInduction

---------------------------------------------------------------------------
(* Selection.                                                               *)

\* Induction over the numbers, as a fact about a set of them.
LEMMA Counting ==
    ASSUME NEW P, 0 \in P, \A n \in Nat : n \in P => n + 1 \in P
    PROVE  \A n \in Nat : n \in P
<1> SUFFICES ASSUME NEW x \in Nat, x \notin P PROVE FALSE
  OBVIOUS
<1> DEFINE T == {n \in Nat : n \notin P}
<1>1. T \subseteq Nat /\ T # {}
  OBVIOUS
<1>2. PICK m \in T : \A y \in T : ~(<<y, m>> \in OpToRel(<, Nat))
  BY <1>1, NatLessThanWellFounded, WFMin
<1>3. m \in Nat /\ m # 0 /\ m \notin P
  BY <1>1
<1>6. m - 1 \in Nat /\ m - 1 < m
  BY <1>3
<1>4. m - 1 \notin T
  BY <1>2, <1>3, <1>6 DEF OpToRel
<1>5. (m - 1) + 1 \in P
  BY <1>6, <1>4
<1> QED
  BY <1>3, <1>6, <1>5

\* One step of the selection, as a function of what was selected so far.
Further(s, S, g, n) == IF s[n] \in S THEN Append(g[n - 1], s[n]) ELSE g[n - 1]

\* Selecting(g): g is the selection from every beginning of s up to N.
Selecting(g, s, S, N) ==
    g = [n \in 0..N |-> IF n = 0 THEN <<>> ELSE Further(s, S, g, n)]

\* There is such a function for every length.
LEMMA SelectingExists ==
    ASSUME NEW s, NEW S
    PROVE  \A N \in Nat : \E g : Selecting(g, s, S, N)
<1> DEFINE P == {N \in Nat : \E g : Selecting(g, s, S, N)}
<1>1. 0 \in P
  <2> DEFINE g == [n \in 0..0 |-> <<>>]
  <2>1. Selecting(g, s, S, 0)
    BY DEF Selecting
  <2> QED
    BY <2>1
<1>2. ASSUME NEW N \in Nat, N \in P PROVE N + 1 \in P
  <2>1. PICK g : Selecting(g, s, S, N)
    BY <1>2
  <2> DEFINE h == [n \in 0..(N + 1) |-> IF n \in 0..N THEN g[n] ELSE Further(s, S, g, n)]
  <2>2. \A n \in 0..N : h[n] = g[n]
    BY <1>2
  <2>3. ASSUME NEW n \in 0..(N + 1) PROVE h[n] = IF n = 0 THEN <<>> ELSE Further(s, S, h, n)
    <3>1. CASE n = 0
      BY <3>1, <2>1, <2>2 DEF Selecting
    <3>2. CASE n # 0 /\ n \in 0..N
      <4>1. g[n] = Further(s, S, g, n)
        BY <2>1, <3>2 DEF Selecting
      <4>2. n - 1 \in 0..N
        BY <3>2
      <4> QED
        BY <4>1, <4>2, <2>2, <3>2 DEF Further
    <3>3. CASE n = N + 1
      <4>1. n - 1 \in 0..N /\ ~(n \in 0..N)
        BY <3>3
      <4>2. h[n] = Further(s, S, g, n)
        BY <4>1
      <4> HIDE DEF h
      <4> QED
        BY <4>1, <4>2, <2>2, <3>3 DEF Further
    <3> QED
      BY <3>1, <3>2, <3>3
  <2>4. h = [n \in 0..(N + 1) |-> h[n]]
    OBVIOUS
  <2> HIDE DEF h
  <2>5. Selecting(h, s, S, N + 1)
    BY <2>3, <2>4 DEF Selecting
  <2> QED
    BY <2>5
<1> HIDE DEF P
<1>3. \A N \in Nat : N \in P
  BY <1>1, <1>2, Counting
<1> QED
  BY <1>3 DEF P

\* t is what there is of S among the first n elements of s.
Selection(t, A, s, S, n) ==
    /\ t \in Seq(A) /\ Len(t) <= n
    /\ \A i, j \in DOMAIN t : t[i] = t[j] => i = j
    /\ \A i \in DOMAIN t : \E k \in 1..n : k \in DOMAIN s /\ t[i] = s[k] /\ s[k] \in S
    /\ \A k \in 1..n : s[k] \in S => \E i \in DOMAIN t : t[i] = s[k]

\* One more element of s, and the selection is still one.
LEMMA SelectionGrows ==
    ASSUME NEW A, NEW s \in Seq(A), IsInjective(s), NEW S, NEW n \in Nat, n + 1 \in DOMAIN s,
           NEW t, Selection(t, A, s, S, n)
    PROVE  Selection(IF s[n + 1] \in S THEN Append(t, s[n + 1]) ELSE t, A, s, S, n + 1)
<1> DEFINE e == s[n + 1]
           u == Append(t, e)
<1>1. e \in A
  BY ElementOfSeq, LenProperties
<1>2. \A k \in 1..(n + 1) : k \in 1..n \/ k = n + 1
  OBVIOUS
<1>3. n + 1 \in 1..(n + 1) /\ \A k \in 1..n : k \in 1..(n + 1)
  OBVIOUS
<1>4. CASE e \notin S
  <2>1. \A i \in DOMAIN t : \E k \in 1..(n + 1) : k \in DOMAIN s /\ t[i] = s[k] /\ s[k] \in S
    BY <1>3 DEF Selection
  <2>2. \A k \in 1..(n + 1) : s[k] \in S => \E i \in DOMAIN t : t[i] = s[k]
    BY <1>2, <1>4 DEF Selection
  <2>3. Len(t) <= n + 1
    BY LenProperties DEF Selection
  <2> QED
    BY <2>1, <2>2, <2>3, <1>4 DEF Selection
<1>5. CASE e \in S
  <2>1. /\ u \in Seq(A) /\ Len(u) <= n + 1 /\ Len(t) + 1 \in DOMAIN u /\ u[Len(t) + 1] = e
        /\ \A i \in DOMAIN t : i \in DOMAIN u /\ u[i] = t[i]
        /\ \A i \in DOMAIN u : i \in DOMAIN t \/ i = Len(t) + 1
    <3>1. t \in Seq(A) /\ Len(t) <= n
      BY DEF Selection
    <3>2. /\ u \in Seq(A) /\ Len(u) = Len(t) + 1 /\ Len(t) \in Nat /\ DOMAIN t = 1..Len(t)
          /\ DOMAIN u = 1..(Len(t) + 1) /\ u[Len(t) + 1] = e
          /\ \A i \in 1..Len(t) : u[i] = t[i]
      BY <1>1, <3>1, AppendProperties, LenProperties
    <3> HIDE DEF u
    <3> QED
      BY <3>1, <3>2
  <2> HIDE DEF u
  <2>2. \A i \in DOMAIN t : t[i] # e
    <3> SUFFICES ASSUME NEW i \in DOMAIN t, t[i] = e PROVE FALSE
      OBVIOUS
    <3>1. PICK k \in 1..n : k \in DOMAIN s /\ t[i] = s[k]
      BY DEF Selection
    <3>2. k = n + 1
      BY <3>1 DEF IsInjective
    <3> QED
      BY <3>2
  <2>3. \A i, j \in DOMAIN u : u[i] = u[j] => i = j
    BY <2>1, <2>2 DEF Selection
  <2>4. \A i \in DOMAIN u : \E k \in 1..(n + 1) : k \in DOMAIN s /\ u[i] = s[k] /\ s[k] \in S
    <3> SUFFICES ASSUME NEW i \in DOMAIN u
                 PROVE \E k \in 1..(n + 1) : k \in DOMAIN s /\ u[i] = s[k] /\ s[k] \in S
      OBVIOUS
    <3>1. CASE i \in DOMAIN t
      BY <3>1, <2>1, <1>3 DEF Selection
    <3>2. CASE i = Len(t) + 1
      BY <3>2, <2>1, <1>3, <1>5
    <3> QED
      BY <3>1, <3>2, <2>1
  <2>5. \A k \in 1..(n + 1) : s[k] \in S => \E i \in DOMAIN u : u[i] = s[k]
    <3> SUFFICES ASSUME NEW k \in 1..(n + 1), s[k] \in S PROVE \E i \in DOMAIN u : u[i] = s[k]
      OBVIOUS
    <3>1. CASE k \in 1..n
      BY <3>1, <2>1 DEF Selection
    <3>2. CASE k = n + 1
      BY <3>2, <2>1
    <3> QED
      BY <3>1, <3>2, <1>2
  <2>6. Selection(u, A, s, S, n + 1)
    BY <2>1, <2>3, <2>4, <2>5 DEF Selection
  <2> QED
    BY <2>6, <1>5 DEF u
<1> QED
  BY <1>4, <1>5

\* The elements of s that are in S, once if they are once in s.
LEMMA Selected ==
    ASSUME NEW A, NEW s \in Seq(A), IsInjective(s), NEW S
    PROVE  /\ Select(s, S) \in Seq(A) /\ IsInjective(Select(s, S))
           /\ ToSet(Select(s, S)) = ToSet(s) \cap S
           /\ Len(Select(s, S)) <= Len(s)
<1> DEFINE F == CHOOSE g : Selecting(g, s, S, Len(s))
<1>1. Len(s) \in Nat /\ DOMAIN s = 1..Len(s)
  BY LenProperties
<1>2. Selecting(F, s, S, Len(s))
  BY <1>1, SelectingExists
<1>3. Select(s, S) = F[Len(s)]
  BY Zenon DEF Select, Selecting, Further
<1> HIDE DEF F
<1> DEFINE P == {n \in Nat : n <= Len(s) => Selection(F[n], A, s, S, n)}
<1>4. 0 \in P
  <2>1. F[0] = <<>>
    BY <1>1, <1>2 DEF Selecting
  <2>2. Selection(<<>>, A, s, S, 0)
    BY DEF Selection
  <2> QED
    BY <2>1, <2>2
<1>5. ASSUME NEW n \in Nat, n \in P PROVE n + 1 \in P
  <2>1. CASE n + 1 <= Len(s)
    <3>1. /\ Selection(F[n], A, s, S, n) /\ n + 1 \in DOMAIN s
          /\ n + 1 \in 0..Len(s) /\ n + 1 # 0 /\ (n + 1) - 1 = n
      BY <1>1, <1>5, <2>1
    <3>2. F[n + 1] = IF s[n + 1] \in S THEN Append(F[n], s[n + 1]) ELSE F[n]
      BY <1>2, <3>1 DEF Selecting, Further
    <3>3. Selection(F[n + 1], A, s, S, n + 1)
      BY <3>1, <3>2, SelectionGrows
    <3> QED
      BY <3>3
  <2>2. CASE ~(n + 1 <= Len(s))
    BY <2>2
  <2> QED
    BY <2>1, <2>2
<1> HIDE DEF P
<1>6. Len(s) \in P
  BY <1>1, <1>4, <1>5, Counting
<1>7. Selection(Select(s, S), A, s, S, Len(s))
  BY <1>1, <1>3, <1>6 DEF P
<1>8. ToSet(Select(s, S)) = ToSet(s) \cap S
  <2>1. \A x \in ToSet(Select(s, S)) : x \in ToSet(s) \cap S
    BY <1>7 DEF Selection, ToSet
  <2>2. \A x \in ToSet(s) \cap S : x \in ToSet(Select(s, S))
    BY <1>1, <1>7 DEF Selection, ToSet
  <2> QED
    BY <2>1, <2>2
<1> QED
  BY <1>7, <1>8 DEF Selection, IsInjective

\* The elements of s that are in S are elements of s.
LEMMA SelectIn ==
    ASSUME NEW A, NEW s \in Seq(A), NEW S
    PROVE  Select(s, S) \in Seq(A)
<1> DEFINE F == CHOOSE g : Selecting(g, s, S, Len(s))
<1>1. Len(s) \in Nat /\ DOMAIN s = 1..Len(s)
  BY LenProperties
<1>2. Selecting(F, s, S, Len(s))
  BY <1>1, SelectingExists
<1>3. Select(s, S) = F[Len(s)]
  BY Zenon DEF Select, Selecting, Further
<1> HIDE DEF F
<1> DEFINE P == {n \in Nat : n <= Len(s) => F[n] \in Seq(A)}
<1>4. 0 \in P
  <2>1. F[0] = <<>> /\ <<>> \in Seq(A)
    BY <1>1, <1>2, EmptySeq DEF Selecting
  <2> QED
    BY <2>1
<1>5. ASSUME NEW n \in Nat, n \in P PROVE n + 1 \in P
  <2>1. CASE n + 1 <= Len(s)
    <3>1. /\ F[n] \in Seq(A) /\ s[n + 1] \in A
          /\ n + 1 \in 0..Len(s) /\ n + 1 # 0 /\ (n + 1) - 1 = n
      BY <1>1, <1>5, <2>1, ElementOfSeq
    <3>2. F[n + 1] = IF s[n + 1] \in S THEN Append(F[n], s[n + 1]) ELSE F[n]
      BY <1>2, <3>1 DEF Selecting, Further
    <3>3. Append(F[n], s[n + 1]) \in Seq(A)
      BY <3>1, AppendProperties
    <3>4. F[n + 1] \in Seq(A)
      BY <3>1, <3>2, <3>3
    <3> QED
      BY <3>4
  <2>2. CASE ~(n + 1 <= Len(s))
    BY <2>2
  <2> QED
    BY <2>1, <2>2
<1> HIDE DEF P
<1>6. Len(s) \in P
  BY <1>1, <1>4, <1>5, Counting
<1> QED
  BY <1>3, <1>6 DEF P

\* A set of numbers has a least one; of some places the last, and the first of
\* those with the largest value.
LEMMA LeastNumber ==
    ASSUME NEW T, T \subseteq Nat, T # {}
    PROVE  \E m \in T : \A y \in T : m <= y
<1>1. PICK m \in T : \A y \in T : ~(<<y, m>> \in OpToRel(<, Nat))
  BY NatLessThanWellFounded, WFMin
<1>2. \A y \in T : ~(y < m)
  BY <1>1 DEF OpToRel
<1> QED
  BY <1>2

LEMMA LastPlace ==
    ASSUME NEW n \in Nat, NEW S, S \subseteq 1..n, S # {}
    PROVE  \E m \in S : \A j \in S : j <= m
<1> DEFINE T == {n - i : i \in S}
<1>a. \A i \in S : i \in 1..n
  OBVIOUS
<1>b. \A i \in S : n - i \in Nat
  BY <1>a
<1>1. T \subseteq Nat /\ T # {}
  BY <1>b
<1>2. PICK k \in T : \A y \in T : k <= y
  BY <1>1, LeastNumber
<1>3. PICK m \in S : k = n - m
  OBVIOUS
<1>4. \A j \in S : n - m <= n - j
  BY <1>2, <1>3
<1>5. \A j \in S : j \in 1..n
  OBVIOUS
<1> QED
  BY <1>3, <1>4, <1>5

LEMMA Bounded ==
    ASSUME NEW f
    PROVE  \A n \in Nat : (\A i \in 1..n : f[i] \in Nat) => \E B \in Nat : \A i \in 1..n : f[i] <= B
<1> DEFINE P == {n \in Nat : (\A i \in 1..n : f[i] \in Nat)
                                 => \E B \in Nat : \A i \in 1..n : f[i] <= B}
<1>1. 0 \in P
  OBVIOUS
<1>2. ASSUME NEW n \in Nat, n \in P PROVE n + 1 \in P
  <2> SUFFICES ASSUME \A i \in 1..(n + 1) : f[i] \in Nat
               PROVE  \E B \in Nat : \A i \in 1..(n + 1) : f[i] <= B
    OBVIOUS
  <2>1. \A i \in 1..n : f[i] \in Nat
    OBVIOUS
  <2>2. PICK B \in Nat : \A i \in 1..n : f[i] <= B
    BY <1>2, <2>1
  <2>3. f[n + 1] \in Nat
    OBVIOUS
  <2>4. \A i \in 1..(n + 1) : f[i] <= B + f[n + 1]
    <3> SUFFICES ASSUME NEW i \in 1..(n + 1) PROVE f[i] <= B + f[n + 1]
      OBVIOUS
    <3>1. CASE i \in 1..n
      <4>1. f[i] \in Nat /\ f[i] <= B
        BY <2>1, <2>2, <3>1
      <4> QED
        BY <2>3, <4>1
    <3>2. CASE i = n + 1
      BY <2>3, <3>2
    <3> QED
      BY <3>1, <3>2
  <2> QED
    BY <2>3, <2>4
<1> HIDE DEF P
<1>3. \A n \in Nat : n \in P
  BY <1>1, <1>2, Counting
<1> QED
  BY <1>3 DEF P

LEMMA FirstLargest ==
    ASSUME NEW n \in Nat, NEW S, S \subseteq 1..n, S # {},
           NEW f, \A i \in 1..n : f[i] \in Nat
    PROVE  \E i \in S : \A j \in S : f[j] < f[i] \/ (f[j] = f[i] /\ i <= j)
<1>1. PICK B \in Nat : \A i \in 1..n : f[i] <= B
  BY Bounded
<1> DEFINE T == {B - f[i] : i \in S}
<1>a. \A i \in S : f[i] \in Nat /\ f[i] <= B
  BY <1>1
<1>b. \A i \in S : B - f[i] \in Nat
  BY <1>a
<1>2. T \subseteq Nat /\ T # {}
  BY <1>b
<1>3. PICK k \in T : \A y \in T : k <= y
  BY <1>2, LeastNumber
<1>4. PICK m \in S : k = B - f[m]
  OBVIOUS
<1>5. \A j \in S : f[j] <= f[m]
  <2> SUFFICES ASSUME NEW j \in S PROVE f[j] <= f[m]
    OBVIOUS
  <2>1. B - f[m] <= B - f[j] /\ f[m] \in Nat /\ f[j] \in Nat
    BY <1>3, <1>4
  <2> QED
    BY <2>1
<1> DEFINE U == {j \in S : f[j] = f[m]}
<1>d. \A j \in S : j \in 1..n
  OBVIOUS
<1> HIDE DEF T
<1>e. \A j \in 1..n : j \in Nat
  OBVIOUS
<1>c. \A j \in S : j \in Nat
  BY ONLY <1>d, <1>e
<1>6. U \subseteq Nat /\ U # {}
  BY <1>c
<1>7. PICK i \in U : \A j \in U : i <= j
  BY <1>6, LeastNumber
<1>8. ASSUME NEW j \in S PROVE f[j] < f[i] \/ (f[j] = f[i] /\ i <= j)
  <2>1. f[j] \in Nat /\ f[m] \in Nat /\ f[i] = f[m] /\ f[j] <= f[m]
    BY <1>5, <1>7
  <2>2. CASE f[j] = f[m]
    BY <1>7, <2>1, <2>2
  <2>3. CASE f[j] # f[m]
    BY <2>1, <2>3
  <2> QED
    BY <2>2, <2>3
<1> QED
  BY <1>7, <1>8

LEMMA Pinned ==
    ASSUME NEW a \in Nat, NEW b \in Nat, NEW n \in Nat, n # 0,
           a <= b, a + 1 > n, b <= n
    PROVE  a = n /\ n > 0
OBVIOUS

\* The key is the last of the order, which keeps to its limit; a key goes only to
\* make room.
LEMMA RememberedKeeps ==
    ASSUME NEW A, NEW order \in Seq(A), IsInjective(order), NEW x \in A,
           NEW limit \in Nat \ {0}, Len(order) <= limit
    PROVE  /\ Remembered(order, x, limit) \in Seq(A)
           /\ IsInjective(Remembered(order, x, limit))
           /\ Len(Remembered(order, x, limit)) <= limit
           /\ x \in ToSet(Remembered(order, x, limit))
           /\ ToSet(Remembered(order, x, limit)) \subseteq ToSet(order) \cup {x}
<1> DEFINE kept == Select(order, ToSet(order) \ {x})
           all == Append(kept, x)
<1>1. /\ kept \in Seq(A) /\ IsInjective(kept) /\ Len(kept) <= Len(order)
      /\ ToSet(kept) = ToSet(order) \ {x}
  <2>1. ToSet(order) \cap (ToSet(order) \ {x}) = ToSet(order) \ {x}
    OBVIOUS
  <2> QED
    BY <2>1, Selected
<1>2. Remembered(order, x, limit) = IF Len(all) > limit THEN Tail(all) ELSE all
  BY DEF Remembered
<1>3. /\ Len(kept) \in Nat /\ DOMAIN kept = 1..Len(kept)
      /\ Len(order) \in Nat
  BY <1>1, LenProperties
<1> HIDE DEF kept
<1>4. /\ all \in Seq(A) /\ Len(all) = Len(kept) + 1 /\ DOMAIN all = 1..(Len(kept) + 1)
      /\ all[Len(kept) + 1] = x /\ \A i \in 1..Len(kept) : all[i] = kept[i]
  BY <1>1, <1>3, AppendProperties
<1> HIDE DEF all
<1>5. \A i \in 1..Len(kept) : kept[i] # x /\ kept[i] \in ToSet(order)
  BY <1>1, <1>3 DEF ToSet
<1>6. \A i \in DOMAIN all : i \in 1..Len(kept) \/ i = Len(kept) + 1
  BY <1>3, <1>4
<1>7. \A i, j \in DOMAIN all : all[i] = all[j] => i = j
  BY <1>1, <1>3, <1>4, <1>5, <1>6 DEF IsInjective
<1>8. \A i \in DOMAIN all : all[i] \in ToSet(order) \cup {x}
  BY <1>4, <1>5, <1>6
<1>9. CASE ~(Len(all) > limit)
  <2>1. Remembered(order, x, limit) = all /\ Len(all) <= limit
    BY <1>2, <1>3, <1>4, <1>9
  <2>2. x \in ToSet(all) /\ ToSet(all) \subseteq ToSet(order) \cup {x}
    BY <1>3, <1>4, <1>8 DEF ToSet
  <2> QED
    BY <1>4, <1>7, <2>1, <2>2 DEF IsInjective
<1>10. CASE Len(all) > limit
  <2>a. limit \in Nat /\ limit # 0
    OBVIOUS
  <2> DEFINE rest == Tail(all)
  <2>0. Len(kept) <= Len(order) /\ Len(kept) + 1 > limit /\ Len(order) <= limit
    BY <1>1, <1>4, <1>10
  <2>1. Len(kept) = limit /\ limit > 0
    BY <1>3, <2>0, <2>a, Pinned
  <2>2. all # <<>>
    BY <1>4, <1>3
  <2>3. /\ rest \in Seq(A) /\ Len(rest) = Len(all) - 1
        /\ \A i \in 1..Len(rest) : rest[i] = all[i + 1]
    BY <1>4, <2>2, HeadTailProperties
  <2>4. DOMAIN rest = 1..limit /\ Len(rest) = limit
    BY <1>4, <2>1, <2>3, LenProperties
  <2>5. Remembered(order, x, limit) = rest
    BY <1>2, <1>10
  <2> HIDE DEF rest
  <2>6. \A i \in 1..limit : i + 1 \in DOMAIN all /\ rest[i] = all[i + 1]
    BY <1>4, <2>1, <2>3, <2>4
  <2>7. rest[limit] = x
    BY <1>4, <2>1, <2>6
  <2>8. IsInjective(rest)
    BY <1>7, <2>4, <2>6 DEF IsInjective
  <2>9. x \in ToSet(rest) /\ ToSet(rest) \subseteq ToSet(order) \cup {x}
    BY <1>8, <2>1, <2>4, <2>6, <2>7 DEF ToSet
  <2> QED
    BY <2>3, <2>4, <2>5, <2>8, <2>9
<1> QED
  BY <1>9, <1>10

\* g: the order after the first n of the keys xs, for every n up to N.
RememberingEach(g, order, xs, limit, N) ==
    g = [n \in 0..N |-> IF n = 0 THEN order ELSE Remembered(g[n - 1], xs[n], limit)]

LEMMA RememberingExists ==
    ASSUME NEW order, NEW xs, NEW limit
    PROVE  \A N \in Nat : \E g : RememberingEach(g, order, xs, limit, N)
<1> DEFINE P == {N \in Nat : \E g : RememberingEach(g, order, xs, limit, N)}
<1>1. 0 \in P
  <2> DEFINE g == [n \in 0..0 |-> order]
  <2>1. RememberingEach(g, order, xs, limit, 0)
    BY DEF RememberingEach
  <2> QED
    BY <2>1
<1>2. ASSUME NEW N \in Nat, N \in P PROVE N + 1 \in P
  <2>1. PICK g : RememberingEach(g, order, xs, limit, N)
    BY <1>2
  <2> DEFINE Next(n) == Remembered(g[n - 1], xs[n], limit)
             h == [n \in 0..(N + 1) |-> IF n \in 0..N THEN g[n] ELSE Next(n)]
  <2>2. \A n \in 0..N : h[n] = g[n]
    BY <1>2
  <2>3. ASSUME NEW n \in 0..(N + 1)
        PROVE  h[n] = IF n = 0 THEN order ELSE Remembered(h[n - 1], xs[n], limit)
    <3>1. CASE n = 0
      BY <3>1, <2>1, <2>2 DEF RememberingEach
    <3>2. CASE n # 0 /\ n \in 0..N
      <4>1. g[n] = Next(n)
        BY <2>1, <3>2 DEF RememberingEach
      <4>2. n - 1 \in 0..N
        BY <3>2
      <4>3. h[n] = g[n] /\ h[n - 1] = g[n - 1]
        BY <2>2, <3>2, <4>2
      <4> HIDE DEF h
      <4> QED
        BY <4>1, <4>3, <3>2
    <3>3. CASE n = N + 1
      <4>1. n - 1 \in 0..N /\ ~(n \in 0..N) /\ n # 0
        BY <3>3
      <4>2. h[n] = Next(n)
        BY <4>1
      <4>3. h[n - 1] = g[n - 1]
        BY <2>2, <4>1
      <4> HIDE DEF h
      <4> QED
        BY <4>1, <4>2, <4>3
    <3> QED
      BY <3>1, <3>2, <3>3
  <2>4. h = [n \in 0..(N + 1) |-> h[n]]
    OBVIOUS
  <2> HIDE DEF h
  <2>5. RememberingEach(h, order, xs, limit, N + 1)
    BY <2>3, <2>4 DEF RememberingEach
  <2> QED
    BY <2>5
<1> HIDE DEF P
<1>3. \A N \in Nat : N \in P
  BY <1>1, <1>2, Counting
<1> QED
  BY <1>3 DEF P

\* However many keys are remembered, the order keeps to its limit.
LEMMA RememberedAllKeeps ==
    ASSUME NEW A, NEW order \in Seq(A), IsInjective(order), NEW xs \in Seq(A),
           NEW limit \in Nat \ {0}, Len(order) <= limit
    PROVE  /\ RememberedAll(order, xs, limit) \in Seq(A)
           /\ IsInjective(RememberedAll(order, xs, limit))
           /\ Len(RememberedAll(order, xs, limit)) <= limit
<1> DEFINE F == CHOOSE g : RememberingEach(g, order, xs, limit, Len(xs))
           Kept(t) == t \in Seq(A) /\ IsInjective(t) /\ Len(t) <= limit
<1>1. Len(xs) \in Nat /\ DOMAIN xs = 1..Len(xs)
  BY LenProperties
<1>2. RememberingEach(F, order, xs, limit, Len(xs))
  BY <1>1, RememberingExists
<1>3. RememberedAll(order, xs, limit) = F[Len(xs)]
  BY Zenon DEF RememberedAll, RememberingEach
<1> HIDE DEF F
<1> DEFINE P == {n \in Nat : n <= Len(xs) => Kept(F[n])}
<1>4. 0 \in P
  <2>1. F[0] = order
    BY <1>1, <1>2 DEF RememberingEach
  <2> QED
    BY <2>1
<1>5. ASSUME NEW n \in Nat, n \in P PROVE n + 1 \in P
  <2>1. CASE n + 1 <= Len(xs)
    <3>1. /\ Kept(F[n]) /\ n + 1 \in DOMAIN xs
          /\ n + 1 \in 0..Len(xs) /\ n + 1 # 0 /\ (n + 1) - 1 = n
      BY <1>1, <1>5, <2>1
    <3>2. F[n + 1] = Remembered(F[n], xs[n + 1], limit)
      BY <1>2, <3>1 DEF RememberingEach
    <3>3. xs[n + 1] \in A
      BY <3>1, ElementOfSeq
    <3>4. Kept(F[n + 1])
      BY <3>1, <3>2, <3>3, RememberedKeeps
    <3> QED
      BY <3>4
  <2>2. CASE ~(n + 1 <= Len(xs))
    BY <2>2
  <2> QED
    BY <2>1, <2>2
<1> HIDE DEF P
<1>6. Len(xs) \in P
  BY <1>1, <1>4, <1>5, Counting
<1> QED
  BY <1>1, <1>3, <1>6 DEF P

\* A finite set can be put in an order.
LEMMA InOrder ==
    ASSUME NEW S, IsFiniteSet(S)
    PROVE  SetToSeq(S) \in Seq(S)
<1> DEFINE n == Cardinality(S)
<1>1. n \in Nat /\ ExistsBijection(1..n, S)
  BY FS_CardinalityType
<1>2. PICK f \in Bijection(1..n, S) : TRUE
  BY <1>1 DEF ExistsBijection
<1>3. f \in [1..n -> S] /\ IsInjective(f)
  BY <1>2 DEF Bijection, Injection, IsInjective
<1>4. SetToSeq(S) \in [1..n -> S]
  BY <1>3 DEF SetToSeq
<1> QED
  BY <1>1, <1>4

---------------------------------------------------------------------------
(* Concatenation.                                                           *)

\* g: what the first n of the sequences s give, for every n up to N.
Flattening(g, s, A, N) ==
    /\ g \in [0..N -> Seq(A)] /\ g[0] = <<>>
    /\ \A n \in 1..N : g[n] = g[n - 1] \o s[n]

LEMMA FlatteningExists ==
    ASSUME NEW A, NEW s \in Seq(Seq(A))
    PROVE  \A N \in Nat : N <= Len(s) => \E g : Flattening(g, s, A, N)
<1> DEFINE P == {N \in Nat : N <= Len(s) => \E g : Flattening(g, s, A, N)}
<1>0. Len(s) \in Nat /\ DOMAIN s = 1..Len(s)
  BY LenProperties
<1>1. 0 \in P
  <2> DEFINE g == [n \in 0..0 |-> <<>>]
  <2>1. Flattening(g, s, A, 0)
    BY EmptySeq DEF Flattening
  <2> QED
    BY <2>1
<1>2. ASSUME NEW N \in Nat, N \in P PROVE N + 1 \in P
  <2> SUFFICES ASSUME N + 1 <= Len(s) PROVE \E g : Flattening(g, s, A, N + 1)
    OBVIOUS
  <2>1. PICK g : Flattening(g, s, A, N)
    BY <1>0, <1>2
  <2>2. s[N + 1] \in Seq(A)
    BY <1>0, ElementOfSeq
  <2>3. g[N] \o s[N + 1] \in Seq(A)
    BY <2>1, <2>2, ConcatProperties DEF Flattening
  <2> DEFINE h == [n \in 0..(N + 1) |-> IF n \in 0..N THEN g[n] ELSE g[N] \o s[N + 1]]
  <2>4. \A n \in 0..N : h[n] = g[n]
    OBVIOUS
  <2>5. h[N + 1] = g[N] \o s[N + 1]
    <3>1. N + 1 \in 0..(N + 1) /\ ~(N + 1 \in 0..N)
      OBVIOUS
    <3> QED
      BY <3>1
  <2>6. h \in [0..(N + 1) -> Seq(A)]
    BY <2>1, <2>3 DEF Flattening
  <2> HIDE DEF h
  <2>7. ASSUME NEW n \in 1..(N + 1) PROVE h[n] = h[n - 1] \o s[n]
    <3>1. CASE n \in 1..N
      <4>1. n \in 0..N /\ n - 1 \in 0..N
        BY <3>1
      <4>2. g[n] = g[n - 1] \o s[n]
        BY <3>1, <2>1 DEF Flattening
      <4> QED
        BY <4>1, <4>2, <2>4
    <3>2. CASE n = N + 1
      <4>1. n - 1 = N /\ N \in 0..N
        BY <3>2
      <4> QED
        BY <3>2, <4>1, <2>4, <2>5
    <3>3. n \in 1..N \/ n = N + 1
      OBVIOUS
    <3> QED
      BY <3>1, <3>2, <3>3
  <2>8. h[0] = <<>>
    BY <2>1, <2>4 DEF Flattening
  <2> QED
    BY <2>6, <2>7, <2>8 DEF Flattening
<1> HIDE DEF P
<1>3. \A N \in Nat : N \in P
  BY <1>1, <1>2, Counting
<1> QED
  BY <1>3 DEF P

\* The function that FlattenSeq defines.
Flattened1(f, s) ==
    f = [i \in 1..Len(s) |-> IF i = 1 THEN s[i] ELSE f[i - 1] \o s[i]]

LEMMA Flattened ==
    ASSUME NEW A, NEW s \in Seq(Seq(A)), NEW g, Flattening(g, s, A, Len(s))
    PROVE  FlattenSeq(s) = g[Len(s)]
<1>1. Len(s) \in Nat /\ DOMAIN s = 1..Len(s)
  BY LenProperties
<1>2. CASE Len(s) = 0
  <2>1. s = <<>>
    BY <1>1, <1>2, EmptySeq
  <2>2. g[0] = <<>>
    BY DEF Flattening
  <2> QED
    BY <1>2, <2>1, <2>2 DEF FlattenSeq
<1>3. CASE Len(s) # 0
  <2> DEFINE F == CHOOSE f : Flattened1(f, s)
             h == [i \in 1..Len(s) |-> g[i]]
  <2>1. Flattened1(h, s)
    <3>1. ASSUME NEW i \in 1..Len(s) PROVE h[i] = IF i = 1 THEN s[i] ELSE h[i - 1] \o s[i]
      <4>1. g[i] = g[i - 1] \o s[i]
        BY DEF Flattening
      <4>2. CASE i = 1
        <5>1. g[0] = <<>> /\ s[1] \in Seq(A)
          BY <1>1, <1>3, ElementOfSeq DEF Flattening
        <5>2. <<>> \o s[1] = s[1]
          BY <5>1, ConcatEmptySeq
        <5>3. g[1] = g[0] \o s[1]
          <6>1. 1 - 1 = 0
            OBVIOUS
          <6> QED
            BY <4>1, <4>2, <6>1
        <5>4. h[1] = g[1]
          BY <4>2
        <5> HIDE DEF h
        <5> QED
          BY <4>2, <5>1, <5>2, <5>3, <5>4
      <4>3. CASE i # 1
        <5>1. i - 1 \in 1..Len(s)
          BY <1>1, <4>3
        <5>2. h[i - 1] = g[i - 1] /\ h[i] = g[i]
          BY <5>1
        <5> HIDE DEF h
        <5> QED
          BY <4>1, <4>3, <5>2
      <4> QED
        BY <4>2, <4>3
    <3>2. h = [i \in 1..Len(s) |-> h[i]]
      OBVIOUS
    <3> HIDE DEF h
    <3> QED
      BY <3>1, <3>2 DEF Flattened1
  <2>2. Flattened1(F, s)
    BY <2>1
  <2>3. FlattenSeq(s) = F[Len(s)]
    BY <1>3, Zenon DEF FlattenSeq, Flattened1
  <2> HIDE DEF F
  <2> DEFINE P == {n \in Nat : n \in 1..Len(s) => F[n] = g[n]}
  <2>4. 0 \in P
    OBVIOUS
  <2>5. ASSUME NEW n \in Nat, n \in P PROVE n + 1 \in P
    <3> SUFFICES ASSUME n + 1 \in 1..Len(s) PROVE F[n + 1] = g[n + 1]
      OBVIOUS
    <3>0. (n + 1) - 1 = n
      OBVIOUS
    <3>5. \A i \in 1..Len(s) : h[i] = g[i]
      OBVIOUS
    <3> HIDE DEF h
    <3>1. h[n + 1] = IF n + 1 = 1 THEN s[n + 1] ELSE h[n] \o s[n + 1]
      BY <2>1, <3>0 DEF Flattened1
    <3>2. F[n + 1] = IF n + 1 = 1 THEN s[n + 1] ELSE F[n] \o s[n + 1]
      BY <2>2, <3>0 DEF Flattened1
    <3>3. CASE n = 0
      BY <3>1, <3>2, <3>3, <3>5
    <3>4. CASE n # 0
      <4>1. n \in 1..Len(s) /\ n + 1 # 1
        BY <1>1, <3>4
      <4>2. F[n] = g[n] /\ h[n] = g[n] /\ h[n + 1] = g[n + 1]
        BY <2>5, <3>5, <4>1
      <4> QED
        BY <3>1, <3>2, <4>1, <4>2
    <3> QED
      BY <3>3, <3>4
  <2> HIDE DEF P
  <2>6. Len(s) \in P
    BY <1>1, <2>4, <2>5, Counting
  <2>7. F[Len(s)] = g[Len(s)]
    BY <1>1, <1>3, <2>6 DEF P
  <2> QED
    BY <2>3, <2>7
<1> QED
  BY <1>2, <1>3

\* One sequence after another, then all of it.
LEMMA FlatConcat ==
    ASSUME NEW A, NEW s \in Seq(Seq(A)), NEW t \in Seq(Seq(A))
    PROVE  /\ FlattenSeq(s) \in Seq(A)
           /\ FlattenSeq(s \o t) = FlattenSeq(s) \o FlattenSeq(t)
<1> DEFINE m == Len(s)
           k == Len(t)
           u == s \o t
<1>1. m \in Nat /\ k \in Nat
  BY LenProperties
<1>2. /\ u \in Seq(Seq(A)) /\ Len(u) = m + k
      /\ \A i \in 1..m : u[i] = s[i]
      /\ \A i \in 1..k : u[m + i] = t[i]
  <2>1. u \in Seq(Seq(A)) /\ Len(u) = m + k
    BY ConcatProperties
  <2>2. \A i \in 1..(m + k) : u[i] = IF i <= m THEN s[i] ELSE t[i - m]
    BY ConcatProperties
  <2> HIDE DEF u, m, k
  <2>3. ASSUME NEW i \in 1..m PROVE u[i] = s[i]
    BY <1>1, <2>2
  <2>4. ASSUME NEW i \in 1..k PROVE u[m + i] = t[i]
    <3>1. m + i \in 1..(m + k) /\ ~(m + i <= m) /\ (m + i) - m = i
      BY <1>1
    <3> QED
      BY <2>2, <3>1
  <2> QED
    BY <2>1, <2>3, <2>4
<1>3. PICK g : Flattening(g, s, A, m)
  BY <1>1, FlatteningExists
<1>4. PICK h : Flattening(h, t, A, k)
  BY <1>1, FlatteningExists
<1>5. FlattenSeq(s) = g[m] /\ FlattenSeq(t) = h[k]
  BY <1>3, <1>4, Flattened
<1> HIDE DEF u, m, k
<1>6. /\ g \in [0..m -> Seq(A)] /\ h \in [0..k -> Seq(A)] /\ g[0] = <<>> /\ h[0] = <<>>
      /\ \A n \in 1..m : g[n] = g[n - 1] \o s[n]
      /\ \A n \in 1..k : h[n] = h[n - 1] \o t[n]
  BY <1>3, <1>4 DEF Flattening
<1>7. g[m] \in Seq(A) /\ \A n \in 0..k : h[n] \in Seq(A)
  BY <1>1, <1>6
<1> DEFINE f == [n \in 0..(m + k) |-> IF n \in 0..m THEN g[n] ELSE g[m] \o h[n - m]]
<1>8. f \in [0..(m + k) -> Seq(A)]
  <2>1. ASSUME NEW n \in 0..(m + k) PROVE (IF n \in 0..m THEN g[n] ELSE g[m] \o h[n - m]) \in Seq(A)
    <3>1. CASE n \in 0..m
      BY <3>1, <1>6
    <3>2. CASE ~(n \in 0..m)
      <4>1. n - m \in 0..k
        BY <1>1, <3>2
      <4> QED
        BY <3>2, <4>1, <1>7, ConcatProperties
    <3> QED
      BY <3>1, <3>2
  <2> QED
    BY <2>1
<1>9. \A n \in 0..m : f[n] = g[n]
  BY <1>1
<1>10. ASSUME NEW n \in 0..k PROVE f[m + n] = g[m] \o h[n]
  <2>1. m + n \in 0..(m + k) /\ (m + n) - m = n
    BY <1>1
  <2>2. CASE n = 0
    <3>1. m \in 0..m /\ m + n = m
      BY <1>1, <2>2
    <3>2. f[m] = g[m]
      BY <1>9, <3>1
    <3>3. g[m] \o <<>> = g[m]
      BY <1>7, ConcatEmptySeq
    <3> QED
      BY <1>6, <2>2, <3>1, <3>2, <3>3
  <2>3. CASE n # 0
    <3>1. ~(m + n \in 0..m)
      BY <1>1, <2>3
    <3> QED
      BY <2>1, <3>1
  <2> QED
    BY <2>2, <2>3
<1> HIDE DEF f
<1>11. ASSUME NEW n \in 1..(m + k) PROVE f[n] = f[n - 1] \o u[n]
  <2>1. CASE n \in 1..m
    <3>1. n \in 0..m /\ n - 1 \in 0..m
      BY <1>1, <2>1
    <3> QED
      BY <1>2, <1>6, <1>9, <2>1, <3>1
  <2>2. CASE ~(n \in 1..m)
    <3> DEFINE i == n - m
    <3>1. i \in 1..k /\ i \in 0..k /\ i - 1 \in 0..k /\ n = m + i /\ n - 1 = m + (i - 1)
      BY <1>1, <2>2
    <3> HIDE DEF i
    <3>5. f[m + i] = g[m] \o h[i] /\ f[m + (i - 1)] = g[m] \o h[i - 1]
      BY <1>10, <3>1
    <3>6. u[m + i] = t[i]
      BY <1>2, <3>1
    <3>2. f[n] = g[m] \o h[i] /\ f[n - 1] = g[m] \o h[i - 1] /\ u[n] = t[i]
      BY <3>1, <3>5, <3>6, Zenon
    <3>3. h[i] = h[i - 1] \o t[i] /\ h[i - 1] \in Seq(A) /\ t[i] \in Seq(A)
      <4>1. t[i] \in Seq(A)
        BY <3>1, ElementOfSeq DEF k
      <4> QED
        BY <1>6, <1>7, <3>1, <4>1
    <3>4. (g[m] \o h[i - 1]) \o t[i] = g[m] \o (h[i - 1] \o t[i])
      <4>1. PICK a : a = g[m]
        OBVIOUS
      <4>2. PICK b : b = h[i - 1]
        OBVIOUS
      <4>3. PICK c : c = t[i]
        OBVIOUS
      <4>4. a \in Seq(A) /\ b \in Seq(A) /\ c \in Seq(A)
        BY <1>7, <3>3, <4>1, <4>2, <4>3
      <4>5. (a \o b) \o c = a \o (b \o c)
        BY ONLY <4>4, ConcatProperties, SeqEqual, SMTT(30)
      <4> QED
        BY <4>1, <4>2, <4>3, <4>5, Zenon
    <3> QED
      BY <3>2, <3>3, <3>4
  <2> QED
    BY <2>1, <2>2
<1>12. f[0] = <<>>
  BY <1>1, <1>6, <1>9
<1>13. Flattening(f, u, A, Len(u))
  BY <1>2, <1>8, <1>11, <1>12 DEF Flattening
<1>14. FlattenSeq(u) = f[m + k]
  BY <1>2, <1>13, Flattened
<1>15. f[m + k] = g[m] \o h[k]
  <2>1. k \in 0..k
    BY <1>1
  <2> QED
    BY <2>1, <1>10
<1> QED
  BY <1>5, <1>7, <1>14, <1>15 DEF u

\* Of one sequence, it is that; of none, nothing.
LEMMA FlatOne ==
    ASSUME NEW A, NEW x \in Seq(A)
    PROVE  FlattenSeq(<<x>>) = x /\ FlattenSeq(<<>>) = <<>>
<1>1. FlattenSeq(<<>>) = <<>>
  BY EmptySeq DEF FlattenSeq
<1> DEFINE g == [n \in 0..1 |-> IF n = 0 THEN <<>> ELSE x]
<1>2. /\ <<x>> \in Seq(Seq(A)) /\ Len(<<x>>) = 1 /\ <<x>>[1] = x
      /\ <<>> \o x = x /\ <<>> \in Seq(A)
  BY ConcatEmptySeq, EmptySeq
<1>3. g \in [0..1 -> Seq(A)] /\ g[0] = <<>> /\ g[1] = x
  BY <1>2
<1> HIDE DEF g
<1>4. Flattening(g, <<x>>, A, 1)
  BY <1>2, <1>3 DEF Flattening
<1>5. FlattenSeq(<<x>>) = g[1]
  BY <1>2, <1>4, Flattened
<1> QED
  BY <1>1, <1>3, <1>5

\* A queue of sequences gains one, or gives the first away.
LEMMA FlatQueue ==
    ASSUME NEW A, NEW s \in Seq(Seq(A))
    PROVE  /\ \A x \in Seq(A) : FlattenSeq(Append(s, x)) = FlattenSeq(s) \o x
           /\ s # <<>> => FlattenSeq(s) = Head(s) \o FlattenSeq(Tail(s))
<1>1. ASSUME NEW x \in Seq(A) PROVE FlattenSeq(Append(s, x)) = FlattenSeq(s) \o x
  <2>1. Append(s, x) = s \o <<x>>
    BY AppendIsConcat
  <2>2. <<x>> \in Seq(Seq(A))
    OBVIOUS
  <2>3. FlattenSeq(s \o <<x>>) = FlattenSeq(s) \o FlattenSeq(<<x>>)
    BY <2>2, FlatConcat
  <2> QED
    BY <2>1, <2>3, FlatOne
<1>2. ASSUME s # <<>> PROVE FlattenSeq(s) = Head(s) \o FlattenSeq(Tail(s))
  <2>1. Head(s) \in Seq(A) /\ Tail(s) \in Seq(Seq(A)) /\ <<Head(s)>> \in Seq(Seq(A))
    BY <1>2, HeadTailProperties
  <2>2. s = <<Head(s)>> \o Tail(s)
    <3>1. Len(s) \in Nat /\ 1 \in 1..Len(s) /\ Len(s) \in 1..Len(s)
      BY <1>2, LenProperties, EmptySeq
    <3>2. SubSeq(s, 1, Len(s)) = <<s[1]>> \o SubSeq(s, 1 + 1, Len(s))
      BY <3>1, SubSeqRecursiveFirst
    <3>3. SubSeq(s, 1, Len(s)) = s /\ Tail(s) = SubSeq(s, 2, Len(s)) /\ Head(s) = s[1]
      BY <1>2, <3>1, SubSeqFull, TailIsSubSeq
    <3> QED
      BY <3>2, <3>3
  <2>3. FlattenSeq(<<Head(s)>> \o Tail(s)) = Head(s) \o FlattenSeq(Tail(s))
    <3>1. FlattenSeq(<<Head(s)>> \o Tail(s)) = FlattenSeq(<<Head(s)>>) \o FlattenSeq(Tail(s))
      BY <2>1, FlatConcat
    <3>2. FlattenSeq(<<Head(s)>>) = Head(s)
      BY <2>1, FlatOne
    <3> QED
      BY <3>1, <3>2, Zenon
  <2> QED
    BY <2>2, <2>3
<1> QED
  BY <1>1, <1>2
=============================================================================
