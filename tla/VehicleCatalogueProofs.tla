----------------------- MODULE VehicleCatalogueProofs -----------------------
(***************************************************************************)
(* Theorems about VehicleCatalogue for answers of the API of any length,   *)
(* every size of a transaction and of a page.                              *)
(***************************************************************************)
EXTENDS VehicleCatalogue, FiniteSetTheorems, SequenceTheorems,
        WellFoundedInduction, TLAPS

-----------------------------------------------------------------------------
(***************************************************************************)
(* Induction over a set of numbers, which needs no operator to instantiate. *)
(***************************************************************************)
LEMMA SetInduction ==
  ASSUME NEW S, 0 \in S, \A n \in Nat : n \in S => n + 1 \in S
  PROVE  Nat \subseteq S
<1> SUFFICES ASSUME NEW m \in Nat, m \notin S PROVE FALSE
  OBVIOUS
<1> DEFINE M == 0 .. m
           T == {0 .. x : x \in {y \in M : y \notin S}}
<1>1. IsWellFoundedOn(StrictSubsetOrdering(M), SUBSET M)
  <2>1. IsFiniteSet(M)
    BY FS_Interval
  <2> HIDE DEF M
  <2> QED
    BY <2>1, FS_FiniteSubsetsOfFinite, FS_StrictSubsetOrderingWellFounded
<1>2. T # {} /\ T \subseteq SUBSET M
  OBVIOUS
<1>3. PICK A \in T : \A B \in T : <<B, A>> \notin StrictSubsetOrdering(M)
  <2> HIDE DEF T
  <2> QED
    BY <1>1, <1>2, WFMin
<1>4. PICK x \in M : x \notin S /\ A = 0 .. x
  OBVIOUS
<1>5. x # 0 /\ x - 1 \in M /\ x - 1 \in Nat /\ (x - 1) + 1 = x
  BY <1>4
<1>6. x - 1 \notin S
  BY <1>4, <1>5
<1>7. 0 .. (x - 1) \in T /\ 0 .. (x - 1) \subseteq 0 .. x /\ x \notin 0 .. (x - 1)
  BY <1>5, <1>6
<1>8. 0 .. (x - 1) # 0 .. x
  BY <1>4, <1>7
<1>9. <<0 .. (x - 1), A>> \in StrictSubsetOrdering(M)
  <2>1. 0 .. (x - 1) \in SUBSET M /\ A \in SUBSET M
    BY <1>2, <1>7
  <2> HIDE DEF M
  <2> QED
    BY <1>4, <1>7, <1>8, <2>1 DEF StrictSubsetOrdering
<1> QED
  BY <1>3, <1>7, <1>9

\* A set of numbers that is not empty has a least one.
LEMMA Least ==
  ASSUME NEW J \in SUBSET Nat, J # {}
  PROVE  \E j \in J : \A i \in J : j <= i
<1> DEFINE S == {n \in Nat : \A i \in J : n <= i}
<1>1. 0 \in S
  OBVIOUS
<1> SUFFICES ASSUME \A j \in J : \E i \in J : ~(j <= i) PROVE FALSE
  OBVIOUS
<1>2. ASSUME NEW n \in Nat, n \in S PROVE n + 1 \in S
  <2>1. \A i \in J : n <= i
    BY <1>2
  <2>2. n \notin J
    BY <2>1
  <2>3. \A i \in J : n + 1 <= i
    BY <2>1, <2>2
  <2> QED
    BY <2>3
<1>3. PICK j \in J : TRUE
  OBVIOUS
<1>4. j + 1 \notin S
  BY <1>3
<1> HIDE DEF S
<1>5. Nat \subseteq S
  BY <1>1, <1>2, SetInduction
<1> QED
  BY <1>4, <1>5

-----------------------------------------------------------------------------
(***************************************************************************)
(* Deduplication.                                                          *)
(***************************************************************************)
AddNew(acc, t) == IF HasType(acc, t.typeId) THEN acc ELSE Append(acc, t)

\* The equation that the fold takes a solution of.
Folds(g, s, n) ==
  g = [x \in SUBSET (1 .. n) |->
         IF x = {} THEN << >> ELSE AddNew(g[x \ {Max(x)}], s[Max(x)])]

LEMMA FoldIs ==
  ASSUME NEW s
  PROVE  deduplicateTypes(s) =
           (CHOOSE g : g = [x \in SUBSET DOMAIN s |->
              IF x = {} THEN << >> ELSE AddNew(g[x \ {Max(x)}], s[Max(x)])])[DOMAIN s]
BY DEF deduplicateTypes, FoldLeft, MapThenFoldSet, AddNew

LEMMA MaxIs ==
  ASSUME NEW x, x \subseteq Int, NEW m \in x, \A y \in x : m >= y
  PROVE  Max(x) = m
<1>1. m \in x /\ \A y \in x : m >= y
  OBVIOUS
<1>2. Max(x) \in x /\ \A y \in x : Max(x) >= y
  BY <1>1, Zenon DEF Max
<1>3. m \in Int /\ Max(x) \in Int
  BY <1>2
<1>4. m >= Max(x) /\ Max(x) >= m
  BY <1>1, <1>2
<1> QED
  BY <1>3, <1>4

LEMMA FoldExists ==
  ASSUME NEW s, NEW m \in Nat
  PROVE  \E g : Folds(g, s, m)
<1> DEFINE S == {n \in Nat : \E g : Folds(g, s, n)}
<1>1. 0 \in S
  <2> DEFINE g == [x \in SUBSET (1 .. 0) |-> << >>]
  <2>1. \A x \in SUBSET (1 .. 0) : x = {}
    OBVIOUS
  <2>2. Folds(g, s, 0)
    BY <2>1 DEF Folds
  <2> QED
    BY <2>2
<1>2. ASSUME NEW n \in Nat, n \in S
      PROVE  n + 1 \in S
  <2>1. PICK g : Folds(g, s, n)
    BY <1>2
  <2> DEFINE h == [x \in SUBSET (1 .. n + 1) |->
                     IF n + 1 \in x THEN AddNew(g[x \ {n + 1}], s[n + 1]) ELSE g[x]]
  <2>2. ASSUME NEW x \in SUBSET (1 .. n + 1)
        PROVE  h[x] = IF x = {} THEN << >> ELSE AddNew(h[x \ {Max(x)}], s[Max(x)])
    <3>1. CASE n + 1 \in x
      <4>1. Max(x) = n + 1
        <5>1. x \subseteq Int /\ \A y \in x : n + 1 >= y
          OBVIOUS
        <5> QED
          BY <3>1, <5>1, MaxIs
      <4>2. h[x \ {n + 1}] = g[x \ {n + 1}]
        OBVIOUS
      <4> QED
        BY <3>1, <4>1, <4>2
    <3>2. CASE n + 1 \notin x
      <4>1. x \in SUBSET (1 .. n) /\ x \ {Max(x)} \in SUBSET (1 .. n + 1)
        <5>1. \A y \in x : y \in 1 .. n
          BY <3>2
        <5> QED
          BY <5>1
      <4>2. h[x] = g[x] /\ h[x \ {Max(x)}] = g[x \ {Max(x)}]
        BY <3>2, <4>1
      <4>3. g[x] = IF x = {} THEN << >> ELSE AddNew(g[x \ {Max(x)}], s[Max(x)])
        BY <2>1, <4>1 DEF Folds
      <4> QED
        BY <4>2, <4>3
    <3> QED
      BY <3>1, <3>2
  <2>3. Folds(h, s, n + 1)
    <3>1. h = [x \in SUBSET (1 .. n + 1) |-> h[x]]
      OBVIOUS
    <3> HIDE DEF h
    <3> QED
      BY <2>2, <3>1 DEF Folds
  <2> QED
    BY <2>3
<1> HIDE DEF S
<1>3. Nat \subseteq S
  BY <1>1, <1>2, SetInduction
<1> QED
  BY <1>3 DEF S

\* The accumulator of the fold after each of n elements.
Accumulator(d, s, n) ==
  /\ d[0] = << >>
  /\ \A k \in 0 .. n - 1 : d[k + 1] = AddNew(d[k], s[k + 1])
  /\ deduplicateTypes(s) = d[n]

LEMMA Accumulates ==
  ASSUME NEW s, NEW n \in Nat, DOMAIN s = 1 .. n
  PROVE  \E d : Accumulator(d, s, n)
<1> DEFINE g == CHOOSE g : Folds(g, s, n)
           d == [k \in 0 .. n |-> g[1 .. k]]
<1>1. Folds(g, s, n)
  BY FoldExists
<1>2. deduplicateTypes(s) = g[1 .. n]
  BY FoldIs DEF Folds
<1> HIDE DEF g
<1>3. d[0] = << >>
  <2>1. 1 .. 0 = {} /\ {} \in SUBSET (1 .. n) /\ 0 \in 0 .. n
    OBVIOUS
  <2> QED
    BY <1>1, <2>1 DEF Folds
<1>4. ASSUME NEW k \in 0 .. n - 1
      PROVE  d[k + 1] = AddNew(d[k], s[k + 1])
  <2>1. k \in 0 .. n /\ k + 1 \in 0 .. n /\ 1 .. k + 1 \in SUBSET (1 .. n)
    OBVIOUS
  <2>2. Max(1 .. k + 1) = k + 1
    BY DEF Max
  <2>3. (1 .. k + 1) \ {k + 1} = 1 .. k /\ 1 .. k + 1 # {}
    OBVIOUS
  <2>4. g[1 .. k + 1] = AddNew(g[1 .. k], s[k + 1])
    BY <1>1, <2>1, <2>2, <2>3 DEF Folds
  <2> QED
    BY <2>1, <2>4
<1>5. d[n] = deduplicateTypes(s)
  BY <1>2
<1> HIDE DEF d
<1> QED
  BY <1>3, <1>4, <1>5 DEF Accumulator

Distinct(types) ==
  \A i, k \in DOMAIN types : types[i].typeId = types[k].typeId => i = k

\* The places up to n that are the first of their id.
Firsts(s, n) ==
  {i \in 1 .. n : \A k \in 1 .. i - 1 : s[k].typeId # s[i].typeId}

\* What has been kept of the first n elements.
Kept(acc, s, n, T) ==
  /\ acc \in Seq(T)
  /\ ToSet(acc) = {s[i] : i \in Firsts(s, n)}
  /\ Distinct(acc)

LEMMA KeepsFirsts ==
  ASSUME NEW T, NEW s \in Seq(T), NEW n \in Nat, n + 1 \in 1 .. Len(s),
         NEW acc, Kept(acc, s, n, T)
  PROVE  Kept(AddNew(acc, s[n + 1]), s, n + 1, T)
<1> DEFINE t == s[n + 1]
<1>0. t \in T /\ acc \in Seq(T) /\ DOMAIN acc = 1 .. Len(acc) /\ Len(acc) \in Nat
  BY DEF Kept
<1>1. Firsts(s, n + 1) = Firsts(s, n) \union
        {i \in {n + 1} : \A k \in 1 .. n : s[k].typeId # t.typeId}
  BY DEF Firsts
<1>2. CASE HasType(acc, t.typeId)
  <2>1. PICK a \in DOMAIN acc : acc[a].typeId = t.typeId
    BY <1>2 DEF HasType
  <2>2. PICK i \in Firsts(s, n) : acc[a] = s[i]
    BY <2>1 DEF Kept, ToSet
  <2>3. i \in 1 .. n /\ s[i].typeId = t.typeId
    BY <2>1, <2>2 DEF Firsts
  <2>4. Firsts(s, n + 1) = Firsts(s, n)
    BY <1>1, <2>3
  <2> QED
    BY <1>2, <2>4 DEF AddNew, Kept
<1>3. CASE ~HasType(acc, t.typeId)
  <2>1. \A a \in 1 .. Len(acc) : acc[a].typeId # t.typeId
    BY <1>0, <1>3 DEF HasType
  <2>2. ASSUME NEW k \in 1 .. n PROVE s[k].typeId # t.typeId
    <3> DEFINE J == {j \in 1 .. n : s[j].typeId = t.typeId}
    <3>1. SUFFICES ASSUME J # {} PROVE FALSE
      OBVIOUS
    <3>2. PICK j \in J : \A i \in J : j <= i
      <4>1. J \in SUBSET Nat /\ J # {}
        BY <3>1
      <4> HIDE DEF J
      <4> QED
        BY <4>1, Least
    <3>3. j \in Firsts(s, n)
      BY <3>2 DEF Firsts
    <3>4. s[j] \in ToSet(acc)
      BY <3>3 DEF Kept
    <3> QED
      BY <1>0, <2>1, <3>2, <3>4 DEF ToSet
  <2>3. Firsts(s, n + 1) = Firsts(s, n) \union {n + 1}
    BY <1>1, <2>2
  <2> DEFINE new == Append(acc, t)
  <2>4. /\ new \in Seq(T) /\ DOMAIN new = 1 .. Len(acc) + 1
        /\ \A a \in 1 .. Len(acc) : new[a] = acc[a]
        /\ new[Len(acc) + 1] = t
    BY <1>0, AppendProperties
  <2>5. AddNew(acc, t) = new
    BY <1>3 DEF AddNew
  <2> HIDE DEF new
  <2>6. ToSet(new) = ToSet(acc) \union {t}
    BY <1>0, <2>4 DEF ToSet
  <2>7. ToSet(new) = {s[i] : i \in Firsts(s, n + 1)}
    BY <2>3, <2>6 DEF Kept
  <2>8. Distinct(new)
    <3> SUFFICES ASSUME NEW i \in DOMAIN new, NEW k \in DOMAIN new,
                        new[i].typeId = new[k].typeId
                 PROVE  i = k
      BY DEF Distinct
    <3>1. CASE i \in 1 .. Len(acc) /\ k \in 1 .. Len(acc)
      BY <1>0, <2>4, <3>1 DEF Kept, Distinct
    <3>2. CASE i = Len(acc) + 1 /\ k = Len(acc) + 1
      BY <3>2
    <3>3. CASE i \in 1 .. Len(acc) /\ k = Len(acc) + 1
      BY <2>1, <2>4, <3>3
    <3>4. CASE i = Len(acc) + 1 /\ k \in 1 .. Len(acc)
      BY <2>1, <2>4, <3>4
    <3> QED
      BY <1>0, <2>4, <3>1, <3>2, <3>3, <3>4
  <2> QED
    BY <2>4, <2>5, <2>7, <2>8 DEF Kept
<1> QED
  BY <1>2, <1>3

\* deduplicateTypes keeps the first type of every id and no other.
LEMMA Deduplicated ==
  ASSUME NEW T, NEW s \in Seq(T), NEW n \in Nat, DOMAIN s = 1 .. n
  PROVE  Kept(deduplicateTypes(s), s, n, T)
<1>1. PICK d : Accumulator(d, s, n)
  BY Accumulates
<1> DEFINE S == {k \in Nat : k <= n => Kept(d[k], s, k, T)}
<1>2. 0 \in S
  <2>1. Firsts(s, 0) = {}
    BY DEF Firsts
  <2>2. << >> \in Seq(T) /\ DOMAIN << >> = {}
    OBVIOUS
  <2>3. Kept(<< >>, s, 0, T)
    BY <2>1, <2>2 DEF Kept, ToSet, Distinct
  <2> QED
    BY <1>1, <2>3 DEF Accumulator
<1>3. ASSUME NEW k \in Nat, k \in S, k + 1 <= n
      PROVE  Kept(d[k + 1], s, k + 1, T)
  <2>1. Kept(d[k], s, k, T) /\ k \in 0 .. n - 1
    BY <1>3
  <2>2. d[k + 1] = AddNew(d[k], s[k + 1])
    BY <1>1, <2>1 DEF Accumulator
  <2>3. k + 1 \in 1 .. Len(s)
    BY <1>3
  <2> QED
    BY <2>1, <2>2, <2>3, KeepsFirsts
<1>4. \A k \in Nat : k \in S => k + 1 \in S
  BY <1>3
<1> HIDE DEF S
<1>5. Nat \subseteq S
  BY <1>2, <1>4, SetInduction
<1>6. n \in S
  BY <1>5
<1> QED
  BY <1>1, <1>6 DEF S, Accumulator

\* A list of types without two of one id is as long as the set of them.
LEMMA DistinctCount ==
  ASSUME NEW T, NEW s \in Seq(T), Distinct(s)
  PROVE  /\ Cardinality(ToSet(s)) = Len(s)
         /\ Cardinality({t.typeId : t \in ToSet(s)}) = Len(s)
<1>1. DOMAIN s = 1 .. Len(s) /\ Len(s) \in Nat
  OBVIOUS
<1>2. Cardinality(ToSet(s)) = Len(s)
  <2> DEFINE f == [i \in 1 .. Len(s) |-> s[i]]
  <2>1. f \in Bijection(1 .. Len(s), ToSet(s))
    BY <1>1 DEF Bijection, Injection, Surjection, IsInjective, ToSet, Distinct
  <2> QED
    BY <1>1, <2>1, FS_CountingElements DEF ExistsBijection
<1>3. Cardinality({t.typeId : t \in ToSet(s)}) = Len(s)
  <2> DEFINE f == [i \in 1 .. Len(s) |-> s[i].typeId]
             I == {t.typeId : t \in ToSet(s)}
  <2>1. f \in Bijection(1 .. Len(s), I)
    BY <1>1 DEF Bijection, Injection, Surjection, IsInjective, ToSet, Distinct
  <2> HIDE DEF I
  <2>2. Cardinality(I) = Len(s)
    BY <1>1, <2>1, FS_CountingElements DEF ExistsBijection
  <2> QED
    BY <2>2 DEF I
<1> QED
  BY <1>2, <1>3

-----------------------------------------------------------------------------
(***************************************************************************)
(* Enumerations in ascending order.                                        *)
(***************************************************************************)
LEMMA RemoveOne ==
  ASSUME NEW X, IsFiniteSet(X), NEW n \in Nat, Cardinality(X) = n + 1
  PROVE  /\ X # {}
         /\ \A x \in X : IsFiniteSet(X \ {x}) /\ Cardinality(X \ {x}) = n
<1>1. X # {}
  BY FS_EmptySet
<1>2. ASSUME NEW x \in X
      PROVE  IsFiniteSet(X \ {x}) /\ Cardinality(X \ {x}) = n
  BY FS_RemoveElement
<1> QED
  BY <1>1, <1>2

LEMMA GreatestKey ==
  ASSUME NEW S, IsFiniteSet(S), S # {}, NEW key \in [S -> Int]
  PROVE  \E m \in S : \A x \in S : key[x] <= key[m]
<1> DEFINE Greatest(X) == \E m \in X : \A x \in X : key[x] <= key[m]
           N == {n \in Nat : \A X \in SUBSET S : Cardinality(X) = n + 1 => Greatest(X)}
<1>1. 0 \in N
  <2> SUFFICES ASSUME NEW X \in SUBSET S, Cardinality(X) = 1 PROVE Greatest(X)
    OBVIOUS
  <2>1. IsFiniteSet(X)
    BY FS_Subset
  <2>2. PICK x : X = {x}
    BY <2>1, FS_Singleton
  <2>3. key[x] \in Int
    BY <2>2
  <2> QED
    BY <2>2, <2>3
<1>2. ASSUME NEW n \in Nat, n \in N PROVE n + 1 \in N
  <2> SUFFICES ASSUME NEW X \in SUBSET S, Cardinality(X) = (n + 1) + 1 PROVE Greatest(X)
    OBVIOUS
  <2>1. IsFiniteSet(X)
    BY FS_Subset
  <2>2. X # {} /\ \A x \in X : Cardinality(X \ {x}) = n + 1
    BY <2>1, RemoveOne
  <2>3. PICK x \in X : TRUE
    BY <2>2
  <2>4. X \ {x} \in SUBSET S /\ Cardinality(X \ {x}) = n + 1
    BY <2>2
  <2>5. Greatest(X \ {x})
    BY <1>2, <2>4
  <2>6. PICK m \in X \ {x} : \A y \in X \ {x} : key[y] <= key[m]
    BY <2>5
  <2>7. \A y \in X : key[y] \in Int
    OBVIOUS
  <2>8. CASE key[x] <= key[m]
    BY <2>6, <2>8
  <2>9. CASE ~(key[x] <= key[m])
    <3>1. key[x] \in Int /\ key[m] \in Int /\ key[m] <= key[x]
      BY <2>7, <2>9
    <3>2. \A y \in X : key[y] <= key[x]
      BY <2>6, <2>7, <3>1
    <3> QED
      BY <3>2
  <2> QED
    BY <2>8, <2>9
<1> HIDE DEF N
<1>3. Nat \subseteq N
  BY <1>1, <1>2, SetInduction
<1>4. Cardinality(S) \in Nat /\ Cardinality(S) # 0
  BY FS_CardinalityType, FS_EmptySet
<1>5. Cardinality(S) - 1 \in N
  BY <1>3, <1>4
<1>6. Greatest(S)
  BY <1>4, <1>5 DEF N
<1> QED
  BY <1>6

Ascending(f, key) ==
  \A i, k \in DOMAIN f : i < k => key[f[i]] < key[f[k]]

\* A finite set whose elements have different keys can be put in their order.
LEMMA AscendingExists ==
  ASSUME NEW S, IsFiniteSet(S), NEW key \in [S -> Int],
         \A x, y \in S : key[x] = key[y] => x = y
  PROVE  \E f \in SetToSeqs(S) : Ascending(f, key)
<1> DEFINE Sorted(X) == \E f \in SetToSeqs(X) : Ascending(f, key)
           N == {n \in Nat : \A X \in SUBSET S : Cardinality(X) = n => Sorted(X)}
<1>1. 0 \in N
  <2> SUFFICES ASSUME NEW X \in SUBSET S, Cardinality(X) = 0 PROVE Sorted(X)
    OBVIOUS
  <2> DEFINE f == [i \in 1 .. 0 |-> i]
  <2>1. f \in [1 .. 0 -> X] /\ DOMAIN f = {}
    OBVIOUS
  <2>2. f \in SetToSeqs(X)
    BY <2>1 DEF SetToSeqs
  <2>3. Ascending(f, key)
    BY <2>1 DEF Ascending
  <2> QED
    BY <2>2, <2>3
<1>2. ASSUME NEW n \in Nat, n \in N PROVE n + 1 \in N
  <2> SUFFICES ASSUME NEW X \in SUBSET S, Cardinality(X) = n + 1 PROVE Sorted(X)
    OBVIOUS
  <2>1. IsFiniteSet(X)
    BY FS_Subset
  <2>2. X # {} /\ \A x \in X : Cardinality(X \ {x}) = n
    BY <2>1, RemoveOne
  <2>3. PICK m \in X : \A x \in X : key[x] <= key[m]
    <3> DEFINE c == [x \in X |-> key[x]]
    <3>1. c \in [X -> Int] /\ \A x \in X : c[x] = key[x]
      OBVIOUS
    <3> HIDE DEF c
    <3>2. \E m \in X : \A x \in X : c[x] <= c[m]
      BY <2>1, <2>2, <3>1, GreatestKey
    <3> QED
      BY <3>1, <3>2
  <2>4. Sorted(X \ {m})
    <3>1. X \ {m} \in SUBSET S /\ Cardinality(X \ {m}) = n
      BY <2>2
    <3> QED
      BY <1>2, <3>1
  <2>5. PICK f \in SetToSeqs(X \ {m}) : Ascending(f, key)
    BY <2>4
  <2>6. /\ f \in [1 .. n -> X \ {m}]
        /\ \A i, k \in 1 .. n : i # k => f[i] # f[k]
    BY <2>2, <2>5 DEF SetToSeqs
  <2> DEFINE h == [i \in 1 .. n + 1 |-> IF i = n + 1 THEN m ELSE f[i]]
  <2>7. /\ DOMAIN h = 1 .. n + 1 /\ h[n + 1] = m
        /\ \A i \in 1 .. n : h[i] = f[i]
    OBVIOUS
  <2>8. \A i \in 1 .. n + 1 : i = n + 1 \/ i \in 1 .. n
    OBVIOUS
  <2>9. h \in [1 .. n + 1 -> X]
    BY <2>6, <2>8
  <2> HIDE DEF h
  <2>10. \A i, k \in 1 .. n + 1 : i # k => h[i] # h[k]
    <3>1. \A i \in 1 .. n : f[i] # m
      BY <2>6
    <3> QED
      BY <2>6, <2>7, <2>8, <3>1
  <2>11. h \in SetToSeqs(X)
    BY <2>9, <2>10 DEF SetToSeqs
  <2>12. Ascending(h, key)
    <3> SUFFICES ASSUME NEW i \in 1 .. n + 1, NEW k \in 1 .. n + 1, i < k
                 PROVE  key[h[i]] < key[h[k]]
      BY <2>7 DEF Ascending
    <3>1. i \in 1 .. n
      OBVIOUS
    <3>2. CASE k \in 1 .. n
      BY <2>5, <2>6, <2>7, <3>1, <3>2 DEF Ascending
    <3>3. CASE k = n + 1
      <4>1. f[i] \in X /\ f[i] # m
        BY <2>6, <3>1
      <4>2. key[f[i]] \in Int /\ key[m] \in Int /\ key[f[i]] # key[m]
        BY <4>1
      <4>3. key[f[i]] <= key[m]
        BY <2>3, <4>1
      <4> QED
        BY <2>7, <3>1, <3>3, <4>2, <4>3
    <3> QED
      BY <2>8, <3>2, <3>3
  <2> QED
    BY <2>11, <2>12
<1> HIDE DEF N
<1>3. Nat \subseteq N
  BY <1>1, <1>2, SetInduction
<1>4. Cardinality(S) \in N
  BY <1>3, FS_CardinalityType
<1>5. Sorted(S)
  BY <1>4 DEF N
<1> QED
  BY <1>5

\* An enumeration names every element.
LEMMA Enumerates ==
  ASSUME NEW S, IsFiniteSet(S), NEW f \in SetToSeqs(S)
  PROVE  /\ Cardinality(S) \in Nat
         /\ f \in [1 .. Cardinality(S) -> S]
         /\ f \in Seq(S) /\ Len(f) = Cardinality(S)
         /\ \A i, k \in 1 .. Cardinality(S) : f[i] = f[k] => i = k
         /\ \A x \in S : \E i \in 1 .. Cardinality(S) : f[i] = x
<1> DEFINE n == Cardinality(S)
<1>1. n \in Nat
  BY FS_CardinalityType
<1>2. /\ f \in [1 .. n -> S]
      /\ \A i, k \in 1 .. n : i # k => f[i] # f[k]
  BY DEF SetToSeqs
<1>3. f \in Injection(1 .. n, S)
  BY <1>2 DEF Injection, IsInjective
<1>4. IsFiniteSet(1 .. n) /\ Cardinality(1 .. n) = n
  <2>1. 1 \in Int /\ n \in Int
    BY <1>1
  <2>2. IsFiniteSet(1 .. n) /\ Cardinality(1 .. n) = IF 1 > n THEN 0 ELSE n - 1 + 1
    BY <2>1, FS_Interval
  <2> QED
    BY <1>1, <2>2
<1>5. f \in Surjection(1 .. n, S)
  BY <1>3, <1>4, FS_Injection
<1>6. f \in Seq(S) /\ Len(f) = n
  BY <1>1, <1>2
<1> QED
  BY <1>1, <1>2, <1>5, <1>6 DEF Surjection

LEMMA InOrderIs ==
  ASSUME NEW P \in SUBSET Nat, IsFiniteSet(P)
  PROVE  /\ InOrder(P) \in SetToSeqs(P)
         /\ \A i, k \in DOMAIN InOrder(P) : i < k => InOrder(P)[i] < InOrder(P)[k]
<1> DEFINE key == [x \in P |-> x]
<1>1. key \in [P -> Int] /\ \A x, y \in P : key[x] = key[y] => x = y
  OBVIOUS
<1> HIDE DEF key
<1>2. PICK f \in SetToSeqs(P) : Ascending(f, key)
  BY <1>1, AscendingExists
<1>3. \A i \in DOMAIN f : f[i] \in P
  <2>1. f \in [1 .. Cardinality(P) -> P]
    BY DEF SetToSeqs
  <2> QED
    BY <2>1
<1>4. \A i, k \in DOMAIN f : i < k => f[i] < f[k]
  BY <1>2, <1>3 DEF Ascending, key
<1> QED
  BY <1>4, Zenon DEF InOrder

\* r is what f takes of s, in the order of s.
Selects(f, r, s, P) ==
  /\ \A k \in DOMAIN r : f[k] \in P /\ r[k] = s[f[k]]
  /\ \A i \in P : \E k \in DOMAIN r : f[k] = i
  /\ \A i, k \in DOMAIN r : i < k => f[i] < f[k]

\* filter keeps the elements at the places it is given, in their order.
LEMMA FilterIs ==
  ASSUME NEW T, NEW s \in Seq(T), NEW P \in SUBSET (DOMAIN s)
  PROVE  /\ filter(s, P) \in Seq(T)
         /\ Cardinality(P) \in Nat /\ IsFiniteSet(P)
         /\ DOMAIN filter(s, P) = 1 .. Cardinality(P)
         /\ Selects(InOrder(P), filter(s, P), s, P)
<1> DEFINE n == Cardinality(P)
           f == InOrder(P)
<1>1. P \in SUBSET Nat /\ IsFiniteSet(P)
  <2>1. P \in SUBSET (1 .. Len(s)) /\ 1 \in Int /\ Len(s) \in Int
    OBVIOUS
  <2>2. IsFiniteSet(1 .. Len(s))
    BY <2>1, FS_Interval
  <2> QED
    BY <2>1, <2>2, FS_Subset
<1>2. /\ f \in SetToSeqs(P)
      /\ \A i, k \in DOMAIN f : i < k => f[i] < f[k]
  BY <1>1, InOrderIs
<1>3. /\ n \in Nat /\ f \in [1 .. n -> P]
      /\ \A x \in P : \E i \in 1 .. n : f[i] = x
  BY <1>1, <1>2, Enumerates
<1> HIDE DEF f
<1>4. filter(s, P) = [k \in 1 .. n |-> s[f[k]]]
  BY DEF filter, f
<1>5. \A k \in 1 .. n : f[k] \in P /\ s[f[k]] \in T
  BY <1>3
<1>6. filter(s, P) \in [1 .. n -> T] /\ \A k \in 1 .. n : filter(s, P)[k] = s[f[k]]
  BY <1>4, <1>5
<1> HIDE DEF n
<1>7. Selects(f, filter(s, P), s, P)
  BY <1>2, <1>3, <1>5, <1>6 DEF Selects
<1>8. filter(s, P) \in Seq(T)
  BY <1>3, <1>6
<1> QED
  BY <1>1, <1>3, <1>6, <1>7, <1>8 DEF n, f

-----------------------------------------------------------------------------
(***************************************************************************)
(* What becomes of an answer of the API.                                   *)
(***************************************************************************)
TypeSet == [typeId : Nat \ {0}, typeName : Names]

\* The places of the usable elements of an answer.
Places(f) == {i \in DOMAIN f : Usable(f[i])}

\* The types of an answer: the first usable one of every id.
FirstUsable(f) ==
  {i \in DOMAIN f : /\ Usable(f[i])
                    /\ \A k \in 1 .. i - 1 : Usable(f[k]) => f[k].id # f[i].id}
TypesOf(f) == {[typeId |-> f[i].id, typeName |-> f[i].name] : i \in FirstUsable(f)}

LEMMA UsablePlace ==
  ASSUME NEW f \in MakeFeeds \union TypeFeeds, NEW i \in Places(f)
  PROVE  /\ i \in 1 .. Len(f)
         /\ f[i] = [id |-> f[i].id, name |-> f[i].name]
         /\ f[i].id \in Nat \ {0} /\ f[i].name \in Names
         /\ f[i] # Empty
<1>1. f \in Seq(ToSet(f)) /\ \A e \in ToSet(f) : IsElement(e)
  BY FeedAssumption
<1>2. i \in 1 .. Len(f) /\ f[i] \in ToSet(f) /\ Usable(f[i])
  <2>1. DOMAIN f = 1 .. Len(f)
    BY <1>1, LenProperties
  <2> QED
    BY <2>1 DEF Places, ToSet
<1>3. IsElement(f[i]) /\ f[i] # Empty /\ f[i].id > 0 /\ f[i].name \in Names
  BY <1>1, <1>2 DEF Usable
<1>4. f[i] = [id |-> f[i].id, name |-> f[i].name] /\ f[i].id \in Int
  BY <1>3, Zenon DEF IsElement
<1> QED
  BY <1>2, <1>3, <1>4

\* The elements that extract() yields are those of the answer, but for one
\* that is alone and empty.
LEMMA Extracted ==
  ASSUME NEW f \in MakeFeeds \union TypeFeeds
  PROVE  \/ extract(parse(f)) = f
         \/ extract(parse(f)) = << >> /\ Places(f) = {}
<1>1. f \in Seq(ToSet(f)) /\ Len(f) \in Nat /\ DOMAIN f = 1 .. Len(f)
  BY FeedAssumption, LenProperties
<1>2. CASE Len(f) = 0
  BY <1>1, <1>2 DEF extract, parse, Places
<1>3. CASE Len(f) = 1
  <2>1. parse(f) = [is |-> "value", value |-> f[1]]
    BY <1>3 DEF parse
  <2>2. DOMAIN f = {1}
    BY <1>1, <1>3
  <2>3. CASE f[1] = Empty
    BY <2>1, <2>2, <2>3 DEF extract, Places, Usable
  <2>4. CASE f[1] # Empty
    <3>1. extract(parse(f)) = <<f[1]>>
      BY <2>1, <2>4 DEF extract
    <3>2. <<f[1]>> = f
      BY <1>1, <1>3
    <3> QED
      BY <3>1, <3>2
  <2> QED
    BY <2>3, <2>4
<1>4. CASE Len(f) > 1
  <2>1. parse(f) = [is |-> "array", value |-> f]
    BY <1>1, <1>4 DEF parse
  <2> QED
    BY <2>1 DEF extract
<1> QED
  BY <1>1, <1>2, <1>3, <1>4

\* Of the fetched elements the valid ones are the usable ones of the answer,
\* each at its place.
LEMMA Fetched ==
  ASSUME NEW f \in MakeFeeds \union TypeFeeds
  PROVE  /\ fetchAllMakes(f) \in Seq(ToSet(f) \union {[id |-> 0, name |-> Empty]})
         /\ {i \in DOMAIN fetchAllMakes(f) : isValidMake(fetchAllMakes(f)[i])} = Places(f)
         /\ \A i \in Places(f) : fetchAllMakes(f)[i] = f[i]
<1> DEFINE r == fetchAllMakes(f)
           x == extract(parse(f))
           U == ToSet(f) \union {[id |-> 0, name |-> Empty]}
<1>1. f \in Seq(ToSet(f)) /\ Len(f) \in Nat /\ DOMAIN f = 1 .. Len(f)
  BY FeedAssumption, LenProperties
<1>2. r = [i \in DOMAIN x |-> IF x[i] = Empty THEN [id |-> 0, name |-> Empty] ELSE x[i]]
  BY DEF fetchAllMakes
<1> HIDE DEF r, x
<1>3. CASE x = f
  <2>1. DOMAIN r = 1 .. Len(f)
    BY <1>1, <1>2, <1>3
  <2>2. \A i \in 1 .. Len(f) :
          r[i] = IF f[i] = Empty THEN [id |-> 0, name |-> Empty] ELSE f[i]
    BY <1>1, <1>2, <1>3
  <2>3. \A i \in 1 .. Len(f) : f[i] \in ToSet(f)
    BY <1>1 DEF ToSet
  <2>4. r \in [1 .. Len(f) -> U]
    BY <1>1, <1>2, <1>3, <2>3
  <2>5. ASSUME NEW i \in 1 .. Len(f)
        PROVE  isValidMake(r[i]) <=> Usable(f[i])
    <3>1. CASE f[i] = Empty
      BY <2>2, <3>1 DEF isValidMake, validId, Usable
    <3>2. CASE f[i] # Empty
      <4>1. r[i] = f[i]
        BY <2>2, <3>2
      <4> QED
        BY <3>2, <4>1 DEF isValidMake, validId, validName, Usable
    <3> QED
      BY <3>1, <3>2
  <2>6. {i \in DOMAIN r : isValidMake(r[i])} = Places(f)
    BY <1>1, <2>1, <2>5 DEF Places
  <2>7. \A i \in Places(f) : r[i] = f[i]
    BY <1>1, <2>2 DEF Places, Usable
  <2>8. r \in Seq(U)
    BY <1>1, <2>4
  <2> QED
    BY <2>6, <2>7, <2>8 DEF r
<1>4. CASE x = << >> /\ Places(f) = {}
  <2>1. r = << >>
    BY <1>2, <1>4
  <2>2. r \in Seq(U) /\ DOMAIN r = {}
    BY <2>1
  <2> QED
    BY <1>4, <2>2 DEF r
<1> QED
  BY <1>3, <1>4, Extracted DEF x

valid(f) ==
  filter(fetchAllMakes(f),
         {i \in DOMAIN fetchAllMakes(f) : isValidMake(fetchAllMakes(f)[i])})

\* s is the usable elements of an answer in their order, taken from the
\* places g.
TakesUsable(s, g, f, n) ==
  /\ n \in Nat /\ DOMAIN s = 1 .. n
  /\ \A k \in 1 .. n : g[k] \in Places(f) /\ s[k] = f[g[k]]
  /\ \A i \in Places(f) : \E k \in 1 .. n : g[k] = i
  /\ \A i, k \in 1 .. n : i < k => g[i] < g[k]

\* The valid elements, as both transformations filter them.
LEMMA Filtered ==
  ASSUME NEW f \in MakeFeeds \union TypeFeeds
  PROVE  \E n, g : TakesUsable(valid(f), g, f, n)
<1> DEFINE r == fetchAllMakes(f)
           P == {i \in DOMAIN r : isValidMake(r[i])}
           kept == filter(r, P)
           U == ToSet(f) \union {[id |-> 0, name |-> Empty]}
           n == Cardinality(P)
           g == InOrder(P)
<1>1. r \in Seq(U) /\ P = Places(f) /\ \A i \in Places(f) : r[i] = f[i]
  BY Fetched
<1>2. P \in SUBSET (DOMAIN r)
  OBVIOUS
<1> HIDE DEF r, P, U
<1>3. n \in Nat /\ DOMAIN kept = 1 .. n /\ Selects(g, kept, r, P)
  BY <1>1, <1>2, FilterIs
<1> HIDE DEF kept, n, g
<1>4. TakesUsable(kept, g, f, n)
  BY <1>1, <1>3 DEF Selects, TakesUsable
<1>5. kept = valid(f)
  BY DEF kept, r, P, valid
<1> QED
  BY <1>3, <1>4, <1>5

TakesMakes(d, g, f, n) ==
  /\ n \in Nat /\ DOMAIN d = 1 .. n
  /\ \A k \in 1 .. n :
       g[k] \in Places(f) /\ d[k] = [makeId |-> f[g[k]].id, makeName |-> f[g[k]].name]
  /\ \A i \in Places(f) : \E k \in 1 .. n : g[k] = i

LEMMA TransformedMakes ==
  ASSUME NEW f \in MakeFeeds
  PROVE  \E n, g : TakesMakes(transformMakes(fetchAllMakes(f)), g, f, n)
<1>1. PICK n, g : TakesUsable(valid(f), g, f, n)
  BY Filtered
<1> DEFINE v == valid(f)
           d == [i \in 1 .. n |-> [makeId |-> v[i].id, makeName |-> v[i].name]]
<1>2. transformMakes(fetchAllMakes(f)) = d
  BY <1>1 DEF transformMakes, valid, TakesUsable
<1> HIDE DEF v
<1>3. TakesMakes(d, g, f, n)
  BY <1>1 DEF TakesUsable, TakesMakes, v
<1> QED
  BY <1>2, <1>3

\* The transformation of an answer is what the entities accept: types with a
\* positive id and a name, no two of one id, and they are those of the answer.
LEMMA TransformedTypes ==
  ASSUME NEW f \in MakeFeeds \union TypeFeeds
  PROVE  /\ transformVehicleTypes(fetchVehicleTypes(f)) \in Seq(TypeSet)
         /\ Distinct(transformVehicleTypes(fetchVehicleTypes(f)))
         /\ ToSet(transformVehicleTypes(fetchVehicleTypes(f))) = TypesOf(f)
<1>1. PICK n, g : TakesUsable(valid(f), g, f, n)
  BY Filtered
<1>0. n \in Nat
  BY <1>1 DEF TakesUsable
<1> DEFINE v == valid(f)
           Type(i) == [typeId |-> f[i].id, typeName |-> f[i].name]
           pre == [k \in 1 .. n |-> Type(g[k])]
           types == deduplicateTypes(pre)
<1>2. transformVehicleTypes(fetchVehicleTypes(f)) = types
  <2>1. v = filter(fetchVehicleTypes(f),
                  {i \in DOMAIN fetchVehicleTypes(f) :
                     isValidVehicleType(fetchVehicleTypes(f)[i])})
    BY DEF v, valid, fetchVehicleTypes, isValidMake, isValidVehicleType
  <2>2. pre = [i \in DOMAIN v |-> [typeId |-> v[i].id, typeName |-> v[i].name]]
    BY <1>1 DEF TakesUsable
  <2> HIDE DEF v
  <2> HIDE DEF pre
  <2> QED
    BY <2>1, <2>2 DEF transformVehicleTypes
<1>3. \A k \in 1 .. n : g[k] \in Places(f) /\ g[k] \in 1 .. Len(f) /\ Len(f) \in Nat
  <2>1. f \in Seq(ToSet(f)) /\ Len(f) \in Nat
    BY FeedAssumption, LenProperties
  <2> QED
    BY <1>1, <2>1, UsablePlace DEF TakesUsable
<1>4. \A k \in 1 .. n : Type(g[k]) \in TypeSet
  BY <1>3, UsablePlace DEF TypeSet
<1>5. pre \in Seq(TypeSet) /\ DOMAIN pre = 1 .. n
  BY <1>0, <1>4
<1>6. \A k \in 1 .. n : pre[k] = Type(g[k]) /\ pre[k].typeId = f[g[k]].id
  OBVIOUS
<1> HIDE DEF pre
<1>7. Kept(types, pre, n, TypeSet)
  BY <1>0, <1>5, Deduplicated
<1> HIDE DEF types
<1>8. \A k \in 1 .. n : k \in Firsts(pre, n) <=> g[k] \in FirstUsable(f)
  <2> SUFFICES ASSUME NEW k \in 1 .. n
               PROVE  k \in Firsts(pre, n) <=> g[k] \in FirstUsable(f)
    OBVIOUS
  <2>1. ASSUME k \in Firsts(pre, n) PROVE g[k] \in FirstUsable(f)
    <3> SUFFICES ASSUME NEW j \in 1 .. g[k] - 1, Usable(f[j])
                 PROVE  f[j].id # f[g[k]].id
      BY <1>3 DEF FirstUsable, Places
    <3>1. DOMAIN f = 1 .. Len(f)
      BY FeedAssumption, LenProperties
    <3>2. j \in Places(f)
      BY <1>3, <3>1 DEF Places
    <3>3. PICK l \in 1 .. n : g[l] = j
      BY <1>1, <3>2 DEF TakesUsable
    <3>4. l < k
      <4>1. ~(k < l)
        BY <1>1, <1>3, <3>3 DEF TakesUsable
      <4>2. k # l
        BY <1>3, <3>3
      <4> QED
        BY <4>1, <4>2
    <3>5. pre[l].typeId # pre[k].typeId
      BY <2>1, <3>4 DEF Firsts
    <3> QED
      BY <1>6, <3>3, <3>5
  <2>2. ASSUME g[k] \in FirstUsable(f) PROVE k \in Firsts(pre, n)
    <3> SUFFICES ASSUME NEW l \in 1 .. k - 1
                 PROVE  pre[l].typeId # pre[k].typeId
      BY DEF Firsts
    <3>1. l \in 1 .. n /\ l < k
      BY <1>0
    <3>2. g[l] \in 1 .. g[k] - 1 /\ Usable(f[g[l]])
      BY <1>1, <1>3, <3>1 DEF Places, TakesUsable
    <3>3. f[g[l]].id # f[g[k]].id
      BY <2>2, <3>2 DEF FirstUsable
    <3> QED
      BY <1>6, <3>1, <3>3
  <2> QED
    BY <2>1, <2>2
<1>9. ToSet(types) = TypesOf(f)
  <2>1. ToSet(types) = {pre[k] : k \in Firsts(pre, n)}
    BY <1>7 DEF Kept
  <2>2. ASSUME NEW k \in Firsts(pre, n) PROVE pre[k] \in TypesOf(f)
    <3>1. k \in 1 .. n
      BY DEF Firsts
    <3> QED
      BY <1>6, <1>8, <3>1 DEF TypesOf
  <2>3. ASSUME NEW i \in FirstUsable(f) PROVE Type(i) \in {pre[k] : k \in Firsts(pre, n)}
    <3>1. i \in Places(f)
      BY DEF FirstUsable, Places
    <3>2. PICK k \in 1 .. n : g[k] = i
      BY <1>1, <3>1 DEF TakesUsable
    <3> QED
      BY <1>6, <1>8, <3>2
  <2> QED
    BY <2>1, <2>2, <2>3 DEF TypesOf
<1> QED
  BY <1>2, <1>7, <1>9 DEF Kept

-----------------------------------------------------------------------------
(***************************************************************************)
(* The aggregates that are made of the answers.                            *)
(***************************************************************************)
Aggregates ==
  [id : Nat, makeId : Nat \ {0}, makeName : Names, vehicleTypes : Seq(TypeSet),
   touched : {FALSE}]

\* Deduplication of a list without two types of one id.
LEMMA DeduplicatedAgain ==
  ASSUME NEW T, NEW s \in Seq(T), Distinct(s)
  PROVE  /\ deduplicateTypes(s) \in Seq(T)
         /\ Distinct(deduplicateTypes(s))
         /\ ToSet(deduplicateTypes(s)) = ToSet(s)
<1> DEFINE n == Len(s)
<1>1. n \in Nat /\ DOMAIN s = 1 .. n
  OBVIOUS
<1> HIDE DEF n
<1>2. Kept(deduplicateTypes(s), s, n, T)
  BY <1>1, Deduplicated
<1>3. Firsts(s, n) = 1 .. n
  <2> SUFFICES ASSUME NEW i \in 1 .. n, NEW k \in 1 .. i - 1
               PROVE  s[k].typeId # s[i].typeId
    BY DEF Firsts
  <2>1. k \in 1 .. n /\ k # i
    BY <1>1
  <2> QED
    BY <1>1, <2>1 DEF Distinct
<1>4. ToSet(s) = {s[i] : i \in 1 .. n}
  BY <1>1 DEF ToSet
<1> QED
  BY <1>2, <1>3, <1>4 DEF Kept

\* What createDomainModels makes of a make with these types.
Made(i, makeId, makeName, types) ==
  create(i, [makeId |-> makeId, makeName |-> makeName,
             vehicleTypes |-> [k \in DOMAIN types |-> createType(types[k])]])

\* An aggregate has the types that it is created with.
LEMMA Created ==
  ASSUME NEW i \in Nat, NEW makeId \in Nat \ {0}, NEW makeName \in Names,
         NEW types \in Seq(TypeSet), Distinct(types)
  PROVE  /\ Made(i, makeId, makeName, types) \in Aggregates
         /\ Made(i, makeId, makeName, types).id = i
         /\ Made(i, makeId, makeName, types).makeId = makeId
         /\ Made(i, makeId, makeName, types).makeName = makeName
         /\ Distinct(Made(i, makeId, makeName, types).vehicleTypes)
         /\ ToSet(Made(i, makeId, makeName, types).vehicleTypes) = ToSet(types)
<1> DEFINE again == [k \in DOMAIN types |-> createType(types[k])]
           kept == deduplicateTypes(types)
           m == Made(i, makeId, makeName, types)
<1>1. again = types
  <2>1. DOMAIN types = 1 .. Len(types) /\ \A k \in 1 .. Len(types) : types[k] \in TypeSet
    OBVIOUS
  <2>2. \A k \in 1 .. Len(types) : createType(types[k]) = types[k]
    BY <2>1 DEF createType, TypeSet
  <2> QED
    BY <2>1, <2>2
<1>2. kept \in Seq(TypeSet) /\ Distinct(kept) /\ ToSet(kept) = ToSet(types)
  BY DeduplicatedAgain
<1> HIDE DEF again
<1>3. m = [id |-> i, makeId |-> makeId, makeName |-> makeName,
           vehicleTypes |-> kept, touched |-> FALSE]
  BY <1>1 DEF Made, create, again
<1> HIDE DEF kept, m
<1>4. [id |-> i, makeId |-> makeId, makeName |-> makeName,
       vehicleTypes |-> kept, touched |-> FALSE] \in Aggregates
  BY <1>2, Zenon DEF Aggregates
<1>5. m.id = i /\ m.makeId = makeId /\ m.makeName = makeName /\ m.vehicleTypes = kept
  BY <1>3
<1> QED
  BY <1>2, <1>3, <1>4, <1>5 DEF m

-----------------------------------------------------------------------------
(***************************************************************************)
(* The inductive invariant.                                                *)
(***************************************************************************)
Ingestions == {"getAllMakes", "fetch", "saveMany", "done", "collided"}

\* What was fetched is what the parser makes of the answers.
AnswersFetched ==
  /\ ingestion # "getAllMakes" => feed \in MakeFeeds /\ makes = fetchAllMakes(feed)
  /\ DOMAIN typesMap = DOMAIN answers
  /\ \A m \in DOMAIN answers :
       answers[m] \in TypeFeeds /\ typesMap[m] = fetchVehicleTypes(answers[m])

\* The aggregates s are usable makes of the feed with the types of their
\* answers.
FromFeed(s) ==
  /\ s \in Seq(Aggregates)
  /\ \A i \in DOMAIN s :
       /\ s[i].id = i
       /\ Distinct(s[i].vehicleTypes)
       /\ [id |-> s[i].makeId, name |-> s[i].makeName] \in MakesInFeed
       /\ ToSet(s[i].vehicleTypes) = TypesInFeed(s[i].makeId)

\* Every usable make of the feed is among them.
WholeFeed(s) ==
  \A e \in MakesInFeed : \E i \in DOMAIN s : s[i].makeId = e.id /\ s[i].makeName = e.name

ModelsBuilt ==
  /\ ingestion \in Ingestions
  /\ FromFeed(models)
  /\ ingestion \in {"getAllMakes", "fetch"} => models = << >>
  /\ ingestion \notin {"getAllMakes", "fetch"} => WholeFeed(models)

\* The tables hold the first saved aggregates, whose make ids differ.
Stored ==
  /\ saved \in 0 .. Len(models)
  /\ makeRows = {toORM(models[i]) : i \in 1 .. saved}
  /\ typeRows = UNION {vehicleTypesToORM(models[i]) : i \in 1 .. saved}
  /\ \A i, k \in 1 .. saved : models[i].makeId = models[k].makeId => i = k
  /\ ingestion = "done" => saved = Len(models)
  /\ ingestion = "collided" =>
       \E i, k \in DOMAIN models : i # k /\ models[i].makeId = models[k].makeId

\* A make on the page is stored, and was shown with all of its types.
Shown ==
  /\ \A i \in DOMAIN page :
       /\ page[i].id \in 1 .. saved
       /\ page[i].vehicleTypes = ToSet(models[page[i].id].vehicleTypes)
  /\ request = "answered" => \A i \in DOMAIN page : loaded[i] = page[i].vehicleTypes

IInv == AnswersFetched /\ ModelsBuilt /\ Stored /\ Shown

\* What execute() finds in typesMap for a make.
TypesFor(m) ==
  IF m \in DOMAIN typesMap THEN transformVehicleTypes(typesMap[m]) ELSE << >>

LEMMA TypesForIs ==
  ASSUME AnswersFetched, NEW m
  PROVE  /\ TypesFor(m) \in Seq(TypeSet)
         /\ Distinct(TypesFor(m))
         /\ ToSet(TypesFor(m)) = TypesInFeed(m)
<1>1. CASE m \in DOMAIN answers
  <2>1. answers[m] \in TypeFeeds /\ TypesFor(m) = transformVehicleTypes(fetchVehicleTypes(answers[m]))
    BY <1>1 DEF AnswersFetched, TypesFor
  <2>2. TypesInFeed(m) = TypesOf(answers[m])
    BY <1>1 DEF TypesInFeed, TypesOf, FirstUsable
  <2> QED
    BY <2>1, <2>2, TransformedTypes
<1>2. CASE m \notin DOMAIN answers
  <2>1. TypesFor(m) = << >> /\ TypesInFeed(m) = {}
    BY <1>2 DEF AnswersFetched, TypesFor, TypesInFeed
  <2>2. DOMAIN << >> = {} /\ << >> \in Seq(TypeSet)
    OBVIOUS
  <2> QED
    BY <2>1, <2>2 DEF Distinct, ToSet
<1> QED
  BY <1>1, <1>2

\* d is the data for the usable makes of the feed, taken from the places g.
TakesData(d, g, n) ==
  /\ n \in Nat /\ DOMAIN d = 1 .. n
  /\ \A i \in 1 .. n :
       /\ g[i] \in Places(feed)
       /\ d[i] = [makeId |-> feed[g[i]].id, makeName |-> feed[g[i]].name,
                  vehicleTypes |-> TypesFor(feed[g[i]].id)]
  /\ \A p \in Places(feed) : \E i \in 1 .. n : g[i] = p

LEMMA Executed ==
  ASSUME AnswersFetched, ingestion = "fetch"
  PROVE  \E n, g : TakesData(execute(makes, typesMap), g, n)
<1>1. feed \in MakeFeeds /\ makes = fetchAllMakes(feed)
  BY DEF AnswersFetched
<1> DEFINE tm == transformMakes(makes)
           types == [m \in DOMAIN typesMap |-> transformVehicleTypes(typesMap[m])]
           data == execute(makes, typesMap)
<1>2. PICK n, g : TakesMakes(tm, g, feed, n)
  BY <1>1, TransformedMakes
<1>3. data = [i \in DOMAIN tm |->
                [makeId |-> tm[i].makeId, makeName |-> tm[i].makeName,
                 vehicleTypes |-> IF tm[i].makeId \in DOMAIN types
                                    THEN types[tm[i].makeId] ELSE << >>]]
  BY DEF execute, combineData
<1>4. \A m : (IF m \in DOMAIN types THEN types[m] ELSE << >>) = TypesFor(m)
  BY DEF TypesFor
<1> HIDE DEF tm, types, data
<1>5. \A i \in 1 .. n : g[i] \in Places(feed)
                      /\ tm[i] = [makeId |-> feed[g[i]].id, makeName |-> feed[g[i]].name]
  BY <1>2 DEF TakesMakes
<1>6. n \in Nat /\ DOMAIN tm = 1 .. n
  BY <1>2 DEF TakesMakes
<1>7. \A i \in 1 .. n :
        data[i] = [makeId |-> feed[g[i]].id, makeName |-> feed[g[i]].name,
                   vehicleTypes |-> TypesFor(feed[g[i]].id)]
  BY <1>3, <1>4, <1>5, <1>6
<1>8. DOMAIN data = 1 .. n
  BY <1>3, <1>6
<1>9. TakesData(data, g, n)
  BY <1>2, <1>5, <1>6, <1>7, <1>8 DEF TakesData, TakesMakes
<1> QED
  BY <1>9 DEF data

\* Building the aggregates does not throw, and they are the feed.
LEMMA Built ==
  ASSUME AnswersFetched, ingestion = "fetch"
  PROVE  /\ CanCreateModels(execute(makes, typesMap))
         /\ FromFeed(createDomainModels(execute(makes, typesMap)))
         /\ WholeFeed(createDomainModels(execute(makes, typesMap)))
<1> DEFINE data == execute(makes, typesMap)
           built == createDomainModels(data)
<1>1. feed \in MakeFeeds
  BY DEF AnswersFetched
<1>2. PICK n, g : TakesData(data, g, n)
  BY Executed
<1> DEFINE e(i) == feed[g[i]]
<1> HIDE DEF data
<1>3. n \in Nat /\ DOMAIN data = 1 .. n
  BY <1>2 DEF TakesData
<1>4. ASSUME NEW i \in 1 .. n
      PROVE  /\ g[i] \in Places(feed) /\ e(i) \in MakesInFeed
             /\ e(i).id \in Nat \ {0} /\ e(i).name \in Names
             /\ data[i] = [makeId |-> e(i).id, makeName |-> e(i).name,
                           vehicleTypes |-> TypesFor(e(i).id)]
  <2>1. g[i] \in Places(feed)
    BY <1>2 DEF TakesData
  <2>2. e(i).id \in Nat \ {0} /\ e(i).name \in Names
    BY <1>1, <2>1, UsablePlace
  <2>3. e(i) \in MakesInFeed
    BY <2>1 DEF MakesInFeed, Places, ToSet
  <2>4. data[i] = [makeId |-> e(i).id, makeName |-> e(i).name,
                   vehicleTypes |-> TypesFor(e(i).id)]
    BY <1>2 DEF TakesData
  <2> QED
    BY <2>1, <2>2, <2>3, <2>4
<1>5. CanCreateModels(data)
  <2> SUFFICES ASSUME NEW i \in 1 .. n
               PROVE  /\ validate(data[i])
                      /\ \A k \in DOMAIN data[i].vehicleTypes :
                           validateType(data[i].vehicleTypes[k])
    BY <1>3 DEF CanCreateModels
  <2>0. /\ data[i].makeId = e(i).id /\ data[i].makeName = e(i).name
        /\ data[i].vehicleTypes = TypesFor(e(i).id)
        /\ e(i).id \in Nat \ {0} /\ e(i).name \in Names
    <3>1. data[i] = [makeId |-> e(i).id, makeName |-> e(i).name,
                     vehicleTypes |-> TypesFor(e(i).id)]
      BY <1>4
    <3>2. e(i).id \in Nat \ {0} /\ e(i).name \in Names
      BY <1>4
    <3> HIDE DEF e
    <3> QED
      BY <3>1, <3>2
  <2>1. validate(data[i])
    <3>1. data[i].makeId \in Nat \ {0} /\ data[i].makeName \in Names
      BY <2>0
    <3>2. data[i].makeId > 0
      BY <3>1
    <3> QED
      BY <3>1, <3>2 DEF validate, validId, validName
  <2>2. data[i].vehicleTypes \in Seq(TypeSet)
    BY <2>0, TypesForIs
  <2>3. ASSUME NEW k \in DOMAIN data[i].vehicleTypes
        PROVE  validateType(data[i].vehicleTypes[k])
    <3>1. data[i].vehicleTypes[k] \in TypeSet
      BY <2>2
    <3> QED
      BY <3>1 DEF TypeSet, validateType, validId, validName
  <2> QED
    BY <2>1, <2>3
<1>6. ASSUME NEW i \in 1 .. n
      PROVE  /\ built[i] \in Aggregates
             /\ built[i].id = i
             /\ built[i].makeId = e(i).id /\ built[i].makeName = e(i).name
             /\ Distinct(built[i].vehicleTypes)
             /\ ToSet(built[i].vehicleTypes) = TypesInFeed(e(i).id)
  <2> DEFINE types == TypesFor(e(i).id)
             id == e(i).id
             name == e(i).name
             m == built[i]
  <2>1. types \in Seq(TypeSet) /\ Distinct(types) /\ ToSet(types) = TypesInFeed(id)
    BY TypesForIs
  <2>2. m = create(i, [data[i] EXCEPT !.vehicleTypes =
                         [k \in DOMAIN data[i].vehicleTypes |->
                            createType(data[i].vehicleTypes[k])]])
    BY <1>3 DEF createDomainModels
  <2>3. id \in Nat \ {0} /\ name \in Names /\ i \in Nat
        /\ data[i] = [makeId |-> id, makeName |-> name, vehicleTypes |-> types]
    BY <1>4
  <2> HIDE DEF types, id, name, m
  <2>4. [data[i] EXCEPT !.vehicleTypes =
           [k \in DOMAIN data[i].vehicleTypes |-> createType(data[i].vehicleTypes[k])]]
          = [makeId |-> id, makeName |-> name,
             vehicleTypes |-> [k \in DOMAIN types |-> createType(types[k])]]
    BY <2>3
  <2>5. m = Made(i, id, name, types)
    BY <2>2, <2>4 DEF Made
  <2>6. /\ m \in Aggregates /\ m.id = i /\ m.makeId = id /\ m.makeName = name
        /\ Distinct(m.vehicleTypes) /\ ToSet(m.vehicleTypes) = ToSet(types)
    BY <2>1, <2>3, <2>5, Created
  <2> QED
    BY <2>1, <2>6 DEF id, name, m
<1>7. DOMAIN built = 1 .. n
  BY <1>3 DEF createDomainModels
<1>8. \E h : built = [i \in 1 .. n |-> h[i]]
  <2>1. built = [i \in 1 .. n |-> built[i]]
    BY <1>3 DEF createDomainModels
  <2> HIDE DEF built
  <2> QED
    BY <2>1
<1> HIDE DEF built
<1>9. built \in Seq(Aggregates)
  BY <1>3, <1>6, <1>8
<1>10. FromFeed(built)
  <2> SUFFICES ASSUME NEW i \in 1 .. n
               PROVE  /\ built[i].id = i
                      /\ Distinct(built[i].vehicleTypes)
                      /\ [id |-> built[i].makeId, name |-> built[i].makeName] \in MakesInFeed
                      /\ ToSet(built[i].vehicleTypes) = TypesInFeed(built[i].makeId)
    BY <1>7, <1>9 DEF FromFeed
  <2>1. [id |-> built[i].makeId, name |-> built[i].makeName] = e(i)
    <3>1. e(i) = [id |-> e(i).id, name |-> e(i).name]
      BY <1>1, <1>4, UsablePlace
    <3> HIDE DEF e
    <3> QED
      BY <1>6, <3>1, Zenon
  <2>2. e(i) \in MakesInFeed
    BY <1>4
  <2> QED
    BY <1>6, <2>1, <2>2
<1>11. WholeFeed(built)
  <2> SUFFICES ASSUME NEW u \in MakesInFeed
               PROVE  \E i \in 1 .. n : built[i].makeId = u.id /\ built[i].makeName = u.name
    BY <1>7 DEF WholeFeed
  <2>1. PICK p \in Places(feed) : feed[p] = u
    BY DEF MakesInFeed, Places, ToSet
  <2>2. PICK i \in 1 .. n : g[i] = p
    BY <1>2, <2>1 DEF TakesData
  <2> QED
    BY <1>6, <2>1, <2>2
<1> QED
  BY <1>5, <1>10, <1>11 DEF built, data

-----------------------------------------------------------------------------
(***************************************************************************)
(* Reading the tables.                                                     *)
(***************************************************************************)
LEMMA SetToSeqIs ==
  ASSUME NEW S, IsFiniteSet(S)
  PROVE  SetToSeq(S) \in SetToSeqs(S)
<1> DEFINE n == Cardinality(S)
<1>1. PICK f \in [1 .. n -> S] : IsInjective(f)
  BY FS_CardinalityType DEF ExistsBijection, Bijection, Injection
<1>2. SetToSeq(S) \in [1 .. n -> S] /\ IsInjective(SetToSeq(S))
  BY <1>1, Zenon DEF SetToSeq
<1> QED
  BY <1>2 DEF SetToSeqs, IsInjective

\* A finite set of types with different ids, as a list.
LEMMA Listed ==
  ASSUME NEW S, IsFiniteSet(S), \A t, u \in S : t.typeId = u.typeId => t = u
  PROVE  SetToSeq(S) \in Seq(S) /\ Distinct(SetToSeq(S)) /\ ToSet(SetToSeq(S)) = S
<1> DEFINE s == SetToSeq(S)
           n == Cardinality(S)
<1>1. /\ n \in Nat /\ s \in [1 .. n -> S] /\ s \in Seq(S) /\ Len(s) = n
      /\ \A i, k \in 1 .. n : s[i] = s[k] => i = k
      /\ \A x \in S : \E i \in 1 .. n : s[i] = x
  <2>1. s \in SetToSeqs(S)
    BY SetToSeqIs
  <2> HIDE DEF s
  <2> QED
    BY <2>1, Enumerates
<1> HIDE DEF s, n
<1>2. Distinct(s)
  BY <1>1 DEF Distinct
<1>3. ToSet(s) = S
  BY <1>1 DEF ToSet
<1> QED
  BY <1>1, <1>2, <1>3 DEF s

\* An aggregate that is read has the types of the rows that the join gave it.
LEMMA ToDomain ==
  ASSUME NEW row, NEW rows, NEW S, IsFiniteSet(S),
         S = {vehicleTypeToDomain(t) : t \in {r \in rows : r.vehicleMakeId = row.id}},
         \A t, u \in S : t.typeId = u.typeId => t = u
  PROVE  /\ toDomain(row, rows).id = row.id
         /\ toDomain(row, rows).makeId = row.makeId
         /\ toDomain(row, rows).makeName = row.makeName
         /\ ToSet(toDomain(row, rows).vehicleTypes) = S
         /\ Len(toDomain(row, rows).vehicleTypes) = Cardinality(S)
<1> DEFINE s == SetToSeq(S)
<1>1. toDomain(row, rows) =
        create(row.id, [makeId |-> row.makeId, makeName |-> row.makeName,
                        vehicleTypes |-> s])
  BY DEF toDomain
<1>2. s \in Seq(S) /\ Distinct(s) /\ ToSet(s) = S
  BY Listed
<1> HIDE DEF s
<1> DEFINE types == deduplicateTypes(s)
<1>5. types \in Seq(S) /\ Distinct(types) /\ ToSet(types) = S
  BY <1>2, DeduplicatedAgain
<1>6. Len(types) = Cardinality(S)
  BY <1>5, DistinctCount
<1>7. toDomain(row, rows) = [id |-> row.id, makeId |-> row.makeId, makeName |-> row.makeName,
                             vehicleTypes |-> types, touched |-> FALSE]
  BY <1>1 DEF create
<1> HIDE DEF types
<1>8. /\ toDomain(row, rows).id = row.id
      /\ toDomain(row, rows).makeId = row.makeId
      /\ toDomain(row, rows).makeName = row.makeName
      /\ toDomain(row, rows).vehicleTypes = types
  BY <1>7
<1> QED
  BY <1>5, <1>6, <1>8

\* The rows of vehicle_types that fit a type id, 0 for all, and the types of
\* an aggregate that do.
TypeRows(typeId) == {t \in typeRows : typeId \in {0, t.typeId}}
Fitting(types, typeId) == {t \in ToSet(types) : typeId \in {0, t.typeId}}

LEMMA StoredModel ==
  ASSUME FromFeed(models), NEW k \in DOMAIN models
  PROVE  /\ models[k] \in Aggregates /\ models[k].id = k
         /\ models[k].makeId \in Nat \ {0}
         /\ models[k].makeName \in Names
         /\ models[k].vehicleTypes \in Seq(TypeSet)
         /\ Distinct(models[k].vehicleTypes)
         /\ IsFiniteSet(ToSet(models[k].vehicleTypes))
         /\ ToSet(models[k].vehicleTypes) \in SUBSET TypeSet
         /\ \A t, u \in ToSet(models[k].vehicleTypes) : t.typeId = u.typeId => t = u
         /\ toORM(models[k]) = [id |-> k, makeId |-> models[k].makeId,
                                makeName |-> models[k].makeName]
<1> DEFINE types == models[k].vehicleTypes
<1>1. models[k] \in Aggregates /\ models[k].id = k /\ Distinct(types)
  <2>1. models \in Seq(Aggregates)
    BY DEF FromFeed
  <2>2. models[k] \in Aggregates
    BY <2>1
  <2>3. models[k].id = k /\ Distinct(types)
    BY DEF FromFeed
  <2> QED
    BY <2>2, <2>3
<1>2. /\ models[k].makeId \in Nat \ {0} /\ models[k].makeName \in Names
      /\ types \in Seq(TypeSet)
  BY <1>1 DEF Aggregates
<1>3. toORM(models[k]) = [id |-> k, makeId |-> models[k].makeId,
                          makeName |-> models[k].makeName]
  BY <1>1 DEF toORM
<1> HIDE DEF types
<1>4. DOMAIN types = 1 .. Len(types) /\ Len(types) \in Nat
  BY <1>2
<1>5. IsFiniteSet(ToSet(types)) /\ ToSet(types) \in SUBSET TypeSet
  <2>1. types \in [1 .. Len(types) -> ToSet(types)]
        /\ \A t \in ToSet(types) : \E i \in 1 .. Len(types) : types[i] = t
    BY <1>2, <1>4 DEF ToSet
  <2>2. types \in Surjection(1 .. Len(types), ToSet(types))
    BY <2>1 DEF Surjection
  <2>3. 1 \in Int /\ Len(types) \in Int
    BY <1>4
  <2>4. IsFiniteSet(1 .. Len(types))
    BY <2>3, FS_Interval
  <2>5. IsFiniteSet(ToSet(types))
    BY <2>2, <2>4, FS_Surjection
  <2> QED
    BY <1>2, <1>4, <2>5 DEF ToSet
<1>6. \A t, u \in ToSet(types) : t.typeId = u.typeId => t = u
  BY <1>1 DEF Distinct, ToSet
<1> QED
  BY <1>1, <1>2, <1>3, <1>5, <1>6 DEF types

\* The rows of a make are its types and no others.
LEMMA StoredTypes ==
  ASSUME FromFeed(models), Stored, NEW k \in 1 .. saved, NEW typeId
  PROVE  {vehicleTypeToDomain(t) : t \in {r \in TypeRows(typeId) : r.vehicleMakeId = k}} =
           Fitting(models[k].vehicleTypes, typeId)
<1> DEFINE types == models[k].vehicleTypes
           R == {r \in TypeRows(typeId) : r.vehicleMakeId = k}
           Row(i, t) == [vehicleMakeId |-> models[i].id, typeId |-> t.typeId,
                         typeName |-> t.typeName]
<1>0. \A i \in 1 .. saved : i \in DOMAIN models
  BY DEF Stored, FromFeed
<1>1. \A i \in 1 .. saved : vehicleTypesToORM(models[i]) =
                              {Row(i, t) : t \in ToSet(models[i].vehicleTypes)}
  BY DEF vehicleTypesToORM
<1>2. ASSUME NEW r \in R
      PROVE  vehicleTypeToDomain(r) \in Fitting(types, typeId)
  <2>1. r \in typeRows /\ typeId \in {0, r.typeId} /\ r.vehicleMakeId = k
    BY DEF TypeRows
  <2>2. PICK i \in 1 .. saved : r \in vehicleTypesToORM(models[i])
    BY <2>1 DEF Stored
  <2>3. PICK t \in ToSet(models[i].vehicleTypes) : r = Row(i, t)
    BY <1>1, <2>2
  <2>4. models[i].id = i
    BY <1>0, StoredModel
  <2>5. i = k /\ r.typeId = t.typeId /\ r.typeName = t.typeName
    BY <2>1, <2>3, <2>4
  <2>6. t \in TypeSet
    BY <1>0, <2>3, StoredModel
  <2>7. vehicleTypeToDomain(r) = t
    BY <2>5, <2>6 DEF vehicleTypeToDomain, createType, TypeSet
  <2> QED
    BY <2>1, <2>3, <2>5, <2>7 DEF Fitting
<1>3. ASSUME NEW t \in Fitting(types, typeId)
      PROVE  \E r \in R : vehicleTypeToDomain(r) = t
  <2>1. t \in ToSet(types) /\ typeId \in {0, t.typeId}
    BY DEF Fitting
  <2>2. t \in TypeSet /\ models[k].id = k
    BY <1>0, <2>1, StoredModel
  <2>3. Row(k, t) \in typeRows
    BY <1>1, <2>1 DEF Stored
  <2>4. Row(k, t).vehicleMakeId = k /\ Row(k, t).typeId = t.typeId
        /\ Row(k, t).typeName = t.typeName
    BY <2>2
  <2>5. Row(k, t) \in R
    BY <2>1, <2>3, <2>4 DEF TypeRows
  <2>6. vehicleTypeToDomain(Row(k, t)) = t
    BY <2>2, <2>4 DEF vehicleTypeToDomain, createType, TypeSet
  <2> QED
    BY <2>5, <2>6
<1> HIDE DEF R
<1>4. {vehicleTypeToDomain(t) : t \in R} = Fitting(types, typeId)
  BY <1>2, <1>3
<1> QED
  BY <1>4 DEF R

\* A stored make is read as it was created, with those types that fit.
LEMMA Reads ==
  ASSUME FromFeed(models), Stored, NEW k \in 1 .. saved, NEW typeId,
         NEW m, m = toDomain(toORM(models[k]), TypeRows(typeId))
  PROVE  /\ m.id = k
         /\ m.makeId = models[k].makeId /\ m.makeName = models[k].makeName
         /\ ToSet(m.vehicleTypes) = Fitting(models[k].vehicleTypes, typeId)
         /\ Len(m.vehicleTypes) = Cardinality(Fitting(models[k].vehicleTypes, typeId))
<1> DEFINE row == toORM(models[k])
           S == Fitting(models[k].vehicleTypes, typeId)
<1>0. k \in DOMAIN models
  BY DEF Stored, FromFeed
<1>1. row = [id |-> k, makeId |-> models[k].makeId, makeName |-> models[k].makeName]
  BY <1>0, StoredModel
<1>2. row.id = k /\ row.makeId = models[k].makeId /\ row.makeName = models[k].makeName
  BY <1>1
<1> HIDE DEF row
<1>3. S = {vehicleTypeToDomain(t) : t \in {r \in TypeRows(typeId) : r.vehicleMakeId = row.id}}
  BY <1>2, StoredTypes
<1>4. IsFiniteSet(S) /\ \A t, u \in S : t.typeId = u.typeId => t = u
  <2>1. S \in SUBSET ToSet(models[k].vehicleTypes)
    BY DEF Fitting
  <2>2. IsFiniteSet(ToSet(models[k].vehicleTypes))
        /\ \A t, u \in ToSet(models[k].vehicleTypes) : t.typeId = u.typeId => t = u
    BY <1>0, StoredModel
  <2> HIDE DEF S
  <2> QED
    BY <2>1, <2>2, FS_Subset
<1> HIDE DEF S
<1> DEFINE d == toDomain(row, TypeRows(typeId))
<1>5. /\ d.id = row.id /\ d.makeId = row.makeId /\ d.makeName = row.makeName
      /\ ToSet(d.vehicleTypes) = S /\ Len(d.vehicleTypes) = Cardinality(S)
  BY <1>3, <1>4, ToDomain
<1>6. m = d
  BY DEF row
<1> HIDE DEF d
<1> QED
  BY <1>2, <1>5, <1>6 DEF S

\* Without a filter all types are read.
LEMMA ReadsAll ==
  ASSUME FromFeed(models), Stored, NEW k \in 1 .. saved,
         NEW m, m = Domain(toORM(models[k]))
  PROVE  /\ m.id = k
         /\ m.makeId = models[k].makeId /\ m.makeName = models[k].makeName
         /\ ToSet(m.vehicleTypes) = ToSet(models[k].vehicleTypes)
         /\ Len(m.vehicleTypes) = Cardinality(ToSet(models[k].vehicleTypes))
<1>1. TypeRows(0) = typeRows
  BY DEF TypeRows
<1>2. Fitting(models[k].vehicleTypes, 0) = ToSet(models[k].vehicleTypes)
  BY DEF Fitting
<1>3. m = toDomain(toORM(models[k]), TypeRows(0))
  BY <1>1 DEF Domain
<1> QED
  BY <1>2, <1>3, Reads

LEMMA MakeRows ==
  ASSUME FromFeed(models), Stored
  PROVE  /\ IsFiniteSet(makeRows)
         /\ \A row \in makeRows :
              /\ row.id \in 1 .. saved
              /\ row = toORM(models[row.id])
              /\ row.makeId = models[row.id].makeId
              /\ row.makeName = models[row.id].makeName
              /\ row.makeId \in Nat \ {0}
         /\ \A k \in 1 .. saved :
              \E row \in makeRows : row.id = k /\ row = toORM(models[k])
         /\ \A r1, r2 \in makeRows : r1.makeId = r2.makeId => r1 = r2
<1> DEFINE f == [k \in 1 .. saved |-> toORM(models[k])]
<1>1. \A k \in 1 .. saved : k \in DOMAIN models
  BY DEF Stored, FromFeed
<1>2. makeRows = {toORM(models[k]) : k \in 1 .. saved} /\ saved \in Nat
  BY DEF Stored, FromFeed
<1>3. IsFiniteSet(makeRows)
  <2>1. f \in Surjection(1 .. saved, makeRows)
    BY <1>2 DEF Surjection
  <2>2. 1 \in Int /\ saved \in Int
    BY <1>2
  <2>3. IsFiniteSet(1 .. saved)
    BY <2>2, FS_Interval
  <2> QED
    BY <2>1, <2>3, FS_Surjection
<1>4. ASSUME NEW k \in 1 .. saved
      PROVE  /\ toORM(models[k]).id = k
             /\ toORM(models[k]).makeId = models[k].makeId
             /\ toORM(models[k]).makeName = models[k].makeName
             /\ models[k].makeId \in Nat \ {0}
  <2>1. toORM(models[k]) = [id |-> k, makeId |-> models[k].makeId,
                            makeName |-> models[k].makeName]
    BY <1>1, StoredModel
  <2>2. models[k].makeId \in Nat \ {0}
    BY <1>1, StoredModel
  <2> QED
    BY <2>1, <2>2
<1>5. ASSUME NEW row \in makeRows
      PROVE  \E k \in 1 .. saved : row = toORM(models[k]) /\ row.id = k
  BY <1>2, <1>4
<1>6. ASSUME NEW row \in makeRows
      PROVE  /\ row.id \in 1 .. saved
             /\ row = toORM(models[row.id])
             /\ row.makeId = models[row.id].makeId
             /\ row.makeName = models[row.id].makeName
             /\ row.makeId \in Nat \ {0}
  <2>1. PICK k \in 1 .. saved : row = toORM(models[k]) /\ row.id = k
    BY <1>5
  <2>2. row.makeId = models[k].makeId /\ row.makeName = models[k].makeName
        /\ models[k].makeId \in Nat \ {0}
    BY <1>4, <2>1
  <2> QED
    BY <2>1, <2>2
<1>7. \A k \in 1 .. saved : \E row \in makeRows : row.id = k /\ row = toORM(models[k])
  BY <1>2, <1>4
<1>8. ASSUME NEW r1 \in makeRows, NEW r2 \in makeRows, r1.makeId = r2.makeId
      PROVE  r1 = r2
  <2>1. r1.id = r2.id
    BY <1>6, <1>8 DEF Stored
  <2>2. r1 = toORM(models[r1.id]) /\ r2 = toORM(models[r2.id])
    BY <1>6
  <2> QED
    BY <2>1, <2>2
<1> QED
  BY <1>3, <1>6, <1>7, <1>8

\* The page of any of the rows shows stored makes with all of their types.
LEMMA Pages ==
  ASSUME FromFeed(models), Stored, NEW rows \in SUBSET makeRows
  PROVE  \A i \in DOMAIN PageOf(rows) :
           /\ PageOf(rows)[i].id \in 1 .. saved
           /\ PageOf(rows)[i].vehicleTypes =
                ToSet(models[PageOf(rows)[i].id].vehicleTypes)
<1> DEFINE key == [row \in rows |-> row.makeId]
<1>1. IsFiniteSet(rows)
  BY MakeRows, FS_Subset
<1>2. key \in [rows -> Int] /\ \A x, y \in rows : key[x] = key[y] => x = y
  BY MakeRows
<1>3. PICK f \in SetToSeqs(rows) : Ascending(f, key)
  <2> HIDE DEF key
  <2> QED
    BY <1>1, <1>2, AscendingExists
<1>4. \A i \in DOMAIN f : f[i] \in rows
  BY DEF SetToSeqs
<1>5. \A i, k \in DOMAIN f : i < k => f[i].makeId < f[k].makeId
  BY <1>3, <1>4 DEF Ascending
<1> DEFINE s == CHOOSE s \in SetToSeqs(rows) :
                  \A i, k \in DOMAIN s : i < k => s[i].makeId < s[k].makeId
<1>6. s \in SetToSeqs(rows)
  BY <1>5, Zenon
<1> DEFINE n == IF Len(s) > First THEN First ELSE Len(s)
<1>7. PageOf(rows) = [i \in 1 .. n |-> toVehicleMake(Domain(s[i]))]
  BY DEF PageOf
<1> HIDE DEF s
<1>8. Cardinality(rows) \in Nat /\ s \in [1 .. Cardinality(rows) -> rows]
      /\ Len(s) = Cardinality(rows)
  BY <1>1, <1>6, Enumerates
<1>9. \A i \in 1 .. n : s[i] \in rows
  BY <1>8, SizeAssumption
<1> HIDE DEF n
<1> SUFFICES ASSUME NEW i \in 1 .. n
             PROVE  /\ PageOf(rows)[i].id \in 1 .. saved
                    /\ PageOf(rows)[i].vehicleTypes =
                         ToSet(models[PageOf(rows)[i].id].vehicleTypes)
  BY <1>7
<1> DEFINE row == s[i]
           k == row.id
           m == Domain(row)
           shown == PageOf(rows)[i]
<1>10. row \in makeRows
  BY <1>9
<1>11. k \in 1 .. saved /\ row = toORM(models[k])
  BY <1>10, MakeRows
<1>12. m = Domain(toORM(models[k]))
  BY <1>11
<1>13. shown = [id |-> m.id, makeId |-> m.makeId, makeName |-> m.makeName,
                vehicleTypes |-> toDTOList(m.vehicleTypes)]
  BY <1>7 DEF toVehicleMake
<1> HIDE DEF row, k, m, shown
<1>14. m.id = k /\ ToSet(m.vehicleTypes) = ToSet(models[k].vehicleTypes)
  BY <1>11, <1>12, ReadsAll
<1>15. \A t \in ToSet(models[k].vehicleTypes) :
         t = [typeId |-> t.typeId, typeName |-> t.typeName]
  <2>1. k \in DOMAIN models
    BY <1>11 DEF Stored, FromFeed
  <2>2. ToSet(models[k].vehicleTypes) = TypesInFeed(models[k].makeId)
    BY <2>1 DEF FromFeed
  <2> QED
    BY <2>2 DEF TypesInFeed
<1>16. toDTOList(m.vehicleTypes) = ToSet(models[k].vehicleTypes)
  BY <1>14, <1>15 DEF toDTOList
<1>17. shown.id = k /\ shown.vehicleTypes = ToSet(models[k].vehicleTypes)
  BY <1>13, <1>14, <1>16
<1> QED
  BY <1>11, <1>17 DEF shown

\* Whatever the order of the rows, the batch gives every key its types.
LEMMA Batches ==
  ASSUME FromFeed(models), Stored, NEW keys, NEW results \in Found(ToSet(keys)),
         \A i \in DOMAIN keys : keys[i] \in 1 .. saved
  PROVE  \A i \in DOMAIN keys :
           Batch(keys, results)[i] = ToSet(models[keys[i]].vehicleTypes)
<1> DEFINE rows == {row \in makeRows : row.id \in ToSet(keys)}
<1>1. IsFiniteSet(rows) /\ rows \in SUBSET makeRows
  BY MakeRows, FS_Subset
<1>2. PICK s \in SetToSeqs(rows) : results = [i \in DOMAIN s |-> Domain(s[i])]
  BY DEF Found
<1> HIDE DEF rows
<1> DEFINE n == Cardinality(rows)
<1>3. /\ n \in Nat /\ s \in [1 .. n -> rows]
      /\ \A x \in rows : \E i \in 1 .. n : s[i] = x
  BY <1>1, Enumerates
<1> HIDE DEF n
<1>4. DOMAIN results = 1 .. n /\ \A k \in 1 .. n : results[k] = Domain(s[k])
  BY <1>2, <1>3
<1>5. ASSUME NEW k \in 1 .. n
      PROVE  /\ s[k].id \in 1 .. saved
             /\ results[k].id = s[k].id
             /\ ToSet(results[k].vehicleTypes) = ToSet(models[s[k].id].vehicleTypes)
  <2> DEFINE row == s[k]
             j == row.id
             m == results[k]
  <2>1. row \in makeRows
    BY <1>1, <1>3
  <2>2. j \in 1 .. saved /\ row = toORM(models[j])
    BY <2>1, MakeRows
  <2>3. m = Domain(toORM(models[j]))
    BY <1>4, <2>2
  <2> HIDE DEF m, row, j
  <2>4. m.id = j /\ ToSet(m.vehicleTypes) = ToSet(models[j].vehicleTypes)
    BY <2>2, <2>3, ReadsAll
  <2> QED
    BY <2>2, <2>4 DEF m, j, row
<1> SUFFICES ASSUME NEW i \in DOMAIN keys
             PROVE  Batch(keys, results)[i] = ToSet(models[keys[i]].vehicleTypes)
  OBVIOUS
<1> DEFINE K == {k \in DOMAIN results : results[k].id = keys[i]}
<1>6. Batch(keys, results)[i] = UNION {ToSet(results[k].vehicleTypes) : k \in K}
  BY DEF Batch
<1>7. \E k \in K : TRUE
  <2>1. PICK row \in makeRows : row.id = keys[i]
    BY MakeRows
  <2>2. row \in rows
    BY <2>1 DEF rows, ToSet
  <2>3. PICK k \in 1 .. n : s[k] = row
    BY <1>3, <2>2
  <2> QED
    BY <1>4, <1>5, <2>1, <2>3
<1>8. \A k \in K : ToSet(results[k].vehicleTypes) = ToSet(models[keys[i]].vehicleTypes)
  BY <1>4, <1>5
<1> HIDE DEF K
<1> QED
  BY <1>6, <1>7, <1>8

-----------------------------------------------------------------------------
(***************************************************************************)
(* Every action keeps the inductive invariant.                             *)
(***************************************************************************)
LEMMA InitIInv == Init => IInv
<1> SUFFICES ASSUME Init PROVE IInv
  OBVIOUS
<1>1. DOMAIN << >> = {} /\ << >> \in Seq(Aggregates) /\ Len(<< >>) = 0
  OBVIOUS
<1>2. AnswersFetched
  BY <1>1 DEF Init, AnswersFetched
<1>3. ModelsBuilt
  BY <1>1 DEF Init, ModelsBuilt, Ingestions, FromFeed
<1>4. Stored
  <2>1. saved = 0 /\ models = << >> /\ makeRows = {} /\ typeRows = {} /\ ingestion = "getAllMakes"
    BY DEF Init
  <2>2. 1 .. 0 = {} /\ 0 \in 0 .. Len(<< >>)
    BY <1>1
  <2> QED
    BY <2>1, <2>2 DEF Stored
<1>5. Shown
  BY <1>1 DEF Init, Shown
<1> QED
  BY <1>2, <1>3, <1>4, <1>5 DEF IInv

LEMMA GetAllMakesStep ==
  ASSUME IInv, GetAllMakes
  PROVE  IInv'
<1> USE DEF IInv
<1>1. ingestion = "getAllMakes" /\ ingestion' = "fetch" /\ models = << >> /\ models' = << >>
  BY DEF GetAllMakes, ModelsBuilt
<1>2. UNCHANGED <<answers, typesMap, models, saved, makeRows, typeRows, request, page, loaded>>
  BY DEF GetAllMakes, reader
<1>3. AnswersFetched'
  BY <1>1, <1>2 DEF GetAllMakes, AnswersFetched
<1>4. ModelsBuilt'
  <2>1. DOMAIN << >> = {} /\ << >> \in Seq(Aggregates)
    OBVIOUS
  <2> QED
    BY <1>1, <2>1 DEF ModelsBuilt, Ingestions, FromFeed
<1>5. Stored'
  BY <1>1, <1>2 DEF Stored
<1>6. Shown'
  BY <1>2 DEF Shown
<1> QED
  BY <1>3, <1>4, <1>5, <1>6

LEMMA FetchTypesStep ==
  ASSUME IInv, FetchTypes
  PROVE  IInv'
<1> USE DEF IInv
<1>1. ingestion = "fetch" /\ ingestion' = "fetch" /\ models = << >> /\ models' = << >>
  BY DEF FetchTypes, ModelsBuilt
<1>2. UNCHANGED <<feed, makes, models, saved, makeRows, typeRows, request, page, loaded>>
  BY DEF FetchTypes, reader
<1>3. AnswersFetched'
  <2>1. CASE UNCHANGED <<answers, typesMap>>
    BY <1>1, <1>2, <2>1 DEF AnswersFetched
  <2>2. ASSUME NEW elements \in TypeFeeds, NEW m,
               answers' = set(answers, m, elements),
               typesMap' = set(typesMap, m, fetchVehicleTypes(elements))
        PROVE  AnswersFetched'
    <3>1. /\ DOMAIN answers' = DOMAIN answers \union {m}
          /\ DOMAIN typesMap' = DOMAIN typesMap \union {m}
          /\ \A k \in DOMAIN answers \union {m} :
               answers'[k] = IF k = m THEN elements ELSE answers[k]
          /\ \A k \in DOMAIN typesMap \union {m} :
               typesMap'[k] = IF k = m THEN fetchVehicleTypes(elements) ELSE typesMap[k]
      BY <2>2 DEF set
    <3>2. DOMAIN typesMap' = DOMAIN answers'
      BY <3>1 DEF AnswersFetched
    <3>3. ASSUME NEW k \in DOMAIN answers'
          PROVE  answers'[k] \in TypeFeeds /\ typesMap'[k] = fetchVehicleTypes(answers'[k])
      <4>1. CASE k = m
        BY <3>1, <4>1
      <4>2. CASE k # m
        BY <3>1, <4>2 DEF AnswersFetched
      <4> QED
        BY <4>1, <4>2
    <3>4. feed' \in MakeFeeds /\ makes' = fetchAllMakes(feed')
      BY <1>1, <1>2 DEF AnswersFetched
    <3> QED
      BY <3>2, <3>3, <3>4 DEF AnswersFetched
  <2> QED
    BY <2>1, <2>2 DEF FetchTypes
<1>4. ModelsBuilt'
  <2>1. DOMAIN << >> = {} /\ << >> \in Seq(Aggregates)
    OBVIOUS
  <2> QED
    BY <1>1, <2>1 DEF ModelsBuilt, Ingestions, FromFeed
<1>5. Stored'
  BY <1>1, <1>2 DEF Stored
<1>6. Shown'
  BY <1>2 DEF Shown
<1> QED
  BY <1>3, <1>4, <1>5, <1>6

\* The types of a make in any answers a.
TypesFrom(a, m) == IF m \notin DOMAIN a THEN {} ELSE TypesOf(a[m])

LEMMA SameFeed ==
  ASSUME NEW s, FromFeed(s), models' = s, UNCHANGED <<feed, answers>>
  PROVE  FromFeed(models)'
<1>1. MakesInFeed' = MakesInFeed
  BY DEF MakesInFeed
<1>2. ASSUME NEW i
      PROVE  TypesInFeed(models[i].makeId)' = TypesInFeed(s[i].makeId)
  <2>1. TypesInFeed(models[i].makeId)' = TypesFrom(answers', models'[i].makeId)
    BY DEF TypesInFeed, TypesFrom, TypesOf, FirstUsable
  <2>2. TypesInFeed(s[i].makeId) = TypesFrom(answers, s[i].makeId)
    BY DEF TypesInFeed, TypesFrom, TypesOf, FirstUsable
  <2> QED
    BY <2>1, <2>2
<1> QED
  BY <1>1, <1>2 DEF FromFeed

LEMMA CreateModelsStep ==
  ASSUME IInv, CreateModels
  PROVE  IInv'
<1> USE DEF IInv
<1>1. ingestion = "fetch" /\ models = << >>
  BY DEF CreateModels, ModelsBuilt
<1>2. UNCHANGED <<feed, answers, makes, typesMap, saved, makeRows, typeRows, request, page, loaded>>
  BY DEF CreateModels, reader
<1> DEFINE built == createDomainModels(execute(makes, typesMap))
<1>3. /\ CanCreateModels(execute(makes, typesMap))
      /\ FromFeed(built) /\ WholeFeed(built)
  BY <1>1, Built
<1>4. models' = built /\ ingestion' = "saveMany"
  BY <1>3 DEF CreateModels
<1> HIDE DEF built
<1>5. AnswersFetched'
  BY <1>1, <1>2 DEF AnswersFetched
<1>6. ModelsBuilt'
  <2>1. FromFeed(models)'
    BY <1>2, <1>3, <1>4, SameFeed
  <2>2. WholeFeed(models)'
    BY <1>2, <1>3, <1>4 DEF WholeFeed, MakesInFeed
  <2> QED
    BY <1>4, <2>1, <2>2 DEF ModelsBuilt, Ingestions
<1>7. saved = 0 /\ makeRows = {} /\ typeRows = {} /\ 1 .. saved = {}
  <2>1. Len(<< >>) = 0
    OBVIOUS
  <2>2. saved = 0 /\ 1 .. saved = {}
    BY <1>1, <2>1 DEF Stored
  <2> QED
    BY <2>2 DEF Stored
<1>8. Stored'
  <2>1. Len(built) \in Nat
    BY <1>3 DEF FromFeed
  <2> QED
    BY <1>2, <1>4, <1>7, <2>1 DEF Stored
<1>9. Shown'
  BY <1>2, <1>7 DEF Shown
<1> QED
  BY <1>5, <1>6, <1>8, <1>9

\* An aggregate has a row for each of its types.
LEMMA RowsPerType ==
  ASSUME FromFeed(models), NEW k \in DOMAIN models
  PROVE  Cardinality(vehicleTypesToORM(models[k])) = Len(models[k].vehicleTypes)
<1> DEFINE types == models[k].vehicleTypes
           f == [i \in 1 .. Len(types) |->
                   [vehicleMakeId |-> models[k].id, typeId |-> types[i].typeId,
                    typeName |-> types[i].typeName]]
           R == vehicleTypesToORM(models[k])
<1>1. types \in Seq(TypeSet) /\ Distinct(types)
  BY StoredModel
<1>2. R = {[vehicleMakeId |-> models[k].id, typeId |-> t.typeId,
            typeName |-> t.typeName] : t \in ToSet(types)}
  BY DEF vehicleTypesToORM
<1> HIDE DEF types, R
<1>3. Len(types) \in Nat /\ DOMAIN types = 1 .. Len(types)
  BY <1>1
<1>4. \A i \in 1 .. Len(types) : f[i] \in R
  BY <1>2, <1>3 DEF ToSet
<1>5. \A i, j \in 1 .. Len(types) : f[i] = f[j] => i = j
  <2>1. \A i \in 1 .. Len(types) : f[i].typeId = types[i].typeId
    OBVIOUS
  <2> HIDE DEF f
  <2> QED
    BY <1>1, <1>3, <2>1 DEF Distinct
<1>6. \A r \in R : \E i \in 1 .. Len(types) : f[i] = r
  BY <1>2, <1>3 DEF ToSet
<1>7. f \in Bijection(1 .. Len(types), R)
  BY <1>4, <1>5, <1>6 DEF Bijection, Injection, Surjection, IsInjective
<1> HIDE DEF f
<1> QED
  BY <1>3, <1>7, FS_CountingElements DEF ExistsBijection, types, R

\* What keeps the first two parts of the invariant once the models are built.
LEMMA SameModels ==
  ASSUME IInv, UNCHANGED <<feed, answers, makes, typesMap, models>>,
         ingestion' \in Ingestions,
         ingestion' = "getAllMakes" <=> ingestion = "getAllMakes",
         ingestion' = "fetch" <=> ingestion = "fetch"
  PROVE  AnswersFetched' /\ ModelsBuilt'
<1>1. AnswersFetched'
  BY DEF IInv, AnswersFetched
<1>2. FromFeed(models)'
  BY SameFeed DEF IInv, ModelsBuilt
<1>3. WholeFeed(models)' = WholeFeed(models)
  BY DEF WholeFeed, MakesInFeed
<1> QED
  BY <1>1, <1>2, <1>3 DEF IInv, ModelsBuilt

\* A chunk is the next aggregates.
LEMMA ChunkIs ==
  ASSUME ModelsBuilt, Stored, saved < Len(models)
  PROVE  /\ saved + Cardinality(Chunk) \in 0 .. Len(models)
         /\ Chunk = saved + 1 .. saved + Cardinality(Chunk)
<1>1. Len(models) \in Nat /\ DOMAIN models = 1 .. Len(models) /\ saved \in Nat
  BY DEF ModelsBuilt, FromFeed, Stored
<1> DEFINE last == IF saved + ChunkSize <= Len(models) THEN saved + ChunkSize ELSE Len(models)
<1>2. last \in Nat /\ last <= Len(models) /\ saved < last
  BY <1>1, SizeAssumption
<1>3. Chunk = saved + 1 .. last
  BY <1>1, SizeAssumption DEF Chunk
<1> HIDE DEF last
<1>4. Cardinality(Chunk) = last - saved
  <2>1. saved + 1 \in Int /\ last \in Int
    BY <1>1, <1>2
  <2>2. Cardinality(saved + 1 .. last) =
          IF saved + 1 > last THEN 0 ELSE last - (saved + 1) + 1
    BY <2>1, FS_Interval
  <2> QED
    BY <1>1, <1>2, <1>3, <2>2
<1>5. saved + Cardinality(Chunk) = last
  BY <1>1, <1>2, <1>4
<1> QED
  BY <1>1, <1>2, <1>3, <1>5

LEMMA SaveChunkStep ==
  ASSUME IInv, SaveChunk
  PROVE  IInv'
<1> USE DEF IInv
<1>1. ingestion = "saveMany" /\ saved < Len(models)
  BY DEF SaveChunk
<1>2. UNCHANGED <<feed, answers, makes, typesMap, models, request, page, loaded>>
  BY DEF SaveChunk, reader
<1>3. Len(models) \in Nat /\ DOMAIN models = 1 .. Len(models) /\ saved \in Nat
  BY DEF ModelsBuilt, FromFeed, Stored
<1>4. ingestion' \in {"saveMany", "collided"}
  BY <1>1 DEF SaveChunk
<1>5. AnswersFetched' /\ ModelsBuilt'
  BY <1>1, <1>2, <1>4, SameModels DEF Ingestions
<1>6. CASE Insertable
  <2> DEFINE last == saved + Cardinality(Chunk)
  <2>1. last \in 0 .. Len(models) /\ Chunk = saved + 1 .. last
    BY <1>1, ChunkIs
  <2>2. /\ saved' = last /\ ingestion' = "saveMany"
        /\ makeRows' = makeRows \union {toORM(models[i]) : i \in Chunk}
        /\ typeRows' = typeRows \union UNION {vehicleTypesToORM(models[i]) : i \in Chunk}
    BY <1>1, <1>6 DEF SaveChunk
  <2> HIDE DEF last
  <2>3. saved < last \/ Chunk = {}
    BY <1>3, <2>1
  <2>4. /\ \A i \in 1 .. last : i \in 1 .. saved \/ i \in Chunk
        /\ \A i \in Chunk : i \in 1 .. Len(models)
    BY <1>3, <2>1
  <2>5. 1 .. saved' = 1 .. saved \union Chunk \/ Chunk = {}
    BY <1>3, <2>1, <2>2
  <2>6. Chunk # {}
    <3>1. saved + 1 \in Chunk
      BY <1>1, <1>3, SizeAssumption DEF Chunk
    <3> QED
      BY <3>1
  <2>7. 1 .. saved' = 1 .. saved \union Chunk
    BY <2>5, <2>6
  <2>8. makeRows' = {toORM(models'[i]) : i \in 1 .. saved'}
    <3>1. makeRows = {toORM(models[i]) : i \in 1 .. saved}
      BY DEF Stored
    <3> QED
      BY <1>2, <2>2, <2>7, <3>1
  <2>9. typeRows' = UNION {vehicleTypesToORM(models'[i]) : i \in 1 .. saved'}
    <3>1. typeRows = UNION {vehicleTypesToORM(models[i]) : i \in 1 .. saved}
      BY DEF Stored
    <3> QED
      BY <1>2, <2>2, <2>7, <3>1
  <2>10. ASSUME NEW i \in Chunk, NEW k \in 1 .. saved
         PROVE  models[k].makeId # models[i].makeId
    <3>1. \A row \in makeRows : row.makeId # models[i].makeId
      BY <1>6 DEF Insertable
    <3>2. PICK row \in makeRows : row.id = k
      BY MakeRows DEF ModelsBuilt
    <3>3. row.makeId = models[k].makeId
      BY <3>2, MakeRows DEF ModelsBuilt
    <3> QED
      BY <3>1, <3>3
  <2>11. ASSUME NEW i \in 1 .. saved', NEW k \in 1 .. saved',
                models[i].makeId = models[k].makeId
         PROVE  i = k
    <3>1. CASE i \in 1 .. saved /\ k \in 1 .. saved
      BY <2>11, <3>1 DEF Stored
    <3>2. CASE i \in Chunk /\ k \in Chunk
      BY <1>6, <2>11, <3>2 DEF Insertable
    <3>3. CASE i \in Chunk /\ k \in 1 .. saved
      BY <2>10, <2>11, <3>3
    <3>4. CASE i \in 1 .. saved /\ k \in Chunk
      BY <2>10, <2>11, <3>4
    <3> QED
      BY <2>7, <3>1, <3>2, <3>3, <3>4
  <2>12. Stored'
    BY <1>2, <2>1, <2>2, <2>8, <2>9, <2>11 DEF Stored
  <2>13. Shown'
    BY <1>2, <2>7 DEF Shown
  <2> QED
    BY <1>5, <2>12, <2>13
<1>7. CASE ~Insertable
  <2>1. ingestion' = "collided" /\ UNCHANGED <<saved, makeRows, typeRows>>
    BY <1>7 DEF SaveChunk
  <2>2. \E i, k \in DOMAIN models : i # k /\ models[i].makeId = models[k].makeId
    <3>1. ASSUME NEW i \in Chunk
          PROVE  Cardinality(vehicleTypesToORM(models[i])) = Len(models[i].vehicleTypes)
      BY RowsPerType DEF ModelsBuilt, Chunk
    <3>2. CASE \E i, k \in Chunk : models[i].makeId = models[k].makeId /\ i # k
      BY <3>2 DEF Chunk
    <3>3. CASE \E i \in Chunk : \E row \in makeRows : row.makeId = models[i].makeId
      <4>1. PICK i \in Chunk : \E row \in makeRows : row.makeId = models[i].makeId
        BY <3>3
      <4>2. PICK row \in makeRows : row.makeId = models[i].makeId
        BY <4>1
      <4>3. row.id \in 1 .. saved /\ models[row.id].makeId = row.makeId
        BY MakeRows DEF ModelsBuilt
      <4>4. i \in DOMAIN models /\ i > saved /\ row.id \in DOMAIN models /\ row.id # i
        BY <1>1, <1>3, <4>3 DEF Chunk
      <4> QED
        BY <4>2, <4>3, <4>4
    <3> QED
      BY <1>7, <3>1, <3>2, <3>3 DEF Insertable
  <2>3. Stored'
    BY <1>2, <2>1, <2>2 DEF Stored
  <2>4. Shown'
    BY <1>2, <2>1 DEF Shown
  <2> QED
    BY <1>5, <2>3, <2>4
<1> QED
  BY <1>6, <1>7

LEMMA CompleteStep ==
  ASSUME IInv, Complete
  PROVE  IInv'
<1> USE DEF IInv
<1>1. ingestion = "saveMany" /\ saved = Len(models) /\ ingestion' = "done"
  BY DEF Complete
<1>2. UNCHANGED <<feed, answers, makes, typesMap, models, saved, makeRows, typeRows,
                  request, page, loaded>>
  BY DEF Complete, reader
<1>3. AnswersFetched' /\ ModelsBuilt'
  BY <1>1, <1>2, SameModels DEF Ingestions
<1>4. Stored'
  BY <1>1, <1>2 DEF Stored
<1>5. Shown'
  BY <1>2 DEF Shown
<1> QED
  BY <1>3, <1>4, <1>5

\* The reader leaves alone what the writer has.
LEMMA ReaderStep ==
  ASSUME IInv, UNCHANGED writer
  PROVE  AnswersFetched' /\ ModelsBuilt' /\ Stored'
<1> USE DEF IInv
<1>1. UNCHANGED <<feed, answers, ingestion, makes, typesMap, models, saved, makeRows, typeRows>>
  BY DEF writer
<1>2. AnswersFetched' /\ ModelsBuilt'
  BY <1>1, SameModels DEF ModelsBuilt
<1>3. Stored'
  BY <1>1 DEF Stored
<1> QED
  BY <1>2, <1>3

\* Both queries answer with the page of some of the rows.
LEMMA QueryStep ==
  ASSUME IInv, NEW rows \in SUBSET makeRows,
         request' = "load", page' = PageOf(rows), UNCHANGED writer
  PROVE  IInv'
<1> USE DEF IInv
<1>1. UNCHANGED <<models, saved>>
  BY DEF writer
<1>2. \A i \in DOMAIN PageOf(rows) :
        /\ PageOf(rows)[i].id \in 1 .. saved
        /\ PageOf(rows)[i].vehicleTypes = ToSet(models[PageOf(rows)[i].id].vehicleTypes)
  BY Pages DEF ModelsBuilt
<1>3. Shown'
  BY <1>1, <1>2 DEF Shown
<1> QED
  BY <1>3, ReaderStep

LEMMA LoadTypesStep ==
  ASSUME IInv, LoadTypes
  PROVE  IInv'
<1> USE DEF IInv
<1>1. UNCHANGED writer /\ page' = page /\ UNCHANGED <<models, saved>>
  BY DEF LoadTypes, writer
<1> DEFINE keys == [i \in DOMAIN page |-> page[i].id]
<1>2. PICK results \in Found(ToSet(keys)) : loaded' = Batch(keys, results)
  BY DEF LoadTypes
<1>3. /\ DOMAIN keys = DOMAIN page
      /\ \A i \in DOMAIN keys : keys[i] = page[i].id /\ keys[i] \in 1 .. saved
  BY DEF Shown
<1> HIDE DEF keys
<1>4. \A i \in DOMAIN keys : loaded'[i] = ToSet(models[keys[i]].vehicleTypes)
  BY <1>2, <1>3, Batches DEF ModelsBuilt
<1>5. Shown'
  BY <1>1, <1>3, <1>4 DEF Shown
<1> QED
  BY <1>1, <1>5, ReaderStep

LEMMA Step == IInv /\ [Next]_vars => IInv'
<1> SUFFICES ASSUME IInv, [Next]_vars PROVE IInv'
  OBVIOUS
<1>1. CASE GetAllMakes
  BY <1>1, GetAllMakesStep
<1>2. CASE FetchTypes
  BY <1>2, FetchTypesStep
<1>3. CASE CreateModels
  BY <1>3, CreateModelsStep
<1>4. CASE SaveChunk
  BY <1>4, SaveChunkStep
<1>5. CASE Complete
  BY <1>5, CompleteStep
<1>6. CASE QueryMakes
  BY <1>6, QueryStep DEF QueryMakes
<1>7. ASSUME NEW m, QueryMake(m) PROVE IInv'
  <2> DEFINE rows == {row \in makeRows : row.makeId = m}
  <2>1. rows \in SUBSET makeRows /\ request' = "load" /\ page' = PageOf(rows)
        /\ UNCHANGED writer
    BY <1>7 DEF QueryMake
  <2> HIDE DEF rows
  <2> QED
    BY <2>1, QueryStep
<1>8. CASE LoadTypes
  BY <1>8, LoadTypesStep
<1>9. CASE UNCHANGED vars
  <2>1. UNCHANGED writer /\ UNCHANGED <<request, page, loaded, models, saved>>
    BY <1>9 DEF vars, writer, reader
  <2>2. Shown'
    BY <2>1 DEF IInv, Shown
  <2> QED
    BY <2>1, <2>2, ReaderStep DEF IInv
<1> QED
  BY <1>1, <1>2, <1>3, <1>4, <1>5, <1>6, <1>7, <1>8, <1>9 DEF Next

\* Every state of an ingestion with a reader beside it satisfies the inductive
\* invariant: what is stored and shown is what the answers of the API say.
THEOREM Invariant == Spec => []IInv
<1>1. Init => IInv
  BY InitIInv
<1>2. IInv /\ [Next]_vars => IInv'
  BY Step
<1> QED
  BY <1>1, <1>2, PTL DEF Spec

-----------------------------------------------------------------------------
(***************************************************************************)
(* The properties that the invariant implies.                              *)
(***************************************************************************)

\* VehicleType.create() and VehicleMake.create() never throw in
\* createDomainModels(), whatever the API answers: isValidMake and
\* isValidVehicleType let through only what validate() accepts.
THEOREM NeverThrows == Spec => []TransformationNeverThrows
<1>1. IInv => TransformationNeverThrows
  BY DEF IInv, ModelsBuilt, Ingestions, TransformationNeverThrows
<1> QED
  BY <1>1, Invariant, PTL

\* A stored make is a usable element of the feed with the types of the last
\* answer for its id, each once; all usable makes are stored when the
\* ingestion completes, and only a make_id that occurs twice prevents that.
THEOREM Catalogue == Spec => []CatalogueIsTheFeed
<1>1. ASSUME IInv PROVE CatalogueIsTheFeed
  <2>0. FromFeed(models) /\ Stored /\ ModelsBuilt /\ AnswersFetched
    BY <1>1 DEF IInv, ModelsBuilt
  <2>1. ASSUME NEW row \in makeRows
        PROVE  /\ [id |-> row.makeId, name |-> row.makeName] \in MakesInFeed
               /\ ToSet(Domain(row).vehicleTypes) = TypesInFeed(row.makeId)
               /\ Len(Domain(row).vehicleTypes) = Cardinality(TypesInFeed(row.makeId))
    <3> DEFINE k == row.id
               m == Domain(row)
    <3>1. /\ k \in 1 .. saved /\ row = toORM(models[k])
          /\ row.makeId = models[k].makeId /\ row.makeName = models[k].makeName
      BY <2>0, MakeRows
    <3>2. m = Domain(toORM(models[k]))
      BY <3>1
    <3>3. k \in DOMAIN models
      BY <2>0, <3>1 DEF Stored, FromFeed
    <3> HIDE DEF k, m
    <3>4. /\ [id |-> models[k].makeId, name |-> models[k].makeName] \in MakesInFeed
          /\ ToSet(models[k].vehicleTypes) = TypesInFeed(models[k].makeId)
      BY <2>0, <3>3 DEF FromFeed
    <3>5. /\ ToSet(m.vehicleTypes) = ToSet(models[k].vehicleTypes)
          /\ Len(m.vehicleTypes) = Cardinality(ToSet(models[k].vehicleTypes))
      BY <2>0, <3>1, <3>2, ReadsAll
    <3> QED
      BY <3>1, <3>4, <3>5 DEF m
  <2>2. ASSUME ingestion = "done"
        PROVE  MakesInFeed = {[id |-> r.makeId, name |-> r.makeName] : r \in makeRows}
    <3>1. saved = Len(models) /\ WholeFeed(models) /\ feed \in MakeFeeds
      BY <2>0, <2>2 DEF Stored, ModelsBuilt, AnswersFetched
    <3>2. ASSUME NEW e \in MakesInFeed
          PROVE  \E r \in makeRows : e = [id |-> r.makeId, name |-> r.makeName]
      <4>1. PICK p \in Places(feed) : feed[p] = e
        BY DEF MakesInFeed, Places, ToSet
      <4>2. e = [id |-> e.id, name |-> e.name]
        BY <3>1, <4>1, UsablePlace
      <4>3. PICK i \in DOMAIN models : models[i].makeId = e.id /\ models[i].makeName = e.name
        BY <3>1 DEF WholeFeed
      <4>4. i \in 1 .. saved
        BY <2>0, <3>1, <4>3 DEF FromFeed
      <4>5. PICK r \in makeRows : r.id = i
        BY <2>0, <4>4, MakeRows
      <4>6. r.makeId = e.id /\ r.makeName = e.name
        BY <2>0, <4>3, <4>5, MakeRows
      <4> QED
        BY <4>2, <4>6, Zenon
    <3> QED
      BY <2>1, <3>2
  <2> QED
    BY <2>0, <2>1, <2>2 DEF CatalogueIsTheFeed, Stored
<1> QED
  BY <1>1, Invariant, PTL

\* The vehicle type loader, which reads after the query and gets its rows in
\* any order, gives every make of the page the types the query read for it.
THEOREM LoaderAgrees == Spec => []LoaderAgreesWithPage
<1>1. IInv => LoaderAgreesWithPage
  BY DEF IInv, Shown, LoaderAgreesWithPage
<1> QED
  BY <1>1, Invariant, PTL

\* findByFilter() finds the stored makes whose name fits and, if a type is
\* asked for, that have it according to the answers of the API, and shows of
\* their types those that fit.
THEOREM SearchFinds == Spec => []SearchFindsTheFeed
<1>1. ASSUME IInv PROVE SearchFindsTheFeed
  <2>0. FromFeed(models) /\ Stored
    BY <1>1 DEF IInv, ModelsBuilt
  <2> SUFFICES ASSUME NEW names \in SUBSET Names,
                      NEW typeId \in {0} \union {t.typeId : t \in AnyTypes}
               PROVE  LET found == findByFilter(names, typeId)
                          wanted(m) == {t \in TypesInFeed(m) : typeId \in {0, t.typeId}}
                      IN /\ {m.makeId : m \in found} =
                              {r.makeId : r \in
                                 {r \in makeRows : /\ r.makeName \in names
                                                   /\ typeId # 0 => wanted(r.makeId) # {}}}
                         /\ \A m \in found : ToSet(m.vehicleTypes) = wanted(m.makeId)
    BY DEF SearchFindsTheFeed
  <2> DEFINE found == findByFilter(names, typeId)
             wanted(m) == {t \in TypesInFeed(m) : typeId \in {0, t.typeId}}
             kept == TypeRows(typeId)
             Fits(r) == r.makeName \in names
                        /\ (typeId = 0 \/ \E t \in kept : t.vehicleMakeId = r.id)
  <2>1. found = {toDomain(row, kept) : row \in {r \in makeRows : Fits(r)}}
    BY DEF findByFilter, TypeRows
  <2>2. ASSUME NEW r \in makeRows
        PROVE  /\ toDomain(r, kept).makeId = r.makeId
               /\ ToSet(toDomain(r, kept).vehicleTypes) = wanted(r.makeId)
               /\ (\E t \in kept : t.vehicleMakeId = r.id) <=> wanted(r.makeId) # {}
    <3> DEFINE k == r.id
               m == toDomain(r, kept)
               types == models[k].vehicleTypes
    <3>1. /\ k \in 1 .. saved /\ r = toORM(models[k])
          /\ r.makeId = models[k].makeId
      BY <2>0, MakeRows
    <3>2. m = toDomain(toORM(models[k]), TypeRows(typeId))
      BY <3>1
    <3>3. k \in DOMAIN models
      BY <2>0, <3>1 DEF Stored, FromFeed
    <3>4. ToSet(types) = TypesInFeed(r.makeId)
      BY <2>0, <3>1, <3>3 DEF FromFeed
    <3>5. Fitting(types, typeId) = wanted(r.makeId)
      BY <3>4 DEF Fitting
    <3> HIDE DEF k, m, wanted
    <3>6. m.makeId = models[k].makeId /\ ToSet(m.vehicleTypes) = Fitting(types, typeId)
      BY <2>0, <3>1, <3>2, Reads
    <3>7. {vehicleTypeToDomain(t) : t \in {u \in TypeRows(typeId) : u.vehicleMakeId = k}} =
            Fitting(types, typeId)
      BY <2>0, <3>1, StoredTypes
    <3>8. (\E t \in kept : t.vehicleMakeId = k) <=> Fitting(types, typeId) # {}
      BY <3>7
    <3> QED
      BY <3>1, <3>5, <3>6, <3>8 DEF k, m
  <2> HIDE DEF found, wanted, kept
  <2>3. \A r \in makeRows : Fits(r) <=> /\ r.makeName \in names
                                        /\ typeId # 0 => wanted(r.makeId) # {}
    BY <2>2
  <2> HIDE DEF Fits
  <2>4. {m.makeId : m \in found} =
          {r.makeId : r \in {r \in makeRows : /\ r.makeName \in names
                                              /\ typeId # 0 => wanted(r.makeId) # {}}}
    BY <2>1, <2>2, <2>3
  <2>5. \A m \in found : ToSet(m.vehicleTypes) = wanted(m.makeId)
    BY <2>1, <2>2
  <2> QED
    BY <2>4, <2>5 DEF found, wanted
<1> QED
  BY <1>1, Invariant, PTL

LEMMA DistinctIsUnique ==
  ASSUME NEW T, NEW make, make.vehicleTypes \in Seq(T), Distinct(make.vehicleTypes)
  PROVE  TypesUnique(make)
BY DistinctCount DEF TypesUnique

LEMMA AddKeepsUnique ==
  ASSUME NEW make \in Aggregates, Distinct(make.vehicleTypes), NEW t
  PROVE  TypesUnique(addVehicleType(make, t))
<1> DEFINE types == make.vehicleTypes
           more == Append(types, t)
           T == TypeSet \union {t}
<1>1. types \in Seq(TypeSet)
  BY DEF Aggregates
<1>2. CASE HasType(types, t.typeId)
  BY <1>1, <1>2, DistinctIsUnique DEF addVehicleType
<1>3. CASE ~HasType(types, t.typeId)
  <2>1. types \in Seq(T) /\ t \in T
    BY <1>1, SeqMonotonic
  <2>2. /\ more \in Seq(T) /\ DOMAIN more = 1 .. Len(types) + 1 /\ Len(types) \in Nat
        /\ \A i \in 1 .. Len(types) : more[i] = types[i]
        /\ more[Len(types) + 1] = t
    BY <2>1, AppendProperties
  <2>3. DOMAIN types = 1 .. Len(types)
    BY <1>1
  <2>4. \A i \in 1 .. Len(types) : types[i].typeId # t.typeId
    BY <1>3, <2>3 DEF HasType
  <2>5. Distinct(types)
    OBVIOUS
  <2>6. addVehicleType(make, t).vehicleTypes = more
    BY <1>3 DEF addVehicleType, touch, Aggregates
  <2> HIDE DEF more, types, T
  <2>7. Distinct(more)
    <3> SUFFICES ASSUME NEW i \in DOMAIN more, NEW k \in DOMAIN more,
                        more[i].typeId = more[k].typeId
                 PROVE  i = k
      BY DEF Distinct
    <3>1. CASE i \in 1 .. Len(types) /\ k \in 1 .. Len(types)
      BY <2>2, <2>3, <2>5, <3>1 DEF Distinct
    <3>2. CASE i \in 1 .. Len(types) /\ k = Len(types) + 1
      BY <2>2, <2>4, <3>2
    <3>3. CASE i = Len(types) + 1 /\ k \in 1 .. Len(types)
      BY <2>2, <2>4, <3>3
    <3> QED
      BY <2>2, <3>1, <3>2, <3>3
  <2> QED
    BY <2>2, <2>6, <2>7, DistinctIsUnique
<1> QED
  BY <1>2, <1>3

LEMMA RemoveKeepsUnique ==
  ASSUME NEW make \in Aggregates, Distinct(make.vehicleTypes), NEW typeId
  PROVE  /\ ~HasType(removeVehicleType(make, typeId).vehicleTypes, typeId)
         /\ TypesUnique(removeVehicleType(make, typeId))
         /\ removeVehicleType(make, typeId).touched <=> HasType(make.vehicleTypes, typeId)
<1> DEFINE types == make.vehicleTypes
           P == {k \in DOMAIN types : types[k].typeId # typeId}
           others == filter(types, P)
           less == [make EXCEPT !.vehicleTypes = others]
           removed == removeVehicleType(make, typeId)
           f == InOrder(P)
<1>1. types \in Seq(TypeSet) /\ make.touched = FALSE /\ Distinct(types)
  BY Zenon DEF Aggregates
<1>2. removed = IF Len(others) # Len(types) THEN touch(less) ELSE less
  BY DEF removeVehicleType
<1>3. less.vehicleTypes = others /\ touch(less).vehicleTypes = others
  BY DEF touch, Aggregates
<1>4. less.touched = FALSE /\ touch(less).touched = TRUE
  BY <1>1 DEF touch, Aggregates
<1>5. P \in SUBSET (DOMAIN types)
  OBVIOUS
<1> HIDE DEF types, less, removed
<1>6. /\ others \in Seq(TypeSet)
      /\ Cardinality(P) \in Nat /\ IsFiniteSet(P)
      /\ DOMAIN others = 1 .. Cardinality(P)
      /\ Selects(f, others, types, P)
  BY <1>1, <1>5, FilterIs
<1> HIDE DEF others, f
<1>7. DOMAIN types = 1 .. Len(types) /\ Len(types) \in Nat /\ Len(others) = Cardinality(P)
  BY <1>1, <1>6
<1>8. \A k \in DOMAIN others : f[k] \in P /\ others[k] = types[f[k]]
  BY <1>6 DEF Selects
<1>9. ~HasType(others, typeId)
  BY <1>8 DEF HasType
<1>10. Distinct(others)
  <2> SUFFICES ASSUME NEW i \in DOMAIN others, NEW k \in DOMAIN others,
                      others[i].typeId = others[k].typeId
               PROVE  i = k
    BY DEF Distinct
  <2>1. f[i] = f[k]
    BY <1>1, <1>5, <1>8 DEF Distinct
  <2>2. f[i] \in Nat /\ f[k] \in Nat
    BY <1>5, <1>7, <1>8
  <2>3. ~(i < k) /\ ~(k < i)
    BY <1>6, <2>1, <2>2 DEF Selects
  <2> QED
    BY <1>6, <2>3
<1>11. Len(others) # Len(types) <=> HasType(types, typeId)
  <2>1. IsFiniteSet(1 .. Len(types)) /\ Cardinality(1 .. Len(types)) = Len(types)
    <3>1. 1 \in Int /\ Len(types) \in Int
      BY <1>7
    <3>2. IsFiniteSet(1 .. Len(types))
          /\ Cardinality(1 .. Len(types)) =
               IF 1 > Len(types) THEN 0 ELSE Len(types) - 1 + 1
      BY <3>1, FS_Interval
    <3> QED
      BY <1>7, <3>2
  <2>2. Cardinality(P) = Len(types) <=> P = 1 .. Len(types)
    BY <1>5, <1>7, <2>1, FS_Subset
  <2>3. P = 1 .. Len(types) <=> ~HasType(types, typeId)
    BY <1>7 DEF HasType
  <2> QED
    BY <1>7, <2>2, <2>3
<1>12. removed.vehicleTypes = others
  BY <1>2, <1>3
<1>13. removed.touched <=> HasType(types, typeId)
  BY <1>2, <1>4, <1>11, Zenon
<1>14. TypesUnique(removed)
  BY <1>6, <1>10, <1>12, DistinctIsUnique
<1> QED
  BY <1>9, <1>12, <1>13, <1>14 DEF removed, types

LEMMA UpdateKeepsUnique ==
  ASSUME NEW make \in Aggregates, NEW T, NEW types \in Seq(T)
  PROVE  TypesUnique(updateVehicleTypes(make, types))
<1> DEFINE kept == deduplicateTypes(types)
           n == Len(types)
<1>1. n \in Nat /\ DOMAIN types = 1 .. n
  OBVIOUS
<1> HIDE DEF n
<1>2. Kept(kept, types, n, T)
  BY <1>1, Deduplicated
<1>3. updateVehicleTypes(make, types).vehicleTypes = kept
  BY DEF updateVehicleTypes, touch, Aggregates
<1> HIDE DEF kept
<1> QED
  BY <1>2, <1>3, DistinctIsUnique DEF Kept

\* addVehicleType(), removeVehicleType() and updateVehicleTypes() leave an
\* aggregate of the ingestion without two types of one id, and a removal marks
\* it as changed exactly when there was something to remove.
THEOREM MutatorsKeepUnique == Spec => []MutatorsKeepTypesUnique
<1>1. ASSUME IInv PROVE MutatorsKeepTypesUnique
  <2> SUFFICES ASSUME NEW i \in DOMAIN models
               PROVE  /\ \A t \in AnyTypes : TypesUnique(addVehicleType(models[i], t))
                      /\ \A t \in AnyTypes :
                           LET less == removeVehicleType(models[i], t.typeId) IN
                           /\ ~HasType(less.vehicleTypes, t.typeId) /\ TypesUnique(less)
                           /\ less.touched <=> HasType(models[i].vehicleTypes, t.typeId)
                      /\ \A t, u \in AnyTypes :
                           TypesUnique(updateVehicleTypes(models[i], <<t, u>>))
    BY DEF MutatorsKeepTypesUnique
  <2>1. models[i] \in Aggregates /\ Distinct(models[i].vehicleTypes)
    BY <1>1, StoredModel DEF IInv, ModelsBuilt
  <2>2. ASSUME NEW t \in AnyTypes PROVE TypesUnique(addVehicleType(models[i], t))
    BY <2>1, AddKeepsUnique
  <2>3. ASSUME NEW t \in AnyTypes
        PROVE  /\ ~HasType(removeVehicleType(models[i], t.typeId).vehicleTypes, t.typeId)
               /\ TypesUnique(removeVehicleType(models[i], t.typeId))
               /\ removeVehicleType(models[i], t.typeId).touched
                    <=> HasType(models[i].vehicleTypes, t.typeId)
    BY <2>1, RemoveKeepsUnique
  <2>4. ASSUME NEW t \in AnyTypes, NEW u \in AnyTypes
        PROVE  TypesUnique(updateVehicleTypes(models[i], <<t, u>>))
    <3>1. <<t, u>> \in Seq({t, u})
      OBVIOUS
    <3> QED
      BY <2>1, <3>1, UpdateKeepsUnique
  <2> QED
    BY <2>2, <2>3, <2>4
<1> QED
  BY <1>1, Invariant, PTL
=============================================================================
