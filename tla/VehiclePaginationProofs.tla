---------------------- MODULE VehiclePaginationProofs ----------------------
(***************************************************************************)
(* Theorems about VehiclePagination for every set of makes, every page     *)
(* size and every size of insert transactions.                             *)
(***************************************************************************)
EXTENDS VehiclePagination, FiniteSetTheorems, WellFoundedInduction, TLAPS

\* What was shown lies up to the cursor, what is about to be shown beyond it.
Ordered ==
  /\ phase # "done" => \A s \in seen : s <= after
  /\ phase = "count" => \A e \in edges : after < e

\* The makes of the start that lie up to the cursor were shown, those from
\* there up to the end of the page are on it, and all are when no page follows.
Covered ==
  /\ phase # "done" => \A m \in start : m <= after => m \in seen
  /\ phase = "count" => \A m \in start :
       after < m /\ (~more \/ \E e \in edges : m <= e) => m \in edges

\* A page that is empty although another one follows has no room for a make,
\* and neither had the pages before: the walk starts over where it started.
EmptyPages ==
  /\ phase = "count" /\ more /\ edges = {} => First = 0
  /\ First = 0 => seen = {} /\ edges = {}

IInv == TypeOK /\ Ordered /\ Covered /\ EmptyPages /\ WalkIsComplete /\ TotalCoversSeen

-----------------------------------------------------------------------------
(***************************************************************************)
(* The first rows of a table.                                              *)
(***************************************************************************)
LEMMA LeastMember ==
  ASSUME NEW S \in SUBSET Nat, S # {}
  PROVE  \E m \in S : \A k \in S : m <= k
<1>1. PICK m \in S : \A k \in S : ~(<<k, m>> \in OpToRel(<, Nat))
  BY NatLessThanWellFounded, WFMin
<1>2. \A k \in S : ~(k < m)
  BY <1>1 DEF OpToRel
<1> QED
  BY <1>2

\* The first rows are downward closed.
LEMMA FirstOfIsPrefix ==
  ASSUME NEW S \in SUBSET Nat, IsFiniteSet(S), NEW n \in Nat,
         NEW e \in FirstOf(S, n), NEW m \in S, m <= e
  PROVE  m \in FirstOf(S, n)
<1> DEFINE upTo(x) == {k \in S : k <= x}
<1>1. e \in S /\ Cardinality(upTo(e)) <= n
  BY DEF FirstOf
<1>2. upTo(m) \in SUBSET upTo(e)
  <2>1. ASSUME NEW k \in S, k <= m
        PROVE  k <= e
    <3>1. k \in Nat /\ m \in Nat /\ e \in Nat
      BY <1>1
    <3> QED
      BY <2>1, <3>1
  <2> QED
    BY <2>1
<1>3. IsFiniteSet(upTo(e))
  BY FS_Subset
<1>4. /\ Cardinality(upTo(m)) <= Cardinality(upTo(e))
      /\ IsFiniteSet(upTo(m))
  BY <1>2, <1>3, FS_Subset
<1>5. Cardinality(upTo(m)) \in Nat /\ Cardinality(upTo(e)) \in Nat
  BY <1>3, <1>4, FS_CardinalityType
<1> QED
  BY <1>1, <1>4, <1>5 DEF FirstOf

\* Fewer rows than were asked for are all there are.
LEMMA FewRowsAreAll ==
  ASSUME NEW S \in SUBSET Nat, IsFiniteSet(S), NEW n \in Nat,
         Cardinality(FirstOf(S, n)) < n
  PROVE  FirstOf(S, n) = S
<1> DEFINE F == FirstOf(S, n)
           upTo(x) == {k \in S : k <= x}
<1>1. F \in SUBSET S
  BY DEF FirstOf
<1>2. IsFiniteSet(F) /\ Cardinality(F) \in Nat
  BY <1>1, FS_Subset, FS_CardinalityType
<1>3. SUFFICES ASSUME S \ F # {} PROVE FALSE
  BY <1>1
<1>4. PICK m \in S \ F : \A k \in S \ F : m <= k
  BY <1>3, LeastMember
<1>5. upTo(m) \in SUBSET (F \union {m})
  <2>1. ASSUME NEW k \in S, k <= m, k \notin F
        PROVE  k = m
    <3>1. k \in Nat /\ m \in Nat /\ m <= k
      BY <1>4, <2>1
    <3> QED
      BY <2>1, <3>1
  <2> QED
    BY <2>1
<1>6. IsFiniteSet(F \union {m}) /\ Cardinality(F \union {m}) = Cardinality(F) + 1
  BY <1>2, <1>4, FS_AddElement
<1>7. Cardinality(upTo(m)) <= Cardinality(F) + 1 /\ Cardinality(upTo(m)) \in Nat
  BY <1>5, <1>6, FS_Subset, FS_CardinalityType
<1>8. Cardinality(upTo(m)) <= n
  BY <1>2, <1>7
<1>9. m \in F
  BY <1>4, <1>8 DEF FirstOf
<1> QED
  BY <1>4, <1>9

-----------------------------------------------------------------------------
\* The rows findAll() fetches, and the page it makes of them.
LEMMA PageOfResults ==
  ASSUME TypeOK, Select
  PROVE  /\ edges' \in SUBSET table /\ \A e \in edges' : after < e
         /\ \A m \in table : after < m /\ (~more' \/ \E e \in edges' : m <= e) => m \in edges'
         /\ more' /\ edges' = {} => First = 0
         /\ First = 0 => edges' = {}
         /\ more' \in BOOLEAN
<1> DEFINE S == {m \in table : m > after}
<1>0. /\ table \in SUBSET Nat /\ IsFiniteSet(table) /\ after \in Nat
      /\ First \in Nat /\ First + 1 \in Nat
  <2>1. table \in SUBSET MakeIds /\ after \in MakeIds \union {0}
    BY DEF TypeOK, NoCursor
  <2>2. IsFiniteSet(table)
    BY <2>1, MakeIdsAssumption, FS_Subset
  <2> QED
    BY <2>1, <2>2, MakeIdsAssumption, PageAssumption
<1>1. /\ S \in SUBSET Nat /\ IsFiniteSet(S) /\ Results = FirstOf(S, First + 1)
      /\ Results \in SUBSET S
  BY <1>0, FS_Subset DEF Results, FirstOf
<1>2. IsFiniteSet(Results) /\ Cardinality(Results) \in Nat
  BY <1>1, FS_Subset, FS_CardinalityType
<1>3. /\ more' = HasNextPage /\ more' \in BOOLEAN
      /\ HasNextPage => edges' = {m \in Results : ~IsLast(m, Results)}
      /\ ~HasNextPage => edges' = Results
  BY DEF Select, HasNextPage
<1>4. edges' \in SUBSET Results
  BY <1>3
<1>5. CASE ~HasNextPage
  <2>1. Results = S
    BY <1>0, <1>1, <1>2, <1>5, FewRowsAreAll DEF HasNextPage
  <2>2. First = 0 => Results = {}
    BY <1>0, <1>2, <1>5, FS_EmptySet DEF HasNextPage
  <2> QED
    BY <1>0, <1>3, <1>5, <2>1, <2>2
<1>6. CASE HasNextPage
  <2>1. ASSUME NEW m \in table, after < m, NEW e \in edges', m <= e
        PROVE  m \in edges'
    <3>1. e \in Results /\ m \in S /\ ~IsLast(e, Results)
      BY <1>0, <1>3, <1>6, <2>1
    <3>2. m \in Results
      BY <1>0, <1>1, <2>1, <3>1, FirstOfIsPrefix
    <3>3. ~IsLast(m, Results)
      <4>1. CASE m = e
        BY <3>1, <4>1
      <4>2. CASE m # e
        BY <1>0, <1>1, <2>1, <3>1, <4>2 DEF IsLast
      <4> QED
        BY <4>1, <4>2
    <3> QED
      BY <1>3, <1>6, <3>2, <3>3
  <2>2. ASSUME edges' = {}
        PROVE  First = 0
    <3>1. \A m, k \in Results : m = k
      BY <1>0, <1>1, <1>3, <1>6, <2>2 DEF IsLast
    <3>2. Cardinality(Results) <= 1
      <4>1. CASE Results = {}
        BY <4>1, FS_EmptySet
      <4>2. ASSUME NEW x \in Results
            PROVE  Cardinality(Results) <= 1
        <5>1. Results = {x}
          BY <3>1
        <5> QED
          BY <5>1, FS_Singleton
      <4> QED
        BY <4>1, <4>2
    <3> QED
      BY <1>0, <1>2, <1>6, <3>2 DEF HasNextPage
  <2>3. ASSUME First = 0, NEW m \in edges'
        PROVE  FALSE
    <3>1. m \in Results /\ ~IsLast(m, Results)
      BY <1>3, <1>6, <2>3
    <3>2. PICK k \in Results : m < k
      BY <1>0, <1>1, <3>1 DEF IsLast
    <3>3. Cardinality({i \in S : i <= k}) <= 1
      BY <1>1, <2>3, <3>2 DEF FirstOf
    <3>4. {m, k} \in SUBSET {i \in S : i <= k}
      BY <1>0, <1>1, <3>1, <3>2
    <3>5. IsFiniteSet({i \in S : i <= k}) /\ IsFiniteSet({m})
      BY <1>1, FS_Subset, FS_Singleton
    <3>6. Cardinality({m} \union {k}) = 2 /\ {m} \union {k} = {m, k}
      <4>1. k \notin {m}
        <5>1. m \in Nat /\ k \in Nat /\ m < k
          BY <1>0, <1>1, <3>1, <3>2
        <5>2. m # k
          BY <5>1
        <5> QED
          BY <5>2
      <4>2. Cardinality({m}) = 1
        BY FS_Singleton
      <4>3. Cardinality({m} \union {k}) = Cardinality({m}) + 1
        BY <3>5, <4>1, FS_AddElement
      <4>4. {m} \union {k} = {m, k}
        OBVIOUS
      <4> QED
        BY <4>2, <4>3, <4>4
    <3>7. Cardinality({m, k}) <= Cardinality({i \in S : i <= k})
      BY <3>4, <3>5, FS_Subset
    <3>8. Cardinality({i \in S : i <= k}) \in Nat
      BY <3>5, FS_CardinalityType
    <3> QED
      BY <3>3, <3>6, <3>7, <3>8
  <2> QED
    BY <1>0, <1>1, <1>3, <1>4, <1>6, <2>1, <2>2, <2>3
<1> QED
  BY <1>5, <1>6

-----------------------------------------------------------------------------
LEMMA InitIInv == Init => IInv
<1> SUFFICES ASSUME Init PROVE IInv
  OBVIOUS
<1>1. TypeOK /\ EmptyPages /\ WalkIsComplete
  BY DEF Init, TypeOK, EmptyPages, WalkIsComplete, NoCursor
<1>2. Ordered /\ Covered
  BY MakeIdsAssumption DEF Init, Ordered, Covered, NoCursor
<1>3. TotalCoversSeen
  BY FS_EmptySet DEF Init, TotalCoversSeen
<1> QED
  BY <1>1, <1>2, <1>3 DEF IInv

LEMMA InsertKeeps ==
  ASSUME IInv, NEW chunk \in SUBSET MakeIds, Insert(chunk)
  PROVE  IInv'
BY DEF IInv, TypeOK, Ordered, Covered, EmptyPages, WalkIsComplete, TotalCoversSeen,
       IsLast, Insert

LEMMA SelectKeeps ==
  ASSUME IInv, Select
  PROVE  IInv'
<1>0. /\ TypeOK /\ phase = "select" /\ phase' = "count"
      /\ UNCHANGED <<table, start, after, seen, total>>
  BY DEF IInv, Select
<1>1. TypeOK'
  BY <1>0, PageOfResults DEF TypeOK
<1>2. Ordered' /\ WalkIsComplete' /\ TotalCoversSeen'
  BY <1>0, PageOfResults DEF IInv, Ordered, WalkIsComplete, TotalCoversSeen
<1>3. Covered'
  BY <1>0, PageOfResults DEF IInv, Covered, TypeOK
<1>4. EmptyPages'
  BY <1>0, PageOfResults DEF IInv, EmptyPages
<1> QED
  BY <1>1, <1>2, <1>3, <1>4 DEF IInv

LEMMA CountKeeps ==
  ASSUME IInv, Count
  PROVE  IInv'
<1>0. /\ TypeOK /\ phase = "count" /\ seen' = seen \union edges
      /\ phase' = IF more THEN "select" ELSE "done"
      /\ UNCHANGED <<table, start, edges, more>>
      /\ \/ edges = {} /\ after' = 0
         \/ \E m \in edges : IsLast(m, edges) /\ after' = m
  BY DEF IInv, Count, NoCursor
<1>1. /\ table \in SUBSET Nat /\ IsFiniteSet(table) /\ after \in Nat
      /\ \A m \in table : m > 0
  <2>1. table \in SUBSET MakeIds /\ after \in MakeIds \union {0}
    BY <1>0 DEF TypeOK, NoCursor
  <2>2. IsFiniteSet(table)
    BY <2>1, MakeIdsAssumption, FS_Subset
  <2> QED
    BY <2>1, <2>2, MakeIdsAssumption
<1>2. seen' \in SUBSET table /\ total' = Cardinality(table)
  BY <1>0 DEF TypeOK, Count
<1>3. total' \in Nat /\ TotalCoversSeen'
  BY <1>1, <1>2, FS_Subset, FS_CardinalityType DEF TotalCoversSeen
<1>4. TypeOK'
  BY <1>0, <1>2, <1>3 DEF TypeOK, NoCursor
<1>5. Ordered'
  <2> SUFFICES ASSUME more, NEW s \in seen \union edges
               PROVE  s <= after'
    BY <1>0 DEF Ordered
  <2>1. s \in Nat /\ edges \in SUBSET Nat
    BY <1>0, <1>1, <1>2 DEF TypeOK
  <2>2. edges # {}
    BY <1>0 DEF IInv, EmptyPages
  <2>3. PICK m \in edges : IsLast(m, edges) /\ after' = m
    BY <1>0, <2>2
  <2>4. s \in seen => s <= after /\ after < m
    BY <1>0 DEF IInv, Ordered
  <2> QED
    BY <1>1, <2>1, <2>3, <2>4 DEF IsLast
<1>6. Covered' /\ WalkIsComplete'
  <2>1. \A m \in start : m <= after => m \in seen
    BY <1>0 DEF IInv, Covered
  <2>2. \A m \in start : after < m /\ (~more \/ \E e \in edges : m <= e) => m \in edges
    BY <1>0 DEF IInv, Covered
  <2>3. start \in SUBSET Nat /\ start \in SUBSET table
    BY <1>0, <1>1 DEF TypeOK
  <2>4. CASE more
    <3>1. ASSUME NEW m \in start, m <= after'
          PROVE  m \in seen'
      <4>1. m > 0
        BY <1>1, <2>3
      <4>2. after' # 0
        BY <1>1, <2>3, <3>1, <4>1
      <4>3. PICK e \in edges : after' = e
        BY <1>0, <4>2
      <4>4. m \in Nat /\ (m <= after \/ after < m)
        BY <1>1, <2>3
      <4> QED
        BY <1>0, <2>1, <2>2, <2>4, <3>1, <4>3, <4>4
    <3> QED
      BY <1>0, <2>4, <3>1 DEF Covered, WalkIsComplete
  <2>5. CASE ~more
    <3>1. ASSUME NEW m \in start
          PROVE  m \in seen'
      <4>1. m \in Nat /\ (m <= after \/ after < m)
        BY <1>1, <2>3
      <4> QED
        BY <1>0, <2>1, <2>2, <2>5, <4>1
    <3> QED
      BY <1>0, <2>5, <3>1 DEF Covered, WalkIsComplete
  <2> QED
    BY <2>4, <2>5
<1>7. EmptyPages'
  BY <1>0 DEF IInv, EmptyPages
<1> QED
  BY <1>3, <1>4, <1>5, <1>6, <1>7 DEF IInv

LEMMA Inductive == Spec => []IInv
<1>1. IInv /\ [Next]_vars => IInv'
  <2> SUFFICES ASSUME IInv, [Next]_vars PROVE IInv'
    OBVIOUS
  <2>1. CASE UNCHANGED vars
    BY <2>1 DEF IInv, TypeOK, Ordered, Covered, EmptyPages, WalkIsComplete, TotalCoversSeen,
                IsLast, vars
  <2> QED
    BY <2>1, InsertKeeps, SelectKeeps, CountKeeps DEF Next
<1> QED
  BY InitIInv, <1>1, PTL DEF Spec

-----------------------------------------------------------------------------
\* The cursor, the pages and what was shown are makes of the table.
THEOREM TypeCorrect == Spec => []TypeOK
<1>1. IInv => TypeOK
  BY DEF IInv
<1> QED
  BY Inductive, <1>1, PTL

\* A client that follows the cursors to the end has been shown every make
\* that was there when it began, whatever is inserted on the way.
THEOREM WalksAreComplete == Spec => []WalkIsComplete
<1>1. IInv => WalkIsComplete
  BY DEF IInv
<1> QED
  BY Inductive, <1>1, PTL

\* The pages come in the order of make_id, no make comes twice.
THEOREM PagesAscendAlways == Spec => []PagesAscend
<1>1. IInv => PagesAscend
  <2> SUFFICES ASSUME IInv, phase = "count", NEW e \in edges, NEW s \in seen
               PROVE  s < e
    BY DEF PagesAscend
  <2>1. s \in Nat /\ e \in Nat /\ after \in Nat
    BY MakeIdsAssumption DEF IInv, TypeOK, NoCursor
  <2> QED
    BY <2>1 DEF IInv, Ordered
<1> QED
  BY Inductive, <1>1, PTL

\* The total of a response covers all the makes the client has been shown.
THEOREM TotalsCoverSeen == Spec => []TotalCoversSeen
<1>1. IInv => TotalCoversSeen
  BY DEF IInv
<1> QED
  BY Inductive, <1>1, PTL
=============================================================================
