------------------------- MODULE VehiclePagination -------------------------
(***************************************************************************)
(* A client that walks the vehicleMakes connection page by page            *)
(* (vehicle.resolver.ts, vehicle-query.service.ts, findAll() of            *)
(* vehicle-make.repository.ts) while ingestions insert makes.              *)
(*                                                                         *)
(* findAll() reads the table twice: the page, then the count.  Inserts     *)
(* commit between the two and between two pages.  Nothing in production    *)
(* deletes a make.  A cursor is the make_id of an edge, encoded in base64  *)
(* and parsed back to the same integer; 0 stands for no cursor.            *)
(***************************************************************************)
EXTENDS Integers, FiniteSets

CONSTANTS MakeIds,    \* the make_ids ingestions may insert
          First,      \* the page size the client asks for
          ChunkSize   \* makes one insert transaction holds

ASSUME MakeIdsAssumption == MakeIds \subseteq Nat \ {0} /\ IsFiniteSet(MakeIds)
ASSUME PageAssumption == First \in Nat /\ ChunkSize \in Nat \ {0}

VARIABLES table,     \* the make_ids in vehicle_makes
          start,     \* those that were there when the walk began
          after,     \* the cursor of the next request
          seen,      \* the make_ids of all edges received
          edges,     \* the edges of the page in the making
          more,      \* hasNextPage of the last page
          total,     \* totalCount of the last page
          phase      \* what the walk does next

vars == <<table, start, after, seen, edges, more, total, phase>>

\* Every encodeCursor() is the text of a positive make_id, which
\* decodeCursor() reads again.
NoCursor == 0

IsLast(m, S) == m \in S /\ \A k \in S : k <= m

\* ORDER BY make_id ASC with a limit of n over the rows S.
FirstOf(S, n) == {m \in S : Cardinality({k \in S : k <= m}) <= n}

Init ==
  /\ table \in SUBSET MakeIds
  /\ start = table
  /\ after = NoCursor
  /\ seen = {}
  /\ edges = {}
  /\ more = TRUE
  /\ total = 0
  /\ phase = "select"

\* Seeded fault: the ingestion empties the table first.
Insert_Replaces(chunk) ==
  /\ chunk # {} /\ Cardinality(chunk) <= ChunkSize /\ chunk \cap table = {}
  /\ table' = chunk
  /\ UNCHANGED <<start, after, seen, edges, more, total, phase>>
\* saveMany of a running ingestion commits a chunk.
Insert(chunk) ==
  /\ chunk # {} /\ Cardinality(chunk) <= ChunkSize /\ chunk \cap table = {}
  /\ table' = table \union chunk
  /\ UNCHANGED <<start, after, seen, edges, more, total, phase>>

\* Seeded fault: the page begins with the row of the cursor.
Results_Inclusive == FirstOf({m \in table : m >= after}, First + 1)
\* One row more than the page holds is fetched, and dropped again.
Results == FirstOf({m \in table : m > after}, First + 1)

HasNextPage == Cardinality(Results) > First

\* Seeded fault: a row of the page is dropped even when there was no extra
\* row.
Select_AlwaysPops ==
  /\ phase = "select"
  /\ more' = HasNextPage
  /\ edges' = {m \in Results : ~IsLast(m, Results)}
  /\ phase' = "count"
  /\ UNCHANGED <<table, start, after, seen, total>>
Select ==
  /\ phase = "select"
  /\ more' = HasNextPage
  /\ edges' = IF HasNextPage THEN {m \in Results : ~IsLast(m, Results)} ELSE Results
  /\ phase' = "count"
  /\ UNCHANGED <<table, start, after, seen, total>>

\* Seeded faults: the makes are counted once for the whole walk; the next
\* request goes out with the cursor of this one.
Count_Cached ==
  /\ phase = "count"
  /\ total' = IF seen = {} THEN Cardinality(table) ELSE total
  /\ seen' = seen \union edges
  /\ \/ edges = {} /\ after' = NoCursor
     \/ \E m \in edges : IsLast(m, edges) /\ after' = m
  /\ phase' = IF more THEN "select" ELSE "done"
  /\ UNCHANGED <<table, start, edges, more>>
Count_SameCursor ==
  /\ phase = "count"
  /\ total' = Cardinality(table)
  /\ seen' = seen \union edges
  /\ phase' = IF more THEN "select" ELSE "done"
  /\ UNCHANGED <<table, start, after, edges, more>>
\* The count, and the response: the client keeps the edges and asks for the
\* page after endCursor, which is null when the page is empty.
Count ==
  /\ phase = "count"
  /\ total' = Cardinality(table)
  /\ seen' = seen \union edges
  /\ \/ edges = {} /\ after' = NoCursor
     \/ \E m \in edges : IsLast(m, edges) /\ after' = m
  /\ phase' = IF more THEN "select" ELSE "done"
  /\ UNCHANGED <<table, start, edges, more>>

Next == Select \/ Count \/ \E chunk \in SUBSET MakeIds : Insert(chunk)

Spec == Init /\ [][Next]_vars

\* Every request is answered.  No ingestion has to run.
FairSpec == Spec /\ WF_vars(Select) /\ WF_vars(Count)

-----------------------------------------------------------------------------
TypeOK ==
  /\ table \subseteq MakeIds /\ start \subseteq table
  /\ after \in MakeIds \union {NoCursor}
  /\ seen \subseteq table /\ edges \subseteq table
  /\ more \in BOOLEAN /\ total \in Nat
  /\ phase \in {"select", "count", "done"}

\* A walk that is over has shown every make that was in the table when it
\* began, whatever was inserted before or behind its cursor meanwhile.
WalkIsComplete == phase = "done" => start \subseteq seen

\* No make comes twice, and the pages come in the order of make_id.
PagesAscend ==
  phase = "count" => \A e \in edges, s \in seen : s < e

\* totalCount is read after the page, from a table that only grows: it never
\* falls below the number of makes the client has already been shown.
TotalCoversSeen == Cardinality(seen) <= total

\* The walk ends, even one that meets inserts at every page.
WalkEnds == <>(phase = "done")
=============================================================================
