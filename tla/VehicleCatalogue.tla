-------------------------- MODULE VehicleCatalogue --------------------------
(***************************************************************************)
(* The data of an ingestion on its way from the responses of the API into  *)
(* vehicle_makes and vehicle_types, and a GraphQL request that reads them  *)
(* meanwhile: the query of the resolver first, then one batch of the       *)
(* vehicle type loader for the makes it returned.                          *)
(*                                                                         *)
(* What fails, and what the job records of it, is the subject of           *)
(* IngestVehicleData; here the values matter.  A make is named by its      *)
(* place in the list of models, which stands for its uuid.                 *)
(***************************************************************************)
EXTENDS Transformation, FiniteSets

CONSTANTS MakeFeeds,   \* the elements getAllMakes() may be answered with
          TypeFeeds,   \* those getVehicleTypesForMake() may be answered with
          ChunkSize,   \* makes per transaction in saveMany
          First        \* the page size the client asks for

\* What the parser makes of an element: nothing, or an id and a name.
IsElement(e) ==
  e = Empty \/ (e = [id |-> e.id, name |-> e.name] /\ e.id \in Int)
ASSUME FeedAssumption ==
  \A f \in MakeFeeds \union TypeFeeds :
    f \in Seq(ToSet(f)) /\ \A e \in ToSet(f) : IsElement(e)
ASSUME SizeAssumption == ChunkSize \in Nat \ {0} /\ First \in Nat \ {0}

VARIABLES feed, answers,  \* what the API answered: the elements of the makes,
                         \* and those of the types by make id
          ingestion,   \* where execute() stands
          makes,       \* externalMakes
          typesMap,    \* the types that were fetched, by Make_ID
          pos,         \* the makes whose types were asked for
          models,      \* the aggregates
          saved,       \* how many of them are committed
          makeRows, typeRows,   \* the two tables
          request,     \* where the GraphQL request stands
          page,        \* the makes its query returned
          loaded       \* what the loader returned for each of them

writer == <<feed, answers, ingestion, makes, typesMap, pos, models, saved, makeRows, typeRows>>
reader == <<request, page, loaded>>
vars == <<writer, reader>>

Init ==
  /\ feed = << >> /\ answers = << >>
  /\ ingestion = "getAllMakes"
  /\ makes = << >> /\ typesMap = << >> /\ pos = 0
  /\ models = << >> /\ saved = 0
  /\ makeRows = {} /\ typeRows = {}
  /\ request = "none" /\ page = << >> /\ loaded = << >>

-----------------------------------------------------------------------------
GetAllMakes ==
  /\ ingestion = "getAllMakes" /\ ingestion' = "fetch"
  /\ feed' \in MakeFeeds
  /\ makes' = fetchAllMakes(feed')
  /\ UNCHANGED <<answers, typesMap, pos, models, saved, makeRows, typeRows, reader>>

\* Map.set().
set(map, key, value) ==
  [k \in DOMAIN map \union {key} |-> IF k = key THEN value ELSE map[k]]

\* typesMap.set(), or the error that recordFailure() keeps.
FetchTypes ==
  /\ ingestion = "fetch" /\ pos < Len(makes)
  /\ pos' = pos + 1
  /\ \/ \E elements \in TypeFeeds :
          /\ answers' = set(answers, makes[pos + 1].id, elements)
          /\ typesMap' = set(typesMap, makes[pos + 1].id, fetchVehicleTypes(elements))
     \/ UNCHANGED <<answers, typesMap>>
  /\ UNCHANGED <<feed, ingestion, makes, models, saved, makeRows, typeRows, reader>>

CreateModels ==
  /\ ingestion = "fetch" /\ pos = Len(makes)
  /\ LET data == execute(makes, typesMap) IN
       IF CanCreateModels(data)
       THEN models' = createDomainModels(data) /\ ingestion' = "saveMany"
       ELSE ingestion' = "threw" /\ UNCHANGED models
  /\ UNCHANGED <<feed, answers, makes, typesMap, pos, saved, makeRows, typeRows, reader>>

Chunk == {i \in DOMAIN models : i > saved /\ i <= saved + ChunkSize}

\* The unique keys: make_id, and type_id with vehicle_make_id.
Insertable ==
  /\ \A i \in Chunk : \A k \in Chunk : models[i].makeId = models[k].makeId => i = k
  /\ \A i \in Chunk : \A row \in makeRows : row.makeId # models[i].makeId
  /\ \A i \in Chunk : Cardinality(vehicleTypesToORM(models[i])) =
                        Len(models[i].vehicleTypes)

\* save() of a chunk inserts the makes and, by the cascade, their types.
SaveChunk ==
  /\ ingestion = "saveMany" /\ saved < Len(models)
  /\ IF Insertable
     THEN /\ saved' = saved + Cardinality(Chunk)
          /\ makeRows' = makeRows \union {toORM(models[i]) : i \in Chunk}
          /\ typeRows' = typeRows \union UNION {vehicleTypesToORM(models[i]) : i \in Chunk}
          /\ UNCHANGED ingestion
     ELSE ingestion' = "collided" /\ UNCHANGED <<saved, makeRows, typeRows>>
  /\ UNCHANGED <<feed, answers, makes, typesMap, pos, models, reader>>

Complete ==
  /\ ingestion = "saveMany" /\ saved = Len(models) /\ ingestion' = "done"
  /\ UNCHANGED <<feed, answers, makes, typesMap, pos, models, saved, makeRows,
                 typeRows, reader>>

-----------------------------------------------------------------------------
Domain(row) == toDomain(row, typeRows)

\* VehicleTypeMapper.toDTOList(), a set: nothing relies on the order.
toDTOList(types) == {[typeId |-> t.typeId, typeName |-> t.typeName] : t \in ToSet(types)}

toVehicleMake(make) ==
  [id |-> make.id, makeId |-> make.makeId, makeName |-> make.makeName,
   vehicleTypes |-> toDTOList(make.vehicleTypes)]

\* findAll() without a cursor, as toConnection() passes it on.
PageOf(rows) ==
  LET byMakeId == CHOOSE s \in SetToSeqs(rows) :
                    \A i, k \in DOMAIN s : i < k => s[i].makeId < s[k].makeId
      n == IF Len(byMakeId) > First THEN First ELSE Len(byMakeId)
  IN [i \in 1 .. n |-> toVehicleMake(Domain(byMakeId[i]))]

\* vehicleMakes(first: First).
QueryMakes ==
  /\ request = "none" /\ request' = "load"
  /\ page' = PageOf(makeRows)
  /\ UNCHANGED <<loaded, writer>>

\* vehicleMake(makeId): findByMakeId() finds at most one row, and an id that
\* is not positive is refused.
QueryMake(makeId) ==
  /\ request = "none" /\ makeId > 0 /\ request' = "load"
  /\ page' = PageOf({row \in makeRows : row.makeId = makeId})
  /\ UNCHANGED <<loaded, writer>>

\* findByIds() returns the rows in any order.
Found(ids) ==
  LET rows == {row \in makeRows : row.id \in ids}
  IN {[i \in DOMAIN s |-> Domain(s[i])] : s \in SetToSeqs(rows)}

\* Seeded fault: the rows are taken to come in the order of the keys.
Batch_ByPosition(keys, results) ==
  [i \in DOMAIN keys |-> IF i \in DOMAIN results
                           THEN ToSet(results[i].vehicleTypes) ELSE {}]
\* The batch function: the answer of a key is found by its id.
Batch(keys, results) ==
  [i \in DOMAIN keys |->
     UNION {ToSet(results[k].vehicleTypes) : k \in {k \in DOMAIN results : results[k].id = keys[i]}}]

\* findByFilter(): the left join, one row per make and type, cut down by the
\* conditions and put together to makes again.  A filter is given by the names
\* its text occurs in and by a type id, 0 for none; the dates are left out.
\* Seeded fault: an inner join.
findByFilter_InnerJoin(names, typeId) ==
  LET kept == {t \in typeRows : typeId \in {0, t.typeId}} IN
  {toDomain(row, kept) : row \in
     {r \in makeRows : /\ r.makeName \in names
                       /\ \E t \in kept : t.vehicleMakeId = r.id}}
findByFilter(names, typeId) ==
  LET kept == {t \in typeRows : typeId \in {0, t.typeId}} IN
  {toDomain(row, kept) : row \in
     {r \in makeRows : /\ r.makeName \in names
                       /\ typeId = 0 \/ \E t \in kept : t.vehicleMakeId = r.id}}

LoadTypes ==
  /\ request = "load" /\ request' = "answered"
  /\ LET keys == [i \in DOMAIN page |-> page[i].id] IN
       \E results \in Found(ToSet(keys)) : loaded' = Batch(keys, results)
  /\ UNCHANGED <<page, writer>>

Next ==
  \/ GetAllMakes \/ FetchTypes \/ CreateModels \/ SaveChunk \/ Complete
  \/ QueryMakes \/ LoadTypes \/ \E i \in DOMAIN makes : QueryMake(makes[i].id)

Spec == Init /\ [][Next]_vars

-----------------------------------------------------------------------------
(***************************************************************************)
(* What the catalogue should hold, said of the elements and not of the     *)
(* steps that the code takes.                                              *)
(***************************************************************************)
Usable(e) == e # Empty /\ e.id > 0 /\ e.name \in Names

\* The first usable name of every type id in the last answer for a make.
TypesInFeed(m) ==
  IF m \notin DOMAIN answers THEN {}
  ELSE LET types == answers[m] IN
       {[typeId |-> types[i].id, typeName |-> types[i].name] :
          i \in {i \in DOMAIN types : /\ Usable(types[i])
                                      /\ \A k \in 1 .. i - 1 : Usable(types[k]) =>
                                           types[k].id # types[i].id}}

MakesInFeed == {e \in ToSet(feed) : Usable(e)}

\* Whatever the API answers, what the transformation lets through is what
\* the entities accept: building the models never throws, so no response
\* can fail an ingestion between its fetches and its saves.
TransformationNeverThrows == ingestion # "threw"

\* The tables hold nothing but usable makes of the feed, each with the
\* types of its own answer, and hold all of them once the ingestion is done.
\* They collide on make_id only, never on the key of the types.
CatalogueIsTheFeed ==
  /\ \A row \in makeRows :
       /\ [id |-> row.makeId, name |-> row.makeName] \in MakesInFeed
       /\ ToSet(Domain(row).vehicleTypes) = TypesInFeed(row.makeId)
       /\ Len(Domain(row).vehicleTypes) = Cardinality(TypesInFeed(row.makeId))
  /\ ingestion = "done" =>
       MakesInFeed = {[id |-> r.makeId, name |-> r.makeName] : r \in makeRows}
  /\ ingestion = "collided" =>
       \E i, k \in DOMAIN models : i # k /\ models[i].makeId = models[k].makeId

\* Query and loader read at two moments and the loader's rows come in any
\* order: every make is answered with the types it had on the page.
LoaderAgreesWithPage ==
  request = "answered" =>
    \A i \in DOMAIN page : loaded[i] = page[i].vehicleTypes

AnyTypes == UNION {ToSet(transformVehicleTypes(f)) : f \in TypeFeeds}

\* A search finds the stored makes that the answers of the API say it should:
\* makes without types are not lost in the join, and text and type must both
\* fit.  Searched for by a type, a make comes with that type only, and
\* otherwise with all of its types.
SearchFindsTheFeed ==
  \A names \in SUBSET Names, typeId \in {0} \union {t.typeId : t \in AnyTypes} :
    LET found == findByFilter(names, typeId)
        wanted(m) == {t \in TypesInFeed(m) : typeId \in {0, t.typeId}}
    IN /\ {m.makeId : m \in found} =
            {r.makeId : r \in {r \in makeRows : /\ r.makeName \in names
                                                /\ typeId # 0 => wanted(r.makeId) # {}}}
       /\ \A m \in found : ToSet(m.vehicleTypes) = wanted(m.makeId)

\* No call of the methods that change an aggregate, whatever it is given,
\* leaves it with two types of one id, which its table would refuse.
TypesUnique(make) ==
  Cardinality({t.typeId : t \in ToSet(make.vehicleTypes)}) = Len(make.vehicleTypes)
MutatorsKeepTypesUnique ==
  \A i \in DOMAIN models :
    /\ \A t \in AnyTypes : TypesUnique(addVehicleType(models[i], t))
    /\ \A t \in AnyTypes :
         LET less == removeVehicleType(models[i], t.typeId) IN
         /\ ~HasType(less.vehicleTypes, t.typeId) /\ TypesUnique(less)
         /\ less.touched <=> HasType(models[i].vehicleTypes, t.typeId)
    /\ \A t, u \in AnyTypes : TypesUnique(updateVehicleTypes(models[i], <<t, u>>))
=============================================================================
