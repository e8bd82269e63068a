--------------------------- MODULE Transformation ---------------------------
(***************************************************************************)
(* From the answers of the NHTSA API to the aggregates that are stored:    *)
(* what XmlParserService makes of a response, TransformXmlToJsonUseCase    *)
(* and createDomainModels() of the ingestion use case.                     *)
(*                                                                         *)
(* An element of a response is a record of its id and its name, or Empty.  *)
(* The parser turns digits into numbers, so an id that is no positive      *)
(* integer, a name that became a number, is blank or is missing are values *)
(* outside of what isValidMake and isValidVehicleType accept.              *)
(***************************************************************************)
EXTENDS VehicleMake

CONSTANT Empty   \* an element without content, which the parser makes ""

\* XMLParser.parse: an element that occurs once is no array, one that does
\* not occur is missing.
parse(elements) ==
  CASE Len(elements) = 0 -> [is |-> "missing"]
    [] Len(elements) = 1 -> [is |-> "value", value |-> elements[1]]
    [] OTHER             -> [is |-> "array", value |-> elements]

extract(parsed) ==
  CASE parsed.is = "missing"                       -> << >>
    [] parsed.is = "value" /\ parsed.value = Empty -> << >>
    [] parsed.is = "value" /\ parsed.value # Empty -> <<parsed.value>>
    [] parsed.is = "array"                         -> parsed.value

\* The fields of "" are undefined.
fetchAllMakes(elements) ==
  LET toDTO(e) == IF e = Empty THEN [id |-> 0, name |-> Empty] ELSE e
      makes == extract(parse(elements))
  IN [i \in DOMAIN makes |-> toDTO(makes[i])]

fetchVehicleTypes(elements) == fetchAllMakes(elements)

\* Seeded fault: the id is not looked at.
isValidMake_AnyId(make) == validName(make.name)
isValidMake(make) == validId(make.id) /\ validName(make.name)
isValidVehicleType(type) == validId(type.id) /\ validName(type.name)

transformMakes(makes) ==
  LET valid == filter(makes, {i \in DOMAIN makes : isValidMake(makes[i])})
  IN [i \in DOMAIN valid |-> [makeId |-> valid[i].id, makeName |-> valid[i].name]]

\* The Map keeps the first type of each id, in the order of insertion.
transformVehicleTypes(types) ==
  LET valid == filter(types, {i \in DOMAIN types : isValidVehicleType(types[i])})
  IN deduplicateTypes([i \in DOMAIN valid |->
                         [typeId |-> valid[i].id, typeName |-> valid[i].name]])

\* Seeded fault: the types are those of the position, not of the id.
combineData_ByPosition(makes, typesMap) ==
  [i \in DOMAIN makes |->
     [makeId |-> makes[i].makeId, makeName |-> makes[i].makeName,
      vehicleTypes |-> IF i \in DOMAIN typesMap THEN typesMap[i] ELSE << >>]]
combineData(makes, typesMap) ==
  [i \in DOMAIN makes |->
     [makeId |-> makes[i].makeId, makeName |-> makes[i].makeName,
      vehicleTypes |-> IF makes[i].makeId \in DOMAIN typesMap
                         THEN typesMap[makes[i].makeId] ELSE << >>]]

execute(externalMakes, externalTypesMap) ==
  combineData(transformMakes(externalMakes),
    [m \in DOMAIN externalTypesMap |-> transformVehicleTypes(externalTypesMap[m])])

\* VehicleType.create() and VehicleMake.create() throw on what validate()
\* refuses.
CanCreateModels(data) ==
  \A i \in DOMAIN data :
    /\ validate(data[i])
    /\ \A k \in DOMAIN data[i].vehicleTypes : validateType(data[i].vehicleTypes[k])

createDomainModels(data) ==
  [i \in DOMAIN data |->
     LET types == data[i].vehicleTypes IN
     create(i, [data[i] EXCEPT !.vehicleTypes =
                  [k \in DOMAIN types |-> createType(types[k])]])]
=============================================================================
