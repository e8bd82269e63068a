---------------------------- MODULE VehicleMake ----------------------------
(***************************************************************************)
(* The VehicleMake aggregate with its VehicleTypes                         *)
(* (core/domain/entities/vehicle-make.entity.ts, vehicle-type.entity.ts)   *)
(* and its mapping to and from the rows of vehicle_makes and vehicle_types *)
(* (persistence/mappers/vehicle-make.mapper.ts).  A method that throws is  *)
(* an operator with its precondition beside it.                            *)
(*                                                                         *)
(* A name is a member of Names or something that validate() refuses; an    *)
(* integer that is not positive stands for every make or type id that is   *)
(* no positive integer.  The dates are abstracted to whether an aggregate  *)
(* was touched since it was made.  X_Y is X with the fault Y seeded.       *)
(***************************************************************************)
EXTENDS Integers, SequencesExt

CONSTANT Names

\* Array.filter: the elements at the given places, in their order.  SelectSeq
\* and SortSeq have no definition that a proof could use.
InOrder(places) ==
  CHOOSE f \in SetToSeqs(places) : \A i, k \in DOMAIN f : i < k => f[i] < f[k]
filter(s, places) ==
  [k \in 1 .. Cardinality(places) |-> s[InOrder(places)[k]]]

validId(n) == n > 0
validName(name) == name \in Names

validateType(props) == validId(props.typeId) /\ validName(props.typeName)
validate(props) == validId(props.makeId) /\ validName(props.makeName)

\* VehicleType.create() and reconstitute().
createType(props) == [typeId |-> props.typeId, typeName |-> props.typeName]

HasType(types, typeId) == \E k \in DOMAIN types : types[k].typeId = typeId

deduplicateTypes(types) ==
  FoldLeft(LAMBDA acc, t : IF HasType(acc, t.typeId) THEN acc ELSE Append(acc, t),
           << >>, types)

create(id, props) ==
  [id |-> id, makeId |-> props.makeId, makeName |-> props.makeName,
   vehicleTypes |-> deduplicateTypes(props.vehicleTypes), touched |-> FALSE]

touch(make) == [make EXCEPT !.touched = TRUE]

\* Seeded fault: the id is not looked for.
addVehicleType_Always(make, type) ==
  touch([make EXCEPT !.vehicleTypes = Append(@, type)])
addVehicleType(make, type) ==
  IF HasType(make.vehicleTypes, type.typeId) THEN make
  ELSE touch([make EXCEPT !.vehicleTypes = Append(@, type)])

removeVehicleType(make, typeId) ==
  LET types == make.vehicleTypes
      others == filter(types, {k \in DOMAIN types : types[k].typeId # typeId})
      less == [make EXCEPT !.vehicleTypes = others]
  IN IF Len(others) # Len(types) THEN touch(less) ELSE less

updateVehicleTypes(make, types) ==
  touch([make EXCEPT !.vehicleTypes = deduplicateTypes(types)])

-----------------------------------------------------------------------------
toORM(make) == [id |-> make.id, makeId |-> make.makeId, makeName |-> make.makeName]

vehicleTypesToORM(make) ==
  {[vehicleMakeId |-> make.id, typeId |-> t.typeId, typeName |-> t.typeName] :
     t \in ToSet(make.vehicleTypes)}

vehicleTypeToDomain(row) == createType(row)

\* A row with the rows of its types, which the join returns in any order.
toDomain(row, typeRows) ==
  create(row.id,
    [makeId |-> row.makeId, makeName |-> row.makeName,
     vehicleTypes |-> SetToSeq({vehicleTypeToDomain(t) : t \in
                                  {r \in typeRows : r.vehicleMakeId = row.id}})])
=============================================================================
