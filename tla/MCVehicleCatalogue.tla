------------------------- MODULE MCVehicleCatalogue -------------------------
(***************************************************************************)
(* Instances of VehicleCatalogue for TLC: every feed of up to two makes    *)
(* and a few of three, and every answer of up to two types, from elements  *)
(* among which are an empty one, one without a positive id, one whose name *)
(* is no string, and two that share their id.                              *)
(***************************************************************************)
EXTENDS VehicleCatalogue

MCNames == {"a", "b"}
Element(id, name) == [id |-> id, name |-> name]
NotAName == "1955"   \* digits, which the parser makes a number

MCMakes == {Empty, Element(0, "a"), Element(1, NotAName), Element(1, "a"),
            Element(2, "b"), Element(2, "a")}
MCTypes == {Element(1, "a"), Element(1, "b"), Element(2, "b"), Element(2, NotAName)}

MCMakeFeeds == SeqOf(MCMakes, 2) \union
  {<<Element(2, "b"), Element(0, "a"), Element(1, "a")>>}
MCTypeFeeds == SeqOf(MCTypes, 2)
=============================================================================
