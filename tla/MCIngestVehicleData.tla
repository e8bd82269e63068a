------------------------ MODULE MCIngestVehicleData ------------------------
(***************************************************************************)
(* Instances of IngestVehicleData for TLC.  Make 4 is one that isValidMake *)
(* drops; a chunk holds two makes, so that <<1, 2, 3>> takes two           *)
(* transactions and <<2, 2>> collides inside one.                          *)
(***************************************************************************)
EXTENDS IngestVehicleData

MCMakeIds == 1 .. 4
MCValidMakes == 1 .. 3
MCFeeds == {<< >>, <<1, 2, 3>>, <<4, 1>>, <<2, 2>>}
=============================================================================
