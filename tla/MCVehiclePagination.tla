------------------------ MODULE MCVehiclePagination ------------------------
\* Instances of VehiclePagination for TLC: a table of at most six makes.
EXTENDS VehiclePagination

MCMakeIds == 1 .. 6
=============================================================================
