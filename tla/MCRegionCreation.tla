-------------------------- MODULE MCRegionCreation --------------------------
(* A creator and two others, in a region with room for two items.           *)
EXTENDS RegionCreation
=============================================================================
