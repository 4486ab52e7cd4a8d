-------------------------- MODULE MCVersionCompare --------------------------
(* Inputs for the model-checking run of VersionCompare: any two versions   *)
(* over four assets with two possible snapshots.                           *)
EXTENDS VersionCompare

FourIds == 1 .. 4
=============================================================================
