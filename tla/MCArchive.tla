-------------------------------- MODULE MCArchive --------------------------------
(* Instances of Archive for TLC: the configurations give all the constants. *)
EXTENDS Archive
================================================================================
