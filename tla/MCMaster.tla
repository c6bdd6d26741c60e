------------------------------ MODULE MCMaster ------------------------------
(* Instances of Master for TLC: the cfg files give the constants. *)
EXTENDS Master
=============================================================================
