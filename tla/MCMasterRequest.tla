-------------------------- MODULE MCMasterRequest ---------------------------
(* Instances of MasterRequest for TLC. *)
EXTENDS MasterRequest, TLC

\* Commands are interchangeable.
Symmetry == Permutations(Cmds)
=============================================================================
