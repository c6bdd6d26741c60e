------------------------------- MODULE MCHdcp -------------------------------
(* Instances of Hdcp for TLC. *)
EXTENDS Hdcp
=============================================================================
