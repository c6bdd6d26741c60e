------------------------------ MODULE MCSlave -------------------------------
(* Instances of Slave for TLC. *)
EXTENDS Slave
=============================================================================
