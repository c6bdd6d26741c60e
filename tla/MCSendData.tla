----------------------------- MODULE MCSendData -----------------------------
(* Instances of SendData for TLC: the cfg files give the constants. *)
EXTENDS SendData
=============================================================================
