---------------------------- MODULE MCWangLandau ----------------------------
(* Instances of WangLandau for TLC. *)
EXTENDS WangLandau
=============================================================================
