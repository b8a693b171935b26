----------------------------- MODULE MCRestart ------------------------------
(* An instance of Restart for TLC. *)
EXTENDS Restart
MCEnergies == {-2, 1, 7}
=============================================================================
