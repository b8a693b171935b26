------------------------- MODULE MCReplicaExchange -------------------------
(* Instances of ReplicaExchange for TLC. *)
EXTENDS ReplicaExchange

MCConfig == {1, 2}
MCBonds == [c \in MCConfig |-> 10 * c]
MCT == [r \in Rank |-> r + 1]
=============================================================================
