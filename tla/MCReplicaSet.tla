---------------------------- MODULE MCReplicaSet ----------------------------
(* Instances of ReplicaSet for TLC. *)
EXTENDS ReplicaSet

CONSTANTS a, b, c, s
=============================================================================
