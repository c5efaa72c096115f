------------------------------ MODULE MCCheckpoint ------------------------------
(* A policy and a critic. *)
EXTENDS Checkpoint

CONSTANTS actor, critic
BothGroups == {actor, critic}
=============================================================================
