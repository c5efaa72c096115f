---------------------------- MODULE MCNodeScheduler ----------------------------
(* One node is enough: acquire_node may take any candidate, so that nodes do   *)
(* not influence each other, and the theorems cover every set of nodes.        *)
EXTENDS NodeScheduler
=============================================================================
