--------------------------- MODULE MCSftTraining ---------------------------
(* Batches of four over one or two ranks, in micro-batches of one or two.    *)
EXTENDS SftTraining

MCLayouts == {[ranks |-> 1, micro |-> 1], [ranks |-> 2, micro |-> 1], [ranks |-> 2, micro |-> 2],
              [ranks |-> 4, micro |-> 1]}
MCLossTokens == [i \in 1..DataSize |-> i % 4]
=============================================================================
