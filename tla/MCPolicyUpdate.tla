--------------------------- MODULE MCPolicyUpdate ---------------------------
(* Instances of PolicyUpdate: options of dynamic and of plain batches.       *)
EXTENDS PolicyUpdate

Dynamic(onPolicy, batch, cap, epochs, defer) ==
  [dynamic |-> TRUE, onPolicy |-> onPolicy, batch |-> batch, micro |-> 1, cap |-> cap,
   epochs |-> epochs, defer |-> defer]

Plain(onPolicy, batch, micro, epochs, defer) ==
  [dynamic |-> FALSE, onPolicy |-> onPolicy, batch |-> batch, micro |-> micro, cap |-> 0,
   epochs |-> epochs, defer |-> defer]

MCOptions ==
  {Dynamic(TRUE, 1, 4, 1, TRUE), Dynamic(FALSE, 1, 3, 2, TRUE), Dynamic(FALSE, 2, 3, 1, FALSE),
   Dynamic(FALSE, 3, 4, 1, TRUE), Plain(TRUE, 2, 2, 1, FALSE), Plain(FALSE, 2, 1, 2, TRUE),
   Plain(FALSE, 2, 2, 1, TRUE)}
=============================================================================
