----------------------------- MODULE MCGatewayNode -----------------------------
(* Every request: with or without an evaluator, a fresh container for it, a        *)
(* callback, and a reward for timeouts.                                            *)
EXTENDS GatewayNode

AllRequests ==
    {r \in [evaluator : BOOLEAN, refresh : BOOLEAN, callback : BOOLEAN, timeoutReward : BOOLEAN] :
        r.refresh => r.evaluator}
=============================================================================
