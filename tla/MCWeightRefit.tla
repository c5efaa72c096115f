----------------------------- MODULE MCWeightRefit -----------------------------
(* Two engines behind one router, one request at each of two gateways, and *)
(* a model of three weights, the last of which does not fit the first      *)
(* flush.                                                                  *)
EXTENDS WeightRefit

CONSTANTS e1, e2, g1, g2, r1, r2
TwoEngines == {e1, e2}
TwoGateways == {g1, g2}
TwoRequests == {r1, r2}
Entry(name, bytes, kind) == [name |-> name, bytes |-> bytes, kind |-> kind]
SmallModel == <<Entry("embed", 2, "weight"), Entry("step", 1, "integer"), Entry("norm", 1, "weight"),
                Entry("norm_extra_state", 4, "extra_state"), Entry("mlp", 3, "weight"),
                Entry("lm_head", 2, "tied")>>
OneEach == r1 :> g1 @@ r2 :> g2
=============================================================================
