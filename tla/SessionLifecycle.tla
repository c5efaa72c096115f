-------------------------- MODULE SessionLifecycle --------------------------
(***************************************************************************)
(* What the gateway promises about one rollout session: it moves forward   *)
(* through INIT, READY, RUNNING and POSTRUN, it may leave for POSTRUN from *)
(* any earlier stage (the stage failed, or the session was cancelled), it  *)
(* is finalised in POSTRUN and then leaves the gateway for good.           *)
(*                                                                         *)
(* The class docstring of SessionDispatcher (src/polar/gateway/            *)
(* dispatcher.py) promises this path; the module SessionDispatcher, which  *)
(* models the queues, workers and slots, is shown to implement it.         *)
(***************************************************************************)
CONSTANT Sessions            \* rollout session ids, each used once

VARIABLE life                \* where each session is, as a client sees it

Stages == {"INIT", "READY", "RUNNING", "POSTRUN"}

LifeTypeOK == life \in [Sessions -> Stages \union {"absent", "gone"}]

Init == life = [s \in Sessions |-> "absent"]

Submit(s) ==
    /\ life[s] = "absent"
    /\ life' = [life EXCEPT ![s] = "INIT"]

GetReady(s) ==
    /\ life[s] = "INIT"
    /\ life' = [life EXCEPT ![s] = "READY"]

Run(s) ==
    /\ life[s] = "READY"
    /\ life' = [life EXCEPT ![s] = "RUNNING"]

\* The stage is over, failed, or the session was cancelled while parked.
Finalize(s) ==
    /\ life[s] \in {"INIT", "READY", "RUNNING"}
    /\ life' = [life EXCEPT ![s] = "POSTRUN"]

Leave(s) ==
    /\ life[s] = "POSTRUN"
    /\ life' = [life EXCEPT ![s] = "gone"]

\* The gateway shuts down and forgets every session it holds.
Shutdown ==
    life' = [s \in Sessions |-> IF life[s] \in Stages THEN "gone" ELSE life[s]]

Next ==
    \/ Shutdown
    \/ \E s \in Sessions : Submit(s) \/ GetReady(s) \/ Run(s) \/ Finalize(s) \/ Leave(s)

Spec == Init /\ [][Next]_life
=============================================================================
