----------------------------- MODULE NodeScheduler -----------------------------
(***************************************************************************)
(* The scheduler of the rollout server, src/polar/rollout/balancer.py,     *)
(* between the pipeline coroutines that acquire nodes and the gateways     *)
(* that register and send heartbeats.                                      *)
(*                                                                         *)
(* A gateway counts its sessions; the scheduler only knows the count of    *)
(* the last heartbeat and the reservations it has made since.  A method of *)
(* the scheduler holds the lock throughout, so it is one step; taking the  *)
(* count, delivering the heartbeat, sending a POST /sessions and serving   *)
(* it are separate steps.  Sessions are anonymous: only their numbers      *)
(* matter here.                                                            *)
(*                                                                         *)
(* acquire_node takes the candidate of least pressure (_node_score); here  *)
(* it may take any candidate, so what is shown holds for every score.  The *)
(* stored flag GatewayNode.healthy is left out: every method that reads it *)
(* recomputes it from last_heartbeat first, so that mark_unhealthy has no  *)
(* effect on the next acquire_node.                                        *)
(***************************************************************************)
EXTENDS Naturals, FiniteSets

CONSTANTS
    Nodes,
    Limit,         \* admission_limit of _can_accept_session, alike for all nodes
    MaxSessions    \* bound on the sessions on their way to or on one node

ASSUME SchedulerAssumption == Limit \in Nat /\ Limit > 0 /\ MaxSessions \in Nat

VARIABLES
    known,         \* the keys of _nodes
    metrics,       \* GatewayNode.metrics: [total, backlogged]
    reservations,  \* GatewayNode.dispatch_reservations
    draining,      \* GatewayNode.draining
    healthy,       \* what _is_node_healthy says: last_heartbeat is recent enough
    gateway,       \* the gateway process: "down" | "registering" | "up"
    load,          \* the number of sessions its dispatcher has
    beat,          \* the metrics of a heartbeat on its way, or NoBeat
    posting,       \* POST /sessions in flight: sent before and since the last heartbeat
    drained,       \* history: nodes an operator has asked to drain
    irregular      \* history: nodes whose reservations no longer stand for POSTs

schedulerVars == <<known, metrics, reservations, draining, healthy>>
gatewayVars   == <<gateway, load, beat>>
vars == <<schedulerVars, gatewayVars, posting, drained, irregular>>
-----------------------------------------------------------------------------
\* NodeStageMetrics: total_sessions, and whether the post-run backlog has reached
\* the 2 * max_postrun_workers that _can_accept_session allows.
Metrics == [total : Nat, backlogged : BOOLEAN]
Idle    == [total |-> 0, backlogged |-> FALSE]
NoBeat  == [total |-> 0, backlogged |-> TRUE]

InFlight(n) == posting[n].old + posting[n].new
Present(n)  == load[n] + InFlight(n)

\* total_sessions and _can_accept_session.
Total(n)     == metrics[n].total + reservations[n]
CanAccept(n) == Total(n) < Limit /\ ~metrics[n].backlogged

Init ==
    /\ known = {}
    /\ metrics = [n \in Nodes |-> Idle]
    /\ reservations = [n \in Nodes |-> 0]
    /\ draining = [n \in Nodes |-> FALSE]
    /\ healthy = [n \in Nodes |-> FALSE]
    /\ gateway = [n \in Nodes |-> "down"]
    /\ load = [n \in Nodes |-> 0]
    /\ beat = [n \in Nodes |-> NoBeat]
    /\ posting = [n \in Nodes |-> [old |-> 0, new |-> 0]]
    /\ drained = {}
    /\ irregular = {}

\* _maybe_remove_drained_locked, on the values the calling method has written.
RemoveIfDrained(n, isDraining, total) ==
    known' = IF isDraining /\ total = 0 THEN known \ {n} ELSE known
-----------------------------------------------------------------------------
(* The gateway registers and sends heartbeats. *)

GatewayStarts(n) ==
    /\ gateway[n] = "down"
    /\ gateway' = [gateway EXCEPT ![n] = "registering"]
    /\ UNCHANGED <<schedulerVars, load, beat, posting, drained, irregular>>

\* register_node: a node it knows keeps its metrics and goes on draining, and the
\* reservations of the POSTs in flight are forgotten.
Register(n) ==
    /\ gateway[n] = "registering"
    /\ gateway' = [gateway EXCEPT ![n] = "up"]
    /\ known' = known \union {n}
    /\ metrics' = [metrics EXCEPT ![n] = IF n \in known THEN @ ELSE Idle]
    /\ draining' = [draining EXCEPT ![n] = n \in known /\ @]
    /\ reservations' = [reservations EXCEPT ![n] = 0]
    /\ healthy' = [healthy EXCEPT ![n] = TRUE]
    /\ irregular' = IF n \in known THEN irregular \union {n} ELSE irregular
    /\ UNCHANGED <<load, beat, posting, drained>>

\* A failed registration is only logged; a later heartbeat answered 404 repeats it.
RegisterLost(n) ==
    /\ gateway[n] = "registering"
    /\ gateway' = [gateway EXCEPT ![n] = "up"]
    /\ UNCHANGED <<schedulerVars, load, beat, posting, drained, irregular>>

\* One tick of _heartbeat_loop: stage_metrics, then the POST.
BeatSent(n) ==
    /\ gateway[n] = "up" /\ beat[n] = NoBeat
    /\ \E b \in BOOLEAN :
          /\ b => load[n] > 1
          /\ beat' = [beat EXCEPT ![n] = [total |-> load[n], backlogged |-> b]]
    /\ UNCHANGED <<schedulerVars, gateway, load, posting, drained, irregular>>

\* Mutant: reservations survive the heartbeat.
MutHeartbeat(n) ==
    /\ n \in known /\ beat[n] # NoBeat
    /\ metrics' = [metrics EXCEPT ![n] = beat[n]]
    /\ healthy' = [healthy EXCEPT ![n] = TRUE]
    /\ RemoveIfDrained(n, draining[n], beat[n].total + reservations[n])
    /\ beat' = [beat EXCEPT ![n] = NoBeat]
    /\ posting' = [posting EXCEPT ![n] = [old |-> @.old + @.new, new |-> 0]]
    /\ irregular' = IF posting[n].old > 0 THEN irregular \union {n} ELSE irregular
    /\ UNCHANGED <<draining, reservations, gateway, load, drained>>

\* Mutant: the heartbeat does not look whether the node has drained.
MutHeartbeatKeeps(n) ==
    /\ n \in known /\ beat[n] # NoBeat
    /\ metrics' = [metrics EXCEPT ![n] = beat[n]]
    /\ reservations' = [reservations EXCEPT ![n] = 0]
    /\ healthy' = [healthy EXCEPT ![n] = TRUE]
    /\ beat' = [beat EXCEPT ![n] = NoBeat]
    /\ posting' = [posting EXCEPT ![n] = [old |-> @.old + @.new, new |-> 0]]
    /\ irregular' = IF posting[n].old > 0 THEN irregular \union {n} ELSE irregular
    /\ UNCHANGED <<known, draining, gateway, load, drained>>

\* heartbeat() of a known node: its metrics replace metrics and reservations.
Heartbeat(n) ==
    /\ n \in known /\ beat[n] # NoBeat
    /\ metrics' = [metrics EXCEPT ![n] = beat[n]]
    /\ reservations' = [reservations EXCEPT ![n] = 0]
    /\ healthy' = [healthy EXCEPT ![n] = TRUE]
    /\ RemoveIfDrained(n, draining[n], beat[n].total)
    /\ beat' = [beat EXCEPT ![n] = NoBeat]
    /\ posting' = [posting EXCEPT ![n] = [old |-> @.old + @.new, new |-> 0]]
    /\ irregular' = IF posting[n].old > 0 THEN irregular \union {n} ELSE irregular
    /\ UNCHANGED <<draining, gateway, load, drained>>

\* 404: the gateway registers again.
HeartbeatUnknown(n) ==
    /\ n \notin known /\ beat[n] # NoBeat
    /\ beat' = [beat EXCEPT ![n] = NoBeat]
    /\ gateway' = [gateway EXCEPT ![n] = "registering"]
    /\ UNCHANGED <<schedulerVars, load, posting, drained, irregular>>

HeartbeatLost(n) ==
    /\ beat[n] # NoBeat
    /\ beat' = [beat EXCEPT ![n] = NoBeat]
    /\ UNCHANGED <<schedulerVars, gateway, load, posting, drained, irregular>>

\* No heartbeat for stale_factor intervals.
GoesStale(n) ==
    /\ healthy[n]
    /\ healthy' = [healthy EXCEPT ![n] = FALSE]
    /\ UNCHANGED <<known, metrics, reservations, draining, gatewayVars, posting,
                   drained, irregular>>
-----------------------------------------------------------------------------
(* The pipeline. *)

\* The nodes acquire_node chooses from.
Candidates == {n \in known : healthy[n] /\ ~draining[n] /\ CanAccept(n)}

\* Mutant: acquire_node reserves nothing.
MutAcquireNode(n) ==
    /\ n \in Candidates
    /\ Present(n) < MaxSessions /\ posting' = [posting EXCEPT ![n].new = @ + 1]
    /\ UNCHANGED <<schedulerVars, gatewayVars, drained, irregular>>

\* acquire_node; then the POST is sent, unless the session's deadline has passed:
\* then the reservation stays behind.
AcquireNode(n) ==
    /\ n \in Candidates
    /\ reservations' = [reservations EXCEPT ![n] = @ + 1]
    /\ \/ Present(n) < MaxSessions /\ posting' = [posting EXCEPT ![n].new = @ + 1]
       \/ UNCHANGED posting
    /\ UNCHANGED <<known, metrics, draining, healthy, gatewayVars, drained, irregular>>

PostLeaves(n, age) ==
    /\ posting[n][age] > 0
    /\ posting' = [posting EXCEPT ![n][age] = @ - 1]

Landed(n) ==
    /\ gateway[n] # "down"
    /\ load' = [load EXCEPT ![n] = @ + 1]

\* The gateway has the session; the reservation stays until the next heartbeat.
PostAccepted(n, age) ==
    /\ PostLeaves(n, age) /\ Landed(n)
    /\ UNCHANGED <<schedulerVars, gateway, beat, drained, irregular>>

\* release_reservation after a POST that was not confirmed.  The gateway may have
\* the session all the same, and a heartbeat may have dropped the reservation: then
\* this one gives back another session's.
PostFails(n, age) ==
    /\ PostLeaves(n, age)
    /\ \/ UNCHANGED load /\ (irregular' = IF age = "old" THEN irregular \union {n}
                                                         ELSE irregular)
       \/ Landed(n) /\ irregular' = irregular \union {n}
    /\ reservations' = [reservations EXCEPT
          ![n] = IF n \in known /\ @ > 0 THEN @ - 1 ELSE @]
    /\ IF n \in known
       THEN RemoveIfDrained(n, draining[n], metrics[n].total + reservations'[n])
       ELSE UNCHANGED known
    /\ UNCHANGED <<metrics, draining, healthy, gateway, beat, drained>>

\* POST /nodes/{node_id}/drain.
DrainNode(n) ==
    /\ n \in known
    /\ draining' = [draining EXCEPT ![n] = TRUE]
    /\ RemoveIfDrained(n, TRUE, Total(n))
    /\ drained' = drained \union {n}
    /\ UNCHANGED <<metrics, reservations, healthy, gatewayVars, posting, irregular>>
-----------------------------------------------------------------------------
(* The gateway's sessions, and the gateway itself. *)

SessionLeaves(n) ==
    /\ load[n] > 0
    /\ load' = [load EXCEPT ![n] = @ - 1]
    /\ UNCHANGED <<schedulerVars, gateway, beat, posting, drained, irregular>>

GatewayStops(n) ==
    /\ gateway[n] # "down"
    /\ gateway' = [gateway EXCEPT ![n] = "down"]
    /\ load' = [load EXCEPT ![n] = 0]
    /\ beat' = [beat EXCEPT ![n] = NoBeat]
    /\ UNCHANGED <<schedulerVars, posting, drained, irregular>>
-----------------------------------------------------------------------------
PostEnds(n) == \E age \in {"old", "new"} : PostAccepted(n, age) \/ PostFails(n, age)

Step(n) ==
    \/ GatewayStarts(n) \/ Register(n) \/ RegisterLost(n) \/ GatewayStops(n)
    \/ BeatSent(n) \/ Heartbeat(n) \/ HeartbeatUnknown(n) \/ HeartbeatLost(n)
    \/ GoesStale(n)
    \/ AcquireNode(n) \/ PostEnds(n)
    \/ DrainNode(n)
    \/ SessionLeaves(n)

Next == \E n \in Nodes : Step(n)

Spec == Init /\ [][Next]_vars

\* The loop of a running gateway goes on ticking; the network does not lose every
\* heartbeat and every registration; a POST has a timeout and a session a deadline.
FairSpec ==
    /\ Spec
    /\ \A n \in Nodes :
          /\ WF_vars(BeatSent(n))
          /\ SF_vars(Heartbeat(n)) /\ SF_vars(HeartbeatUnknown(n))
          /\ SF_vars(Register(n))
          /\ WF_vars(PostEnds(n)) /\ WF_vars(SessionLeaves(n))
-----------------------------------------------------------------------------
TypeOK ==
    /\ known \subseteq Nodes
    /\ metrics \in [Nodes -> Metrics]
    /\ reservations \in [Nodes -> 0 .. Limit]
    /\ draining \in [Nodes -> BOOLEAN]
    /\ healthy \in [Nodes -> BOOLEAN]
    /\ gateway \in [Nodes -> {"down", "registering", "up"}]
    /\ load \in [Nodes -> Nat]
    /\ beat \in [Nodes -> Metrics]
    /\ posting \in [Nodes -> [old : Nat, new : Nat]]
    /\ drained \subseteq Nodes
    /\ irregular \subseteq Nodes

\* How far admission control can be exceeded: a node that never lost an
\* acknowledgement, restarted while known, or kept a POST waiting across two
\* heartbeats has at most three times the admission limit, the sessions in flight
\* included.  One limit was admitted before the count that the last heartbeat
\* carries, one while it travelled, one since (balancer.py:103-127, 226-237).
AdmissionBounded == \A n \in Nodes : n \notin irregular => Present(n) <= 3 * Limit

\* Whatever was lost, an idle gateway that keeps running is offered sessions again
\* and again: reservations left behind by expired sessions, stale heartbeats and
\* drains never shut it out for good (balancer.py:103-112, pipeline.py:122-131).
Quiet(n) == gateway[n] # "down" /\ load[n] = 0 /\ InFlight(n) = 0

IdleGatewayIsUsed ==
    \A n \in Nodes : <>[]Quiet(n) => []<>(n \in Candidates)

\* A drain ends: once its sessions are over, a draining node is removed, unless
\* its gateway goes down first (balancer.py:152-158, 245-247).
DrainCompletes ==
    \A n \in Nodes :
        (n \in known /\ draining[n]) ~> (n \notin known \/ gateway[n] = "down")

\* "test_draining_node_does_not_receive_new_sessions": no session is sent to a node
\* after an operator has drained it.
DrainedGetsNothing ==
    [][\A n \in drained : InFlight(n)' <= InFlight(n)]_vars
=============================================================================
