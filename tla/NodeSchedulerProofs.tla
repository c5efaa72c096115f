-------------------------- MODULE NodeSchedulerProofs --------------------------
(***************************************************************************)
(* Proofs about NodeScheduler, for every set of nodes and every limit:     *)
(* type correctness, and the bound on over-admission.                      *)
(*                                                                         *)
(* Present(n) <= 3 * Limit is not inductive: what may still be admitted    *)
(* depends on the last count and on the reservations, and what the next    *)
(* count will allow depends on the heartbeat on its way.  Regular(n)       *)
(* carries both: with m the last count, r the reservations and b the count *)
(* that travels,                                                           *)
(*      Present <= 2 * Limit + m + r      and      Present <= b + Limit + r *)
(* so that a heartbeat (m := b, r := 0) keeps the first, r <= Limit; the   *)
(* POSTs sent since the last heartbeat are covered by r, the earlier ones  *)
(* by Limit, which makes the second true when the count b is taken.        *)
(***************************************************************************)
EXTENDS NodeScheduler, TLAPS

Reserved(n) == reservations[n] > 0 => metrics[n].total + reservations[n] <= Limit
Forgotten(n) == n \notin known => metrics[n].total = 0 /\ reservations[n] = 0

Regular(n) ==
    /\ posting[n].new <= reservations[n]
    /\ posting[n].old <= Limit
    /\ Present(n) <= 3 * Limit
    /\ Present(n) <= 2 * Limit + metrics[n].total + reservations[n]
    /\ beat[n] # NoBeat => Present(n) <= beat[n].total + Limit + reservations[n]

IInv ==
    /\ TypeOK
    /\ \A n \in Nodes : Reserved(n) /\ Forgotten(n) /\ (n \notin irregular => Regular(n))
-----------------------------------------------------------------------------
\* The nodes are independent: a step of one leaves the others as they are.
LEMMA OthersKeep ==
    ASSUME TypeOK, NEW n \in Nodes, Step(n), NEW m \in Nodes, m # n
    PROVE  /\ m \in known' <=> m \in known
           /\ m \in irregular' <=> m \in irregular
           /\ metrics'[m] = metrics[m] /\ reservations'[m] = reservations[m]
           /\ load'[m] = load[m] /\ beat'[m] = beat[m] /\ posting'[m] = posting[m]
  <1> USE SchedulerAssumption DEF TypeOK, schedulerVars, gatewayVars
  <1>1. CASE GatewayStarts(n)      BY <1>1 DEF GatewayStarts
  <1>2. CASE Register(n)           BY <1>2 DEF Register
  <1>3. CASE RegisterLost(n)       BY <1>3 DEF RegisterLost
  <1>4. CASE GatewayStops(n)       BY <1>4 DEF GatewayStops
  <1>5. CASE BeatSent(n)           BY <1>5 DEF BeatSent
  <1>6. CASE Heartbeat(n)          BY <1>6 DEF Heartbeat, RemoveIfDrained
  <1>7. CASE HeartbeatUnknown(n)   BY <1>7 DEF HeartbeatUnknown
  <1>8. CASE HeartbeatLost(n)      BY <1>8 DEF HeartbeatLost
  <1>9. CASE GoesStale(n)          BY <1>9 DEF GoesStale
  <1>10. CASE AcquireNode(n)       BY <1>10 DEF AcquireNode
  <1>11. CASE PostEnds(n)
    BY <1>11 DEF PostEnds, PostAccepted, PostFails, PostLeaves, Landed, RemoveIfDrained
  <1>12. CASE DrainNode(n)         BY <1>12 DEF DrainNode, RemoveIfDrained
  <1>13. CASE SessionLeaves(n)     BY <1>13 DEF SessionLeaves
  <1> QED BY <1>1, <1>2, <1>3, <1>4, <1>5, <1>6, <1>7, <1>8, <1>9, <1>10, <1>11,
             <1>12, <1>13 DEF Step
-----------------------------------------------------------------------------
\* Every step keeps every variable in its type; in particular acquire_node never
\* reserves beyond the limit and release_reservation never goes below zero.
LEMMA TypeStep ==
    ASSUME TypeOK, NEW n \in Nodes, Step(n)
    PROVE  TypeOK'
  <1> USE SchedulerAssumption DEF TypeOK, schedulerVars, gatewayVars
  <1> Idle \in Metrics /\ NoBeat \in Metrics  BY DEF Idle, NoBeat, Metrics
  <1>1. CASE GatewayStarts(n)      BY <1>1 DEF GatewayStarts
  <1>2. CASE Register(n)           BY <1>2 DEF Register
  <1>3. CASE RegisterLost(n)       BY <1>3 DEF RegisterLost
  <1>4. CASE GatewayStops(n)       BY <1>4 DEF GatewayStops
  <1>5. CASE BeatSent(n)           BY <1>5 DEF BeatSent, Metrics
  <1>6. CASE Heartbeat(n)          BY <1>6 DEF Heartbeat, RemoveIfDrained
  <1>7. CASE HeartbeatUnknown(n)   BY <1>7 DEF HeartbeatUnknown
  <1>8. CASE HeartbeatLost(n)      BY <1>8 DEF HeartbeatLost
  <1>9. CASE GoesStale(n)          BY <1>9 DEF GoesStale
  <1>10. CASE AcquireNode(n)
    <2>1. reservations[n] + 1 \in 0 .. Limit
      BY <1>10 DEF AcquireNode, Candidates, CanAccept, Total, Metrics
    <2> QED BY <1>10, <2>1 DEF AcquireNode
  <1>11. CASE PostEnds(n)
    <2>1. PICK age \in {"old", "new"} : PostAccepted(n, age) \/ PostFails(n, age)
      BY <1>11 DEF PostEnds
    <2>2. posting' \in [Nodes -> [old : Nat, new : Nat]]
      BY <2>1 DEF PostAccepted, PostFails, PostLeaves
    <2>3. load' \in [Nodes -> Nat]
      BY <2>1 DEF PostAccepted, PostFails, Landed
    <2>4. CASE PostAccepted(n, age)  BY <2>2, <2>3, <2>4 DEF PostAccepted
    <2>5. CASE PostFails(n, age)
      <3>1. reservations' \in [Nodes -> 0 .. Limit]  BY <2>5 DEF PostFails
      <3>2. known' \subseteq Nodes  BY <2>5 DEF PostFails, RemoveIfDrained
      <3> QED BY <2>2, <2>3, <2>5, <3>1, <3>2 DEF PostFails
    <2> QED BY <2>1, <2>4, <2>5
  <1>12. CASE DrainNode(n)         BY <1>12 DEF DrainNode, RemoveIfDrained
  <1>13. CASE SessionLeaves(n)     BY <1>13 DEF SessionLeaves
  <1> QED BY <1>1, <1>2, <1>3, <1>4, <1>5, <1>6, <1>7, <1>8, <1>9, <1>10, <1>11,
             <1>12, <1>13 DEF Step
-----------------------------------------------------------------------------
\* Reservations are only made below the limit, and a node the scheduler does not
\* know has none.
LEMMA ReservedStep ==
    ASSUME IInv, NEW n \in Nodes, Step(n)
    PROVE  Reserved(n)' /\ Forgotten(n)'
  <1> USE SchedulerAssumption DEF IInv, TypeOK, Metrics, Reserved, Forgotten,
                                  schedulerVars, gatewayVars
  <1>1. CASE GatewayStarts(n)      BY <1>1 DEF GatewayStarts
  <1>2. CASE Register(n)           BY <1>2 DEF Register, Idle
  <1>3. CASE RegisterLost(n)       BY <1>3 DEF RegisterLost
  <1>4. CASE GatewayStops(n)       BY <1>4 DEF GatewayStops
  <1>5. CASE BeatSent(n)           BY <1>5 DEF BeatSent
  <1>6. CASE Heartbeat(n)          BY <1>6 DEF Heartbeat, RemoveIfDrained
  <1>7. CASE HeartbeatUnknown(n)   BY <1>7 DEF HeartbeatUnknown
  <1>8. CASE HeartbeatLost(n)      BY <1>8 DEF HeartbeatLost
  <1>9. CASE GoesStale(n)          BY <1>9 DEF GoesStale
  <1>10. CASE AcquireNode(n)
    BY <1>10 DEF AcquireNode, Candidates, CanAccept, Total
  <1>11. CASE PostEnds(n)
    <2>1. PICK age \in {"old", "new"} : PostAccepted(n, age) \/ PostFails(n, age)
      BY <1>11 DEF PostEnds
    <2>2. CASE PostAccepted(n, age)  BY <2>2 DEF PostAccepted
    <2>3. CASE PostFails(n, age)
      <3>1. metrics' = metrics  BY <2>3 DEF PostFails
      <3>2. CASE n \in known
        BY <2>3, <3>1, <3>2 DEF PostFails, RemoveIfDrained
      <3>3. CASE n \notin known
        BY <2>3, <3>1, <3>3 DEF PostFails
      <3> QED BY <3>2, <3>3
    <2> QED BY <2>1, <2>2, <2>3
  <1>12. CASE DrainNode(n)         BY <1>12 DEF DrainNode, RemoveIfDrained, Total
  <1>13. CASE SessionLeaves(n)     BY <1>13 DEF SessionLeaves
  <1> QED BY <1>1, <1>2, <1>3, <1>4, <1>5, <1>6, <1>7, <1>8, <1>9, <1>10, <1>11,
             <1>12, <1>13 DEF Step
-----------------------------------------------------------------------------
\* A heartbeat replaces the count and drops the reservations.
LEMMA RegularHeartbeat ==
    ASSUME IInv, NEW n \in Nodes, Heartbeat(n), n \notin irregular'
    PROVE  Regular(n)'
  <1> USE SchedulerAssumption DEF IInv, TypeOK, Metrics
  <1>1. n \notin irregular /\ posting[n].old = 0
    BY DEF Heartbeat
  <1>2. Regular(n)  BY <1>1
  <1>3. reservations[n] <= Limit  OBVIOUS
  <1>4. /\ metrics'[n] = beat[n] /\ reservations'[n] = 0 /\ load'[n] = load[n]
        /\ posting'[n].old = posting[n].new /\ posting'[n].new = 0
        /\ beat'[n] = NoBeat
    BY <1>1 DEF Heartbeat
  <1>5. Present(n)' = Present(n)
    BY <1>1, <1>4 DEF Present, InFlight
  <1>6. Present(n) \in Nat  BY DEF Present, InFlight
  <1>7. Present(n) <= beat[n].total + Limit + reservations[n]
    BY <1>2 DEF Regular, Heartbeat
  <1> QED BY <1>2, <1>3, <1>4, <1>5, <1>6, <1>7 DEF Regular

\* The pipeline's steps move what is present and what is reserved together, as long
\* as no acknowledgement is lost and no stale reservation is given back.
LEMMA RegularPost ==
    ASSUME IInv, NEW n \in Nodes, AcquireNode(n) \/ PostEnds(n), n \notin irregular'
    PROVE  Regular(n)'
  <1> USE SchedulerAssumption DEF IInv, TypeOK, Metrics
  <1>1. n \notin irregular
    BY DEF AcquireNode, PostEnds, PostAccepted, PostFails
  <1>2. Regular(n)  BY <1>1
  <1>3. metrics'[n] = metrics[n] /\ beat'[n] = beat[n]
    BY DEF AcquireNode, PostEnds, PostAccepted, PostFails, schedulerVars, gatewayVars
  <1>4. CASE AcquireNode(n)
    <2>1. reservations'[n] = reservations[n] + 1 /\ load'[n] = load[n]
      BY <1>4 DEF AcquireNode, gatewayVars
    <2>2. metrics[n].total + reservations[n] < Limit
      BY <1>4 DEF AcquireNode, Candidates, CanAccept, Total
    <2>3. posting'[n].old = posting[n].old
          /\ (posting'[n].new = posting[n].new + 1 \/ posting'[n].new = posting[n].new)
      BY <1>4 DEF AcquireNode
    <2> QED BY <1>2, <1>3, <2>1, <2>2, <2>3 DEF Regular, Present, InFlight
  <1>5. CASE PostEnds(n)
    <2>1. PICK age \in {"old", "new"} : PostAccepted(n, age) \/ PostFails(n, age)
      BY <1>5 DEF PostEnds
    <2>2. \/ posting[n].old > 0 /\ age = "old" /\ posting'[n].old = posting[n].old - 1
             /\ posting'[n].new = posting[n].new
          \/ posting[n].new > 0 /\ age = "new" /\ posting'[n].new = posting[n].new - 1
             /\ posting'[n].old = posting[n].old
      BY <2>1 DEF PostAccepted, PostFails, PostLeaves
    <2>3. CASE PostAccepted(n, age)
      <3>1. reservations'[n] = reservations[n] /\ load'[n] = load[n] + 1
        BY <2>3 DEF PostAccepted, Landed, schedulerVars
      <3> QED BY <1>2, <1>3, <2>2, <3>1 DEF Regular, Present, InFlight
    <2>4. CASE PostFails(n, age)
      <3>1. age = "new" /\ load' = load
        BY <2>4 DEF PostFails
      <3>2. reservations[n] > 0
        BY <1>2, <2>2, <3>1 DEF Regular
      <3>3. n \in known
        BY <3>2 DEF Forgotten
      <3>4. reservations'[n] = reservations[n] - 1
        BY <2>4, <3>2, <3>3 DEF PostFails
      <3> QED BY <1>2, <1>3, <2>2, <3>1, <3>2, <3>4 DEF Regular, Present, InFlight
    <2> QED BY <2>1, <2>3, <2>4
  <1> QED BY <1>4, <1>5

\* The rest neither admits nor forgets: registration finds nothing to forget, and a
\* count is taken when Limit + r covers what it leaves out.
LEMMA RegularRest ==
    ASSUME IInv, NEW n \in Nodes, Step(n), n \notin irregular',
           ~Heartbeat(n), ~AcquireNode(n), ~PostEnds(n)
    PROVE  Regular(n)'
  <1> USE SchedulerAssumption DEF IInv, TypeOK, Metrics, Regular, Present, InFlight,
                                  schedulerVars, gatewayVars
  <1>1. CASE GatewayStarts(n)      BY <1>1 DEF GatewayStarts
  <1>2. CASE Register(n)
    <2>1. n \notin known /\ n \notin irregular  BY <1>2 DEF Register
    <2>2. Regular(n) /\ metrics[n].total = 0 /\ reservations[n] = 0
      BY <2>1 DEF Forgotten
    <2>3. metrics'[n].total = 0 /\ reservations'[n] = 0
      BY <1>2, <2>1 DEF Register, Idle
    <2> QED BY <1>2, <2>2, <2>3 DEF Register
  <1>3. CASE RegisterLost(n)       BY <1>3 DEF RegisterLost
  <1>4. CASE GatewayStops(n)       BY <1>4 DEF GatewayStops
  <1>5. CASE BeatSent(n)
    <2>1. Regular(n)  BY <1>5 DEF BeatSent
    <2>2. beat'[n].total = load[n]  BY <1>5 DEF BeatSent
    <2>3. UNCHANGED <<metrics, reservations, load, posting>>  BY <1>5 DEF BeatSent
    <2> QED BY <2>1, <2>2, <2>3
  <1>7. CASE HeartbeatUnknown(n)   BY <1>7 DEF HeartbeatUnknown
  <1>8. CASE HeartbeatLost(n)      BY <1>8 DEF HeartbeatLost
  <1>9. CASE GoesStale(n)          BY <1>9 DEF GoesStale
  <1>12. CASE DrainNode(n)         BY <1>12 DEF DrainNode
  <1>13. CASE SessionLeaves(n)     BY <1>13 DEF SessionLeaves
  <1> QED BY <1>1, <1>2, <1>3, <1>4, <1>5, <1>7, <1>8, <1>9, <1>12, <1>13 DEF Step
-----------------------------------------------------------------------------
\* The scheduler and the gateways keep their types; in particular a node never has
\* more reservations than its admission limit.
THEOREM TypeCorrect == Spec => []TypeOK
  <1>1. Init => TypeOK
    BY SchedulerAssumption DEF Init, TypeOK, Metrics, Idle, NoBeat
  <1>2. TypeOK /\ [Next]_vars => TypeOK'
    <2> SUFFICES ASSUME TypeOK, [Next]_vars PROVE TypeOK'
      OBVIOUS
    <2>1. CASE Next  BY <2>1, TypeStep DEF Next
    <2>2. CASE UNCHANGED vars
      BY <2>2 DEF vars, schedulerVars, gatewayVars, TypeOK
    <2> QED BY <2>1, <2>2
  <1> QED BY <1>1, <1>2, PTL DEF Spec

\* The strengthened invariant holds in every reachable state.
THEOREM InvariantHolds == Spec => []IInv
  <1>1. Init => IInv
    BY SchedulerAssumption DEF Init, IInv, TypeOK, Reserved, Forgotten, Regular,
       Present, InFlight, Metrics, Idle, NoBeat
  <1>2. IInv /\ [Next]_vars => IInv'
    <2> SUFFICES ASSUME IInv, [Next]_vars PROVE IInv'
      OBVIOUS
    <2>1. CASE Next
      <3>1. PICK n \in Nodes : Step(n)  BY <2>1 DEF Next
      <3>2. TypeOK /\ TypeOK'  BY <3>1, TypeStep DEF IInv
      <3>3. ASSUME NEW m \in Nodes
            PROVE  Reserved(m)' /\ Forgotten(m)' /\ (m \notin irregular' => Regular(m)')
        <4>1. CASE m = n
          <5>1. Reserved(n)' /\ Forgotten(n)'  BY <3>1, ReservedStep
          <5>2. n \notin irregular' => Regular(n)'
            BY <3>1, RegularHeartbeat, RegularPost, RegularRest
          <5> QED BY <4>1, <5>1, <5>2
        <4>2. CASE m # n
          <5>1. Reserved(m) /\ Forgotten(m) /\ (m \notin irregular => Regular(m))
            BY DEF IInv
          <5>2. /\ m \in known' <=> m \in known
                /\ m \in irregular' <=> m \in irregular
                /\ metrics'[m] = metrics[m] /\ reservations'[m] = reservations[m]
                /\ load'[m] = load[m] /\ beat'[m] = beat[m] /\ posting'[m] = posting[m]
            BY <3>1, <3>2, <4>2, OthersKeep
          <5> QED BY <5>1, <5>2 DEF Reserved, Forgotten, Regular, Present, InFlight
        <4> QED BY <4>1, <4>2
      <3> QED BY <3>2, <3>3 DEF IInv
    <2>2. CASE UNCHANGED vars
      BY <2>2 DEF vars, schedulerVars, gatewayVars, IInv, TypeOK, Reserved, Forgotten,
         Regular, Present, InFlight
    <2> QED BY <2>1, <2>2
  <1> QED BY <1>1, <1>2, PTL DEF Spec

\* Admission control is exceeded by a factor of three at most on a node whose POSTs
\* are all answered within a heartbeat (balancer.py:103-127, 226-237).
THEOREM OverAdmissionBounded == Spec => []AdmissionBounded
  <1>1. IInv => AdmissionBounded
    BY DEF IInv, AdmissionBounded, Regular
  <1> QED BY <1>1, InvariantHolds, PTL
=============================================================================
