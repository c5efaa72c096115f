------------------------- MODULE RolloutPipelineProofs -------------------------
(***************************************************************************)
(* Proofs about RolloutPipeline, for every set of sessions, gateways and   *)
(* faults: type correctness, OneGatewayPerSession and TimeoutMeansLost.    *)
(*                                                                         *)
(* Neither of the two is inductive.  A retry forgets a gateway because its *)
(* registry does not know the session, which only rules out work of it     *)
(* because a gateway forgets what it still works on after the wait alone   *)
(* (Known).  The poll that follows the deadline finds what there is to     *)
(* find, which means the result because a gateway that knows the session   *)
(* works on it, has its result, or has delivered it (Alive), and because   *)
(* the gateway waited for does know it (Awaits), unless it restarted.      *)
(*                                                                         *)
(* Last, the gateways of the module keep the contract that GatewayNode's   *)
(* handlers are shown to keep.                                             *)
(***************************************************************************)
EXTENDS RolloutPipeline, TLAPS

\* While the coroutine tries gateways, nothing has come of the session yet.
Trying == {"acquire", "posting", "confirm"}
Waits  == {"waiting", "polling"}

Phase(s) ==
    /\ pc[s] = "acquire" => node[s] = Nowhere
    /\ pc[s] \in {"posting", "confirm"} \union Waits => node[s] \in Nodes
    /\ pc[s] \in Trying => ~started[s]
    /\ pc[s] \in Trying \union Waits => outcome[s] = "none" /\ future[s] # "gone"
    /\ pc[s] # "posting" => answer[s] = "none"
    /\ pc[s] # "polling" => reply[s] = NoReply

\* What a gateway has of a session it does not know: nothing, unless it was asked to
\* forget it, or was given up without being able to tell.
Known(s, n) == registry[n][s] = "absent" /\ work[n][s] # "none" => n \in unsure[s] \/ pc[s] = "done"

OneGateway(s) ==
    /\ late[s] \subseteq unsure[s]
    /\ \A n \in Nodes :
          /\ registry[n][s] # "absent" \/ work[n][s] # "none" => n = node[s] \/ n \in unsure[s]
          /\ Known(s, n)
          /\ pc[s] = "done" /\ outcome[s] # "raised" /\ registry[n][s] # "absent" => n \in unsure[s]

\* The result of a session a gateway knows is being made, stored there, or delivered.
Alive(s, n) ==
    /\ work[n][s] # "none" \/ payload[n][s] \/ future[s] # "open"
    /\ work[n][s] \in {"pushing", "pushed"} => payload[n][s]

Awaits(s) == pc[s] \in Waits \/ (pc[s] = "posting" /\ answer[s] = "ok")

\* The deadline has passed without an excuse: the result is there, and a poll finds it.
Found(s) ==
    /\ work[node[s]][s] = "none"
    /\ pc[s] = "polling" => payload[node[s]][s] /\ (reply[s] = NoReply \/ reply[s].result)

\* The result of a session is somewhere as long as the coroutine waits for it.
Kept(s) ==
    /\ \A n \in Nodes :
          /\ work[n][s] = "pushed" => future[s] # "open"
          /\ n \notin crashed /\ registry[n][s] # "absent" => Alive(s, n)
    /\ Awaits(s) /\ node[s] \notin crashed => registry[node[s]][s] # "absent"

\* What is there when the deadline passes is found, unless the poll has an excuse.
Due(s) ==
    /\ pc[s] \in Waits /\ started[s] /\ expired[s] /\ ~excused[s] /\ node[s] \notin crashed =>
          Found(s)
    /\ outcome[s] = "timeout" /\ started[s] => node[s] \in crashed \/ excused[s]

IInv == TypeOK /\ \A s \in Sessions : Phase(s) /\ OneGateway(s) /\ Kept(s) /\ Due(s)
-----------------------------------------------------------------------------
\* The constants a step writes are of their types.
LEMMA Values ==
    /\ "acquire" \in Places /\ "posting" \in Places /\ "confirm" \in Places
    /\ "waiting" \in Places /\ "polling" \in Places /\ "persist" \in Places
    /\ "cleanup" \in Places /\ "done" \in Places
    /\ "none" \in Answers /\ "ok" \in Answers /\ "error" \in Answers
    /\ "absent" \in Statuses /\ "registered" \in Statuses
    /\ "active" \in Statuses /\ "terminal" \in Statuses
    /\ "none" \in Progress /\ "queued" \in Progress /\ "running" \in Progress
    /\ "pushing" \in Progress /\ "pushed" \in Progress
    /\ "gone" \in Futures /\ "open" \in Futures /\ \A n \in Nodes : n \in Futures
    /\ "none" \in Outcomes /\ "timeout" \in Outcomes /\ "raised" \in Outcomes
    /\ \A n \in Nodes : n \in Outcomes
    /\ NoReply \in Replies
  BY DEF Places, Answers, Statuses, Progress, Futures, Outcomes, NoReply, Replies

\* POST /sessions changes what one gateway has of one session, which it then knows.
Took(s, n) ==
    /\ \A m \in Nodes, t \in Sessions : m # n \/ t # s =>
          registry'[m][t] = registry[m][t] /\ work'[m][t] = work[m][t]
    /\ \/ registry'[n][s] = "registered" /\ work'[n][s] = "queued"
       \/ registry[n][s] # "absent" /\ registry'[n][s] = registry[n][s] /\ work'[n][s] = work[n][s]

LEMMA Served ==
    ASSUME TypeOK, NEW s \in Sessions, NEW n \in Nodes, Accept(s, n) \/ Refuse(s, n)
    PROVE  /\ registry' \in [Nodes -> [Sessions -> Statuses]]
           /\ work' \in [Nodes -> [Sessions -> Progress]]
           /\ Took(s, n)
  <1>1. CASE Accept(s, n)  BY <1>1, Values DEF TypeOK, Accept, Took
  <1>2. CASE Refuse(s, n)  BY <1>2 DEF TypeOK, Refuse, Took
  <1> QED BY <1>1, <1>2

\* A gateway that forgets a session forgets nothing else.
LEMMA Forgotten ==
    ASSUME TypeOK, NEW s \in Sessions, NEW n \in Nodes, Forget(s, n)
    PROVE  /\ registry' \in [Nodes -> [Sessions -> Statuses]]
           /\ payload' \in [Nodes -> [Sessions -> BOOLEAN]]
           /\ \A m \in Nodes, t \in Sessions : m # n \/ t # s =>
                 registry'[m][t] = registry[m][t] /\ payload'[m][t] = payload[m][t]
           /\ registry'[n][s] = "absent" /\ ~payload'[n][s]
  BY Values DEF TypeOK, Forget

\* Every step keeps every variable in its type: the coroutine waits, and polls, at a
\* gateway, and an open future is resolved with one.
LEMMA TypeStep ==
    ASSUME TypeOK, [Next]_vars, \A s \in Sessions : Phase(s)
    PROVE  TypeOK'
  <1> USE Values DEF TypeOK, pipelineVars, gatewayVars, remoteVars
  <1>1. ASSUME NEW s \in Sessions, Expire(s) PROVE TypeOK'
    BY <1>1 DEF Expire
  <1>2. ASSUME NEW s \in Sessions, NoNode(s) PROVE TypeOK'
    BY <1>2 DEF NoNode, Resolve, Goto
  <1>3. ASSUME NEW s \in Sessions, NEW n \in Nodes, Acquire(s, n) PROVE TypeOK'
    <2>1. Goto(s, "persist") \/ Goto(s, "posting")  BY <1>3 DEF Acquire, Resolve
    <2>2. pc' \in [Sessions -> Places]  BY <1>3, <2>1 DEF Goto
    <2>3. outcome' \in [Sessions -> Outcomes]  BY <1>3, <2>1 DEF Acquire, Resolve
    <2>4. future' \in [Sessions -> Futures]  BY <1>3, <2>1 DEF Acquire, Resolve
    <2> QED BY <1>3, <2>2, <2>3, <2>4 DEF Acquire
  <1>4. ASSUME NEW s \in Sessions, PostServed(s) PROVE TypeOK'
    <2>1. node[s] \in Nodes  BY <1>4 DEF PostServed, Phase
    <2>2. Accept(s, node[s]) \/ Refuse(s, node[s])  BY <1>4 DEF PostServed
    <2>3. answer' \in [Sessions -> Answers]  BY <1>4 DEF PostServed
    <2> QED BY <1>4, <2>1, <2>2, <2>3, Served DEF PostServed
  <1>5. ASSUME NEW s \in Sessions, PostReturns(s) PROVE TypeOK'
    BY <1>5 DEF PostReturns, Goto
  <1>6. ASSUME NEW s \in Sessions, PostFails(s) PROVE TypeOK'
    <2>1. node[s] \in Nodes  BY <1>6 DEF PostFails, Phase, Waits
    <2>2. pc' \in [Sessions -> Places]  BY <1>6, <2>1 DEF PostFails, Goto
    <2>3. late' \in [Sessions -> SUBSET Nodes]  BY <1>6, <2>1 DEF PostFails
    <2>4. unsure' \in [Sessions -> SUBSET Nodes]  BY <1>6, <2>1 DEF PostFails
    <2> QED BY <1>6, <2>2, <2>3, <2>4 DEF PostFails
  <1>7. ASSUME NEW s \in Sessions, Confirm(s) PROVE TypeOK'
    <2>1. Goto(s, "persist") \/ Goto(s, "acquire") \/ Goto(s, "waiting")
      BY <1>7 DEF Confirm, Retry, Resolve
    <2>2. pc' \in [Sessions -> Places]  BY <1>7, <2>1 DEF Goto
    <2>3. node' \in [Sessions -> Nodes \union {Nowhere}]  BY <1>7, <2>1 DEF Confirm, Retry
    <2>4. outcome' \in [Sessions -> Outcomes]  BY <1>7, <2>1 DEF Confirm, Retry, Resolve
    <2>5. future' \in [Sessions -> Futures]  BY <1>7, <2>1 DEF Confirm, Retry, Resolve
    <2> QED BY <1>7, <2>2, <2>3, <2>4, <2>5 DEF Confirm
  <1>8. ASSUME NEW s \in Sessions, ConfirmLost(s) PROVE TypeOK'
    <2>1. node[s] \in Nodes  BY <1>8 DEF ConfirmLost, Phase, Waits
    <2>2. Goto(s, "persist") \/ Goto(s, "acquire")  BY <1>8 DEF ConfirmLost, Retry, Resolve
    <2>3. pc' \in [Sessions -> Places]  BY <1>8, <2>1, <2>2 DEF Goto
    <2>4. node' \in [Sessions -> Nodes \union {Nowhere}]  BY <1>8, <2>1, <2>2 DEF ConfirmLost, Retry
    <2>5. outcome' \in [Sessions -> Outcomes]  BY <1>8, <2>1, <2>2 DEF ConfirmLost, Retry, Resolve
    <2>6. future' \in [Sessions -> Futures]  BY <1>8, <2>1, <2>2 DEF ConfirmLost, Retry, Resolve
    <2>7. unsure' \in [Sessions -> SUBSET Nodes]  BY <1>8, <2>1, <2>2 DEF ConfirmLost
    <2> QED BY <1>8, <2>3, <2>4, <2>5, <2>6, <2>7 DEF ConfirmLost
  <1>9. ASSUME NEW s \in Sessions, WaitReturns(s) PROVE TypeOK'
    <2>1. future[s] \in Nodes  BY <1>9 DEF WaitReturns, Phase, Waits, Futures
    <2>2. pc' \in [Sessions -> Places]  BY <1>9, <2>1 DEF WaitReturns, Resolve, Goto
    <2>3. outcome' \in [Sessions -> Outcomes]  BY <1>9, <2>1 DEF WaitReturns, Resolve
    <2>4. future' \in [Sessions -> Futures]  BY <1>9, <2>1 DEF WaitReturns, Resolve
    <2> QED BY <1>9, <2>2, <2>3, <2>4 DEF WaitReturns
  <1>10. ASSUME NEW s \in Sessions, WaitTimesOut(s) PROVE TypeOK'
    BY <1>10 DEF WaitTimesOut, Goto
  <1>11. ASSUME NEW s \in Sessions, PollServed(s) PROVE TypeOK'
    <2>1. node[s] \in Nodes  BY <1>11 DEF PollServed, Phase, Waits
    <2>2. [status |-> registry[node[s]][s], result |-> payload[node[s]][s]] \in Replies
      BY <2>1 DEF Replies
    <2>3. reply' \in [Sessions -> Replies]  BY <1>11, <2>1, <2>2 DEF PollServed
    <2> QED BY <1>11, <2>3 DEF PollServed
  <1>12. ASSUME NEW s \in Sessions, PollReturns(s) PROVE TypeOK'
    <2>1. node[s] \in Nodes  BY <1>12 DEF PollReturns, Phase, Waits
    <2>2. Goto(s, "persist") \/ Goto(s, "waiting")  BY <1>12 DEF PollReturns, Resolve, LoopTop
    <2>3. pc' \in [Sessions -> Places]  BY <1>12, <2>1, <2>2 DEF Goto
    <2>4. outcome' \in [Sessions -> Outcomes]  BY <1>12, <2>1, <2>2 DEF PollReturns, LoopTop,
          Resolve
    <2>5. future' \in [Sessions -> Futures]  BY <1>12, <2>1, <2>2 DEF PollReturns, LoopTop, Resolve
    <2>6. started' \in [Sessions -> BOOLEAN]  BY <1>12, <2>1, <2>2 DEF PollReturns
    <2>7. expired' \in [Sessions -> BOOLEAN]  BY <1>12, <2>1, <2>2 DEF PollReturns
    <2>8. reply' \in [Sessions -> Replies]  BY <1>12, <2>1, <2>2 DEF PollReturns
    <2> QED BY <1>12, <2>3, <2>4, <2>5, <2>6, <2>7, <2>8 DEF PollReturns
  <1>13. ASSUME NEW s \in Sessions, PollLost(s) PROVE TypeOK'
    <2>1. Goto(s, "persist") \/ Goto(s, "waiting")  BY <1>13 DEF PollLost, Resolve, LoopTop
    <2>2. pc' \in [Sessions -> Places]  BY <1>13, <2>1 DEF Goto
    <2>3. outcome' \in [Sessions -> Outcomes]  BY <1>13, <2>1 DEF PollLost, LoopTop, Resolve
    <2>4. future' \in [Sessions -> Futures]  BY <1>13, <2>1 DEF PollLost, LoopTop, Resolve
    <2>5. reply' \in [Sessions -> Replies]  BY <1>13, <2>1 DEF PollLost
    <2> QED BY <1>13, <2>2, <2>3, <2>4, <2>5 DEF PollLost
  <1>14. ASSUME NEW s \in Sessions, Persist(s) PROVE TypeOK'
    <2>1. pc' \in [Sessions -> Places]  BY <1>14 DEF Persist, Goto
    <2>2. outcome' \in [Sessions -> Outcomes]  BY <1>14 DEF Persist
    <2> QED BY <1>14, <2>1, <2>2 DEF Persist
  <1>15. ASSUME NEW s \in Sessions, Cleanup(s) PROVE TypeOK'
    <2>1. pc' \in [Sessions -> Places]  BY <1>15 DEF Cleanup, Goto
    <2>2. CASE node[s] # Nowhere /\ Forget(s, node[s]) /\ UNCHANGED unsure
      BY <1>15, <2>1, <2>2, Forgotten DEF Cleanup
    <2>3. CASE node[s] # Nowhere /\ unsure' = [unsure EXCEPT ![s] = @ \union {node[s]}]
                                 /\ UNCHANGED <<registry, payload>>
      BY <1>15, <2>1, <2>3 DEF Cleanup
    <2>4. CASE UNCHANGED <<registry, payload, unsure>>  BY <1>15, <2>1, <2>4 DEF Cleanup
    <2> QED BY <1>15, <2>2, <2>3, <2>4 DEF Cleanup
  <1>16. ASSUME NEW n \in Nodes, NEW s \in Sessions, LatePostServed(s, n) PROVE TypeOK'
    <2>1. late' \in [Sessions -> SUBSET Nodes]  BY <1>16 DEF LatePostServed
    <2>2. Accept(s, n) \/ Refuse(s, n)  BY <1>16 DEF LatePostServed
    <2> QED BY <1>16, <2>1, <2>2, Served DEF LatePostServed
  <1>17. ASSUME NEW n \in Nodes, NEW s \in Sessions, GatewayStarts(n, s) PROVE TypeOK'
    BY <1>17 DEF GatewayStarts
  <1>18. ASSUME NEW n \in Nodes, NEW s \in Sessions, GatewayFinishes(n, s) PROVE TypeOK'
    BY <1>18 DEF GatewayFinishes
  <1>19. ASSUME NEW n \in Nodes, NEW s \in Sessions, CallbackServed(n, s) PROVE TypeOK'
    BY <1>19 DEF CallbackServed
  <1>20. ASSUME NEW n \in Nodes, NEW s \in Sessions, PushEnds(n, s) PROVE TypeOK'
    <2>1. payload' = payload \/ payload' = [payload EXCEPT ![n][s] = FALSE]  BY <1>20 DEF PushEnds
    <2>2. [payload EXCEPT ![n][s] = FALSE] \in [Nodes -> [Sessions -> BOOLEAN]]  OBVIOUS
    <2>3. work' \in [Nodes -> [Sessions -> Progress]]  BY <1>20 DEF PushEnds
    <2> QED BY <1>20, <2>1, <2>2, <2>3 DEF PushEnds
  <1>21. ASSUME NEW n \in Nodes, Crash(n) PROVE TypeOK'
    BY <1>21 DEF Crash
  <1>22. CASE UNCHANGED vars  BY <1>22 DEF vars
  <1> QED BY <1>1, <1>2, <1>3, <1>4, <1>5, <1>6, <1>7, <1>8, <1>9, <1>10, <1>11, <1>12, <1>13,
        <1>14, <1>15, <1>16, <1>17, <1>18, <1>19, <1>20, <1>21, <1>22 DEF Next

\* A step keeps what the place of the coroutine says of the rest of its session.
LEMMA PhaseStep ==
    ASSUME TypeOK, TypeOK', [Next]_vars, NEW t \in Sessions,
           Phase(t)
    PROVE  Phase(t)'
  <1> USE PipelineAssumption DEF pipelineVars, gatewayVars, remoteVars, Phase, Trying, Waits
  <1>1. ASSUME NEW s \in Sessions, Expire(s) PROVE Phase(t)'
    BY <1>1 DEF Expire, TypeOK
  <1>2. ASSUME NEW s \in Sessions, NoNode(s) PROVE Phase(t)'
    BY <1>2 DEF NoNode, Resolve, Goto, TypeOK
  <1>3. ASSUME NEW s \in Sessions, NEW n \in Nodes, Acquire(s, n) PROVE Phase(t)'
    BY <1>3 DEF Acquire, Resolve, Goto, TypeOK
  <1>4. ASSUME NEW s \in Sessions, PostServed(s) PROVE Phase(t)'
    BY <1>4 DEF PostServed, Accept, Refuse, TypeOK
  <1>5. ASSUME NEW s \in Sessions, PostReturns(s) PROVE Phase(t)'
    BY <1>5 DEF PostReturns, Goto, TypeOK
  <1>6. ASSUME NEW s \in Sessions, PostFails(s) PROVE Phase(t)'
    BY <1>6 DEF PostFails, Goto, TypeOK
  <1>7. ASSUME NEW s \in Sessions, Confirm(s) PROVE Phase(t)'
    BY <1>7 DEF Confirm, Retry, Resolve, Goto, TypeOK
  <1>8. ASSUME NEW s \in Sessions, ConfirmLost(s) PROVE Phase(t)'
    BY <1>8 DEF ConfirmLost, Retry, Resolve, Goto, TypeOK
  <1>9. ASSUME NEW s \in Sessions, WaitReturns(s) PROVE Phase(t)'
    BY <1>9 DEF WaitReturns, Resolve, Goto, TypeOK
  <1>10. ASSUME NEW s \in Sessions, WaitTimesOut(s) PROVE Phase(t)'
    BY <1>10 DEF WaitTimesOut, Goto, TypeOK
  <1>11. ASSUME NEW s \in Sessions, PollServed(s) PROVE Phase(t)'
    BY <1>11 DEF PollServed, NoReply, TypeOK
  <1>12. ASSUME NEW s \in Sessions, PollReturns(s) PROVE Phase(t)'
    <2>1. CASE t # s  BY <1>12, <2>1 DEF PollReturns, LoopTop, Resolve, Goto, TypeOK
    <2>2. CASE t = s
      <3>1. /\ pc[t] = "polling" /\ pc'[t] \in {"persist", "waiting"} /\ reply'[t] = NoReply
            /\ node'[t] = node[t] /\ answer'[t] = answer[t]
            /\ pc'[t] = "waiting" => outcome'[t] = outcome[t] /\ future'[t] = future[t]
        BY <1>12, <2>2 DEF PollReturns, LoopTop, Resolve, Goto, TypeOK
      <3> QED BY <3>1
    <2> QED BY <2>1, <2>2
  <1>13. ASSUME NEW s \in Sessions, PollLost(s) PROVE Phase(t)'
    <2>1. CASE t # s  BY <1>13, <2>1 DEF PollLost, LoopTop, Resolve, Goto, TypeOK
    <2>2. CASE t = s
      <3>1. /\ pc[t] = "polling" /\ pc'[t] \in {"persist", "waiting"} /\ reply'[t] = NoReply
            /\ node'[t] = node[t] /\ answer'[t] = answer[t]
            /\ pc'[t] = "waiting" => outcome'[t] = outcome[t] /\ future'[t] = future[t]
        BY <1>13, <2>2 DEF PollLost, LoopTop, Resolve, Goto, TypeOK
      <3> QED BY <3>1
    <2> QED BY <2>1, <2>2
  <1>14. ASSUME NEW s \in Sessions, Persist(s) PROVE Phase(t)'
    BY <1>14 DEF Persist, Goto, TypeOK
  <1>15. ASSUME NEW s \in Sessions, Cleanup(s) PROVE Phase(t)'
    BY <1>15 DEF Cleanup, Forget, Goto, TypeOK
  <1>16. ASSUME NEW n \in Nodes, NEW s \in Sessions, LatePostServed(s, n) PROVE Phase(t)'
    BY <1>16 DEF LatePostServed, Accept, Refuse, TypeOK
  <1>17. ASSUME NEW n \in Nodes, NEW s \in Sessions, GatewayStarts(n, s) PROVE Phase(t)'
    BY <1>17 DEF GatewayStarts, TypeOK
  <1>18. ASSUME NEW n \in Nodes, NEW s \in Sessions, GatewayFinishes(n, s) PROVE Phase(t)'
    BY <1>18 DEF GatewayFinishes, TypeOK
  <1>19. ASSUME NEW n \in Nodes, NEW s \in Sessions, CallbackServed(n, s) PROVE Phase(t)'
    BY <1>19 DEF CallbackServed, TypeOK
  <1>20. ASSUME NEW n \in Nodes, NEW s \in Sessions, PushEnds(n, s) PROVE Phase(t)'
    BY <1>20 DEF PushEnds, TypeOK
  <1>21. ASSUME NEW n \in Nodes, Crash(n) PROVE Phase(t)'
    BY <1>21 DEF Crash, TypeOK
  <1>22. CASE UNCHANGED vars  BY <1>22 DEF vars
  <1> QED BY <1>1, <1>2, <1>3, <1>4, <1>5, <1>6, <1>7, <1>8, <1>9, <1>10, <1>11, <1>12, <1>13,
        <1>14, <1>15, <1>16, <1>17, <1>18, <1>19, <1>20, <1>21, <1>22 DEF Next

\* A step keeps every session with one gateway: a retry, which gives one up, does so
\* only when it does not know the session or cannot be asked.
LEMMA OneGatewayStep ==
    ASSUME TypeOK, TypeOK', [Next]_vars, NEW t \in Sessions,
           \A s \in Sessions : Phase(s), OneGateway(t)
    PROVE  OneGateway(t)'
  <1> USE PipelineAssumption DEF pipelineVars, gatewayVars, remoteVars, Phase, Trying, Waits,
        OneGateway, Known
  <1>1. ASSUME NEW s \in Sessions, Expire(s) PROVE OneGateway(t)'
    BY <1>1 DEF Expire, TypeOK
  <1>2. ASSUME NEW s \in Sessions, NoNode(s) PROVE OneGateway(t)'
    BY <1>2 DEF NoNode, Resolve, Goto, TypeOK
  <1>3. ASSUME NEW s \in Sessions, NEW n \in Nodes, Acquire(s, n) PROVE OneGateway(t)'
    BY <1>3 DEF Acquire, Resolve, Goto, TypeOK
  <1>4. ASSUME NEW s \in Sessions, PostServed(s) PROVE OneGateway(t)'
    <2>1. node[s] \in Nodes  BY <1>4 DEF PostServed, TypeOK
    <2>2. Accept(s, node[s]) \/ Refuse(s, node[s])  BY <1>4 DEF PostServed, TypeOK
    <2>3. UNCHANGED <<pc, node, outcome, late, unsure>> /\ pc[s] = "posting"
      BY <1>4 DEF PostServed, TypeOK
    <2>4. Took(s, node[s])  BY <2>1, <2>2, Served
    <2> QED BY <2>1, <2>3, <2>4 DEF Took
  <1>5. ASSUME NEW s \in Sessions, PostReturns(s) PROVE OneGateway(t)'
    BY <1>5 DEF PostReturns, Goto, TypeOK
  <1>6. ASSUME NEW s \in Sessions, PostFails(s) PROVE OneGateway(t)'
    BY <1>6 DEF PostFails, Goto, TypeOK
  <1>7. ASSUME NEW s \in Sessions, Confirm(s) PROVE OneGateway(t)'
    BY <1>7 DEF Confirm, Retry, Resolve, Goto, TypeOK
  <1>8. ASSUME NEW s \in Sessions, ConfirmLost(s) PROVE OneGateway(t)'
    BY <1>8 DEF ConfirmLost, Retry, Resolve, Goto, TypeOK
  <1>9. ASSUME NEW s \in Sessions, WaitReturns(s) PROVE OneGateway(t)'
    BY <1>9 DEF WaitReturns, Resolve, Goto, TypeOK
  <1>10. ASSUME NEW s \in Sessions, WaitTimesOut(s) PROVE OneGateway(t)'
    BY <1>10 DEF WaitTimesOut, Goto, TypeOK
  <1>11. ASSUME NEW s \in Sessions, PollServed(s) PROVE OneGateway(t)'
    BY <1>11 DEF PollServed, NoReply, TypeOK
  <1>12. ASSUME NEW s \in Sessions, PollReturns(s) PROVE OneGateway(t)'
    <2>1. CASE t # s  BY <1>12, <2>1 DEF PollReturns, LoopTop, Resolve, Goto, TypeOK
    <2>2. CASE t = s
      <3>1. /\ pc[t] = "polling" /\ pc'[t] \in {"persist", "waiting"}
            /\ UNCHANGED <<node, registry, work, late, unsure>>
        BY <1>12, <2>2 DEF PollReturns, LoopTop, Resolve, Goto, TypeOK
      <3> QED BY <3>1
    <2> QED BY <2>1, <2>2
  <1>13. ASSUME NEW s \in Sessions, PollLost(s) PROVE OneGateway(t)'
    BY <1>13 DEF PollLost, LoopTop, Resolve, Goto, NoReply, TypeOK
  <1>14. ASSUME NEW s \in Sessions, Persist(s) PROVE OneGateway(t)'
    BY <1>14 DEF Persist, Goto, TypeOK
  <1>15. ASSUME NEW s \in Sessions, Cleanup(s) PROVE OneGateway(t)'
    <2>1. /\ pc' = [pc EXCEPT ![s] = "done"] /\ pc[s] = "cleanup"
          /\ node' = node /\ outcome' = outcome /\ late' = late /\ work' = work
      BY <1>15 DEF Cleanup, Goto, TypeOK
    <2>2. CASE node[s] # Nowhere /\ Forget(s, node[s]) /\ UNCHANGED unsure
      <3>1. node[s] \in Nodes  BY <2>2 DEF TypeOK
      <3>2. /\ \A m \in Nodes, u \in Sessions :
                  m # node[s] \/ u # s => registry'[m][u] = registry[m][u]
            /\ registry'[node[s]][s] = "absent"
        BY <2>2, <3>1, Forgotten
      <3>3. pc'[s] = "done" /\ \A u \in Sessions : u # s => pc'[u] = pc[u]  BY <2>1 DEF TypeOK
      <3>4. \A n \in Nodes : registry'[n][t] # "absent" => registry[n][t] # "absent"
        BY <3>1, <3>2
      <3>5. CASE t = s  BY <2>1, <2>2, <3>1, <3>2, <3>3, <3>4, <3>5
      <3>6. CASE t # s  BY <2>1, <2>2, <3>1, <3>2, <3>3, <3>6
      <3> QED BY <3>5, <3>6
    <2>3. CASE node[s] # Nowhere /\ unsure' = [unsure EXCEPT ![s] = @ \union {node[s]}]
                                 /\ UNCHANGED <<registry, payload>>
      <3>1. /\ pc'[s] = "done" /\ unsure'[s] = unsure[s] \union {node[s]}
            /\ \A u \in Sessions : u # s => pc'[u] = pc[u] /\ unsure'[u] = unsure[u]
        BY <2>1, <2>3 DEF TypeOK
      <3> QED BY <2>1, <2>3, <3>1
    <2>4. CASE node[s] = Nowhere /\ UNCHANGED <<registry, payload, unsure>>  BY <2>1, <2>4
    <2> QED BY <1>15, <2>2, <2>3, <2>4 DEF Cleanup
  <1>16. ASSUME NEW n \in Nodes, NEW s \in Sessions, LatePostServed(s, n) PROVE OneGateway(t)'
    <2>1. Accept(s, n) \/ Refuse(s, n)  BY <1>16 DEF LatePostServed, TypeOK
    <2>2. /\ pc' = pc /\ node' = node /\ outcome' = outcome /\ unsure' = unsure
          /\ n \in late[s] /\ late' = [late EXCEPT ![s] = @ \ {n}]
      BY <1>16 DEF LatePostServed, TypeOK
    <2>3. Took(s, n)  BY <2>1, Served
    <2> QED BY <2>2, <2>3 DEF Took
  <1>17. ASSUME NEW n \in Nodes, NEW s \in Sessions, GatewayStarts(n, s) PROVE OneGateway(t)'
    BY <1>17 DEF GatewayStarts, TypeOK
  <1>18. ASSUME NEW n \in Nodes, NEW s \in Sessions, GatewayFinishes(n, s) PROVE OneGateway(t)'
    BY <1>18 DEF GatewayFinishes, TypeOK
  <1>19. ASSUME NEW n \in Nodes, NEW s \in Sessions, CallbackServed(n, s) PROVE OneGateway(t)'
    BY <1>19 DEF CallbackServed, TypeOK
  <1>20. ASSUME NEW n \in Nodes, NEW s \in Sessions, PushEnds(n, s) PROVE OneGateway(t)'
    BY <1>20 DEF PushEnds, TypeOK
  <1>21. ASSUME NEW n \in Nodes, Crash(n) PROVE OneGateway(t)'
    BY <1>21 DEF Crash, TypeOK
  <1>22. CASE UNCHANGED vars  BY <1>22 DEF vars
  <1> QED BY <1>1, <1>2, <1>3, <1>4, <1>5, <1>6, <1>7, <1>8, <1>9, <1>10, <1>11, <1>12, <1>13,
        <1>14, <1>15, <1>16, <1>17, <1>18, <1>19, <1>20, <1>21, <1>22 DEF Next

\* A step loses no result: a gateway that knows a session keeps it alive.
LEMMA KeptStep ==
    ASSUME TypeOK, TypeOK', [Next]_vars, NEW t \in Sessions,
           \A s \in Sessions : Phase(s), Kept(t)
    PROVE  Kept(t)'
  <1> USE PipelineAssumption DEF pipelineVars, gatewayVars, remoteVars, Phase, Trying, Waits,
        Kept, Alive, Awaits
  <1>1. ASSUME NEW s \in Sessions, Expire(s) PROVE Kept(t)'
    BY <1>1 DEF Expire, TypeOK
  <1>2. ASSUME NEW s \in Sessions, NoNode(s) PROVE Kept(t)'
    BY <1>2 DEF NoNode, Resolve, Goto, TypeOK
  <1>3. ASSUME NEW s \in Sessions, NEW n \in Nodes, Acquire(s, n) PROVE Kept(t)'
    <2>1. CASE t = s
      <3>1. /\ pc[s] = "acquire" /\ pc'[s] \in {"persist", "posting"}
            /\ future'[s] \in {future[s], "gone"}
            /\ UNCHANGED <<started, expired, answer, registry, payload, work, crashed>>
        BY <1>3 DEF Acquire, Resolve, Goto, TypeOK
      <3>2. ~started[s]  BY <3>1
      <3>3. ~Awaits(s)'  BY <3>1
      <3>4. \A m \in Nodes : /\ work[m][s] = "pushed" => future'[s] # "open"
                             /\ m \notin crashed /\ registry[m][s] # "absent" => Alive(s, m)'
        BY <2>1, <3>1
      <3> QED BY <2>1, <3>1, <3>2, <3>3, <3>4
    <2>2. CASE t # s  BY <1>3, <2>2 DEF Acquire, Resolve, Goto, TypeOK
    <2> QED BY <2>1, <2>2
  <1>4. ASSUME NEW s \in Sessions, PostServed(s) PROVE Kept(t)'
    <2>1. node[s] \in Nodes  BY <1>4 DEF PostServed, TypeOK
    <2>2. Accept(s, node[s]) \/ Refuse(s, node[s])  BY <1>4 DEF PostServed, TypeOK
    <2>3. /\ pc[s] = "posting" /\ answer' \in [Sessions -> Answers]
          /\ UNCHANGED <<pc, node, expired, future, started, outcome, payload, crashed>>
          /\ \A u \in Sessions : u # s => answer'[u] = answer[u]
      BY <1>4 DEF PostServed, TypeOK
    <2>4. Took(s, node[s])  BY <2>1, <2>2, Served
    <2>5. \A n \in Nodes : n \notin crashed /\ registry'[n][t] # "absent" => Alive(t, n)'
      BY <2>1, <2>3, <2>4 DEF Took
    <2>6. \A n \in Nodes : work'[n][t] = "pushed" => future'[t] # "open"
      BY <2>1, <2>3, <2>4 DEF Took
    <2>7. Awaits(t)' /\ node[t] \notin crashed => registry'[node[t]][t] # "absent"
      BY <2>1, <2>3, <2>4 DEF Took
    <2> QED BY <2>3, <2>5, <2>6, <2>7
  <1>5. ASSUME NEW s \in Sessions, PostReturns(s) PROVE Kept(t)'
    BY <1>5 DEF PostReturns, Goto, TypeOK
  <1>6. ASSUME NEW s \in Sessions, PostFails(s) PROVE Kept(t)'
    BY <1>6 DEF PostFails, Goto, TypeOK
  <1>7. ASSUME NEW s \in Sessions, Confirm(s) PROVE Kept(t)'
    BY <1>7 DEF Confirm, Retry, Resolve, Goto, TypeOK
  <1>8. ASSUME NEW s \in Sessions, ConfirmLost(s) PROVE Kept(t)'
    BY <1>8 DEF ConfirmLost, Retry, Resolve, Goto, TypeOK
  <1>9. ASSUME NEW s \in Sessions, WaitReturns(s) PROVE Kept(t)'
    <2>1. future[s] \in Nodes  BY <1>9 DEF WaitReturns, Futures, TypeOK
    <2> QED BY <1>9, <2>1 DEF WaitReturns, Resolve, Goto, TypeOK
  <1>10. ASSUME NEW s \in Sessions, WaitTimesOut(s) PROVE Kept(t)'
    BY <1>10 DEF WaitTimesOut, Goto, TypeOK
  <1>11. ASSUME NEW s \in Sessions, PollServed(s) PROVE Kept(t)'
    BY <1>11 DEF PollServed, NoReply, TypeOK
  <1>12. ASSUME NEW s \in Sessions, PollReturns(s) PROVE Kept(t)'
    BY <1>12, SMTT(60) DEF PollReturns, Resolve, Goto, LoopTop, TypeOK
  <1>13. ASSUME NEW s \in Sessions, PollLost(s) PROVE Kept(t)'
    BY <1>13 DEF PollLost, LoopTop, Resolve, Goto, NoReply, TypeOK
  <1>14. ASSUME NEW s \in Sessions, Persist(s) PROVE Kept(t)'
    BY <1>14 DEF Persist, Goto, TypeOK
  <1>15. ASSUME NEW s \in Sessions, Cleanup(s) PROVE Kept(t)'
    <2>1. /\ pc' = [pc EXCEPT ![s] = "done"] /\ pc[s] = "cleanup"
          /\ UNCHANGED <<node, expired, answer, future, started, outcome, work, crashed>>
      BY <1>15 DEF Cleanup, Forget, Goto, TypeOK
    <2>2. CASE node[s] # Nowhere /\ Forget(s, node[s])
      <3>1. node[s] \in Nodes  BY <2>2 DEF TypeOK
      <3>2. /\ \A m \in Nodes, u \in Sessions : m # node[s] \/ u # s =>
                  registry'[m][u] = registry[m][u] /\ payload'[m][u] = payload[m][u]
            /\ registry'[node[s]][s] = "absent"
        BY <2>2, <3>1, Forgotten
      <3>3. pc'[s] = "done" /\ \A u \in Sessions : u # s => pc'[u] = pc[u]  BY <2>1 DEF TypeOK
      <3>4. CASE t = s
        <4>1. \A m \in Nodes : m # node[t] => Alive(t, m)' = Alive(t, m)
          BY <2>1, <3>2, <3>4
        <4> QED BY <2>1, <3>1, <3>2, <3>3, <3>4, <4>1
      <3>5. CASE t # s
        <4>1. \A m \in Nodes : Alive(t, m)' = Alive(t, m)  BY <2>1, <3>2, <3>5
        <4> QED BY <2>1, <3>1, <3>2, <3>3, <3>5, <4>1
      <3> QED BY <3>4, <3>5
    <2>3. CASE UNCHANGED <<registry, payload>>
      BY <2>1, <2>3
    <2> QED BY <1>15, <2>2, <2>3 DEF Cleanup
  <1>16. ASSUME NEW n \in Nodes, NEW s \in Sessions, LatePostServed(s, n) PROVE Kept(t)'
    <2>1. Accept(s, n) \/ Refuse(s, n)  BY <1>16 DEF LatePostServed, TypeOK
    <2>2. UNCHANGED <<pc, node, expired, answer, future, started, outcome, payload, crashed>>
      BY <1>16 DEF LatePostServed, pipelineVars, TypeOK
    <2>3. Took(s, n)  BY <2>1, Served
    <2>4. \A m \in Nodes : m \notin crashed /\ registry'[m][t] # "absent" => Alive(t, m)'
      BY <2>2, <2>3 DEF Took
    <2> QED BY <2>2, <2>3, <2>4 DEF Took
  <1>17. ASSUME NEW n \in Nodes, NEW s \in Sessions, GatewayStarts(n, s) PROVE Kept(t)'
    BY <1>17 DEF GatewayStarts, TypeOK
  <1>18. ASSUME NEW n \in Nodes, NEW s \in Sessions, GatewayFinishes(n, s) PROVE Kept(t)'
    <2>1. /\ work[n][s] = "running" /\ work' = [work EXCEPT ![n][s] = "pushing"]
          /\ registry'[n][s] = "absent" <=> registry[n][s] = "absent"
          /\ \A m \in Nodes, u \in Sessions : m # n \/ u # s =>
                registry'[m][u] = registry[m][u] /\ payload'[m][u] = payload[m][u]
          /\ payload'[n][s] = (registry[n][s] # "absent")
          /\ UNCHANGED <<pc, node, expired, answer, future, started, outcome, crashed>>
      BY <1>18 DEF GatewayFinishes, TypeOK
    <2>2. \A m \in Nodes : work'[m][t] = "pushed" => future[t] # "open"  BY <2>1
    <2>3. \A m \in Nodes : m \notin crashed /\ registry'[m][t] # "absent" => Alive(t, m)'
      <3>1. /\ work'[n][s] = "pushing"
            /\ \A m \in Nodes, u \in Sessions : m # n \/ u # s => work'[m][u] = work[m][u]
        BY <2>1 DEF TypeOK
      <3>2. SUFFICES ASSUME NEW m \in Nodes, m \notin crashed, registry'[m][t] # "absent"
                     PROVE  Alive(t, m)'
        OBVIOUS
      <3>3. CASE m = n /\ t = s  BY <2>1, <3>1, <3>2, <3>3
      <3>4. CASE m # n \/ t # s  BY <2>1, <3>1, <3>2, <3>4
      <3> QED BY <3>3, <3>4
    <2>4. Awaits(t) /\ node[t] \notin crashed => registry'[node[t]][t] # "absent"
      BY <2>1
    <2> QED BY <2>1, <2>2, <2>3, <2>4
  <1>19. ASSUME NEW n \in Nodes, NEW s \in Sessions, CallbackServed(n, s) PROVE Kept(t)'
    BY <1>19 DEF CallbackServed, TypeOK
  <1>20. ASSUME NEW n \in Nodes, NEW s \in Sessions, PushEnds(n, s) PROVE Kept(t)'
    BY <1>20 DEF PushEnds, TypeOK
  <1>21. ASSUME NEW n \in Nodes, Crash(n) PROVE Kept(t)'
    BY <1>21 DEF Crash, TypeOK
  <1>22. CASE UNCHANGED vars  BY <1>22 DEF vars
  <1> QED BY <1>1, <1>2, <1>3, <1>4, <1>5, <1>6, <1>7, <1>8, <1>9, <1>10, <1>11, <1>12, <1>13,
        <1>14, <1>15, <1>16, <1>17, <1>18, <1>19, <1>20, <1>21, <1>22 DEF Next

\* A step of another session's coroutine, or of the gateways at another session, leaves what
\* Due says of session t as it is.
LEMMA DueElsewhere ==
    ASSUME TypeOK, NEW t \in Sessions, Due(t), Phase(t),
           pc'[t] = pc[t], node'[t] = node[t], expired'[t] = expired[t], started'[t] = started[t],
           reply'[t] = reply[t], outcome'[t] = outcome[t], excused'[t] = excused[t],
           crashed \subseteq crashed',
           pc[t] \in Waits /\ node[t] \notin crashed' /\ work[node[t]][t] = "none" =>
               /\ work'[node[t]][t] = "none"
               /\ payload[node[t]][t] => payload'[node[t]][t]
    PROVE  Due(t)'
  BY DEF Due, Found

\* What is there when the deadline passes stays there for the poll that follows.
LEMMA DueStep ==
    ASSUME TypeOK, TypeOK', [Next]_vars, NEW t \in Sessions,
           \A s \in Sessions : Phase(s), Kept(t), Due(t)
    PROVE  Due(t)'
  <1> USE PipelineAssumption DEF pipelineVars, gatewayVars, remoteVars
  <1>0. pc[t] \in Waits => node[t] \in Nodes  BY DEF Phase
  <1>1. ASSUME NEW s \in Sessions, Expire(s) PROVE Due(t)'
    <2>1. /\ UNCHANGED <<pc, node, future, started, reply, outcome, registry, payload, work, crashed>>
          /\ \A u \in Sessions : u # s => expired'[u] = expired[u] /\ excused'[u] = excused[u]
          /\ excused'[s] = (started[s] /\ Excuse(s)) /\ ~expired[s]
      BY <1>1 DEF Expire, TypeOK
    <2>2. CASE t # s  BY <2>1, <2>2, DueElsewhere
    <2>3. CASE t = s
      <3>1. ASSUME pc[t] \in Waits, started[t], ~excused'[t], node[t] \notin crashed
            PROVE  Found(t)
        <4>1. ~Excuse(t)  BY <2>1, <2>3, <3>1
        <4>2. Alive(t, node[t])  BY <1>0, <3>1 DEF Kept, Awaits
        <4> QED BY <4>1, <4>2 DEF Excuse, Alive, Found
      <3>2. Found(t)' = Found(t)  BY <2>1 DEF Found
      <3>3. outcome[t] = "timeout" /\ started[t] => node[t] \in crashed \/ excused'[t]
        <4>1. pc[t] \in Trying \union Waits  BY <1>1, <2>3 DEF Expire, Trying, Waits
        <4> QED BY <4>1 DEF Phase
      <3> QED BY <2>1, <3>1, <3>2, <3>3 DEF Due
    <2> QED BY <2>2, <2>3
  <1>2. ASSUME NEW s \in Sessions, s # t,
               \/ NoNode(s) \/ PostReturns(s) \/ PostFails(s) \/ Confirm(s) \/ ConfirmLost(s)
               \/ WaitReturns(s) \/ WaitTimesOut(s) \/ PollServed(s) \/ PollReturns(s)
               \/ PollLost(s) \/ Persist(s) \/ \E n \in Nodes : Acquire(s, n)
        PROVE  Due(t)'
    <2>1. /\ UNCHANGED <<payload, work, crashed>>
          /\ pc'[t] = pc[t] /\ node'[t] = node[t] /\ expired'[t] = expired[t]
          /\ started'[t] = started[t] /\ reply'[t] = reply[t] /\ outcome'[t] = outcome[t]
          /\ excused'[t] = excused[t]
      BY <1>2 DEF NoNode, PostReturns, PostFails, Confirm, ConfirmLost, WaitReturns, WaitTimesOut,
         PollServed, PollReturns, PollLost, Persist, Acquire, Resolve, Retry, LoopTop, Goto, TypeOK
    <2> QED BY <2>1, DueElsewhere
  <1>3. ASSUME \/ NoNode(t) \/ PostReturns(t) \/ PostFails(t) \/ Confirm(t) \/ ConfirmLost(t)
               \/ \E n \in Nodes : Acquire(t, n)
        PROVE  Due(t)'
    <2>1. pc[t] \in Trying /\ started'[t] = started[t]
      BY <1>3 DEF NoNode, PostReturns, PostFails, Confirm, ConfirmLost, Acquire, Trying, TypeOK
    <2> QED BY <2>1 DEF Due, Phase
  <1>4. CASE WaitReturns(t)
    <2>1. pc'[t] = "persist" /\ outcome'[t] = future[t] /\ future[t] # "open" /\ pc[t] = "waiting"
      BY <1>4 DEF WaitReturns, Resolve, Goto, TypeOK
    <2>2. future[t] \in Nodes  BY <2>1 DEF Phase, Waits, Futures, TypeOK
    <2> QED BY <2>1, <2>2 DEF Due, Waits
  <1>5. CASE WaitTimesOut(t)
    <2>1. /\ pc[t] = "waiting" /\ future[t] = "open" /\ pc'[t] = "polling"
          /\ UNCHANGED <<node, expired, started, reply, outcome, payload, work, crashed, excused>>
      BY <1>5 DEF WaitTimesOut, Goto, TypeOK
    <2>2. reply[t] = NoReply /\ outcome[t] = "none"  BY <2>1 DEF Phase, Waits
    <2>3. ASSUME started[t], expired[t], ~excused[t], node[t] \notin crashed PROVE Found(t)'
      <3>1. work[node[t]][t] = "none"  BY <2>1, <2>3 DEF Due, Waits, Found
      <3>2. Alive(t, node[t])  BY <1>0, <2>1, <2>3 DEF Kept, Awaits, Waits
      <3>3. payload[node[t]][t]  BY <2>1, <3>1, <3>2 DEF Alive
      <3> QED BY <2>1, <2>2, <3>1, <3>3 DEF Found
    <2> QED BY <2>1, <2>2, <2>3 DEF Due
  <1>6. CASE PollServed(t)
    <2>1. /\ pc[t] = "polling"
          /\ reply'[t] = [status |-> registry[node[t]][t], result |-> payload[node[t]][t]]
          /\ UNCHANGED <<pc, node, expired, started, outcome, payload, work, crashed, excused>>
      BY <1>6 DEF PollServed, TypeOK
    <2>2. reply'[t].result = payload[node[t]][t]  BY <2>1
    <2>3. Found(t) => Found(t)'  BY <2>1, <2>2 DEF Found
    <2> QED BY <2>1, <2>3 DEF Due
  <1>7. CASE PollReturns(t)
    <2>1. /\ pc[t] = "polling" /\ reply[t] # NoReply /\ outcome[t] = "none"
          /\ UNCHANGED <<node, crashed, excused>>
      BY <1>7 DEF PollReturns, Phase, Waits
    <2>2. CASE reply[t].result
      <3>1. outcome'[t] = node[t] /\ pc'[t] = "persist"
        BY <1>7, <2>2 DEF PollReturns, Resolve, Goto, TypeOK
      <3>2. node[t] \in Nodes  BY <1>0, <2>1 DEF Waits
      <3> QED BY <3>1, <3>2 DEF Due, Waits
    <2>3. CASE ~reply[t].result /\ ~started[t] /\ reply[t].status \notin {"absent", "registered"}
      <3>1. ~expired'[t] /\ outcome'[t] = outcome[t]
        BY <1>7, <2>3 DEF PollReturns, TypeOK
      <3> QED BY <2>1, <3>1 DEF Due
    <2>4. CASE ~reply[t].result /\ LoopTop(t) /\ UNCHANGED <<started, expired>>
      <3>1. CASE started[t] /\ expired[t]
        <4>1. excused[t] \/ node[t] \in crashed  BY <2>1, <2>4, <3>1 DEF Due, Found, Waits
        <4>2. pc'[t] = "persist"  BY <2>4, <3>1 DEF LoopTop, Resolve, Goto, TypeOK
        <4> QED BY <2>1, <4>1, <4>2 DEF Due, Waits
      <3>2. CASE ~(started[t] /\ expired[t])
        <4>1. outcome'[t] = outcome[t]  BY <2>4, <3>2 DEF LoopTop
        <4> QED BY <2>1, <2>4, <3>2, <4>1 DEF Due
      <3> QED BY <3>1, <3>2
    <2> QED BY <1>7, <2>2, <2>3, <2>4 DEF PollReturns
  <1>8. CASE PollLost(t)
    <2>1. /\ pc[t] = "polling" /\ outcome[t] = "none" /\ LoopTop(t)
          /\ excused'[t] = (excused[t] \/ (started[t] /\ expired[t]))
          /\ UNCHANGED <<node, crashed, started, expired>>
      BY <1>8 DEF PollLost, Phase, Waits, TypeOK
    <2>2. ~(started[t] /\ expired[t]) => outcome'[t] = outcome[t]  BY <2>1 DEF LoopTop
    <2> QED BY <2>1, <2>2 DEF Due
  <1>9. CASE Persist(t)
    <2>1. /\ pc'[t] \in {"cleanup", "done"} /\ outcome'[t] \in {outcome[t], "raised"}
          /\ UNCHANGED <<node, crashed, started, excused>>
      BY <1>9 DEF Persist, Goto, TypeOK
    <2> QED BY <2>1 DEF Due, Waits
  <1>10. ASSUME NEW s \in Sessions, Cleanup(s) PROVE Due(t)'
    <2>1. /\ UNCHANGED <<node, expired, started, reply, outcome, work, crashed, excused>>
          /\ pc' = [pc EXCEPT ![s] = "done"] /\ pc[s] = "cleanup"
      BY <1>10 DEF Cleanup, Goto
    <2>2. CASE t = s  BY <2>1, <2>2 DEF Due, Waits, TypeOK
    <2>3. CASE t # s
      <3>1. pc'[t] = pc[t]  BY <2>1, <2>3 DEF TypeOK
      <3>2. \A m \in Nodes : payload'[m][t] = payload[m][t]
        <4>1. CASE node[s] # Nowhere /\ Forget(s, node[s])
          <5>1. node[s] \in Nodes  BY <4>1 DEF TypeOK
          <5> QED BY <2>3, <4>1, <5>1, Forgotten
        <4>2. CASE UNCHANGED <<registry, payload>>  BY <4>2
        <4> QED BY <1>10, <4>1, <4>2 DEF Cleanup
      <3> QED BY <1>0, <2>1, <3>1, <3>2, DueElsewhere
    <2> QED BY <2>2, <2>3
  <1>11. ASSUME NEW s \in Sessions, NEW n \in Nodes, Accept(s, n) \/ Refuse(s, n),
                UNCHANGED <<pc, node, expired, started, reply, outcome, payload, crashed, excused>>
         PROVE  Due(t)'
    <2>1. Took(s, n)  BY <1>11, Served
    <2>2. pc[t] \in Waits /\ node[t] \notin crashed => registry[node[t]][t] # "absent"
      BY DEF Kept, Awaits
    <2>3. pc[t] \in Waits /\ node[t] \notin crashed => work'[node[t]][t] = work[node[t]][t]
      <3>1. CASE n = node[t] /\ s = t  BY <1>11, <2>2, <3>1 DEF Accept, Refuse
      <3>2. CASE n # node[t] \/ s # t  BY <1>0, <2>1, <3>2 DEF Took
      <3> QED BY <3>1, <3>2
    <2> QED BY <1>11, <2>3, DueElsewhere
  <1>12. ASSUME NEW s \in Sessions, PostServed(s) PROVE Due(t)'
    <2>1. node[s] \in Nodes  BY <1>12 DEF PostServed, Phase
    <2> QED BY <1>11, <1>12, <2>1 DEF PostServed
  <1>13. ASSUME NEW n \in Nodes, NEW s \in Sessions, LatePostServed(s, n) PROVE Due(t)'
    BY <1>11, <1>13 DEF LatePostServed
  <1>14. ASSUME NEW n \in Nodes, NEW s \in Sessions,
                \/ GatewayStarts(n, s) \/ GatewayFinishes(n, s)
                \/ CallbackServed(n, s) \/ PushEnds(n, s)
         PROVE  Due(t)'
    <2>1. /\ UNCHANGED <<pc, node, expired, started, reply, outcome, crashed, excused>>
          /\ work[n][s] # "none"
          /\ \A m \in Nodes, u \in Sessions : m # n \/ u # s =>
                work'[m][u] = work[m][u] /\ payload'[m][u] = payload[m][u]
      <3>1. CASE GatewayStarts(n, s)  BY <3>1 DEF GatewayStarts, TypeOK
      <3>2. CASE GatewayFinishes(n, s)  BY <3>2 DEF GatewayFinishes, TypeOK
      <3>3. CASE CallbackServed(n, s)  BY <3>3 DEF CallbackServed, TypeOK
      <3>4. CASE PushEnds(n, s)  BY <3>4 DEF PushEnds, TypeOK
      <3> QED BY <1>14, <3>1, <3>2, <3>3, <3>4
    <2>2. pc[t] \in Waits /\ work[node[t]][t] = "none" =>
             work'[node[t]][t] = "none" /\ payload'[node[t]][t] = payload[node[t]][t]
      BY <1>0, <2>1
    <2> QED BY <2>1, <2>2, DueElsewhere
  <1>15. ASSUME NEW n \in Nodes, Crash(n) PROVE Due(t)'
    <2>1. /\ UNCHANGED <<pc, node, expired, started, reply, outcome, excused>>
          /\ crashed' = crashed \union {n}
          /\ \A m \in Nodes : m # n => work'[m] = work[m] /\ payload'[m] = payload[m]
      BY <1>15 DEF Crash, TypeOK
    <2>2. pc[t] \in Waits /\ node[t] \notin crashed' =>
             work'[node[t]] = work[node[t]] /\ payload'[node[t]] = payload[node[t]]
      BY <1>0, <2>1
    <2> QED BY <2>1, <2>2, DueElsewhere
  <1>16. CASE UNCHANGED vars
    BY <1>16, DueElsewhere DEF vars
  <1> QED BY <1>1, <1>2, <1>3, <1>4, <1>5, <1>6, <1>7, <1>8, <1>9, <1>10, <1>12, <1>13, <1>14,
        <1>15, <1>16 DEF Next

-----------------------------------------------------------------------------
\* The coroutine has done nothing yet and no gateway knows anything.
LEMMA Initially == Init => IInv
  <1> SUFFICES ASSUME Init PROVE IInv  OBVIOUS
  <1> USE PipelineAssumption DEF Init
  <1>1. TypeOK  BY Values DEF TypeOK
  <1>2. \A s \in Sessions : Phase(s)  BY DEF Phase, Trying, Waits
  <1>3. \A s \in Sessions : OneGateway(s)
    <2> SUFFICES ASSUME NEW s \in Sessions PROVE OneGateway(s)  OBVIOUS
    <2>1. late[s] = {} /\ pc[s] = "acquire"  OBVIOUS
    <2>2. \A n \in Nodes : registry[n][s] = "absent" /\ work[n][s] = "none"  OBVIOUS
    <2> QED BY <2>1, <2>2 DEF OneGateway, Known
  <1>4. \A s \in Sessions : Kept(s) /\ Due(s)  BY DEF Kept, Due, Awaits, Waits
  <1> QED BY <1>1, <1>2, <1>3, <1>4 DEF IInv

\* The inductive invariant of the fault model holds whatever the network loses.
THEOREM InvariantHolds == Spec => []IInv
  <1>1. Init => IInv  BY Initially
  <1>2. IInv /\ [Next]_vars => IInv'
    BY TypeStep, PhaseStep, OneGatewayStep, KeptStep, DueStep DEF IInv
  <1> QED BY <1>1, <1>2, PTL DEF Spec

\* Every variable of the pipeline and its gateways keeps its type.
THEOREM TypeCorrect == Spec => []TypeOK
  <1>1. IInv => TypeOK  BY DEF IInv
  <1> QED BY <1>1, InvariantHolds, PTL

\* _dispatch_and_collect keeps a session with one gateway: any other that knows it or
\* works on it was given up without being able to tell whether it had accepted, and
\* after the cleaning DELETE only those remember it.
THEOREM SessionHasOneGateway == Spec => []OneGatewayPerSession
  <1>1. IInv => OneGatewayPerSession  BY DEF IInv, OneGateway, OneGatewayPerSession
  <1> QED BY <1>1, InvariantHolds, PTL

\* _wait_for_result reports a started session as a timeout only when its gateway restarted,
\* was not done with it by the callback deadline, or had a result that the poll missed which
\* was out at the deadline, or that failed after it.
THEOREM NoResultSlips == Spec => []TimeoutMeansLost
  <1>1. IInv => TimeoutMeansLost  BY DEF IInv, Due, TimeoutMeansLost
  <1> QED BY <1>1, InvariantHolds, PTL
-----------------------------------------------------------------------------
(* The gateways keep their contract. *)

\* What gateway n has of session s stays as it is.
Same(n, s) == /\ registry'[n][s] = registry[n][s]
              /\ payload'[n][s] = payload[n][s]
              /\ work'[n][s] = work[n][s]

\* A session that waits in the queue of a gateway has not been seen to start there, and one
\* that runs has been, unless it was deleted.
Forward(n, s) ==
    /\ work[n][s] = "queued" => registry[n][s] \in {"absent", "registered"}
    /\ work[n][s] = "running" => registry[n][s] \in {"absent", "active"}

\* What the steps of the pipeline do to what gateway n has of session s.
LEMMA AtTheGateway ==
    ASSUME TypeOK, [Next]_vars, \A s \in Sessions : Phase(s), NEW n \in Nodes, NEW s \in Sessions
    PROVE  \/ Same(n, s)
           \/ Accept(s, n) /\ payload'[n][s] = payload[n][s]
           \/ registry'[n][s] = "absent" /\ ~payload'[n][s] /\ work'[n][s] = work[n][s]
           \/ GatewayStarts(n, s) \/ GatewayFinishes(n, s) \/ CallbackServed(n, s) \/ PushEnds(n, s)
           \/ Crash(n)
  <1> DEFINE Goal == \/ Same(n, s)
                     \/ Accept(s, n) /\ payload'[n][s] = payload[n][s]
                     \/ registry'[n][s] = "absent" /\ ~payload'[n][s] /\ work'[n][s] = work[n][s]
                     \/ GatewayStarts(n, s) \/ GatewayFinishes(n, s) \/ CallbackServed(n, s)
                     \/ PushEnds(n, s) \/ Crash(n)
  <1>0. ASSUME UNCHANGED gatewayVars PROVE Goal  BY <1>0 DEF gatewayVars, Same
  <1>1. ASSUME NEW m \in Nodes, NEW t \in Sessions, Accept(t, m) \/ Refuse(t, m), UNCHANGED payload
        PROVE  Goal
    <2>1. CASE m = n /\ t = s  BY <1>1, <2>1 DEF Refuse, Same
    <2>2. CASE m # n \/ t # s  BY <1>1, <2>2, Served DEF Took, Same
    <2> QED BY <2>1, <2>2
  <1>2. ASSUME NEW t \in Sessions, PostServed(t) PROVE Goal
    <2>1. node[t] \in Nodes  BY <1>2 DEF PostServed, Phase, TypeOK
    <2>2. /\ Accept(t, node[t]) \/ Refuse(t, node[t])
          /\ UNCHANGED payload
      BY <1>2 DEF PostServed
    <2> QED BY <1>1, <2>1, <2>2
  <1>3. ASSUME NEW m \in Nodes, NEW t \in Sessions, LatePostServed(t, m) PROVE Goal
    BY <1>1, <1>3 DEF LatePostServed
  <1>4. ASSUME NEW t \in Sessions, Cleanup(t) PROVE Goal
    <2>1. CASE UNCHANGED <<registry, payload>>
      BY <1>0, <1>4, <2>1 DEF Cleanup, gatewayVars
    <2>2. CASE node[t] # Nowhere /\ Forget(t, node[t])
      <3>1. node[t] \in Nodes /\ UNCHANGED work  BY <1>4, <2>2 DEF Cleanup, TypeOK
      <3>2. /\ \A m \in Nodes, u \in Sessions : m # node[t] \/ u # t =>
                  registry'[m][u] = registry[m][u] /\ payload'[m][u] = payload[m][u]
            /\ registry'[node[t]][t] = "absent" /\ ~payload'[node[t]][t]
        BY <2>2, <3>1, Forgotten
      <3> QED BY <3>1, <3>2 DEF Same
    <2> QED BY <1>4, <2>1, <2>2 DEF Cleanup
  <1>5. ASSUME NEW m \in Nodes, NEW t \in Sessions, m # n \/ t # s,
               \/ GatewayStarts(m, t) \/ GatewayFinishes(m, t)
               \/ CallbackServed(m, t) \/ PushEnds(m, t)
        PROVE  Goal
    <2>1. CASE GatewayStarts(m, t)  BY <1>5, <2>1 DEF GatewayStarts, Same, TypeOK
    <2>2. CASE GatewayFinishes(m, t)  BY <1>5, <2>2 DEF GatewayFinishes, Same, TypeOK
    <2>3. CASE CallbackServed(m, t)  BY <1>5, <2>3 DEF CallbackServed, Same, TypeOK
    <2>4. CASE PushEnds(m, t)  BY <1>5, <2>4 DEF PushEnds, Same, TypeOK
    <2> QED BY <1>5, <2>1, <2>2, <2>3, <2>4
  <1>6. ASSUME NEW m \in Nodes, Crash(m), m # n PROVE Goal
    BY <1>6 DEF Crash, Same, TypeOK
  <1>7. ASSUME NEW t \in Sessions,
               \/ Expire(t) \/ NoNode(t) \/ PostReturns(t) \/ PostFails(t) \/ Confirm(t)
               \/ ConfirmLost(t) \/ WaitReturns(t) \/ WaitTimesOut(t) \/ PollServed(t)
               \/ PollReturns(t) \/ PollLost(t) \/ Persist(t) \/ \E m \in Nodes : Acquire(t, m)
        PROVE  Goal
    <2>1. UNCHANGED gatewayVars
      BY <1>7 DEF Expire, NoNode, PostReturns, PostFails, Confirm, ConfirmLost, WaitReturns,
         WaitTimesOut, PollServed, PollReturns, PollLost, Persist, Acquire, remoteVars
    <2> QED BY <1>0, <2>1
  <1>8. CASE UNCHANGED vars  BY <1>0, <1>8 DEF vars, remoteVars
  <1> QED BY <1>2, <1>3, <1>4, <1>5, <1>6, <1>7, <1>8 DEF Next

\* A session is queued when it is accepted, and taken from the queue when it is started.
LEMMA ForwardStep ==
    ASSUME TypeOK, [Next]_vars, \A s \in Sessions : Phase(s), NEW n \in Nodes, NEW s \in Sessions,
           Forward(n, s)
    PROVE  Forward(n, s)'
  <1> USE DEF Forward
  <1>1. CASE Same(n, s)  BY <1>1 DEF Same
  <1>2. CASE Accept(s, n)  BY <1>2 DEF Accept, TypeOK
  <1>3. CASE registry'[n][s] = "absent"  BY <1>3
  <1>4. CASE GatewayStarts(n, s)  BY <1>4 DEF GatewayStarts, TypeOK
  <1>5. CASE GatewayFinishes(n, s)  BY <1>5 DEF GatewayFinishes, TypeOK
  <1>6. CASE CallbackServed(n, s)  BY <1>6 DEF CallbackServed, TypeOK
  <1>7. CASE PushEnds(n, s)  BY <1>7 DEF PushEnds, TypeOK
  <1>8. CASE Crash(n)  BY <1>8 DEF Crash, TypeOK
  <1> QED BY <1>1, <1>2, <1>3, <1>4, <1>5, <1>6, <1>7, <1>8, AtTheGateway

\* The contract's name for how far gateway n has got with session s.
At(n, s) == IF work[n][s] \in {"queued", "running"} THEN "working" ELSE work[n][s]

\* Every step is one that the contract of a gateway for a session allows, or none of it.
LEMMA ContractStep ==
    ASSUME TypeOK, [Next]_vars, \A s \in Sessions : Phase(s), NEW n \in Nodes, NEW s \in Sessions,
           Forward(n, s)
    PROVE  [Contract(n, s)!Next]_<<registry[n][s], payload[n][s], At(n, s)>>
  <1> DEFINE Step == [Contract(n, s)!Next]_<<registry[n][s], payload[n][s], At(n, s)>>
  <1> USE DEF At
  <1>1. CASE Same(n, s)  BY <1>1 DEF Same
  <1>2. CASE Accept(s, n) /\ payload'[n][s] = payload[n][s]
    <2>1. Contract(n, s)!Accept  BY <1>2 DEF Accept, TypeOK, Contract!Accept
    <2> QED BY <2>1 DEF Contract!Next
  <1>3. CASE registry'[n][s] = "absent" /\ ~payload'[n][s] /\ work'[n][s] = work[n][s]
    <2>1. Contract(n, s)!Forget  BY <1>3 DEF Contract!Forget
    <2> QED BY <2>1 DEF Contract!Next
  <1>4. CASE GatewayStarts(n, s)
    <2>1. /\ work[n][s] = "queued" /\ work'[n][s] = "running"
          /\ payload'[n][s] = payload[n][s]
          /\ registry'[n][s] = IF registry[n][s] = "absent" THEN "absent" ELSE "active"
      BY <1>4 DEF GatewayStarts, TypeOK
    <2>2. CASE registry[n][s] = "absent"  BY <2>1, <2>2
    <2>3. CASE registry[n][s] = "registered"
      <3>1. Contract(n, s)!Begin  BY <2>1, <2>3 DEF Contract!Begin
      <3> QED BY <3>1 DEF Contract!Next
    <2> QED BY <2>1, <2>2, <2>3 DEF Forward
  <1>5. CASE GatewayFinishes(n, s)
    <2>1. /\ work[n][s] = "running" /\ work'[n][s] = "pushing"
          /\ payload'[n][s] = (registry[n][s] # "absent")
          /\ registry'[n][s] = IF registry[n][s] = "absent" THEN "absent" ELSE "terminal"
      BY <1>5 DEF GatewayFinishes, TypeOK
    <2>2. registry[n][s] \in {"absent", "active"}  BY <2>1 DEF Forward
    <2>3. Contract(n, s)!Finish  BY <2>1, <2>2 DEF Contract!Finish
    <2> QED BY <2>3 DEF Contract!Next
  <1>6. CASE CallbackServed(n, s)
    <2>1. /\ work[n][s] = "pushing" /\ work'[n][s] = "pushed"
          /\ payload'[n][s] = payload[n][s] /\ registry'[n][s] = registry[n][s]
      BY <1>6 DEF CallbackServed, TypeOK
    <2>2. Contract(n, s)!Receive  BY <2>1 DEF Contract!Receive
    <2> QED BY <2>2 DEF Contract!Next
  <1>7. CASE PushEnds(n, s)
    <2>1. registry'[n][s] = registry[n][s] /\ work'[n][s] = "none"
      BY <1>7 DEF PushEnds, TypeOK
    <2>2. \/ work[n][s] = "pushed" /\ payload' = [payload EXCEPT ![n][s] = FALSE]
          \/ work[n][s] \in {"pushing", "pushed"} /\ UNCHANGED payload
      BY <1>7 DEF PushEnds
    <2>3. CASE work[n][s] = "pushed" /\ payload' = [payload EXCEPT ![n][s] = FALSE]
      <3>1. payload'[n][s] = FALSE  BY <2>3 DEF TypeOK
      <3>2. Contract(n, s)!Leave  BY <2>1, <2>3, <3>1 DEF Contract!Leave
      <3> QED BY <3>2 DEF Contract!Next
    <2>4. CASE work[n][s] \in {"pushing", "pushed"} /\ UNCHANGED payload
      <3>1. Contract(n, s)!Leave  BY <2>1, <2>4 DEF Contract!Leave
      <3> QED BY <3>1 DEF Contract!Next
    <2> QED BY <2>2, <2>3, <2>4
  <1>8. CASE Crash(n)
    <2>1. registry'[n][s] = "absent" /\ payload'[n][s] = FALSE /\ work'[n][s] = "none"
      BY <1>8 DEF Crash, TypeOK
    <2>2. Contract(n, s)!Restart  BY <2>1 DEF Contract!Restart
    <2> QED BY <2>2 DEF Contract!Next
  <1> QED BY <1>1, <1>2, <1>3, <1>4, <1>5, <1>6, <1>7, <1>8, AtTheGateway

\* The gateways _dispatch_and_collect talks to keep, each for each session, the contract that
\* GatewayNode's handlers are shown to keep, whatever is lost, late or repeated on the way.
THEOREM GatewaysKeepContract ==
    ASSUME NEW n \in Nodes, NEW s \in Sessions
    PROVE  Spec => Contract(n, s)!Spec
  <1>1. Init => Forward(n, s) /\ Contract(n, s)!Init
    BY DEF Init, Forward, Contract!Init
  <1>2. IInv /\ Forward(n, s) /\ [Next]_vars => Forward(n, s)'
    BY ForwardStep DEF IInv
  <1>3. IInv /\ Forward(n, s) /\ [Next]_vars =>
            [Contract(n, s)!Next]_<<registry[n][s], payload[n][s], At(n, s)>>
    BY ContractStep DEF IInv
  <1> QED BY <1>1, <1>2, <1>3, InvariantHolds, PTL DEF Spec, Contract!Spec, At
=============================================================================
