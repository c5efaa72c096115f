---------------------------- MODULE RolloutPipeline ----------------------------
(***************************************************************************)
(* How the rollout server gets one result per session out of gateways that *)
(* may lose requests, answer late or restart: _dispatch_and_collect of     *)
(* src/polar/rollout/pipeline.py, one copy per session, and the part of    *)
(* src/polar/gateway that it talks to.                                     *)
(*                                                                         *)
(* Granularity.  Each await of the coroutine ends a step.  A request is    *)
(* sent, served by the gateway and answered in separate steps, so what the *)
(* gateway said may be out of date when it is used.  Faults name what the  *)
(* network, a gateway or the disk may do:                                  *)
(*   post_lost      POST /sessions fails before the gateway accepts it     *)
(*   post_late      the client gives up on a POST the gateway serves later *)
(*   ack_lost       the gateway's answer to POST /sessions is lost         *)
(*   confirm_lost   the GET that checks on a failed POST fails             *)
(*   poll_lost      a polling GET fails                                    *)
(*   callback_lost  the gateway's result callback does not arrive          *)
(*   callback_ack_lost   it arrives, and its answer is lost                *)
(*   delete_lost    the cleaning DELETE fails                              *)
(*   disk           the result file cannot be written                      *)
(*   crash          a gateway process restarts, once                       *)
(*                                                                         *)
(* Time.  A deadline is a flag that may be raised at any moment once it is *)
(* set: the clock waits for nobody.                                        *)
(***************************************************************************)
EXTENDS Naturals, FiniteSets

CONSTANTS
    Sessions, Nodes,
    Faults      \* the faults that can happen, of the names above

Nowhere == "nowhere"

\* A gateway is none of the other values of node, future and outcome.
ASSUME PipelineAssumption ==
    Nodes # {} /\ Nodes \intersect {Nowhere, "none", "open", "gone", "timeout", "raised"} = {}

VARIABLES
    pc,        \* where the coroutine of a session is suspended
    node,      \* session.node_id and session.gateway_url
    expired,   \* the deadline of the moment has passed: session.deadline_monotonic,
               \* and callback_deadline from the time the session has started
    answer,    \* the gateway's answer to the POST: "none" | "ok" | "error"
    future,    \* the session's entry of _pending: "gone", "open" or who resolved it
    started,   \* execution_timeout_started
    reply,     \* the answer to the polling GET: [status, result], or NoReply
    outcome,   \* what _dispatch_and_collect returns: see Outcomes
    late,      \* gateways that may still serve an abandoned POST
    registry,  \* per gateway and session: the status in its SessionRegistry
    payload,   \* per gateway and session: SessionInfo.result is not None
    work,      \* per gateway and session: how far its dispatcher has got
    crashed,   \* gateways that have restarted
    unsure,    \* history: gateways abandoned without knowing whether they had accepted
    excused    \* history: why the last poll may have missed a result: see Excuse

pipelineVars == <<pc, node, expired, answer, future, started, reply, outcome>>
gatewayVars  == <<registry, payload, work>>
remoteVars   == <<gatewayVars, late, crashed, unsure, excused>>
vars == <<pipelineVars, remoteVars>>
-----------------------------------------------------------------------------
NoReply  == [status |-> "none", result |-> FALSE]
Outcomes == {"none", "timeout", "raised"} \union Nodes   \* a gateway: its result

Init ==
    /\ pc = [s \in Sessions |-> "acquire"]
    /\ node = [s \in Sessions |-> Nowhere]
    /\ expired = [s \in Sessions |-> FALSE]
    /\ answer = [s \in Sessions |-> "none"]
    /\ future = [s \in Sessions |-> "open"]
    /\ started = [s \in Sessions |-> FALSE]
    /\ reply = [s \in Sessions |-> NoReply]
    /\ outcome = [s \in Sessions |-> "none"]
    /\ late = [s \in Sessions |-> {}]
    /\ registry = [n \in Nodes |-> [s \in Sessions |-> "absent"]]
    /\ payload  = [n \in Nodes |-> [s \in Sessions |-> FALSE]]
    /\ work     = [n \in Nodes |-> [s \in Sessions |-> "none"]]
    /\ crashed = {}
    /\ unsure = [s \in Sessions |-> {}]
    /\ excused = [s \in Sessions |-> FALSE]

Goto(s, where) == pc' = [pc EXCEPT ![s] = where]

\* The end of the try statement: an outcome, and the entry of _pending goes.
Resolve(s, what) ==
    /\ outcome' = [outcome EXCEPT ![s] = what]
    /\ future' = [future EXCEPT ![s] = "gone"]
    /\ Goto(s, "persist")
-----------------------------------------------------------------------------
(* Dispatch. *)

\* When its callback deadline passes: the gateway is not done with the session, or a
\* poll is out that was answered before, or that the callback has overtaken.
Excuse(s) ==
    \/ work[node[s]][s] # "none"
    \/ pc[s] = "polling" /\ (reply[s] # NoReply \/ future[s] # "open")

\* The deadline of the moment passes, whatever goes on.  Until the gateway is seen to
\* have started the session it bounds the dispatch, then the wait for the result.
Expire(s) ==
    /\ ~expired[s]
    /\ pc[s] \in {"acquire", "posting", "confirm"} \/ (pc[s] \in {"waiting", "polling"} /\ started[s])
    /\ expired' = [expired EXCEPT ![s] = TRUE]
    /\ excused' = [excused EXCEPT ![s] = started[s] /\ Excuse(s)]
    /\ UNCHANGED <<pc, node, answer, future, started, reply, outcome, gatewayVars, late, crashed,
                   unsure>>

\* acquire_node() chose n; the request is sent unless the deadline has passed.
Acquire(s, n) ==
    /\ pc[s] = "acquire"
    /\ node' = [node EXCEPT ![s] = n]
    /\ \/ expired[s] /\ Resolve(s, "timeout")
       \/ ~expired[s] /\ Goto(s, "posting") /\ UNCHANGED <<outcome, future>>
    /\ UNCHANGED <<expired, answer, started, reply, remoteVars>>

\* acquire_node() found no node; the loop goes on until the deadline.
NoNode(s) ==
    /\ pc[s] = "acquire" /\ expired[s]
    /\ Resolve(s, "timeout")
    /\ UNCHANGED <<node, expired, answer, started, reply, remoteVars>>

\* POST /sessions at gateway n: dispatch() refuses an id it knows.
Accept(s, n) ==
    /\ registry[n][s] = "absent"
    /\ registry' = [registry EXCEPT ![n][s] = "registered"]
    /\ work' = [work EXCEPT ![n][s] = "queued"]

Refuse(s, n) == registry[n][s] # "absent" /\ UNCHANGED <<registry, work>>

PostServed(s) ==
    /\ pc[s] = "posting" /\ answer[s] = "none"
    /\ \/ Accept(s, node[s]) /\ answer' = [answer EXCEPT ![s] = "ok"]
       \/ Refuse(s, node[s]) /\ answer' = [answer EXCEPT ![s] = "error"]
    /\ UNCHANGED <<pc, node, expired, future, started, reply, outcome, payload,
                   late, crashed, unsure, excused>>

PostReturns(s) ==
    /\ pc[s] = "posting" /\ answer[s] # "none"
    /\ Goto(s, IF answer[s] = "ok" THEN "waiting" ELSE "confirm")
    /\ answer' = [answer EXCEPT ![s] = "none"]
    /\ UNCHANGED <<node, expired, future, started, reply, outcome, remoteVars>>

\* The POST raises: nothing was accepted, or something may have been.
PostFails(s) ==
    /\ pc[s] = "posting"
    /\ \/ /\ "post_lost" \in Faults /\ answer[s] = "none"
          /\ UNCHANGED <<late, unsure>>
       \/ /\ "post_late" \in Faults /\ answer[s] = "none"
          /\ late' = [late EXCEPT ![s] = @ \union {node[s]}]
          /\ unsure' = [unsure EXCEPT ![s] = @ \union {node[s]}]
       \/ /\ "ack_lost" \in Faults /\ answer[s] # "none"
          /\ UNCHANGED <<late, unsure>>
    /\ Goto(s, "confirm")
    /\ answer' = [answer EXCEPT ![s] = "none"]
    /\ UNCHANGED <<node, expired, future, started, reply, outcome, gatewayVars, crashed,
                   excused>>

\* A POST nobody waits for any more is served after all.
LatePostServed(s, n) ==
    /\ n \in late[s]
    /\ late' = [late EXCEPT ![s] = @ \ {n}]
    /\ Accept(s, n) \/ Refuse(s, n)
    /\ UNCHANGED <<pipelineVars, payload, crashed, unsure, excused>>

\* The failed attempt is dropped: try again, or time out with the gateway's
\* address still set.
Retry(s) ==
    \/ /\ expired[s] /\ Resolve(s, "timeout")
       /\ UNCHANGED node
    \/ /\ ~expired[s] /\ Goto(s, "acquire")
       /\ node' = [node EXCEPT ![s] = Nowhere]
       /\ UNCHANGED <<outcome, future>>

\* Mutant: a failed POST is retried without asking the gateway.
MutConfirm(s) ==
    /\ pc[s] = "confirm"
    /\ Retry(s)
    /\ UNCHANGED <<expired, answer, started, reply, remoteVars>>

\* _accepted_duplicate_dispatch: does the gateway have the session?
Confirm(s) ==
    /\ pc[s] = "confirm"
    /\ \/ /\ registry[node[s]][s] # "absent" /\ Goto(s, "waiting")
          /\ UNCHANGED <<node, outcome, future>>
       \/ registry[node[s]][s] = "absent" /\ Retry(s)
    /\ UNCHANGED <<expired, answer, started, reply, remoteVars>>

ConfirmLost(s) ==
    /\ "confirm_lost" \in Faults
    /\ pc[s] = "confirm"
    /\ Retry(s)
    /\ unsure' = [unsure EXCEPT ![s] = @ \union {node[s]}]
    /\ UNCHANGED <<expired, answer, started, reply, gatewayVars, late, crashed, excused>>
-----------------------------------------------------------------------------
(* _wait_for_result. *)

\* The callback resolved the future.
WaitReturns(s) ==
    /\ pc[s] = "waiting" /\ future[s] # "open"
    /\ Resolve(s, future[s])
    /\ UNCHANGED <<node, expired, answer, started, reply, remoteVars>>

\* The poll interval is over: ask the gateway.
WaitTimesOut(s) ==
    /\ pc[s] = "waiting" /\ future[s] = "open"
    /\ Goto(s, "polling")
    /\ UNCHANGED <<node, expired, answer, future, started, reply, outcome, remoteVars>>

PollServed(s) ==
    /\ pc[s] = "polling" /\ reply[s] = NoReply
    /\ reply' = [reply EXCEPT ![s] = [status |-> registry[node[s]][s],
                                      result |-> payload[node[s]][s]]]
    /\ UNCHANGED <<pc, node, expired, answer, future, started, outcome, remoteVars>>

\* Mutant: the callback deadline is never looked at.
MutLoopTop(s) == Goto(s, "waiting") /\ UNCHANGED <<outcome, future>>

\* Back at the top of the loop, where the callback deadline is looked at and the
\* future is not.
LoopTop(s) ==
    \/ started[s] /\ expired[s] /\ Resolve(s, "timeout")
    \/ ~(started[s] /\ expired[s]) /\ Goto(s, "waiting") /\ UNCHANGED <<outcome, future>>

\* Any status but REGISTERED starts the execution timeout; the answer of a gateway
\* that does not know the session is an error and has no status.
PollReturns(s) ==
    /\ pc[s] = "polling" /\ reply[s] # NoReply
    /\ \/ /\ reply[s].result
          /\ Resolve(s, node[s]) /\ UNCHANGED <<started, expired>>
       \/ /\ ~reply[s].result /\ ~started[s]
          /\ reply[s].status \notin {"absent", "registered"}
          /\ started' = [started EXCEPT ![s] = TRUE]
          /\ expired' = [expired EXCEPT ![s] = FALSE]
          /\ Goto(s, "waiting") /\ UNCHANGED <<outcome, future>>
       \/ /\ ~reply[s].result
          /\ started[s] \/ reply[s].status \in {"absent", "registered"}
          /\ LoopTop(s) /\ UNCHANGED <<started, expired>>
    /\ reply' = [reply EXCEPT ![s] = NoReply]
    /\ UNCHANGED <<node, answer, remoteVars>>

PollLost(s) ==
    /\ "poll_lost" \in Faults
    /\ pc[s] = "polling"
    /\ LoopTop(s)
    /\ reply' = [reply EXCEPT ![s] = NoReply]
    /\ excused' = [excused EXCEPT ![s] = @ \/ (started[s] /\ expired[s])]
    /\ UNCHANGED <<node, expired, answer, started, gatewayVars, late, crashed, unsure>>
-----------------------------------------------------------------------------
(* After the outcome. *)

\* _persist_result: an error leaves _dispatch_and_collect at once.
Persist(s) ==
    /\ pc[s] = "persist"
    /\ \/ Goto(s, "cleanup") /\ UNCHANGED outcome
       \/ /\ "disk" \in Faults /\ Goto(s, "done")
          /\ outcome' = [outcome EXCEPT ![s] = "raised"]
    /\ UNCHANGED <<node, expired, answer, future, started, reply, remoteVars>>

\* The gateway forgets the session.
Forget(s, n) ==
    /\ registry' = [registry EXCEPT ![n][s] = "absent"]
    /\ payload' = [payload EXCEPT ![n][s] = FALSE]

\* _cleanup_session: DELETE at the last gateway, which cancels what is left of the
\* session (its post-run handling still comes to an end) and forgets it.
Cleanup(s) ==
    /\ pc[s] = "cleanup" /\ Goto(s, "done")
    /\ \/ /\ node[s] = Nowhere
          /\ UNCHANGED <<registry, payload, unsure>>
       \/ /\ node[s] # Nowhere
          /\ Forget(s, node[s]) /\ UNCHANGED unsure
       \/ /\ node[s] # Nowhere /\ "delete_lost" \in Faults
          /\ unsure' = [unsure EXCEPT ![s] = @ \union {node[s]}]
          /\ UNCHANGED <<registry, payload>>
    /\ UNCHANGED <<node, expired, answer, future, started, reply, outcome, work,
                   late, crashed, excused>>
-----------------------------------------------------------------------------
(* The gateway. *)

\* The init callback begins: a status other than REGISTERED can be polled.
GatewayStarts(n, s) ==
    /\ work[n][s] = "queued"
    /\ work' = [work EXCEPT ![n][s] = "running"]
    /\ registry' = [registry EXCEPT ![n][s] = IF @ = "absent" THEN @ ELSE "active"]
    /\ UNCHANGED <<pipelineVars, payload, late, crashed, unsure, excused>>

\* _handle_postrun has a result, stores it and sends it to the callback URL.
GatewayFinishes(n, s) ==
    /\ work[n][s] = "running"
    /\ work' = [work EXCEPT ![n][s] = "pushing"]
    /\ registry' = [registry EXCEPT ![n][s] = IF @ = "absent" THEN @ ELSE "terminal"]
    /\ payload' = [payload EXCEPT ![n][s] = registry[n][s] # "absent"]
    /\ UNCHANGED <<pipelineVars, late, crashed, unsure, excused>>

\* accept_callback_result; the answer is "accepted" whether anybody waits or not.
CallbackServed(n, s) ==
    /\ work[n][s] = "pushing"
    /\ work' = [work EXCEPT ![n][s] = "pushed"]
    /\ future' = [future EXCEPT ![s] = IF @ = "open" THEN n ELSE @]
    /\ UNCHANGED <<pc, node, expired, answer, started, reply, outcome, registry,
                   payload, late, crashed, unsure, excused>>

\* Mutant: the payload goes whether or not the callback was answered.
MutPushEnds(n, s) ==
    /\ work[n][s] = "pushed" \/ (work[n][s] = "pushing" /\ "callback_lost" \in Faults)
    /\ payload' = [payload EXCEPT ![n][s] = FALSE]
    /\ work' = [work EXCEPT ![n][s] = "none"]
    /\ UNCHANGED <<pipelineVars, registry, late, crashed, unsure, excused>>

\* _push_result returns: the payload is dropped once the callback was answered.
PushEnds(n, s) ==
    /\ \/ /\ work[n][s] = "pushed"
          /\ payload' = [payload EXCEPT ![n][s] = FALSE]
       \/ /\ \/ work[n][s] = "pushed"  /\ "callback_ack_lost" \in Faults
             \/ work[n][s] = "pushing" /\ "callback_lost" \in Faults
          /\ UNCHANGED payload
    /\ work' = [work EXCEPT ![n][s] = "none"]
    /\ UNCHANGED <<pipelineVars, registry, late, crashed, unsure, excused>>

\* The gateway process restarts: registry, storage and dispatcher start empty.
Crash(n) ==
    /\ "crash" \in Faults /\ n \notin crashed
    /\ crashed' = crashed \union {n}
    /\ registry' = [registry EXCEPT ![n] = [s \in Sessions |-> "absent"]]
    /\ payload' = [payload EXCEPT ![n] = [s \in Sessions |-> FALSE]]
    /\ work' = [work EXCEPT ![n] = [s \in Sessions |-> "none"]]
    /\ UNCHANGED <<pipelineVars, late, unsure, excused>>
-----------------------------------------------------------------------------
Next ==
    \/ \E s \in Sessions :
          \/ Expire(s) \/ NoNode(s) \/ \E n \in Nodes : Acquire(s, n)
          \/ PostServed(s) \/ PostReturns(s) \/ PostFails(s)
          \/ Confirm(s) \/ ConfirmLost(s)
          \/ WaitReturns(s) \/ WaitTimesOut(s)
          \/ PollServed(s) \/ PollReturns(s) \/ PollLost(s)
          \/ Persist(s) \/ Cleanup(s)
    \/ \E n \in Nodes, s \in Sessions :
          \/ LatePostServed(s, n) \/ GatewayStarts(n, s) \/ GatewayFinishes(n, s)
          \/ CallbackServed(n, s) \/ PushEnds(n, s)
    \/ \E n \in Nodes : Crash(n)

Spec == Init /\ [][Next]_vars

(***************************************************************************)
(* Fairness.  Time passes (Expire); the event loop runs the coroutine      *)
(* whenever it is ready; a gateway that is up serves what it is asked and  *)
(* comes to start what it has queued; a polling GET repeated for ever is   *)
(* answered in the end.  That a gateway ends what it runs is not assumed.  *)
(***************************************************************************)
Fairness ==
    \A s \in Sessions :
        /\ WF_vars(Expire(s)) /\ WF_vars(NoNode(s))
        /\ WF_vars(PostServed(s)) /\ WF_vars(PostReturns(s)) /\ WF_vars(Confirm(s))
        /\ WF_vars(WaitReturns(s)) /\ WF_vars(WaitTimesOut(s))
        /\ SF_vars(PollServed(s)) /\ SF_vars(PollReturns(s))
        /\ WF_vars(Persist(s)) /\ WF_vars(Cleanup(s))
        /\ \A n \in Nodes : WF_vars(GatewayStarts(n, s))

FairSpec == Spec /\ Fairness
-----------------------------------------------------------------------------
Places   == {"acquire", "posting", "confirm", "waiting", "polling", "persist", "cleanup", "done"}
Answers  == {"none", "ok", "error"}
Futures  == {"gone", "open"} \union Nodes
Statuses == {"absent", "registered", "active", "terminal"}
Progress == {"none", "queued", "running", "pushing", "pushed"}
Replies  == [status : Statuses \union {"none"}, result : BOOLEAN]

TypeOK ==
    /\ pc \in [Sessions -> Places]
    /\ node \in [Sessions -> Nodes \union {Nowhere}]
    /\ expired \in [Sessions -> BOOLEAN]
    /\ answer \in [Sessions -> Answers]
    /\ future \in [Sessions -> Futures]
    /\ started \in [Sessions -> BOOLEAN]
    /\ reply \in [Sessions -> Replies]
    /\ outcome \in [Sessions -> Outcomes]
    /\ late \in [Sessions -> SUBSET Nodes]
    /\ registry \in [Nodes -> [Sessions -> Statuses]]
    /\ payload \in [Nodes -> [Sessions -> BOOLEAN]]
    /\ work \in [Nodes -> [Sessions -> Progress]]
    /\ crashed \subseteq Nodes
    /\ unsure \in [Sessions -> SUBSET Nodes]
    /\ excused \in [Sessions -> BOOLEAN]

\* A session is with one gateway only: any other that knows it or works on it is
\* one the pipeline gave up on without being able to tell whether it had accepted.
\* Once _dispatch_and_collect has returned, no other than those remembers it; its error
\* path after a failed write is the exception.
OneGatewayPerSession ==
    \A s \in Sessions, n \in Nodes :
        /\ registry[n][s] # "absent" \/ work[n][s] # "none" => n = node[s] \/ n \in unsure[s]
        /\ pc[s] = "done" /\ outcome[s] # "raised" /\ registry[n][s] # "absent" => n \in unsure[s]

\* A session that started is reported as a timeout only when its gateway restarted, when
\* the gateway was not done by the callback deadline, when the last poll failed, or when
\* at the deadline a poll was out that missed the result.  Whatever else is lost, callback
\* and polling together find the result, at the last moment by the poll that follows a
\* wait cut short by the deadline.
TimeoutMeansLost ==
    \A s \in Sessions :
        outcome[s] = "timeout" /\ started[s] => node[s] \in crashed \/ excused[s]

\* A session whose gateway restarted before it was seen to leave REGISTERED.
LostBeforeStart(s) ==
    /\ pc[s] \in {"waiting", "polling"} /\ ~started[s]
    /\ node[s] \in crashed /\ registry[node[s]][s] = "absent"

\* Every session is resolved, however many requests are lost, unless its gateway
\* restarts before a poll has seen the session leave the gateway's init queue.
EverySessionResolves ==
    \A s \in Sessions : (pc[s] = "acquire") ~> (pc[s] = "done" \/ LostBeforeStart(s))

(***************************************************************************)
(* What comments in the code say, and the code does not do.                *)
(***************************************************************************)

\* "Callback HTTP POST dropped/delayed - poll GET finds the result": a result the
\* rollout server has acknowledged is the session's outcome.
AcceptedResultIsReturned ==
    [][\A s \in Sessions :
          future[s] \in Nodes /\ future'[s] = "gone" => outcome'[s] \in Nodes]_vars

(***************************************************************************)
(* The gateways are no other than those that GatewayNode describes.        *)
(***************************************************************************)

\* What the coroutine of s has to do with at gateway n.
Contract(n, s) ==
    INSTANCE GatewayContract
        WITH entry <- registry[n][s], held <- payload[n][s],
             work  <- IF work[n][s] \in {"queued", "running"} THEN "working" ELSE work[n][s]
=============================================================================
