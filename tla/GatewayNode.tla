------------------------------ MODULE GatewayNode ------------------------------
(***************************************************************************)
(* One session on a gateway: dispatch and the stage handlers of            *)
(* GatewayNodeManager, src/polar/gateway/node.py, with the container of    *)
(* the agent, the container prewarmed for the evaluator, and DELETE.       *)
(*                                                                         *)
(* The handlers are asyncio code: an action ends at an await.  The         *)
(* prewarm task and DELETE run between the awaits of the handlers.  The    *)
(* dispatcher is what SessionLifecycle says of it, a session that was      *)
(* cancelled included: one callback after the other, post-run once.  The    *)
(* second post-run that SessionDispatcher finds for a session cancelled in *)
(* a queue is not repeated here.                                           *)
(*                                                                         *)
(* A container is "live" from the moment its start() is called until its   *)
(* stop() is, and "stopping" until that is through.  What docker does in   *)
(* between, completions and their storage, and directories are left out.   *)
(***************************************************************************)
EXTENDS Naturals

CONSTANT Requests   \* the requests a session may come with: see request

ASSUME NodeAssumption ==
    Requests \subseteq [evaluator : BOOLEAN, refresh : BOOLEAN, callback : BOOLEAN,
                        timeoutReward : BOOLEAN]

VARIABLES
    request,     \* evaluator, refresh_runtime, callback_url; the gateway's timeout_reward
    stage,       \* where the dispatcher has the session
    pc,          \* the await its handler is suspended in
    cancelled,   \* cancel_requested
    expired,     \* the execution deadline has passed
    final,       \* managed.final_result, or "none"
    agent,       \* managed.agent_result, or "none"
    runtime,     \* managed.runtime
    fresh,       \* the container of the prewarm task
    warm,        \* eval_prewarm_task
    cut,         \* the task was cancelled inside its own stop()
    status,      \* the status in the session registry, or "none"
    payload,     \* the registry holds the result
    result,      \* what _handle_postrun has so far, or NoResult
    delivery,    \* of the result to callback_url
    deletion     \* DELETE /sessions/{id}

handlerVars  == <<stage, pc, expired, final, agent, result, delivery>>
runtimeVars  == <<runtime, fresh, warm, cut>>
registryVars == <<status, payload>>
vars == <<request, cancelled, handlerVars, runtimeVars, registryVars, deletion>>
-----------------------------------------------------------------------------
Terminal == {"COMPLETED", "ERROR", "TIMEOUT"}

\* A session result: its status, and whether it has the trajectory that was built.
Result(s, built) == [status |-> s, built |-> built]
NoResult == Result("none", FALSE)

\* SessionRegistry.set_status does nothing for a session that was removed.
SetStatus(s) == status' = IF status = "none" THEN status ELSE s

Running(task) == task \in {"spawned", "starting", "preparing", "stopping"}

Init ==
    /\ request \in Requests
    /\ stage = "none" /\ pc = "idle" /\ cancelled = FALSE /\ expired = FALSE
    /\ final = "none" /\ agent = "none"
    /\ runtime = "none" /\ fresh = "none" /\ warm = "none" /\ cut = FALSE
    /\ status = "none" /\ payload = FALSE
    /\ result = NoResult /\ delivery = "none" /\ deletion = "none"
-----------------------------------------------------------------------------
(* dispatch and DELETE *)

\* A step that fails after the registration undoes it.
Dispatch ==
    /\ stage = "none"
    /\ \/ /\ stage' = "init_queue" /\ status' = "REGISTERED"
       \/ /\ stage' = "refused" /\ UNCHANGED status
    /\ UNCHANGED <<request, cancelled, pc, expired, final, agent, result, delivery, runtimeVars,
                   payload, deletion>>

\* SessionDispatcher.cancel up to the await of runtime.cancel: a session that no
\* handler has is parked.
DeleteCalls ==
    /\ deletion = "none" /\ status # "none"
    /\ deletion' = "cancelling"
    /\ cancelled' = (stage # "gone")
    /\ stage' = IF stage \in {"init_queue", "ready"} THEN "parked" ELSE stage
    /\ UNCHANGED <<request, pc, expired, final, agent, result, delivery, runtimeVars, registryVars>>

\* runtime.cancel has killed what runs in the container and calls stop(), which
\* returns at once when it was called before.
DeleteStops ==
    /\ deletion = "cancelling" /\ cancelled /\ runtime = "live"
    /\ deletion' = "stopping" /\ runtime' = "stopping"
    /\ UNCHANGED <<request, cancelled, handlerVars, fresh, warm, cut, registryVars>>

\* A parked session goes to post-run; storage and registry forget it.
DeleteEnds ==
    /\ \/ deletion = "stopping" /\ runtime' = "gone"
       \/ /\ deletion = "cancelling" /\ ~(cancelled /\ runtime = "live")
          /\ UNCHANGED runtime
    /\ deletion' = "done"
    /\ stage' = IF stage = "parked" THEN "post_queue" ELSE stage
    /\ status' = "none" /\ payload' = FALSE
    /\ UNCHANGED <<request, cancelled, pc, expired, final, agent, result, delivery, fresh, warm, cut>>

\* The execution deadline is set by _handle_init and moved by _grant_postrun_budget.
Expire ==
    /\ stage \in {"init", "ready", "run", "post_queue", "post"} /\ ~expired
    /\ expired' = TRUE
    /\ UNCHANGED <<request, cancelled, stage, pc, final, agent, result, delivery, runtimeVars,
                   registryVars, deletion>>
-----------------------------------------------------------------------------
(* INIT *)

\* A request without a runtime, on a gateway without a default one, is an error.
BeginInit ==
    /\ stage = "init_queue"
    /\ stage' = "init" /\ SetStatus("INITIALIZING")
    /\ \/ runtime' = "live" /\ pc' = "start"
       \/ UNCHANGED runtime /\ pc' = "failing"
    /\ UNCHANGED <<request, cancelled, expired, final, agent, result, delivery, fresh, warm, cut,
                   payload, deletion>>

\* The container is up, and the prepare actions follow: commands, for which there must be
\* budget left, and copies of files, which look at no deadline and have no timeout.
Prepares ==
    /\ \/ pc = "start" /\ pc' = "prepare"
       \/ pc \in {"start", "prepare"} /\ ~cancelled /\ pc' = "copy"
       \/ pc = "copy" /\ ~cancelled /\ ~expired /\ pc' = "prepare"
    /\ UNCHANGED <<request, cancelled, stage, expired, final, agent, result, delivery, runtimeVars,
                   registryVars, deletion>>

\* _handle_init ends, and _finish_init says what is next.  A timeout of a prepare
\* command is an error like any other; the prepare loop ends quietly on cancellation.
EndInit ==
    /\ pc \in {"start", "prepare", "copy", "failing"}
    /\ pc' = "idle"
    /\ \/ pc \in {"prepare", "copy"} /\ final' = "none"
       \/ expired /\ pc # "failing" /\ final' = "TIMEOUT"
       \/ final' = IF cancelled THEN "none" ELSE "ERROR"
    /\ LET on == ~cancelled /\ final' = "none"
       IN  /\ stage' = IF on THEN "ready" ELSE "post_queue"
           /\ SetStatus(IF on THEN "READY" ELSE "POST_RUN")
    /\ UNCHANGED <<request, cancelled, expired, agent, result, delivery, runtimeVars, payload,
                   deletion>>
-----------------------------------------------------------------------------
(* RUN *)

\* _handle_run starts the prewarm task before anything that may fail.
BeginRun ==
    /\ stage = "ready"
    /\ stage' = "run" /\ SetStatus("RUNNING")
    /\ pc' = "agent"
    /\ warm' = IF request.evaluator /\ request.refresh THEN "spawned" ELSE warm
    /\ UNCHANGED <<request, cancelled, expired, final, agent, result, delivery, runtime, fresh, cut,
                   payload, deletion>>

\* The agent's commands end by themselves, at the deadline, or because the container
\* is gone; a failure of the harness is an error of the session.
EndRun ==
    /\ pc = "agent"
    /\ pc' = "idle" /\ stage' = "post_queue" /\ SetStatus("POST_RUN")
    /\ \/ agent' \in {"completed", "failed"} /\ UNCHANGED final
       \/ expired /\ agent' = "timeout" /\ UNCHANGED final
       \/ final' = (IF cancelled THEN "none" ELSE "ERROR") /\ UNCHANGED agent
    /\ UNCHANGED <<request, cancelled, expired, result, delivery, runtimeVars, payload, deletion>>
-----------------------------------------------------------------------------
(* _prepare_eval_runtime: a task of its own *)

WarmStarts ==
    /\ warm = "spawned"
    /\ \/ warm' = "starting" /\ fresh' = "live"
       \/ warm' = "failed" /\ UNCHANGED fresh
    /\ UNCHANGED <<request, cancelled, handlerVars, runtime, cut, registryVars, deletion>>

\* start() is through, then the prepare actions, unless one fails or times out.
WarmGoesOn ==
    /\ \/ warm = "starting" /\ warm' \in {"preparing", "stopping"}
       \/ warm = "preparing" /\ warm' \in {"ready", "stopping"}
    /\ UNCHANGED <<request, cancelled, handlerVars, runtime, fresh, cut, registryVars, deletion>>

\* After a failure or a cancellation the task stops its container and returns none; a
\* stop() that was cancelled may have done its last command or not.
WarmStops ==
    /\ warm = "stopping"
    /\ warm' = "failed"
    /\ fresh' \in IF cut THEN {"live", "gone"} ELSE {"gone"}
    /\ UNCHANGED <<request, cancelled, handlerVars, runtime, cut, registryVars, deletion>>
-----------------------------------------------------------------------------
(* POSTRUN *)

\* What _handle_postrun has when it needs no build: the result of a failed stage, of
\* a cancelled session, or of an agent that timed out where that has no reward.
ResultAtOnce ==
    IF final # "none" THEN Result(final, FALSE)
    ELSE IF cancelled \/ agent = "none" THEN Result("ERROR", FALSE)
    ELSE IF agent = "timeout" /\ ~request.timeoutReward THEN Result("TIMEOUT", FALSE)
    ELSE NoResult

\* _grant_postrun_budget moves the deadline, unless no result is to be built.
BeginPostrun ==
    /\ stage = "post_queue"
    /\ stage' = "post"
    /\ result' = ResultAtOnce
    /\ pc' = IF ResultAtOnce = NoResult THEN "build" ELSE "steps"
    /\ SetStatus(IF ResultAtOnce = NoResult THEN "BUILDING" ELSE "POST_RUN")
    /\ expired' = (expired /\ (final # "none" \/ cancelled))
    /\ UNCHANGED <<request, cancelled, final, agent, delivery, runtimeVars, payload, deletion>>

\* The trajectory of a session that timed out is a timeout, that of an agent that
\* failed an error; the builder itself may report an error.
Built(s) ==
    Result(CASE agent = "timeout" -> "TIMEOUT"
             [] agent = "failed"  -> "ERROR"
             [] OTHER             -> s, TRUE)

\* A session that timed out is not evaluated.
Build ==
    /\ pc = "build"
    /\ \E s \in {"COMPLETED", "ERROR"} : result' = Built(s)
    /\ LET evaluates == request.evaluator /\ agent # "timeout"
       IN  /\ pc' = CASE ~evaluates                   -> "steps"
                      [] evaluates /\ request.refresh -> "warm"
                      [] OTHER                        -> "evaluate"
           /\ IF evaluates THEN SetStatus("EVALUATING") ELSE UNCHANGED status
    /\ UNCHANGED <<request, cancelled, stage, expired, final, agent, delivery, runtimeVars, payload,
                   deletion>>

\* The builder raises, or the budget is over before it returns.
BuildFails ==
    /\ pc = "build"
    /\ pc' = "steps"
    /\ \/ expired /\ result' = Result("TIMEOUT", FALSE)
       \/ result' = Result(IF agent = "timeout" THEN "TIMEOUT" ELSE "ERROR", FALSE)
    /\ UNCHANGED <<request, cancelled, stage, expired, final, agent, delivery, runtimeVars,
                   registryVars, deletion>>

\* Mutant: the wait for the prewarm task has no timeout.
MutEvalTimesOut ==
    /\ pc = "evaluate"
    /\ pc' = "steps"
    /\ result' = IF request.timeoutReward \/ result.status # "ERROR"
                  THEN Result("TIMEOUT", TRUE) ELSE result
    /\ UNCHANGED <<request, cancelled, stage, expired, final, agent, delivery, runtimeVars,
                   registryVars, deletion>>

\* An evaluation that does not end in time leaves the trajectory as it is, a timeout;
\* so does an evaluator that raises a TimeoutError of its own.
EvalTimesOut ==
    /\ pc = "evaluate" \/ (pc = "warm" /\ expired)
    /\ pc' = "steps"
    /\ result' = IF request.timeoutReward \/ result.status # "ERROR"
                  THEN Result("TIMEOUT", TRUE) ELSE result
    /\ UNCHANGED <<request, cancelled, stage, expired, final, agent, delivery, runtimeVars,
                   registryVars, deletion>>

\* _acquire_prepared_eval_runtime: no fresh container is an error.
AcquireFresh ==
    /\ pc = "warm" /\ ~Running(warm)
    /\ IF warm = "ready"
       THEN pc' = "evaluate" /\ UNCHANGED result
       ELSE pc' = "steps" /\ result' = Result("ERROR", TRUE)
    /\ UNCHANGED <<request, cancelled, stage, expired, final, agent, delivery, runtimeVars,
                   registryVars, deletion>>

\* The rewards are merged into the trajectory; if they do not fit, or the evaluator
\* raises, it becomes an error.
Evaluate ==
    /\ pc = "evaluate"
    /\ pc' = "steps"
    /\ result' \in {result, Result("ERROR", TRUE)}
    /\ UNCHANGED <<request, cancelled, stage, expired, final, agent, delivery, runtimeVars,
                   registryVars, deletion>>

\* The harness's post-run steps are through, whatever became of them; a prewarm task
\* that still runs is cancelled: before its first step, in the try block, or in the
\* stop() of its except clause, which nothing then finishes.
DrainPrewarm ==
    /\ pc = "steps"
    /\ pc' = "drain"
    /\ warm' = CASE warm = "spawned" -> "failed"
                 [] warm \in {"starting", "preparing"} -> "stopping"
                 [] OTHER -> warm
    /\ cut' = (warm = "stopping")
    /\ UNCHANGED <<request, cancelled, stage, expired, final, agent, result, delivery, runtime, fresh,
                   registryVars, deletion>>

\* Mutant: teardown does not wait for the prewarm task.
MutStopRuntimes ==
    /\ pc = "drain"
    /\ pc' = "stop"
    /\ runtime' = IF runtime = "live" THEN "stopping" ELSE runtime
    /\ fresh'   = IF warm = "ready" THEN "stopping" ELSE fresh
    /\ UNCHANGED <<request, cancelled, stage, expired, final, agent, result, delivery, warm, cut,
                   registryVars, deletion>>

\* Both containers are stopped; stop() returns at once when DELETE has called it.
StopRuntimes ==
    /\ pc = "drain" /\ ~Running(warm)
    /\ pc' = "stop"
    /\ runtime' = IF runtime = "live" THEN "stopping" ELSE runtime
    /\ fresh'   = IF warm = "ready" THEN "stopping" ELSE fresh
    /\ UNCHANGED <<request, cancelled, stage, expired, final, agent, result, delivery, warm, cut,
                   registryVars, deletion>>

\* The result goes to the registry, and its callback is posted if there is one.
SetResult ==
    /\ pc = "stop"
    /\ pc' = IF request.callback THEN "push" ELSE "rmtree"
    /\ runtime' = IF runtime = "stopping" /\ deletion # "stopping" THEN "gone" ELSE runtime
    /\ fresh'   = IF fresh = "stopping" THEN "gone" ELSE fresh
    /\ SetStatus(result.status)
    /\ payload' = (status # "none")
    /\ UNCHANGED <<request, cancelled, stage, expired, final, agent, result, delivery, warm, cut,
                   deletion>>

\* Mutant: the result is dropped whether or not the callback was acknowledged.
MutPushResult ==
    /\ pc = "push"
    /\ pc' = "rmtree"
    /\ delivery' \in {"acked", "lost"}
    /\ payload' = FALSE
    /\ UNCHANGED <<request, cancelled, stage, expired, final, agent, result, runtimeVars, status,
                   deletion>>

\* Only an acknowledged result is dropped from the registry.
PushResult ==
    /\ pc = "push"
    /\ pc' = "rmtree"
    /\ delivery' \in {"acked", "lost"}
    /\ payload' = (payload /\ delivery' = "lost")
    /\ UNCHANGED <<request, cancelled, stage, expired, final, agent, result, runtimeVars, status,
                   deletion>>

Leave ==
    /\ pc = "rmtree"
    /\ pc' = "idle" /\ stage' = "gone"
    /\ UNCHANGED <<request, cancelled, expired, final, agent, result, delivery, runtimeVars,
                   registryVars, deletion>>
-----------------------------------------------------------------------------
Handler ==
    \/ BeginInit \/ Prepares \/ EndInit \/ BeginRun \/ EndRun
    \/ BeginPostrun \/ Build \/ BuildFails \/ EvalTimesOut \/ AcquireFresh \/ Evaluate
    \/ DrainPrewarm \/ StopRuntimes \/ SetResult \/ PushResult \/ Leave

Delete  == DeleteCalls \/ DeleteStops \/ DeleteEnds
Prewarm == WarmStarts \/ WarmGoesOn \/ WarmStops

\* The session has left, or was never taken in, and nothing of it is under way.
Done == /\ stage \in {"gone", "refused"} /\ deletion \in {"none", "done"} /\ UNCHANGED vars

Next == Dispatch \/ Delete \/ Expire \/ Handler \/ Prewarm \/ Done

\* The workers, DELETE and the clock go on.  start, the commands of prepare, the agent,
\* the builder and the evaluator may go on until the deadline.  A copy of files need not
\* end at all, in INIT or in the prewarm task, of which only the stop() is known to end:
\* it bounds every docker command.
Fairness ==
    /\ WF_vars(Handler /\ pc # "copy"
                       /\ (pc \in {"start", "prepare", "agent", "build", "evaluate"} => expired))
    /\ WF_vars(DeleteStops \/ DeleteEnds)
    /\ WF_vars(Expire)
    /\ WF_vars(WarmStops)

Spec == Init /\ [][Next]_vars /\ Fairness
-----------------------------------------------------------------------------
(* Properties *)

Statuses == Terminal \union {"none", "REGISTERED", "INITIALIZING", "READY", "RUNNING", "POST_RUN",
                             "BUILDING", "EVALUATING"}
Results  == {NoResult} \union [status : Terminal, built : BOOLEAN]

\* The values of the variables.
TypeOK ==
    /\ request \in Requests
    /\ stage \in {"none", "refused", "init_queue", "init", "ready", "run", "parked", "post_queue",
                  "post", "gone"}
    /\ pc \in {"idle", "failing", "start", "prepare", "copy", "agent", "build", "warm", "evaluate",
               "steps", "drain", "stop", "push", "rmtree"}
    /\ {cancelled, expired, cut, payload} \subseteq BOOLEAN
    /\ final \in {"none", "TIMEOUT", "ERROR"}
    /\ agent \in {"none", "completed", "failed", "timeout"}
    /\ {runtime, fresh} \subseteq {"none", "live", "stopping", "gone"}
    /\ warm \in {"none", "spawned", "starting", "preparing", "stopping", "ready", "failed"}
    /\ status \in Statuses
    /\ result \in Results
    /\ delivery \in {"none", "acked", "lost"}
    /\ deletion \in {"none", "cancelling", "stopping", "done"}

\* A session that has left holds no container and no prewarm task, whatever failed or
\* timed out and whenever DELETE came; what DELETE is still stopping, and a container
\* whose own stop() was cancelled, are the exceptions.  A DELETE that found the session
\* and has returned leaves no agent container that nobody stops.  Until then they are not
\* stopped too early: an evaluator gets the fresh container it asked for, live, and the
\* agent's too unless the session was cancelled.
RuntimesStopped ==
    /\ stage = "gone" => /\ runtime \in {"none", "gone"} \/ deletion = "stopping"
                         /\ fresh \in {"none", "gone"} \/ cut
                         /\ ~Running(warm)
    /\ deletion = "done" /\ cancelled => runtime # "live"
    /\ pc = "evaluate" => /\ request.refresh => fresh = "live"
                          /\ runtime = "live" \/ cancelled

\* A client that polls never sees a final status without the result, unless the
\* callback has delivered it; and a session that leaves has a final status, unless
\* DELETE took it out of the registry.  The result tells what happened to the agent: one
\* that ran out of time is reported as a timeout, never as an error of the build, the
\* evaluator or the teardown, unless the session was cancelled before post-run, and there
\* is a trajectory of it only where that trains with a reward.  Only an agent that
\* completed makes a session complete.
ResultNeverLost ==
    /\ status \in Terminal => payload \/ delivery = "acked"
    /\ stage = "gone" => status \in Terminal \union {"none"}
    /\ agent = "timeout" => /\ result.status = "ERROR" => cancelled /\ ~result.built
                            /\ result.built => request.timeoutReward
    /\ result.status = "COMPLETED" => agent = "completed" /\ result.built

\* A session that was taken in leaves unless INIT hangs in a copy for ever, although start,
\* the commands, the agent, the builder and the evaluator may run for ever but for the
\* deadline, and the prewarm task may hang anywhere.
SessionEnds == []<>(pc # "copy") => ((stage \notin {"none", "refused"}) ~> (stage = "gone"))

\* _drain_eval_prewarm_task (node.py:486): "Resolve the prewarm task during teardown."
\* A session that has left has no evaluator container.
EvalRuntimeStopped == stage = "gone" => fresh \in {"none", "gone"}

(***************************************************************************)
(* What the other parts of the system are told of the session.             *)
(***************************************************************************)

\* What a client of the gateway sees of the session.
Life ==
    CASE stage \in {"none", "refused"} -> "absent"
      [] stage \in {"init_queue", "init"} -> "INIT"
      [] stage = "ready" -> "READY"
      [] stage = "run" -> "RUNNING"
      [] stage \in {"parked", "post_queue", "post"} -> "POSTRUN"
      [] stage = "gone" -> "gone"
Lifecycle == INSTANCE SessionLifecycle WITH Sessions <- {"s"}, life <- [s \in {"s"} |-> Life]

\* The handlers, with their prewarm task and a DELETE between any two awaits, take the
\* session through the life cycle that SessionDispatcher implements.
FollowsLifecycle == Lifecycle!Spec

\* What the rollout server has to do with: the registry, and how far the result has got.
Entry ==
    CASE status = "none" -> "absent"
      [] status = "REGISTERED" -> "registered"
      [] status \in Terminal -> "terminal"
      [] status \notin Terminal \union {"none", "REGISTERED"} -> "active"
Work ==
    IF stage \in {"none", "refused", "gone"} THEN "none"
    ELSE IF pc \notin {"push", "rmtree"} THEN "working"
    ELSE IF delivery = "acked" THEN "pushed" ELSE "pushing"
Contract == INSTANCE GatewayContract WITH entry <- Entry, held <- payload, work <- Work

\* The handlers are the gateway that the rollout server counts on: a final status comes
\* with its result, and whatever becomes of the callback or of a DELETE, the result is
\* given up only when the server has it or no longer wants it.
KeepsContract == Contract!Spec
=============================================================================
