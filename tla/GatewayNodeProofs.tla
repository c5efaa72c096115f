--------------------------- MODULE GatewayNodeProofs ---------------------------
(***************************************************************************)
(* Proofs about GatewayNode, for every set of requests: the handlers of a  *)
(* session, its DELETE and its prewarm task in any order.  Both invariants *)
(* the runs check are proved; neither is inductive.  What they say of a    *)
(* session that has left was decided awaits earlier, so the invariant      *)
(* follows each part from where it is set to where it is used: which await *)
(* belongs to which stage (Awaits), what DELETE has done already           *)
(* (Deleting), which container is up (Containers, Warming), and what the   *)
(* result rests on (Judged, Reported).                                     *)
(*                                                                         *)
(* From it follow two refinements: the handlers take a session through the *)
(* life cycle that SessionDispatcher implements, and keep the contract     *)
(* that the rollout server counts on.                                      *)
(***************************************************************************)
EXTENDS GatewayNode, TLAPS

\* The awaits of post-run before, and after, the containers are stopped.
Deciding == {"build", "warm", "evaluate"}
Leaving  == {"push", "rmtree"}
PostPcs  == Deciding \union {"steps", "drain", "stop"} \union Leaving

Left == pc \in Leaving \/ stage = "gone"

\* A handler is suspended only in the awaits of its own stage.
Awaits ==
    /\ stage = "init" <=> pc \in {"failing", "start", "prepare", "copy"}
    /\ stage = "run"  <=> pc = "agent"
    /\ stage = "post" <=> pc \in PostPcs

\* DELETE keeps a session from being started, or taken up again; it parks one that
\* no handler has until runtime.cancel is through.
Deleting ==
    /\ stage \in {"none", "refused"} => status = "none"
    /\ cancelled => deletion # "none"
    /\ stage \in {"none", "refused", "init_queue", "ready"} => deletion = "none"
    /\ stage = "parked" => deletion \in {"cancelling", "stopping"}
    /\ deletion = "stopping" => runtime = "stopping" /\ cancelled
    /\ deletion # "none" => cancelled \/ stage = "gone"
    /\ deletion = "done" /\ cancelled => runtime # "live"

\* The agent's container is up from start() to the teardown, unless it was cancelled.
Containers ==
    /\ stage \in {"none", "refused", "init_queue"} => runtime = "none"
    /\ pc \in {"start", "prepare", "copy", "agent"} \union Deciding \/ stage = "ready" =>
          runtime = "live" \/ cancelled
    /\ stage = "post_queue" /\ agent # "none" => runtime = "live" \/ cancelled
    /\ pc = "stop" => runtime # "live"
    /\ Left => runtime \in {"none", "gone"} \/ deletion = "stopping"

\* The fresh container is up while the prewarm task has it, and once it is ready.
Warming ==
    /\ stage \in {"none", "refused", "init_queue", "init", "ready"} => warm = "none"
    /\ warm \in {"none", "spawned"} => fresh = "none"
    /\ warm \in {"starting", "preparing", "stopping"} => fresh = "live"
    /\ warm = "failed" => fresh \in {"none", "gone"} \/ cut
    /\ warm = "ready" /\ pc # "stop" /\ ~Left => fresh = "live"
    /\ cut => warm \in {"stopping", "failed"} /\ (pc \in {"drain", "stop"} \/ Left)
    /\ pc = "evaluate" /\ request.refresh => warm = "ready"
    /\ pc = "drain" => warm \notin {"spawned", "starting", "preparing"}
    /\ pc = "stop" \/ Left => ~Running(warm)
    /\ pc = "stop" => fresh # "live" \/ cut
    /\ Left => fresh \in {"none", "gone"} \/ cut

\* A result is made in post-run, and says what happened to the agent.
Judged ==
    /\ stage \notin {"post", "gone"} \/ pc = "build" => result = NoResult
    /\ pc \in PostPcs \ {"build"} => result.status \in Terminal
    /\ agent # "none" => final = "none"
    /\ stage \in {"none", "refused", "init_queue", "init", "ready", "run"} => agent = "none"
    /\ stage \in {"none", "refused", "init_queue", "init", "ready", "run"} => final = "none"
    /\ pc \in Deciding => agent # "none"
    /\ pc = "build" /\ agent = "timeout" => request.timeoutReward
    /\ pc \in {"warm", "evaluate"} => agent # "timeout"
    /\ agent = "timeout" => /\ result.status = "ERROR" => cancelled /\ ~result.built
                            /\ result.built => request.timeoutReward
    /\ result.status = "COMPLETED" => agent = "completed" /\ result.built

\* A final status comes with the result, or after it was delivered.
Reported ==
    /\ delivery # "none" => pc = "rmtree" \/ stage = "gone"
    /\ status \in Terminal => payload \/ delivery = "acked"
    /\ Left => status \in Terminal \union {"none"}

IInv == TypeOK /\ Awaits /\ Deleting /\ Containers /\ Warming /\ Judged /\ Reported
-----------------------------------------------------------------------------
\* A result has the status and the trajectory it was made with.
LEMMA ResultFields ==
    /\ \A s : Result(s, TRUE).status = s /\ Result(s, TRUE).built
    /\ \A s : Result(s, FALSE).status = s /\ ~Result(s, FALSE).built
    /\ NoResult.status = "none" /\ ~NoResult.built
  BY DEF Result, NoResult

\* Every result a handler makes is one, and every status it sets.
LEMMA Values ==
    /\ NoResult \in Results
    /\ \A s \in Terminal : Result(s, TRUE) \in Results /\ Result(s, FALSE) \in Results
    /\ "COMPLETED" \in Terminal /\ "ERROR" \in Terminal /\ "TIMEOUT" \in Terminal
    /\ "none" \notin Terminal
    /\ {"none", "REGISTERED", "INITIALIZING", "READY", "RUNNING", "POST_RUN", "BUILDING",
        "EVALUATING"} \union Terminal \subseteq Statuses
  <1>1. NoResult \in Results  BY DEF Results
  <1>2. \A s \in Terminal : Result(s, TRUE) \in Results /\ Result(s, FALSE) \in Results
    BY DEF Results, Result
  <1>3. /\ "COMPLETED" \in Terminal /\ "ERROR" \in Terminal /\ "TIMEOUT" \in Terminal
        /\ "none" \notin Terminal
    BY DEF Terminal
  <1>4. {"none", "REGISTERED", "INITIALIZING", "READY", "RUNNING", "POST_RUN", "BUILDING",
         "EVALUATING"} \union Terminal \subseteq Statuses
    BY DEF Statuses
  <1> QED BY <1>1, <1>2, <1>3, <1>4

\* What _handle_postrun has without a build: nothing only of a session whose agent ran,
\* was not cancelled, and was in time or trains with a reward all the same.
LEMMA AtOnce ==
    /\ ResultAtOnce = NoResult => /\ final = "none" /\ ~cancelled /\ agent # "none"
                                  /\ agent = "timeout" => request.timeoutReward
    /\ ResultAtOnce # NoResult => /\ ~ResultAtOnce.built
                                  /\ ResultAtOnce.status \in {"TIMEOUT", "ERROR"} \/ final # "none"
    /\ final # "none" => ResultAtOnce.status = final
    /\ final = "none" /\ agent = "timeout" /\ ResultAtOnce.status = "ERROR" => cancelled
  <1> DEFINE R == ResultAtOnce
  <1>1. CASE final # "none"
    <2>1. R = Result(final, FALSE)  BY <1>1 DEF ResultAtOnce
    <2> QED BY <1>1, <2>1, ResultFields
  <1>2. CASE final = "none" /\ (cancelled \/ agent = "none")
    <2>1. R = Result("ERROR", FALSE)  BY <1>2 DEF ResultAtOnce
    <2> QED BY <1>2, <2>1, ResultFields
  <1>3. CASE final = "none" /\ ~cancelled /\ agent = "timeout" /\ ~request.timeoutReward
    <2>1. R = Result("TIMEOUT", FALSE)  BY <1>3 DEF ResultAtOnce
    <2> QED BY <1>3, <2>1, ResultFields
  <1>4. CASE final = "none" /\ ~cancelled /\ agent # "none"
                /\ (agent = "timeout" => request.timeoutReward)
    <2>1. R = NoResult  BY <1>4 DEF ResultAtOnce
    <2> QED BY <1>4, <2>1, ResultFields
  <1> QED BY <1>1, <1>2, <1>3, <1>4

\* Every step keeps every variable in its type.
LEMMA TypeStep ==
    ASSUME TypeOK, Awaits, Judged, [Next]_vars
    PROVE  TypeOK'
  <1> USE NodeAssumption DEF handlerVars, runtimeVars, registryVars, Awaits, PostPcs, Deciding,
        Leaving
  <1>1. CASE Dispatch  BY <1>1, Values DEF Dispatch, TypeOK
  <1>2. CASE DeleteCalls  BY <1>2, Values DEF DeleteCalls, TypeOK
  <1>3. CASE DeleteStops  BY <1>3, Values DEF DeleteStops, TypeOK
  <1>4. CASE DeleteEnds
    <2>1. status' \in Statuses  BY <1>4, Values DEF DeleteEnds
    <2>2. runtime' \in {"none", "live", "stopping", "gone"}  BY <1>4 DEF DeleteEnds, TypeOK
    <2>3. stage' = stage \/ stage' = "post_queue"  BY <1>4 DEF DeleteEnds
    <2>4. /\ deletion' = "done" /\ payload' = FALSE
          /\ UNCHANGED <<request, cancelled, pc, expired, final, agent, result, delivery>>
          /\ UNCHANGED <<fresh, warm, cut>>
      BY <1>4 DEF DeleteEnds
    <2>5. {cancelled', expired', cut', payload'} \subseteq BOOLEAN  BY <2>4 DEF TypeOK
    <2> QED BY <2>1, <2>2, <2>3, <2>4, <2>5 DEF TypeOK
  <1>5. CASE Expire  BY <1>5, Values DEF Expire, TypeOK
  <1>6. CASE BeginInit  BY <1>6, Values DEF BeginInit, SetStatus, TypeOK
  <1>7. CASE Prepares  BY <1>7, Values DEF Prepares, TypeOK
  <1>8. CASE EndInit  BY <1>8, Values DEF EndInit, SetStatus, TypeOK
  <1>9. CASE BeginRun  BY <1>9, Values DEF BeginRun, SetStatus, TypeOK
  <1>10. CASE EndRun  BY <1>10, Values DEF EndRun, SetStatus, TypeOK
  <1>11. CASE BeginPostrun  BY <1>11, Values DEF BeginPostrun, SetStatus, ResultAtOnce, TypeOK
  <1>12. CASE Build
    <2>1. \A x \in {"COMPLETED", "ERROR"} : Built(x) \in Results  BY Values DEF Built
    <2>2. result' \in Results  BY <1>12, <2>1 DEF Build
    <2>3. status' \in Statuses  BY <1>12, Values DEF Build, SetStatus, TypeOK
    <2>4. pc' \in {"steps", "warm", "evaluate"}  BY <1>12 DEF Build
    <2> QED BY <1>12, <2>2, <2>3, <2>4 DEF Build, TypeOK
  <1>13. CASE BuildFails  BY <1>13, Values DEF BuildFails, TypeOK
  <1>14. CASE EvalTimesOut  BY <1>14, Values DEF EvalTimesOut, TypeOK
  <1>15. CASE AcquireFresh  BY <1>15, Values DEF AcquireFresh, Running, TypeOK
  <1>16. CASE Evaluate  BY <1>16, Values DEF Evaluate, TypeOK
  <1>17. CASE DrainPrewarm  BY <1>17, Values DEF DrainPrewarm, Running, TypeOK
  <1>18. CASE StopRuntimes  BY <1>18, Values DEF StopRuntimes, Running, TypeOK
  <1>19. CASE SetResult
    <2>1. result.status \in Statuses  BY <1>19, Values DEF SetResult, Judged
    <2> QED BY <1>19, Values, <2>1 DEF SetResult, SetStatus, TypeOK
  <1>20. CASE PushResult  BY <1>20, Values DEF PushResult, TypeOK
  <1>21. CASE Leave  BY <1>21, Values DEF Leave, TypeOK
  <1>22. CASE WarmStarts  BY <1>22, Values DEF WarmStarts, TypeOK
  <1>23. CASE WarmGoesOn  BY <1>23, Values DEF WarmGoesOn, TypeOK
  <1>24. CASE WarmStops  BY <1>24, Values DEF WarmStops, TypeOK
  <1>25. CASE UNCHANGED vars  BY <1>25 DEF vars, TypeOK
  <1> QED BY <1>1, <1>2, <1>3, <1>4, <1>5, <1>6, <1>7, <1>8, <1>9, <1>10, <1>11, <1>12, <1>13,
        <1>14, <1>15, <1>16, <1>17, <1>18, <1>19, <1>20, <1>21, <1>22, <1>23, <1>24, <1>25
        DEF Next, Delete, Handler, Prewarm, Done

\* The awaits stay with their stages.
LEMMA AwaitsStep ==
    ASSUME TypeOK, TypeOK', Awaits, [Next]_vars
    PROVE  Awaits'
  <1> USE NodeAssumption DEF handlerVars, runtimeVars, registryVars, Awaits, PostPcs, Deciding,
        Leaving
  <1>1. CASE Dispatch  BY <1>1 DEF Dispatch
  <1>2. CASE DeleteCalls  BY <1>2 DEF DeleteCalls
  <1>3. CASE DeleteStops  BY <1>3 DEF DeleteStops
  <1>4. CASE DeleteEnds  BY <1>4 DEF DeleteEnds
  <1>5. CASE Expire  BY <1>5 DEF Expire
  <1>6. CASE BeginInit  BY <1>6 DEF BeginInit, SetStatus
  <1>7. CASE Prepares  BY <1>7 DEF Prepares
  <1>8. CASE EndInit  BY <1>8 DEF EndInit, SetStatus
  <1>9. CASE BeginRun  BY <1>9 DEF BeginRun, SetStatus
  <1>10. CASE EndRun  BY <1>10 DEF EndRun, SetStatus
  <1>11. CASE BeginPostrun  BY <1>11 DEF BeginPostrun, SetStatus, ResultAtOnce
  <1>12. CASE Build  BY <1>12 DEF Build, SetStatus, Built
  <1>13. CASE BuildFails  BY <1>13 DEF BuildFails
  <1>14. CASE EvalTimesOut  BY <1>14 DEF EvalTimesOut
  <1>15. CASE AcquireFresh  BY <1>15 DEF AcquireFresh, Running
  <1>16. CASE Evaluate  BY <1>16 DEF Evaluate
  <1>17. CASE DrainPrewarm  BY <1>17 DEF DrainPrewarm, Running
  <1>18. CASE StopRuntimes  BY <1>18 DEF StopRuntimes, Running
  <1>19. CASE SetResult  BY <1>19 DEF SetResult, SetStatus
  <1>20. CASE PushResult  BY <1>20 DEF PushResult
  <1>21. CASE Leave  BY <1>21 DEF Leave
  <1>22. CASE WarmStarts  BY <1>22 DEF WarmStarts
  <1>23. CASE WarmGoesOn  BY <1>23 DEF WarmGoesOn
  <1>24. CASE WarmStops  BY <1>24 DEF WarmStops
  <1>25. CASE UNCHANGED vars  BY <1>25 DEF vars
  <1> QED BY <1>1, <1>2, <1>3, <1>4, <1>5, <1>6, <1>7, <1>8, <1>9, <1>10, <1>11, <1>12, <1>13,
        <1>14, <1>15, <1>16, <1>17, <1>18, <1>19, <1>20, <1>21, <1>22, <1>23, <1>24, <1>25
        DEF Next, Delete, Handler, Prewarm, Done

\* DELETE goes through its own steps, whatever the handlers do.
LEMMA DeletingStep ==
    ASSUME TypeOK, TypeOK', Awaits, Deleting, Containers, [Next]_vars
    PROVE  Deleting'
  <1> USE NodeAssumption DEF handlerVars, runtimeVars, registryVars, Awaits, Deleting,
        Containers, PostPcs, Deciding, Leaving
  <1>1. CASE Dispatch  BY <1>1 DEF Dispatch
  <1>2. CASE DeleteCalls  BY <1>2 DEF DeleteCalls
  <1>3. CASE DeleteStops  BY <1>3 DEF DeleteStops
  <1>4. CASE DeleteEnds  BY <1>4 DEF DeleteEnds
  <1>5. CASE Expire  BY <1>5 DEF Expire
  <1>6. CASE BeginInit  BY <1>6 DEF BeginInit, SetStatus
  <1>7. CASE Prepares  BY <1>7 DEF Prepares
  <1>8. CASE EndInit  BY <1>8 DEF EndInit, SetStatus
  <1>9. CASE BeginRun  BY <1>9 DEF BeginRun, SetStatus
  <1>10. CASE EndRun  BY <1>10 DEF EndRun, SetStatus
  <1>11. CASE BeginPostrun  BY <1>11 DEF BeginPostrun, SetStatus, ResultAtOnce
  <1>12. CASE Build  BY <1>12 DEF Build, SetStatus, Built
  <1>13. CASE BuildFails  BY <1>13 DEF BuildFails
  <1>14. CASE EvalTimesOut  BY <1>14 DEF EvalTimesOut
  <1>15. CASE AcquireFresh  BY <1>15 DEF AcquireFresh, Running
  <1>16. CASE Evaluate  BY <1>16 DEF Evaluate
  <1>17. CASE DrainPrewarm  BY <1>17 DEF DrainPrewarm, Running
  <1>18. CASE StopRuntimes  BY <1>18 DEF StopRuntimes, Running
  <1>19. CASE SetResult  BY <1>19 DEF SetResult, SetStatus
  <1>20. CASE PushResult  BY <1>20 DEF PushResult
  <1>21. CASE Leave  BY <1>21 DEF Leave
  <1>22. CASE WarmStarts  BY <1>22 DEF WarmStarts
  <1>23. CASE WarmGoesOn  BY <1>23 DEF WarmGoesOn
  <1>24. CASE WarmStops  BY <1>24 DEF WarmStops
  <1>25. CASE UNCHANGED vars  BY <1>25 DEF vars
  <1> QED BY <1>1, <1>2, <1>3, <1>4, <1>5, <1>6, <1>7, <1>8, <1>9, <1>10, <1>11, <1>12, <1>13,
        <1>14, <1>15, <1>16, <1>17, <1>18, <1>19, <1>20, <1>21, <1>22, <1>23, <1>24, <1>25
        DEF Next, Delete, Handler, Prewarm, Done

\* The agent's container goes from start() to stop().
LEMMA ContainersStep ==
    ASSUME TypeOK, TypeOK', Awaits, Deleting, Containers, Judged, [Next]_vars
    PROVE  Containers'
  <1> USE NodeAssumption DEF handlerVars, runtimeVars, registryVars, Awaits, Deleting,
        Containers, PostPcs, Deciding, Leaving, Left, Judged
  <1>0. runtime \in {"none", "live", "stopping", "gone"}  BY DEF TypeOK
  <1>1. CASE Dispatch  BY <1>1, <1>0 DEF Dispatch
  <1>2. CASE DeleteCalls  BY <1>2, <1>0 DEF DeleteCalls
  <1>3. CASE DeleteStops  BY <1>3, <1>0 DEF DeleteStops
  <1>4. CASE DeleteEnds  BY <1>4, <1>0 DEF DeleteEnds
  <1>5. CASE Expire  BY <1>5, <1>0 DEF Expire
  <1>6. CASE BeginInit  BY <1>6, <1>0 DEF BeginInit, SetStatus
  <1>7. CASE Prepares  BY <1>7, <1>0 DEF Prepares
  <1>8. CASE EndInit  BY <1>8, <1>0 DEF EndInit, SetStatus
  <1>9. CASE BeginRun  BY <1>9, <1>0 DEF BeginRun, SetStatus
  <1>10. CASE EndRun  BY <1>10, <1>0 DEF EndRun, SetStatus
  <1>11. CASE BeginPostrun
    <2>1. /\ stage = "post_queue" /\ stage' = "post"
          /\ pc' = "steps" \/ (pc' = "build" /\ ResultAtOnce = NoResult)
          /\ UNCHANGED <<cancelled, agent, runtime, deletion>>
      BY <1>11 DEF BeginPostrun
    <2>2. pc' = "build" => final = "none" /\ ~cancelled /\ agent # "none"
      BY <2>1, <1>0, AtOnce, ResultFields
    <2> QED BY <2>1, <2>2, <1>0
  <1>12. CASE Build  BY <1>12, <1>0 DEF Build, SetStatus, Built
  <1>13. CASE BuildFails  BY <1>13, <1>0 DEF BuildFails
  <1>14. CASE EvalTimesOut  BY <1>14, <1>0 DEF EvalTimesOut
  <1>15. CASE AcquireFresh  BY <1>15, <1>0 DEF AcquireFresh, Running
  <1>16. CASE Evaluate  BY <1>16, <1>0 DEF Evaluate
  <1>17. CASE DrainPrewarm  BY <1>17, <1>0 DEF DrainPrewarm, Running
  <1>18. CASE StopRuntimes  BY <1>18, <1>0 DEF StopRuntimes, Running
  <1>19. CASE SetResult  BY <1>19, <1>0 DEF SetResult, SetStatus
  <1>20. CASE PushResult  BY <1>20, <1>0 DEF PushResult
  <1>21. CASE Leave  BY <1>21, <1>0 DEF Leave
  <1>22. CASE WarmStarts  BY <1>22, <1>0 DEF WarmStarts
  <1>23. CASE WarmGoesOn  BY <1>23, <1>0 DEF WarmGoesOn
  <1>24. CASE WarmStops  BY <1>24, <1>0 DEF WarmStops
  <1>25. CASE UNCHANGED vars  BY <1>25 DEF vars
  <1> QED BY <1>1, <1>2, <1>3, <1>4, <1>5, <1>6, <1>7, <1>8, <1>9, <1>10, <1>11, <1>12, <1>13,
        <1>14, <1>15, <1>16, <1>17, <1>18, <1>19, <1>20, <1>21, <1>22, <1>23, <1>24, <1>25
        DEF Next, Delete, Handler, Prewarm, Done

\* The prewarm task and the drain leave no fresh container behind.
LEMMA WarmingStep ==
    ASSUME TypeOK, TypeOK', Awaits, Warming, [Next]_vars
    PROVE  Warming'
  <1> USE NodeAssumption DEF handlerVars, runtimeVars, registryVars, Awaits, Warming, PostPcs,
        Deciding, Leaving, Left, Running
  <1>0. /\ fresh \in {"none", "live", "stopping", "gone"}
        /\ warm \in {"none", "spawned", "starting", "preparing", "stopping", "ready", "failed"}
    BY DEF TypeOK
  <1>1. CASE Dispatch  BY <1>1, <1>0 DEF Dispatch
  <1>2. CASE DeleteCalls  BY <1>2, <1>0 DEF DeleteCalls
  <1>3. CASE DeleteStops  BY <1>3, <1>0 DEF DeleteStops
  <1>4. CASE DeleteEnds  BY <1>4, <1>0 DEF DeleteEnds
  <1>5. CASE Expire  BY <1>5, <1>0 DEF Expire
  <1>6. CASE BeginInit  BY <1>6, <1>0 DEF BeginInit, SetStatus
  <1>7. CASE Prepares  BY <1>7, <1>0 DEF Prepares
  <1>8. CASE EndInit  BY <1>8, <1>0 DEF EndInit, SetStatus
  <1>9. CASE BeginRun  BY <1>9, <1>0 DEF BeginRun, SetStatus
  <1>10. CASE EndRun  BY <1>10, <1>0 DEF EndRun, SetStatus
  <1>11. CASE BeginPostrun  BY <1>11, <1>0 DEF BeginPostrun, SetStatus, ResultAtOnce
  <1>12. CASE Build  BY <1>12, <1>0 DEF Build, SetStatus, Built
  <1>13. CASE BuildFails  BY <1>13, <1>0 DEF BuildFails
  <1>14. CASE EvalTimesOut  BY <1>14, <1>0 DEF EvalTimesOut
  <1>15. CASE AcquireFresh  BY <1>15, <1>0 DEF AcquireFresh, Running
  <1>16. CASE Evaluate  BY <1>16, <1>0 DEF Evaluate
  <1>17. CASE DrainPrewarm  BY <1>17, <1>0 DEF DrainPrewarm, Running
  <1>18. CASE StopRuntimes  BY <1>18, <1>0 DEF StopRuntimes, Running
  <1>19. CASE SetResult  BY <1>19, <1>0 DEF SetResult, SetStatus
  <1>20. CASE PushResult  BY <1>20, <1>0 DEF PushResult
  <1>21. CASE Leave  BY <1>21, <1>0 DEF Leave
  <1>22. CASE WarmStarts  BY <1>22, <1>0 DEF WarmStarts
  <1>23. CASE WarmGoesOn  BY <1>23, <1>0 DEF WarmGoesOn
  <1>24. CASE WarmStops  BY <1>24, <1>0 DEF WarmStops
  <1>25. CASE UNCHANGED vars  BY <1>25 DEF vars
  <1> QED BY <1>1, <1>2, <1>3, <1>4, <1>5, <1>6, <1>7, <1>8, <1>9, <1>10, <1>11, <1>12, <1>13,
        <1>14, <1>15, <1>16, <1>17, <1>18, <1>19, <1>20, <1>21, <1>22, <1>23, <1>24, <1>25
        DEF Next, Delete, Handler, Prewarm, Done

\* A step of post-run that ends the build or the evaluation keeps what a result says,
\* when the result it makes says it.
LEMMA JudgedOn ==
    ASSUME Awaits, Judged, pc \in Deciding, pc' \in PostPcs \ {"build"},
           UNCHANGED <<request, stage, cancelled, final, agent>>,
           pc' \in {"warm", "evaluate"} => agent # "timeout",
           result'.status \in Terminal,
           agent = "timeout" => /\ result'.status = "ERROR" => cancelled /\ ~result'.built
                                /\ result'.built => request.timeoutReward,
           result'.status = "COMPLETED" => agent = "completed" /\ result'.built
    PROVE  Judged'
  BY DEF Judged, Awaits, Deciding, PostPcs

\* The result follows from the agent's.
LEMMA JudgedStep ==
    ASSUME TypeOK, TypeOK', Awaits, Deleting, Judged, [Next]_vars
    PROVE  Judged'
  <1> USE NodeAssumption DEF handlerVars, runtimeVars, registryVars, Awaits, Deleting, Judged,
        PostPcs, Deciding, Leaving, Terminal
  <1>0. /\ final \in {"none", "TIMEOUT", "ERROR"}
        /\ agent \in {"none", "completed", "failed", "timeout"}
    BY DEF TypeOK
  <1>1. CASE Dispatch  BY <1>1, ResultFields, <1>0 DEF Dispatch
  <1>2. CASE DeleteCalls  BY <1>2, ResultFields, <1>0 DEF DeleteCalls
  <1>3. CASE DeleteStops  BY <1>3, ResultFields, <1>0 DEF DeleteStops
  <1>4. CASE DeleteEnds  BY <1>4, ResultFields, <1>0 DEF DeleteEnds
  <1>5. CASE Expire  BY <1>5, ResultFields, <1>0 DEF Expire
  <1>6. CASE BeginInit  BY <1>6, ResultFields, <1>0 DEF BeginInit, SetStatus
  <1>7. CASE Prepares  BY <1>7, ResultFields, <1>0 DEF Prepares
  <1>8. CASE EndInit  BY <1>8, ResultFields, <1>0 DEF EndInit, SetStatus
  <1>9. CASE BeginRun  BY <1>9, ResultFields, <1>0 DEF BeginRun, SetStatus
  <1>10. CASE EndRun  BY <1>10, ResultFields, <1>0 DEF EndRun, SetStatus
  <1>11. CASE BeginPostrun
    <2>1. /\ stage = "post_queue" /\ stage' = "post" /\ result' = ResultAtOnce
          /\ pc' = IF result' = NoResult THEN "build" ELSE "steps"
          /\ UNCHANGED <<request, cancelled, final, agent, deletion>>
      BY <1>11 DEF BeginPostrun
    <2>2. CASE result' = NoResult  BY <2>1, <2>2, AtOnce, ResultFields
    <2>3. CASE result' # NoResult
      <3>1. result'.status \in {"TIMEOUT", "ERROR"} /\ ~result'.built
        BY <1>0, <2>1, <2>3, AtOnce, ResultFields
      <3>2. agent = "timeout" /\ result'.status = "ERROR" => cancelled
        BY <1>0, <2>1, <2>3, AtOnce, ResultFields
      <3> QED BY <2>1, <2>3, <3>1, <3>2
    <2> QED BY <2>2, <2>3
  <1>12. CASE Build
    <2>1. /\ pc \in {"build"} /\ pc' \in {"steps", "warm", "evaluate"}
          /\ UNCHANGED <<request, stage, cancelled, final, agent, deletion>>
          /\ agent = "timeout" => pc' = "steps"
      BY <1>12 DEF Build
    <2>2. \/ agent = "timeout" /\ result'.status = "TIMEOUT" /\ result'.built
          \/ agent = "failed" /\ result'.status = "ERROR" /\ result'.built
          \/ agent = "completed" /\ result'.status \in {"COMPLETED", "ERROR"} /\ result'.built
      BY <1>12, <1>0, <2>1, ResultFields DEF Build, Built
    <2> QED BY <2>1, <2>2, <1>0, JudgedOn DEF Deciding, PostPcs, Terminal, Judged, Awaits
  <1>13. CASE BuildFails
    <2>1. /\ pc \in {"build"} /\ pc' \in {"steps"}
          /\ UNCHANGED <<request, stage, cancelled, final, agent, deletion>>
      BY <1>13 DEF BuildFails
    <2>2. /\ ~result'.built
          /\ result'.status = "TIMEOUT" \/ (result'.status = "ERROR" /\ agent # "timeout")
      BY <1>13, <1>0, <2>1, ResultFields DEF BuildFails
    <2> QED BY <2>1, <2>2, <1>0, JudgedOn DEF Deciding, PostPcs, Terminal, Judged, Awaits
  <1>14. CASE EvalTimesOut
    <2>1. /\ pc \in {"warm", "evaluate"} /\ pc' \in {"steps"}
          /\ UNCHANGED <<request, stage, cancelled, final, agent, deletion>>
      BY <1>14 DEF EvalTimesOut
    <2>2. result' = result \/ (result'.status = "TIMEOUT" /\ result'.built)
      BY <1>14, <1>0, <2>1, ResultFields DEF EvalTimesOut
    <2> QED BY <2>1, <2>2, <1>0, JudgedOn DEF Deciding, PostPcs, Terminal, Judged, Awaits
  <1>15. CASE AcquireFresh
    <2>1. /\ pc \in {"warm"} /\ pc' \in {"steps", "evaluate"}
          /\ UNCHANGED <<request, stage, cancelled, final, agent, deletion>>
      BY <1>15 DEF AcquireFresh, Running
    <2>2. result' = result \/ (result'.status = "ERROR" /\ result'.built)
      BY <1>15, <1>0, <2>1, ResultFields DEF AcquireFresh
    <2> QED BY <2>1, <2>2, <1>0, JudgedOn DEF Deciding, PostPcs, Terminal, Judged, Awaits
  <1>16. CASE Evaluate
    <2>1. /\ pc \in {"evaluate"} /\ pc' \in {"steps"}
          /\ UNCHANGED <<request, stage, cancelled, final, agent, deletion>>
      BY <1>16 DEF Evaluate
    <2>2. result' = result \/ (result'.status = "ERROR" /\ result'.built)
      BY <1>16, <1>0, <2>1, ResultFields DEF Evaluate
    <2> QED BY <2>1, <2>2, <1>0, JudgedOn DEF Deciding, PostPcs, Terminal, Judged, Awaits
  <1>17. CASE DrainPrewarm  BY <1>17, ResultFields, <1>0 DEF DrainPrewarm, Running
  <1>18. CASE StopRuntimes  BY <1>18, ResultFields, <1>0 DEF StopRuntimes, Running
  <1>19. CASE SetResult  BY <1>19, ResultFields, <1>0 DEF SetResult, SetStatus
  <1>20. CASE PushResult  BY <1>20, ResultFields, <1>0 DEF PushResult
  <1>21. CASE Leave  BY <1>21, ResultFields, <1>0 DEF Leave
  <1>22. CASE WarmStarts  BY <1>22, ResultFields, <1>0 DEF WarmStarts
  <1>23. CASE WarmGoesOn  BY <1>23, ResultFields, <1>0 DEF WarmGoesOn
  <1>24. CASE WarmStops  BY <1>24, ResultFields, <1>0 DEF WarmStops
  <1>25. CASE UNCHANGED vars  BY <1>25 DEF vars
  <1> QED BY <1>1, <1>2, <1>3, <1>4, <1>5, <1>6, <1>7, <1>8, <1>9, <1>10, <1>11, <1>12, <1>13,
        <1>14, <1>15, <1>16, <1>17, <1>18, <1>19, <1>20, <1>21, <1>22, <1>23, <1>24, <1>25
        DEF Next, Delete, Handler, Prewarm, Done

\* The registry and the callback have what the status says.
LEMMA ReportedStep ==
    ASSUME TypeOK, TypeOK', Awaits, Judged, Reported, [Next]_vars
    PROVE  Reported'
  <1> USE NodeAssumption DEF handlerVars, runtimeVars, registryVars, Awaits, Judged, Reported,
        PostPcs, Deciding, Leaving, Left, Terminal
  <1>1. CASE Dispatch  BY <1>1 DEF Dispatch
  <1>2. CASE DeleteCalls  BY <1>2 DEF DeleteCalls
  <1>3. CASE DeleteStops  BY <1>3 DEF DeleteStops
  <1>4. CASE DeleteEnds  BY <1>4 DEF DeleteEnds
  <1>5. CASE Expire  BY <1>5 DEF Expire
  <1>6. CASE BeginInit  BY <1>6 DEF BeginInit, SetStatus
  <1>7. CASE Prepares  BY <1>7 DEF Prepares
  <1>8. CASE EndInit  BY <1>8 DEF EndInit, SetStatus
  <1>9. CASE BeginRun  BY <1>9 DEF BeginRun, SetStatus
  <1>10. CASE EndRun  BY <1>10 DEF EndRun, SetStatus
  <1>11. CASE BeginPostrun  BY <1>11 DEF BeginPostrun, SetStatus, ResultAtOnce
  <1>12. CASE Build  BY <1>12 DEF Build, SetStatus, Built
  <1>13. CASE BuildFails  BY <1>13 DEF BuildFails
  <1>14. CASE EvalTimesOut  BY <1>14 DEF EvalTimesOut
  <1>15. CASE AcquireFresh  BY <1>15 DEF AcquireFresh, Running
  <1>16. CASE Evaluate  BY <1>16 DEF Evaluate
  <1>17. CASE DrainPrewarm  BY <1>17 DEF DrainPrewarm, Running
  <1>18. CASE StopRuntimes  BY <1>18 DEF StopRuntimes, Running
  <1>19. CASE SetResult  BY <1>19 DEF SetResult, SetStatus
  <1>20. CASE PushResult  BY <1>20 DEF PushResult
  <1>21. CASE Leave  BY <1>21 DEF Leave
  <1>22. CASE WarmStarts  BY <1>22 DEF WarmStarts
  <1>23. CASE WarmGoesOn  BY <1>23 DEF WarmGoesOn
  <1>24. CASE WarmStops  BY <1>24 DEF WarmStops
  <1>25. CASE UNCHANGED vars  BY <1>25 DEF vars
  <1> QED BY <1>1, <1>2, <1>3, <1>4, <1>5, <1>6, <1>7, <1>8, <1>9, <1>10, <1>11, <1>12, <1>13,
        <1>14, <1>15, <1>16, <1>17, <1>18, <1>19, <1>20, <1>21, <1>22, <1>23, <1>24, <1>25
        DEF Next, Delete, Handler, Prewarm, Done

-----------------------------------------------------------------------------
\* The session has not come: nothing of it is anywhere.
LEMMA Initially == Init => IInv
  <1> SUFFICES ASSUME Init PROVE IInv  OBVIOUS
  <1> USE DEF Init
  <1>1. TypeOK  BY Values DEF TypeOK
  <1>2. Awaits /\ Deleting  BY DEF Awaits, Deleting, PostPcs, Deciding, Leaving
  <1>3. Containers /\ Warming
    BY DEF Containers, Warming, Running, Left, PostPcs, Deciding, Leaving
  <1>4. Judged  BY ResultFields DEF Judged, PostPcs, Deciding, Leaving
  <1>5. Reported  BY DEF Reported, Left, Leaving, Terminal
  <1> QED BY <1>1, <1>2, <1>3, <1>4, <1>5 DEF IInv

\* Each part of the invariant follows from itself and the parts before it.
LEMMA Inductive == IInv /\ [Next]_vars => IInv'
  BY TypeStep, AwaitsStep, DeletingStep, ContainersStep, WarmingStep, JudgedStep, ReportedStep
     DEF IInv

\* The inductive invariant holds in every order of the handlers, DELETE and the prewarm task.
THEOREM InvariantHolds == Spec => []IInv
  BY Initially, Inductive, PTL DEF Spec

\* Every variable of a session on its gateway keeps its type.
THEOREM TypeCorrect == Spec => []TypeOK
  <1>1. IInv => TypeOK  BY DEF IInv
  <1> QED BY <1>1, InvariantHolds, PTL

\* GatewayNodeManager leaves no container behind: whatever failed or timed out and whenever
\* DELETE came, a session that has left holds none but what DELETE is still stopping or
\* what the cancelled stop() of its prewarm task left; and none is stopped too early.
THEOREM ContainersAreStopped == Spec => []RuntimesStopped
  <1>1. IInv => RuntimesStopped
    <2> SUFFICES ASSUME IInv PROVE RuntimesStopped  OBVIOUS
    <2> USE DEF IInv, Left, Deciding
    <2>1. stage = "gone" => /\ runtime \in {"none", "gone"} \/ deletion = "stopping"
                            /\ fresh \in {"none", "gone"} \/ cut
                            /\ ~Running(warm)
      BY DEF Containers, Warming
    <2>2. deletion = "done" /\ cancelled => runtime # "live"  BY DEF Deleting
    <2>3. pc = "evaluate" => runtime = "live" \/ cancelled  BY DEF Containers
    <2>4. pc = "evaluate" /\ request.refresh => fresh = "live"
      BY DEF Warming, Awaits, PostPcs, Leaving
    <2> QED BY <2>1, <2>2, <2>3, <2>4 DEF RuntimesStopped
  <1> QED BY <1>1, InvariantHolds, PTL

\* A client that polls never sees a final status without the result, and the result says
\* what became of the agent, not of the build, the evaluator or the teardown.
THEOREM ResultIsKept == Spec => []ResultNeverLost
  <1>1. IInv => ResultNeverLost
    BY DEF IInv, Reported, Judged, Left, ResultNeverLost
  <1> QED BY <1>1, InvariantHolds, PTL
-----------------------------------------------------------------------------
(* The life cycle. *)

\* The session goes on to a life that the one before leads to, or stays where it is.
Onward ==
    \/ Life' = Life
    \/ Life = "absent" /\ Life' = "INIT"
    \/ Life = "INIT" /\ Life' = "READY"
    \/ Life = "READY" /\ Life' = "RUNNING"
    \/ Life \in {"INIT", "READY", "RUNNING"} /\ Life' = "POSTRUN"
    \/ Life = "POSTRUN" /\ Life' = "gone"

\* Such a step is one of the life cycle.
LEMMA OnwardIsALife == Onward => [Lifecycle!Next]_[s \in {"s"} |-> Life]
  <1> DEFINE life == [s \in {"s"} |-> Life]
  <1> SUFFICES ASSUME Onward PROVE Lifecycle!Next \/ life' = life  OBVIOUS
  <1>1. life["s"] = Life /\ life'["s"] = Life'  OBVIOUS
  <1>2. \A x : Life' = x => life' = [life EXCEPT !["s"] = x]  OBVIOUS
  <1> HIDE DEF life
  <1>3. CASE Life' = Life  BY <1>3 DEF life
  <1>4. CASE Life = "absent" /\ Life' = "INIT"
    <2>1. Lifecycle!Submit("s")  BY <1>1, <1>2, <1>4 DEF Lifecycle!Submit, life
    <2> QED BY <2>1 DEF Lifecycle!Next
  <1>5. CASE Life = "INIT" /\ Life' = "READY"
    <2>1. Lifecycle!GetReady("s")  BY <1>1, <1>2, <1>5 DEF Lifecycle!GetReady, life
    <2> QED BY <2>1 DEF Lifecycle!Next
  <1>6. CASE Life = "READY" /\ Life' = "RUNNING"
    <2>1. Lifecycle!Run("s")  BY <1>1, <1>2, <1>6 DEF Lifecycle!Run, life
    <2> QED BY <2>1 DEF Lifecycle!Next
  <1>7. CASE Life \in {"INIT", "READY", "RUNNING"} /\ Life' = "POSTRUN"
    <2>1. Lifecycle!Finalize("s")  BY <1>1, <1>2, <1>7 DEF Lifecycle!Finalize, life
    <2> QED BY <2>1 DEF Lifecycle!Next
  <1>8. CASE Life = "POSTRUN" /\ Life' = "gone"
    <2>1. Lifecycle!Leave("s")  BY <1>1, <1>2, <1>8 DEF Lifecycle!Leave, life
    <2> QED BY <2>1 DEF Lifecycle!Next
  <1> QED BY <1>3, <1>4, <1>5, <1>6, <1>7, <1>8 DEF Onward

\* Every await has its stage, so that a handler that ends moves the session out of the
\* stage it is in, and DELETE out of a queue only.
LEMMA EveryStepIsOnward ==
    ASSUME Awaits, [Next]_vars
    PROVE  Onward
  <1> USE DEF handlerVars, Awaits, PostPcs, Deciding, Leaving
  <1> DEFINE Lives(x, l) ==
               /\ x \in {"none", "refused"} => l = "absent"
               /\ x \in {"init_queue", "init"} => l = "INIT"
               /\ x = "ready" => l = "READY"
               /\ x = "run" => l = "RUNNING"
               /\ x \in {"parked", "post_queue", "post"} => l = "POSTRUN"
               /\ x = "gone" => l = "gone"
  <1>a. Lives(stage, Life) /\ Lives(stage', Life')  BY DEF Life
  <1>0. ASSUME stage' = stage PROVE Life' = Life  BY <1>0 DEF Life
  <1>1. CASE Dispatch
    <2>1. stage = "none" /\ stage' \in {"init_queue", "refused"}  BY <1>1 DEF Dispatch
    <2> QED BY <2>1, <1>a DEF Onward
  <1>2. CASE DeleteCalls
    <2>1. stage' = stage \/ (stage \in {"init_queue", "ready"} /\ stage' = "parked")
      BY <1>2 DEF DeleteCalls
    <2> QED BY <1>0, <2>1, <1>a DEF Onward
  <1>3. CASE DeleteEnds
    <2>1. stage' = stage \/ (stage = "parked" /\ stage' = "post_queue")  BY <1>3 DEF DeleteEnds
    <2> QED BY <1>0, <2>1, <1>a DEF Onward
  <1>4. CASE BeginInit
    <2>1. stage = "init_queue" /\ stage' = "init"  BY <1>4 DEF BeginInit
    <2> QED BY <2>1, <1>a DEF Onward
  <1>5. CASE EndInit
    <2>1. stage = "init" /\ stage' \in {"ready", "post_queue"}  BY <1>5 DEF EndInit
    <2> QED BY <2>1, <1>a DEF Onward
  <1>6. CASE BeginRun
    <2>1. stage = "ready" /\ stage' = "run"  BY <1>6 DEF BeginRun
    <2> QED BY <2>1, <1>a DEF Onward
  <1>7. CASE EndRun
    <2>1. stage = "run" /\ stage' = "post_queue"  BY <1>7 DEF EndRun
    <2> QED BY <2>1, <1>a DEF Onward
  <1>8. CASE BeginPostrun
    <2>1. stage = "post_queue" /\ stage' = "post"  BY <1>8 DEF BeginPostrun
    <2> QED BY <2>1, <1>a DEF Onward
  <1>9. CASE Leave
    <2>1. stage = "post" /\ stage' = "gone"  BY <1>9 DEF Leave
    <2> QED BY <2>1, <1>a DEF Onward
  <1>10. CASE stage' = stage  BY <1>0, <1>10 DEF Onward
  <1>11. CASE DeleteStops \/ Expire \/ Prepares \/ Build \/ BuildFails \/ EvalTimesOut
                 \/ AcquireFresh \/ Evaluate \/ DrainPrewarm \/ StopRuntimes \/ SetResult
                 \/ PushResult \/ Prewarm \/ Done \/ UNCHANGED vars
    <2>1. stage' = stage
      BY <1>11 DEF DeleteStops, Expire, Prepares, Build, BuildFails, EvalTimesOut, AcquireFresh,
         Evaluate, DrainPrewarm, StopRuntimes, SetResult, PushResult, Prewarm, WarmStarts,
         WarmGoesOn, WarmStops, Done, vars
    <2> QED BY <1>10, <2>1
  <1> QED BY <1>1, <1>2, <1>3, <1>4, <1>5, <1>6, <1>7, <1>8, <1>9, <1>11 DEF Next, Delete, Handler

\* The handlers of GatewayNodeManager, with their errors, timeouts and a DELETE between any
\* two awaits, take a session through the life cycle that SessionDispatcher, which calls
\* them, is shown to implement: this module's stages are no more than the dispatcher's.
THEOREM HandlersFollowLifecycle == Spec => FollowsLifecycle
  <1>1. Init => Lifecycle!Init
    BY DEF Init, Lifecycle!Init, Life
  <1>2. IInv /\ [Next]_vars => [Lifecycle!Next]_[s \in {"s"} |-> Life]
    BY EveryStepIsOnward, OnwardIsALife DEF IInv
  <1> QED BY <1>1, <1>2, InvariantHolds, PTL DEF Spec, FollowsLifecycle, Lifecycle!Spec
-----------------------------------------------------------------------------
(* The contract with the rollout server. *)

\* The first status goes when a worker takes the session up, or with DELETE; a final one
\* is set by the post-run handler alone, when it has the result.
Forward ==
    /\ status = "REGISTERED" => stage \in {"init_queue", "parked"}
    /\ status \in Terminal => Left

\* Every other status a handler sets is not a final one.
LEMMA NotFinal ==
    {"none", "REGISTERED", "INITIALIZING", "READY", "RUNNING", "POST_RUN", "BUILDING",
     "EVALUATING"} \intersect Terminal = {}
  BY DEF Terminal

\* No step goes back to the first status, or makes one final before the result is there.
LEMMA ForwardStep ==
    ASSUME Awaits, Judged, Forward, [Next]_vars
    PROVE  Forward'
  <1> USE NotFinal DEF handlerVars, runtimeVars, registryVars, Awaits, PostPcs, Deciding, Leaving,
        Left, Forward
  <1>1. CASE Dispatch  BY <1>1 DEF Dispatch
  <1>2. CASE DeleteCalls  BY <1>2 DEF DeleteCalls
  <1>3. CASE DeleteStops  BY <1>3 DEF DeleteStops
  <1>4. CASE DeleteEnds  BY <1>4 DEF DeleteEnds
  <1>5. CASE Expire  BY <1>5 DEF Expire
  <1>6. CASE BeginInit  BY <1>6 DEF BeginInit, SetStatus
  <1>7. CASE Prepares  BY <1>7 DEF Prepares
  <1>8. CASE EndInit  BY <1>8 DEF EndInit, SetStatus
  <1>9. CASE BeginRun  BY <1>9 DEF BeginRun, SetStatus
  <1>10. CASE EndRun  BY <1>10 DEF EndRun, SetStatus
  <1>11. CASE BeginPostrun  BY <1>11 DEF BeginPostrun, SetStatus
  <1>12. CASE Build  BY <1>12 DEF Build, SetStatus
  <1>13. CASE BuildFails  BY <1>13 DEF BuildFails
  <1>14. CASE EvalTimesOut  BY <1>14 DEF EvalTimesOut
  <1>15. CASE AcquireFresh  BY <1>15 DEF AcquireFresh
  <1>16. CASE Evaluate  BY <1>16 DEF Evaluate
  <1>17. CASE DrainPrewarm  BY <1>17 DEF DrainPrewarm
  <1>18. CASE StopRuntimes  BY <1>18 DEF StopRuntimes
  <1>19. CASE SetResult
    <2>1. result.status \in Terminal  BY <1>19 DEF SetResult, Judged
    <2> QED BY <1>19, <2>1 DEF SetResult, SetStatus
  <1>20. CASE PushResult  BY <1>20 DEF PushResult
  <1>21. CASE Leave  BY <1>21 DEF Leave
  <1>22. CASE Prewarm  BY <1>22 DEF Prewarm, WarmStarts, WarmGoesOn, WarmStops
  <1>23. CASE UNCHANGED vars  BY <1>23 DEF vars
  <1> QED BY <1>1, <1>2, <1>3, <1>4, <1>5, <1>6, <1>7, <1>8, <1>9, <1>10, <1>11, <1>12, <1>13,
        <1>14, <1>15, <1>16, <1>17, <1>18, <1>19, <1>20, <1>21, <1>22, <1>23
        DEF Next, Delete, Handler, Done
\* What the server sees: the statuses it tells apart, and how far the result has got.
LEMMA Views ==
    /\ status = "none" => Entry = "absent"
    /\ status = "REGISTERED" => Entry = "registered"
    /\ status \in Terminal => Entry = "terminal"
    /\ status \notin Terminal \union {"none", "REGISTERED"} => Entry = "active"
    /\ stage \in {"none", "refused", "gone"} => Work = "none"
    /\ stage \notin {"none", "refused", "gone"} /\ pc \notin Leaving => Work = "working"
    /\ stage \notin {"none", "refused", "gone"} /\ pc \in Leaving =>
          Work = IF delivery = "acked" THEN "pushed" ELSE "pushing"
  BY DEF Entry, Work, Terminal, Leaving

\* A step that the server sees nothing of.
LEMMA Unseen ==
    ASSUME UNCHANGED <<status, payload, Work>>
    PROVE  UNCHANGED <<Entry, payload, Work>>
  BY DEF Entry

\* A stage, before the last one has its result, at most tells that it has begun.
LEMMA Labelled ==
    ASSUME Forward, ~Left, UNCHANGED payload, Work = "working", Work' = "working",
           \/ UNCHANGED status
           \/ \E x \in {"INITIALIZING", "READY", "RUNNING", "POST_RUN", "BUILDING", "EVALUATING"} :
                 SetStatus(x)
    PROVE  [Contract!Next]_<<Entry, payload, Work>>
  <1> USE NotFinal DEF Forward, SetStatus
  <1>1. CASE UNCHANGED status  BY <1>1, Unseen
  <1>2. PICK x \in {"INITIALIZING", "READY", "RUNNING", "POST_RUN", "BUILDING", "EVALUATING"} :
            UNCHANGED status \/ SetStatus(x)
    BY <1>1
  <1>3. CASE status = "none"
    <2>1. UNCHANGED status  BY <1>2, <1>3
    <2> QED BY <1>1, <2>1
  <1>4. CASE status = "REGISTERED" /\ status' = x
    <2>1. Entry = "registered" /\ Entry' = "active"  BY <1>2, <1>4 DEF Entry
    <2>2. Contract!Begin  BY <2>1 DEF Contract!Begin
    <2> QED BY <2>2 DEF Contract!Next
  <1>5. CASE status \notin {"none", "REGISTERED"} /\ status' = x
    <2>1. Entry = "active" /\ Entry' = "active"  BY <1>2, <1>5 DEF Entry
    <2> QED BY <2>1
  <1> QED BY <1>1, <1>2, <1>3, <1>4, <1>5

\* Every step of the handlers, of DELETE and of the prewarm task is one that the contract
\* allows: the result is stored before it is sent, freed when it is acknowledged or deleted.
LEMMA ContractStep ==
    ASSUME IInv, Forward, [Next]_vars
    PROVE  [Contract!Next]_<<Entry, payload, Work>>
  <1> DEFINE Step == [Contract!Next]_<<Entry, payload, Work>>
             Out == {"none", "refused", "gone"}
  <1> USE DEF handlerVars, Leaving
  <1>a. /\ Awaits /\ Deleting /\ Judged /\ Reported /\ payload \in BOOLEAN
        /\ pc \in {"idle", "failing", "start", "prepare", "copy", "agent"} \union PostPcs
    BY DEF IInv, TypeOK, PostPcs, Deciding
  <1>b. /\ stage \in Out => Work = "none"
        /\ stage \notin Out /\ pc \notin Leaving => Work = "working"
        /\ stage \notin Out /\ pc \in Leaving =>
              Work = IF delivery = "acked" THEN "pushed" ELSE "pushing"
    BY Views
  <1>c. /\ stage' \in Out => Work' = "none"
        /\ stage' \notin Out /\ pc' \notin Leaving => Work' = "working"
        /\ stage' \notin Out /\ pc' \in Leaving =>
              Work' = IF delivery' = "acked" THEN "pushed" ELSE "pushing"
    BY DEF Work
  <1>d. /\ stage \in Out \union {"init_queue", "ready", "parked", "post_queue"} => pc = "idle"
        /\ pc \notin {"idle"} \union PostPcs => stage \in {"init", "run"}
        /\ pc \in PostPcs => stage = "post"
        /\ Left <=> pc \in Leaving \/ stage = "gone"
    BY <1>a DEF Awaits, PostPcs, Deciding, Left
  <1>0. ASSUME UNCHANGED <<stage, pc, delivery, status, payload>> PROVE Step
    BY <1>0, Unseen DEF Work
  <1>e. ASSUME stage \notin Out, stage' \notin Out, pc \notin Leaving, pc' \notin Leaving,
               UNCHANGED payload,
               \/ UNCHANGED status
               \/ \E x \in {"INITIALIZING", "READY", "RUNNING", "POST_RUN", "BUILDING",
                            "EVALUATING"} : SetStatus(x)
        PROVE  Step
    BY <1>b, <1>c, <1>d, <1>e, Labelled
  <1>1. CASE Dispatch
    <2>1. /\ stage = "none" /\ UNCHANGED <<pc, payload>>
          /\ \/ stage' = "init_queue" /\ status' = "REGISTERED"
             \/ stage' = "refused" /\ UNCHANGED status
      BY <1>1 DEF Dispatch
    <2>2. status = "none" /\ pc = "idle"  BY <1>a, <1>d, <2>1 DEF Deleting
    <2>3. CASE stage' = "refused" /\ UNCHANGED status  BY <1>b, <1>c, <2>1, <2>3, Unseen
    <2>4. CASE stage' = "init_queue" /\ status' = "REGISTERED"
      <3>1. Entry = "absent" /\ Entry' = "registered"  BY <2>2, <2>4, NotFinal DEF Entry
      <3>2. Work' = "working"  BY <1>c, <2>1, <2>2, <2>4
      <3>3. Contract!Accept  BY <2>1, <3>1, <3>2 DEF Contract!Accept
      <3> QED BY <3>3 DEF Contract!Next
    <2> QED BY <2>1, <2>3, <2>4
  <1>2. CASE DeleteCalls
    <2>1. /\ UNCHANGED <<pc, delivery, status, payload>>
          /\ stage' = stage \/ (stage \in {"init_queue", "ready"} /\ stage' = "parked")
      BY <1>2 DEF DeleteCalls, registryVars
    <2>2. UNCHANGED Work  BY <1>b, <1>c, <1>d, <2>1
    <2> QED BY <2>1, <2>2, Unseen
  <1>3. CASE DeleteEnds
    <2>1. /\ UNCHANGED <<pc, delivery>> /\ status' = "none" /\ payload' = FALSE
          /\ stage' = stage \/ (stage = "parked" /\ stage' = "post_queue")
      BY <1>3 DEF DeleteEnds
    <2>2. UNCHANGED Work  BY <1>b, <1>c, <1>d, <2>1
    <2>3. Entry' = "absent"  BY <2>1 DEF Entry, Terminal
    <2>4. Contract!Forget  BY <2>1, <2>2, <2>3 DEF Contract!Forget
    <2> QED BY <2>4 DEF Contract!Next
  <1>4. CASE BeginInit
    <2>1. /\ stage = "init_queue" /\ stage' = "init" /\ pc' \in {"start", "failing"}
          /\ UNCHANGED payload /\ SetStatus("INITIALIZING")
      BY <1>4 DEF BeginInit
    <2> QED BY <1>d, <1>e, <2>1
  <1>5. CASE EndInit
    <2>1. /\ pc \in {"start", "prepare", "copy", "failing"} /\ stage' \in {"ready", "post_queue"}
          /\ pc' = "idle" /\ UNCHANGED payload
          /\ SetStatus("READY") \/ SetStatus("POST_RUN")
      BY <1>5 DEF EndInit, SetStatus
    <2> QED BY <1>a, <1>d, <1>e, <2>1 DEF Awaits
  <1>6. CASE BeginRun
    <2>1. /\ stage = "ready" /\ stage' = "run" /\ pc' = "agent"
          /\ UNCHANGED payload /\ SetStatus("RUNNING")
      BY <1>6 DEF BeginRun
    <2> QED BY <1>d, <1>e, <2>1
  <1>7. CASE EndRun
    <2>1. /\ pc = "agent" /\ stage' = "post_queue" /\ pc' = "idle"
          /\ UNCHANGED payload /\ SetStatus("POST_RUN")
      BY <1>7 DEF EndRun
    <2> QED BY <1>a, <1>d, <1>e, <2>1 DEF Awaits
  <1>8. CASE BeginPostrun
    <2>1. /\ stage = "post_queue" /\ stage' = "post" /\ pc' \in {"build", "steps"}
          /\ UNCHANGED payload
          /\ SetStatus("BUILDING") \/ SetStatus("POST_RUN")
      BY <1>8 DEF BeginPostrun, SetStatus
    <2> QED BY <1>d, <1>e, <2>1
  <1>9. CASE Build
    <2>1. /\ pc = "build" /\ pc' \in {"steps", "warm", "evaluate"} /\ UNCHANGED <<stage, payload>>
          /\ UNCHANGED status \/ SetStatus("EVALUATING")
      BY <1>9 DEF Build
    <2> QED BY <1>a, <1>d, <1>e, <2>1 DEF Awaits, PostPcs, Deciding
  <1>10. CASE BuildFails \/ EvalTimesOut \/ AcquireFresh \/ Evaluate \/ DrainPrewarm \/ StopRuntimes
    <2>1. /\ pc \in PostPcs \ (Leaving \union {"stop"}) /\ pc' \in PostPcs \ Leaving
          /\ UNCHANGED <<stage, status, payload>>
      BY <1>10 DEF BuildFails, EvalTimesOut, AcquireFresh, Evaluate, DrainPrewarm, StopRuntimes,
         registryVars, PostPcs, Deciding
    <2> QED BY <1>d, <1>e, <2>1
  <1>11. CASE SetResult
    <2>1. /\ pc = "stop" /\ pc' \in Leaving /\ UNCHANGED <<stage, delivery>>
          /\ SetStatus(result.status) /\ payload' = (status # "none")
      BY <1>11 DEF SetResult
    <2>2. stage = "post" /\ delivery = "none" /\ result.status \in Terminal
      BY <1>a, <1>d, <2>1 DEF Reported, Judged, PostPcs, IInv, TypeOK
    <2>3. Work = "working" /\ Work' = "pushing"  BY <1>b, <1>c, <2>1, <2>2
    <2>4. IF status = "none" THEN Entry = "absent" ELSE Entry = "active"
      BY <1>d, <2>1, <2>2 DEF Entry, Forward
    <2>5. Entry' = IF status = "none" THEN "absent" ELSE "terminal"
      BY <2>1, <2>2 DEF Entry, SetStatus, Terminal
    <2>6. Contract!Finish  BY <2>1, <2>3, <2>4, <2>5 DEF Contract!Finish
    <2> QED BY <2>6 DEF Contract!Next
  <1>12. CASE PushResult
    <2>1. /\ pc = "push" /\ pc' = "rmtree" /\ UNCHANGED <<stage, status>>
          /\ delivery' \in {"acked", "lost"} /\ payload' = (payload /\ delivery' = "lost")
      BY <1>12 DEF PushResult
    <2>2. stage = "post" /\ delivery = "none"
      BY <1>a, <1>d, <2>1 DEF Reported, PostPcs, IInv, TypeOK
    <2>3. Work = "pushing"  BY <1>b, <2>1, <2>2
    <2>4. CASE delivery' = "lost"
      <3>1. UNCHANGED <<status, payload>> /\ Work' = "pushing"  BY <1>a, <1>c, <2>1, <2>2, <2>4
      <3> QED BY <2>3, <3>1, Unseen
    <2>5. CASE delivery' = "acked"
      <3>1. payload' = FALSE  BY <2>1, <2>5, Zenon
      <3>2. Work' = "pushed"  BY <1>c, <2>1, <2>2, <2>5
      <3>3. UNCHANGED Entry  BY <2>1 DEF Entry
      <3>4. payload' \in {payload, FALSE}  BY <3>1, Zenon
      <3>5. Contract!Receive  BY <2>3, <3>2, <3>3, <3>4, Zenon DEF Contract!Receive
      <3> QED BY <3>5 DEF Contract!Next
    <2> QED BY <2>1, <2>4, <2>5
  <1>13. CASE Leave
    <2>1. pc = "rmtree" /\ stage' = "gone" /\ UNCHANGED <<status, payload>>
      BY <1>13 DEF Leave, registryVars
    <2>2. Work \in {"pushing", "pushed"} /\ Work' = "none" /\ UNCHANGED Entry
      BY <1>b, <1>c, <1>d, <2>1 DEF Entry, PostPcs
    <2>3. Contract!Leave  BY <2>1, <2>2 DEF Contract!Leave
    <2> QED BY <2>3 DEF Contract!Next
  <1>14. CASE DeleteStops \/ Expire \/ Prewarm \/ Done \/ UNCHANGED vars
    <2>1. UNCHANGED <<stage, pc, delivery, status, payload>>
      BY <1>14 DEF DeleteStops, Expire, Prewarm, WarmStarts, WarmGoesOn, WarmStops, Done, vars,
         registryVars
    <2> QED BY <1>0, <2>1
  <1>15. CASE Prepares
    <2>1. /\ pc \in {"start", "prepare", "copy"} /\ pc' \in {"prepare", "copy"}
          /\ UNCHANGED <<stage, status, payload>>
      BY <1>15 DEF Prepares, registryVars
    <2> QED BY <1>a, <1>d, <1>e, <2>1 DEF Awaits
  <1> QED BY <1>1, <1>2, <1>3, <1>4, <1>5, <1>6, <1>7, <1>8, <1>9, <1>10, <1>11, <1>12, <1>13,
        <1>14, <1>15 DEF Next, Delete, Handler

\* GatewayNodeManager is the gateway that the rollout server counts on: a final status comes
\* with its result, and the result is given up only when the server has it or, after a
\* DELETE, no longer wants it; the work comes to its end after a DELETE too.
THEOREM HandlersKeepContract == Spec => KeepsContract
  <1>1. Init => Forward /\ Contract!Init
    BY DEF Init, Forward, Left, Leaving, Terminal, Entry, Work, Contract!Init
  <1>2. IInv /\ Forward /\ [Next]_vars => Forward'
    BY ForwardStep DEF IInv
  <1>3. IInv /\ Forward /\ [Next]_vars => [Contract!Next]_<<Entry, payload, Work>>
    BY ContractStep
  <1> QED BY <1>1, <1>2, <1>3, InvariantHolds, PTL DEF Spec, KeepsContract, Contract!Spec
=============================================================================
