------------------------------ MODULE WeightRefit ------------------------------
(***************************************************************************)
(* The push of new weights to the engines while agents are generating:     *)
(* TrainingActor.broadcast_to_vllm (molt/trainer/rl_trainer.py), the       *)
(* engines' actors (trainer/vllm/vllm_engine.py), the gate of the          *)
(* gateways' inference client (polar/gateway/proxy.py) and the packed      *)
(* broadcast of policy_actor.py.                                           *)
(*                                                                         *)
(* A remote call is handed to its actor, which serves its calls in order;  *)
(* ray.get returns when all have been served, or raises as soon as one     *)
(* failed, whatever the others do.  A flush of the broadcast carries one   *)
(* part of the weights.  The engine (vLLM, external) computes a token of a *)
(* running request with the weights it has, and keeps the attention keys   *)
(* and values of the request, which are of the versions they were computed *)
(* with; with prefix caching a later request may begin with them.  It may  *)
(* refuse to reset them, which is printed and no error.                    *)
(***************************************************************************)
EXTENDS Naturals, Sequences, FiniteSets, SequencesExt, FiniteSetsExt

CONSTANTS
    Engines, Gateways, Requests,
    Home,              \* the gateway of each request
    StateDict,         \* the model's entries in order: [name, bytes, kind]
    Threshold,         \* packed_threshold_bytes
    MaxVersion, MaxFailures

ASSUME RefitAssumption ==
    /\ Engines # {} /\ Home \in [Requests -> Gateways]
    /\ StateDict \in Seq([name : STRING, bytes : Nat \ {0},
                          kind : {"weight", "extra_state", "integer", "tied"}])
    /\ \E i \in DOMAIN StateDict : StateDict[i].kind = "weight"
    /\ IsInjective([i \in DOMAIN StateDict |-> StateDict[i].name])
    /\ Threshold \in Nat /\ MaxVersion \in Nat /\ MaxFailures \in Nat

VARIABLES
    mode,         \* [drain, caching]: --rollout.refit_drain and prefix caching
    lock,         \* vllm_lock: "free", "evaluation" or "refit"
    pc,           \* where broadcast_to_vllm is
    part,         \* the flush under way: the entry it begins with
    frozen,       \* engines_paused
    error,        \* a call of the ray.get under way has failed
    raised,       \* the refit is ending with an exception
    version,      \* of the trainer's weights
    engineCalls,  \* per engine: calls not served, oldest first
    paused,       \* engines whose scheduler stands still
    weights,      \* per engine and weight: the version it has
    gateCalls,    \* per gateway: calls not served
    closed,       \* gateways with _generation_paused
    draining,     \* gateways whose pause waits for its completions
    turn,         \* per request: "none", "waiting" at the gate, "running", "answered", "failed"
    at,           \* per request: its engine
    kv,           \* per running request: the versions its keys and values are of
    cache,        \* per engine: the versions that its prefix cache holds
    refused,      \* history: engines that refused the reset of the last refit
    failures,     \* history: how many calls have failed
    culprits      \* history: and which ones

trainerVars == <<mode, lock, pc, part, frozen, raised, version>>
callVars == <<engineCalls, gateCalls, error, failures, culprits>>
serverVars == <<paused, weights, closed, draining>>
cacheVars == <<cache, refused>>
requestVars == <<turn, at, kv, cacheVars>>
vars == <<trainerVars, callVars, serverVars, requestVars>>
-----------------------------------------------------------------------------
(* The packed broadcast *)

\* Bookkeeping of fp8, integers and a head tied to the embedding are not sent.
Entries == {i \in DOMAIN StateDict : StateDict[i].kind = "weight"}
Weights == {StateDict[i].name : i \in Entries}

\* pending_bytes with the weights from entry i to entry j.
Bytes(i, j) == MapThenSumSet(LAMBDA k : StateDict[k].bytes, Entries \cap i .. j)

End == Len(StateDict) + 1

\* A flush that begins with entry i ends before the first weight that would fill the
\* buffer, however large the weight of entry i is; the last one is what remains.
Until(i) == Min({j \in Entries : i < j /\ Bytes(i, j) >= Threshold} \union {End})

Flush(i) == {StateDict[j].name : j \in {j \in Entries : i <= j /\ j < Until(i)}}
-----------------------------------------------------------------------------
Init ==
    /\ mode \in [drain : BOOLEAN, caching : BOOLEAN]
    /\ lock = "free" /\ pc = "idle" /\ part = 0
    /\ frozen = FALSE /\ error = FALSE /\ raised = FALSE /\ version = 0
    /\ engineCalls = [e \in Engines |-> <<>>] /\ gateCalls = [g \in Gateways |-> <<>>]
    /\ paused = {} /\ weights = [e \in Engines |-> [w \in Weights |-> 0]]
    /\ closed = {} /\ draining = {}
    /\ turn = [r \in Requests |-> "none"] /\ at = [r \in Requests |-> CHOOSE e \in Engines : TRUE]
    /\ kv = [r \in Requests |-> {}] /\ cache = [e \in Engines |-> {}] /\ refused = {}
    /\ failures = 0 /\ culprits = {}

\* ray.get([... for engine in engines]), for gateways alike.
CallEngines(call) == engineCalls' = [e \in Engines |-> Append(engineCalls[e], call)]
CallGateways(call) == gateCalls' = [g \in Gateways |-> Append(gateCalls[g], call)]
EnginesReturned == \A e \in Engines : engineCalls[e] = <<>>
GatewaysReturned == draining = {} /\ \A g \in Gateways : gateCalls[g] = <<>>

Pause == <<"pause", 0>>
Resume == <<"resume", 0>>
Reset == <<"reset", 0>>
Load(k) == <<"load", k>>
-----------------------------------------------------------------------------
(* broadcast_to_vllm *)

\* After an optimiser step.
Acquire ==
    /\ pc = "idle" /\ version < MaxVersion
    /\ version' = version + 1 /\ pc' = "lock" /\ refused' = {}
    /\ UNCHANGED <<mode, lock, part, frozen, raised, callVars, serverVars, turn, at, kv, cache>>

Locked ==
    /\ pc = "lock" /\ lock = "free" /\ lock' = "refit"
    /\ pc' = "pause engines" /\ CallEngines(Pause)
    /\ UNCHANGED <<mode, part, frozen, raised, version, gateCalls, error, failures, culprits,
                   serverVars, requestVars>>

\* The evaluation's section, which generates under the lock.
Evaluation ==
    /\ \/ lock = "free" /\ lock' = "evaluation" /\ pc # "failed"
       \/ lock = "evaluation" /\ lock' = "free"
    /\ UNCHANGED <<mode, pc, part, frozen, raised, version, callVars, serverVars, requestVars>>

MutEnginesPaused ==
    /\ pc = "pause engines" /\ ~error
    /\ frozen' = TRUE /\ pc' = "pause gateways" /\ CallGateways(Pause)
    /\ UNCHANGED <<mode, lock, part, raised, version, engineCalls, error, failures, culprits,
                   serverVars, requestVars>>

EnginesPaused ==
    /\ pc = "pause engines" /\ EnginesReturned /\ ~error
    /\ frozen' = TRUE /\ pc' = "pause gateways" /\ CallGateways(Pause)
    /\ UNCHANGED <<mode, lock, part, raised, version, engineCalls, error, failures, culprits,
                   serverVars, requestVars>>

GatewaysPaused ==
    /\ pc = "pause gateways" /\ GatewaysReturned /\ ~error
    /\ pc' = "push" /\ part' = Min(Entries) /\ CallEngines(Load(part'))
    /\ UNCHANGED <<mode, lock, frozen, raised, version, gateCalls, error, failures, culprits,
                   serverVars, requestVars>>

\* finally: engines_paused is only set when every engine has paused.
Finally ==
    /\ IF frozen
       THEN pc' = "resume engines" /\ CallEngines(Resume) /\ UNCHANGED gateCalls
       ELSE pc' = "resume gateways" /\ CallGateways(Resume) /\ UNCHANGED engineCalls
    /\ UNCHANGED <<mode, lock, frozen, version, failures, culprits, serverVars, requestVars>>

NextFlush ==
    /\ pc = "push" /\ EnginesReturned /\ ~error /\ Until(part) # End
    /\ part' = Until(part) /\ CallEngines(Load(part'))
    /\ UNCHANGED <<mode, lock, pc, frozen, raised, version, gateCalls, error, failures, culprits,
                   serverVars, requestVars>>

ResetCache ==
    /\ pc = "push" /\ EnginesReturned /\ ~error /\ Until(part) = End /\ mode.caching
    /\ pc' = "reset" /\ CallEngines(Reset)
    /\ UNCHANGED <<mode, lock, part, frozen, raised, version, gateCalls, error, failures, culprits,
                   serverVars, requestVars>>

Pushed ==
    /\ EnginesReturned /\ ~error
    /\ \/ pc = "push" /\ Until(part) = End /\ ~mode.caching
       \/ pc = "reset"
    /\ Finally /\ UNCHANGED <<part, error, raised>>

Raise ==
    /\ error /\ pc \in {"pause engines", "pause gateways", "push", "reset"}
    /\ error' = FALSE /\ raised' = TRUE
    /\ Finally /\ UNCHANGED part

EnginesResumed ==
    /\ pc = "resume engines" /\ (EnginesReturned \/ error)
    /\ error' = FALSE /\ raised' = (raised \/ error) /\ frozen' = FALSE
    /\ pc' = "resume gateways" /\ CallGateways(Resume)
    /\ UNCHANGED <<mode, lock, part, version, engineCalls, failures, culprits, serverVars,
                   requestVars>>

MutGatewaysResumed ==
    /\ pc = "resume gateways" /\ (GatewaysReturned \/ error)
    /\ error' = FALSE /\ raised' = (raised \/ error)
    /\ lock' = IF raised' THEN lock ELSE "free"
    /\ pc' = IF raised' THEN "failed" ELSE "idle"
    /\ UNCHANGED <<mode, part, frozen, version, engineCalls, gateCalls, failures, culprits,
                   serverVars, requestVars>>

\* The lock is released on every path; an exception ends the job.
GatewaysResumed ==
    /\ pc = "resume gateways" /\ (GatewaysReturned \/ error)
    /\ error' = FALSE /\ raised' = (raised \/ error) /\ lock' = "free"
    /\ pc' = IF raised' THEN "failed" ELSE "idle"
    /\ UNCHANGED <<mode, part, frozen, version, engineCalls, gateCalls, failures, culprits,
                   serverVars, requestVars>>
-----------------------------------------------------------------------------
(* Engines and gateways serve the calls *)

\* Nobody hears of the failure of a call whose ray.get has raised already.
Awaited(call) ==
    pc = CASE call[1] = "engine" /\ call[2] = "pause"   -> "pause engines"
           [] call[1] = "engine" /\ call[2] = "load"    -> "push"
           [] call[1] = "engine" /\ call[2] = "reset"   -> "reset"
           [] call[1] = "engine" /\ call[2] = "resume"  -> "resume engines"
           [] call[1] = "gateway" /\ call[2] = "pause"  -> "pause gateways"
           [] call[1] = "gateway" /\ call[2] = "resume" -> "resume gateways"

CallFails(call) ==
    /\ failures < MaxFailures /\ failures' = failures + 1
    /\ error' = (error \/ Awaited(call)) /\ culprits' = culprits \union {call}

\* A plain reset leaves running requests alone; this one asks for them too.  The engine may
\* refuse it; the call only says so and returns as after one that it granted.
Reprefilled(e) ==
    /\ kv' = [r \in Requests |-> IF turn[r] = "running" /\ at[r] = e THEN {} ELSE kv[r]]
    /\ cache' = [cache EXCEPT ![e] = {}] /\ UNCHANGED refused

Refused(e) == refused' = refused \union {e} /\ UNCHANGED <<kv, cache>>

\* update_weights_packed: the weights of the flush take the trainer's values.
Loaded(of, k) == [w \in Weights |-> IF w \in Flush(k) THEN version ELSE of[w]]

EngineServes(e) ==
    /\ engineCalls[e] # <<>> /\ engineCalls' = [engineCalls EXCEPT ![e] = Tail(@)]
    /\ LET call == Head(engineCalls[e])
       IN  /\ paused' = IF call = Pause THEN paused \union {e}
                        ELSE IF call = Resume THEN paused \ {e} ELSE paused
           /\ weights' = IF call[1] = "load" THEN [weights EXCEPT ![e] = Loaded(@, call[2])]
                         ELSE weights
           /\ IF call = Reset THEN Reprefilled(e) \/ Refused(e)
              ELSE UNCHANGED <<kv, cacheVars>>
    /\ UNCHANGED <<trainerVars, gateCalls, error, failures, culprits, closed, draining, turn, at>>

EngineFails(e) ==
    /\ engineCalls[e] # <<>> /\ engineCalls' = [engineCalls EXCEPT ![e] = Tail(@)]
    /\ CallFails(<<"engine", Head(engineCalls[e])[1]>>)
    /\ UNCHANGED <<trainerVars, gateCalls, serverVars, requestVars>>

InFlight(g) == {r \in Requests : Home[r] = g /\ turn[r] = "running"}

\* pause_generation: it closes the gate, and with drain waits for what is in flight.
GatewayPauses(g) ==
    /\ gateCalls[g] # <<>> /\ Head(gateCalls[g]) = Pause
    /\ gateCalls' = [gateCalls EXCEPT ![g] = Tail(@)]
    /\ closed' = closed \union {g}
    /\ draining' = IF mode.drain /\ InFlight(g) # {} THEN draining \union {g} ELSE draining
    /\ UNCHANGED <<trainerVars, engineCalls, error, failures, culprits, paused, weights,
                   requestVars>>

Drained(g) ==
    /\ g \in draining /\ InFlight(g) = {} /\ draining' = draining \ {g}
    /\ UNCHANGED <<trainerVars, callVars, paused, weights, closed, requestVars>>

MutDrainTimesOut(g) ==
    /\ g \in draining /\ InFlight(g) = {} /\ draining' = draining \ {g}
    /\ UNCHANGED <<trainerVars, callVars, paused, weights, closed, requestVars>>

\* TimeoutError; the gate stays closed.
DrainTimesOut(g) ==
    /\ g \in draining /\ draining' = draining \ {g}
    /\ error' = (error \/ pc = "pause gateways")
    /\ UNCHANGED <<trainerVars, engineCalls, gateCalls, failures, culprits, paused, weights, closed,
                   requestVars>>

GatewayResumes(g) ==
    /\ gateCalls[g] # <<>> /\ Head(gateCalls[g]) = Resume
    /\ gateCalls' = [gateCalls EXCEPT ![g] = Tail(@)]
    /\ closed' = closed \ {g}
    /\ UNCHANGED <<trainerVars, engineCalls, error, failures, culprits, paused, weights, draining,
                   requestVars>>

GatewayFails(g) ==
    /\ gateCalls[g] # <<>> /\ gateCalls' = [gateCalls EXCEPT ![g] = Tail(@)]
    /\ CallFails(<<"gateway", Head(gateCalls[g])[1]>>)
    /\ UNCHANGED <<trainerVars, engineCalls, serverVars, requestVars>>
-----------------------------------------------------------------------------
(* Completions *)

Ask(r) ==
    /\ turn[r] = "none" /\ turn' = [turn EXCEPT ![r] = "waiting"]
    /\ UNCHANGED <<trainerVars, callVars, serverVars, at, kv, cacheVars>>

\* _acquire_generation_slot; the router picks the engine, where the prompt's prefix may be
\* cached.
Forward(r) ==
    /\ turn[r] = "waiting" /\ Home[r] \notin closed
    /\ turn' = [turn EXCEPT ![r] = "running"]
    /\ \E e \in Engines : \E hit \in {{}, cache[e]} :
          at' = [at EXCEPT ![r] = e] /\ kv' = [kv EXCEPT ![r] = hit]
    /\ UNCHANGED <<trainerVars, callVars, serverVars, cacheVars>>

Used(e) == {weights[e][w] : w \in Weights}

Decode(r) ==
    /\ turn[r] = "running" /\ at[r] \notin paused
    /\ kv' = [kv EXCEPT ![r] = @ \union Used(at[r])]
    /\ cache' = IF mode.caching THEN [cache EXCEPT ![at[r]] = @ \union kv'[r]] ELSE cache
    /\ UNCHANGED <<trainerVars, callVars, serverVars, turn, at, refused>>

\* _release_generation_slot, after an answer or, after the client's own patience, without.
Answer(r) ==
    /\ turn[r] = "running" /\ at[r] \notin paused /\ kv[r] # {}
    /\ turn' = [turn EXCEPT ![r] = "answered"] /\ kv' = [kv EXCEPT ![r] = {}]
    /\ UNCHANGED <<trainerVars, callVars, serverVars, at, cacheVars>>

GiveUp(r) ==
    /\ turn[r] = "running" /\ turn' = [turn EXCEPT ![r] = "failed"]
    /\ kv' = [kv EXCEPT ![r] = {}]
    /\ UNCHANGED <<trainerVars, callVars, serverVars, at, cacheVars>>

Trainer ==
    \/ Locked \/ EnginesPaused \/ GatewaysPaused \/ NextFlush \/ ResetCache \/ Pushed \/ Raise
    \/ EnginesResumed \/ GatewaysResumed

Serve ==
    \/ \E e \in Engines : EngineServes(e)
    \/ \E g \in Gateways : GatewayPauses(g) \/ Drained(g) \/ GatewayResumes(g)

Next ==
    \/ Acquire \/ Trainer \/ Evaluation \/ Serve
    \/ \E e \in Engines : EngineFails(e)
    \/ \E g \in Gateways : DrainTimesOut(g) \/ GatewayFails(g)
    \/ \E r \in Requests : Ask(r) \/ Forward(r) \/ Decode(r) \/ Answer(r) \/ GiveUp(r)

\* Actors answer, asyncio.wait_for ends, and an evaluation is over some time.
Fairness ==
    /\ SF_vars(Locked) /\ WF_vars(Trainer) /\ WF_vars(Serve)
    /\ WF_vars(lock = "evaluation" /\ Evaluation)
    /\ \A g \in Gateways : WF_vars(DrainTimesOut(g))

Spec == Init /\ [][Next]_vars /\ Fairness
-----------------------------------------------------------------------------
EngineCalls == {Pause, Resume, Reset} \union ({"load"} \X Nat)
EngineQueue == Seq(EngineCalls)
GateQueue == Seq({Pause, Resume})
Faults == {"engine", "gateway"} \X {"pause", "resume", "reset", "load"}
Places == {"idle", "lock", "pause engines", "pause gateways", "push", "reset",
           "resume engines", "resume gateways", "failed"}
Turns == {"none", "waiting", "running", "answered", "failed"}

TypeOK ==
    /\ mode \in [drain : BOOLEAN, caching : BOOLEAN]
    /\ lock \in {"free", "evaluation", "refit"} /\ pc \in Places /\ part \in Nat
    /\ frozen \in BOOLEAN /\ error \in BOOLEAN /\ raised \in BOOLEAN /\ version \in Nat
    /\ engineCalls \in [Engines -> EngineQueue] /\ gateCalls \in [Gateways -> GateQueue]
    /\ paused \subseteq Engines /\ weights \in [Engines -> [Weights -> Nat]]
    /\ closed \subseteq Gateways /\ draining \subseteq Gateways
    /\ turn \in [Requests -> Turns] /\ at \in [Requests -> Engines]
    /\ kv \in [Requests -> SUBSET Nat] /\ cache \in [Engines -> SUBSET Nat]
    /\ refused \subseteq Engines
    /\ failures \in Nat /\ culprits \subseteq Faults

(* Properties *)

\* No token is computed by an engine that has some of its weights from one version and
\* some from another, unless the push failed: the engines resume then as they are, until
\* the job ends.
NoMixedWeights ==
    [][~raised => \A r \in Requests : Decode(r) => Cardinality(Used(at[r])) = 1]_vars

RunningAt(e) == {r \in Requests : turn[r] = "running" /\ at[r] = e}

\* After a refit that succeeded all engines have the trainer's weights and run, and the
\* gates are open; after one that failed the lock is free, and what could be asked to
\* resume was: only what itself failed to pause or to resume, or a pause of which one
\* call failed, leaves something standing still.  With prefix caching an engine goes on with
\* keys and values of the new weights only, in what the refit interrupted and in its prefix
\* cache, unless it refused the reset, which the refit does not hear of.
RefitLeavesAllRunning ==
    /\ pc \in {"idle", "failed"} => lock # "refit"
    /\ pc = "idle" =>
        /\ paused = {} /\ closed = {} /\ draining = {}
        /\ \A e \in Engines : Used(e) = {version}
        /\ mode.caching => \A e \in Engines \ refused :
              cache[e] \subseteq {version} /\ \A r \in RunningAt(e) : kv[r] \subseteq {version}
    /\ pc = "failed" =>
        /\ <<"gateway", "resume">> \notin culprits => closed = {}
        /\ culprits \intersect {<<"engine", "pause">>, <<"engine", "resume">>} = {} => paused = {}

\* train_rl_ray.py:898: completions in flight are re-prefilled "under the new weights on
\* resume".  Refuted: nothing resets them when prefix caching is off, the default.
KvIsFresh ==
    pc = "idle" => \A r \in Requests : turn[r] = "running" => kv[r] \subseteq {version}

\* train_rl_ray.py:896: a draining refit waits "for the gateways' in-flight completions
\* to finish".  Refuted: the engines stand still before the waiting begins.
DrainCanFinish ==
    \A g \in draining : \A r \in InFlight(g) : at[r] \notin paused

\* Every refit ends, though with a drain perhaps in its timeout.
RefitEnds == pc = "lock" ~> pc \in {"idle", "failed"}
=============================================================================
