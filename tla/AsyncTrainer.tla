------------------------------ MODULE AsyncTrainer ------------------------------
(***************************************************************************)
(* The asynchronous training loop: GenerateSamplesActor, TrainingActor,    *)
(* VLLMLock and RLTrainer of src/molt/trainer/rl_trainer.py, with the pool *)
(* of rollouts of src/molt/trainer/rollout/samples_generator.py.           *)
(*                                                                         *)
(* Two actors share two bounded queues: rollout_queue carries batches and  *)
(* evaluation results to the trainer, rollout_slots carries tokens, each   *)
(* with the trainer's step, back to the generator.  A remote call or a     *)
(* queue operation that may block ends a step.  The weights in the vLLM    *)
(* engines are named by the number of updates behind them; a group is one  *)
(* prompt with all its samples, and remembers the weights its rollouts     *)
(* were dispatched under.                                                  *)
(*                                                                         *)
(* The job may be killed and resubmitted at any moment: it resumes from    *)
(* the last regular checkpoint, else from the best one.  How a checkpoint  *)
(* gets to disk in one piece is not part of this module.  The order of     *)
(* the finished groups, freezing_actor_steps and replayed dumps are left   *)
(* out.                                                                    *)
(***************************************************************************)
EXTENDS Integers, Sequences, FiniteSets

CONSTANTS
    Modes,           \* the command lines: see mode
    DataLen, Episodes,   \* prompts in the data set, passes over it
    Batch,           \* rollout.batch_size
    Capacity,        \* rollout.vllm_generate_batch_size
    MaxSteps,
    EvalSteps, EvalAtStart,
    SaveSteps,
    WarmResume,      \* ckpt.warm_resume_rollouts
    MaxCrashes       \* bound on the times the job is killed

ASSUME TrainerAssumption ==
    /\ Modes \subseteq [forceSync : BOOLEAN, partial : BOOLEAN, onPolicy : BOOLEAN,
                       queueSize : Nat \ {0}]
    /\ {DataLen, Episodes, Batch, Capacity, MaxSteps, EvalSteps, SaveSteps} \subseteq Nat \ {0}
    /\ MaxCrashes \in Nat
    /\ {EvalAtStart, WarmResume} \subseteq BOOLEAN

VARIABLES
    mode,        \* the command line: force_sync_mode, partial_rollout_enable,
                 \* force_on_policy, async_queue_size
    tokens,      \* rollout_slots
    queue,       \* rollout_queue
    lock,        \* VLLMLock: its holder, then those who wait for it in order
    engine,      \* the weights in the vLLM engines
    gpc,         \* where GenerateSamplesActor.fit is
    held,        \* the step of the token it has taken
    episode, cursor,     \* ep, and the position of the data loader in the episode
    again,       \* history: how often a restart has begun an episode again
    drained,     \* _dataloader_iter is None: StopIteration was seen
    inflight,    \* _inflight_rollouts
    finished,    \* _finished_samples, by group
    fresh, synced, lastEval, nextEval,   \* when to evaluate
    tpc,         \* where TrainingActor.fit is
    step,        \* its global_step, which also names the actor's weights
    training,    \* the batch it has taken, or NoBatch
    latest,      \* _latest_client_states, or NoState
    saved, best, \* the last regular checkpoint and the best one, or NoCkpt
    trained,     \* history: prompts the weights were updated with
    dropped,     \* history: prompts whose group was filtered out
    skipped,     \* history: prompts that a resumed job found read and not trained
    crashes

generatorVars == <<gpc, held, episode, cursor, again, drained, inflight, finished,
                   fresh, synced, lastEval, nextEval>>
trainerVars   == <<tpc, step, training, latest, trained>>
diskVars      == <<saved, best>>
runVars       == <<mode, skipped, crashes>>
vars == <<tokens, queue, lock, engine, generatorVars, trainerVars, diskVars, runVars, dropped>>
-----------------------------------------------------------------------------
\* One pass over the data for every episode, and one for every time it is begun again.
Pass == episode + again

\* A prompt is numbered by its place in the passes: in another pass it is another one.
Prompts == Nat \ {0}
Groups  == [id : Prompts, ver : Nat]
Ids(groups) == {g.id : g \in groups}

\* The prompts that a data loader at position c of pass n has read.
ReadUpTo(n, c) == 1 .. n * DataLen + c

NoState == [episode |-> 0, again |-> 0, cursor |-> 0, drained |-> FALSE, dropped |-> {},
            buffer |-> {}]
NoBatch == [kind |-> "none"]
Done    == [kind |-> "done"]
NoCkpt  == [kind |-> "none"]

\* extra_state.pt, and what the weights saved with it have seen.
Ckpt(clientState, atStep, seen) ==
    [kind |-> "ckpt", at |-> clientState, step |-> atStep, trained |-> seen,
     skipped |-> skipped]

Init ==
    /\ mode \in Modes
    /\ tokens = [i \in 1 .. mode.queueSize |-> 0]
    /\ queue = <<>> /\ lock = <<>> /\ engine = 0
    /\ gpc = "slot" /\ held = 0
    /\ episode = 0 /\ cursor = 0 /\ again = 0 /\ drained = FALSE
    /\ inflight = {} /\ finished = {}
    /\ fresh = TRUE /\ synced = TRUE /\ lastEval = -1 /\ nextEval = EvalSteps
    /\ tpc = "get" /\ step = 0 /\ training = NoBatch /\ latest = NoState
    /\ saved = NoCkpt /\ best = NoCkpt
    /\ trained = {} /\ dropped = {} /\ skipped = {} /\ crashes = 0
-----------------------------------------------------------------------------
(* GenerateSamplesActor.fit *)

\* Under partial rollout the generator leaves the lock alone.
RequestLock == lock' = IF mode.partial THEN lock ELSE Append(lock, "generator")
HasLock     == mode.partial \/ (lock # <<>> /\ Head(lock) = "generator")
ReleaseLock == lock' = IF mode.partial THEN lock ELSE Tail(lock)

NextPoint(g) == (g \div EvalSteps + 1) * EvalSteps

\* A token frees the generator: to evaluate, if its step has reached the next
\* evaluation point, or to produce a batch.  After a restart the first step sets the point.
TakeSlot ==
    /\ gpc = "slot" /\ tokens # <<>>
    /\ held' = Head(tokens) /\ tokens' = Tail(tokens)
    /\ LET g == Head(tokens)
           point == IF ~synced /\ g > 0 THEN NextPoint(g) ELSE nextEval
           evaluates == /\ g # lastEval
                        /\ \/ g > 0 /\ g >= point
                           \/ g = 0 /\ EvalAtStart /\ lastEval < 0 /\ fresh
       IN  /\ synced' = (synced \/ g > 0)
           /\ nextEval' = IF evaluates THEN NextPoint(g) ELSE point
           /\ lastEval' = IF evaluates THEN g ELSE lastEval
           /\ gpc' = IF evaluates THEN "eval" ELSE "refill"
    /\ RequestLock
    /\ UNCHANGED <<queue, engine, episode, cursor, again, drained, inflight, finished, fresh,
                   trainerVars, diskVars, runVars, dropped>>

\* _run_eval; the result goes to the trainer and the token with it.
Evaluate ==
    /\ gpc = "eval" /\ HasLock
    /\ ReleaseLock
    /\ Len(queue) < mode.queueSize
    /\ queue' = Append(queue, [kind |-> "eval", step |-> held, evaluated |-> engine])
    /\ gpc' = "slot"
    /\ UNCHANGED <<tokens, engine, held, episode, cursor, again, drained, inflight, finished,
                   fresh, synced, lastEval, nextEval, trainerVars, diskVars, runVars, dropped>>

\* Mutant: force_sync_mode dispatches as much as the engines can take.
MutRoom == Capacity - Cardinality(inflight)

\* How many prompts generate_samples may dispatch: force_sync_mode keeps to what
\* the batch still needs.
Room ==
    LET free   == Capacity - Cardinality(inflight)
        needed == Batch - Cardinality(finished) - Cardinality(inflight)
    IN  IF mode.forceSync /\ needed < free THEN needed ELSE free

\* _collect_prompt_batch: the next prompts of the episode, n of them or what is left.
PromptBatch(n) ==
    LET first == Pass * DataLen + cursor
    IN  {p \in first + 1 .. first + n : p <= (Pass + 1) * DataLen}

\* _dispatch_rollouts: one task for every prompt, with all its samples.
Dispatched(prompts) == {[id |-> p, ver |-> engine] : p \in prompts}

\* generate_samples, top of the loop.
Refill ==
    /\ gpc = "refill" /\ HasLock
    /\ LET prompts == PromptBatch(Room)
       IN  IF drained
           THEN UNCHANGED <<cursor, drained, inflight>>
           ELSE /\ cursor' = cursor + Cardinality(prompts)
                /\ inflight' = inflight \union Dispatched(prompts)
                /\ drained' = (Cardinality(prompts) < Room)
    /\ gpc' = IF inflight' = {} THEN "ship" ELSE "wait"
    /\ UNCHANGED <<tokens, queue, lock, engine, held, episode, again, finished, fresh, synced,
                   lastEval, nextEval, trainerVars, diskVars, runVars, dropped>>

\* ray.wait returns one rollout, in any order; _filter_group keeps or drops it.
Collect(g) ==
    /\ gpc = "wait" /\ g \in inflight
    /\ inflight' = inflight \ {g}
    /\ \/ finished' = finished \union {g} /\ UNCHANGED dropped
       \/ dropped' = dropped \union {g.id} /\ UNCHANGED finished
    /\ gpc' = IF Cardinality(finished') < Batch THEN "refill" ELSE "ship"
    /\ UNCHANGED <<tokens, queue, lock, engine, held, episode, cursor, again, drained, fresh,
                   synced, lastEval, nextEval, trainerVars, diskVars, runVars>>

\* The end of the data in this episode: on to the next one, or to "done".
EndEpisode ==
    /\ episode' = episode + 1 /\ cursor' = 0 /\ drained' = FALSE
    /\ gpc' = IF episode + 1 < Episodes THEN "slot" ELSE "ending"

\* Mutant: the prompts in flight do not count as read.
MutSnapshot(lost, surplus) ==
    [episode |-> episode, again |-> again, cursor |-> cursor - Cardinality(inflight),
     drained |-> drained, dropped |-> lost, buffer |-> {}]

\* state_dict() of the data loader and of the samples generator.
Snapshot(lost, surplus) ==
    [episode |-> episode, again |-> again, cursor |-> cursor, drained |-> drained,
     dropped |-> lost, buffer |-> IF WarmResume THEN surplus ELSE {}]

\* Mutant: a call that ends with nothing to train keeps its token.
MutShipKeeps ==
    /\ gpc = "ship"
    /\ finished' = {}
    /\ LET exhausted == drained /\ inflight = {} IN
          /\ \/ finished = {} /\ UNCHANGED queue
             \/ /\ finished # {} /\ Len(queue) < mode.queueSize
                /\ queue' = Append(queue, [kind |-> "batch", groups |-> finished,
                                           at |-> Snapshot(dropped, {})])
          /\ \/ exhausted /\ EndEpisode
             \/ ~exhausted /\ gpc' = "slot" /\ UNCHANGED <<episode, cursor, drained>>
    /\ ReleaseLock
    /\ UNCHANGED <<tokens, engine, held, again, inflight, fresh, synced, lastEval, nextEval,
                   trainerVars, diskVars, runVars, dropped>>

\* generate_samples returns; the batch is put in the queue, or the token is put
\* back when there is none.
Ship ==
    /\ gpc = "ship"
    /\ \E groups \in SUBSET finished :
          /\ Cardinality(groups) = Batch \/ (Cardinality(groups) < Batch /\ groups = finished)
          /\ LET surplus   == finished \ groups
                 exhausted == drained /\ surplus = {} /\ inflight = {}
                 keep      == ~(exhausted /\ mode.onPolicy /\ Cardinality(groups) < Batch)
                 sent      == IF keep THEN groups ELSE {}
             IN  /\ finished' = surplus
                 /\ dropped' = dropped \union Ids(groups \ sent)
                 /\ \/ /\ sent = {}
                       /\ tokens' = Append(tokens, held) /\ UNCHANGED queue
                    \/ /\ sent # {} /\ Len(queue) < mode.queueSize
                       /\ queue' = Append(queue, [kind |-> "batch", groups |-> sent,
                                                  at |-> Snapshot(dropped, surplus)])
                       /\ UNCHANGED tokens
                 /\ \/ exhausted /\ EndEpisode
                    \/ ~exhausted /\ gpc' = "slot" /\ UNCHANGED <<episode, cursor, drained>>
    /\ ReleaseLock
    /\ UNCHANGED <<engine, held, again, inflight, fresh, synced, lastEval, nextEval,
                   trainerVars, diskVars, runVars>>

PutDone ==
    /\ gpc = "ending" /\ Len(queue) < mode.queueSize
    /\ queue' = Append(queue, Done)
    /\ gpc' = "done"
    /\ UNCHANGED <<tokens, lock, engine, held, episode, cursor, again, drained, inflight, finished,
                   fresh, synced, lastEval, nextEval, trainerVars, diskVars, runVars, dropped>>
-----------------------------------------------------------------------------
(* TrainingActor.fit *)

\* A batch: its token is given back at once, or after the update in force_sync_mode.
\* global_step < max_steps here, as the loop ends with the last update.
TakeBatch ==
    /\ tpc = "get" /\ queue # <<>> /\ Head(queue).kind = "batch"
    /\ training' = Head(queue) /\ queue' = Tail(queue)
    /\ tokens' = IF mode.forceSync THEN tokens ELSE Append(tokens, step)
    /\ tpc' = "train"
    /\ UNCHANGED <<lock, engine, generatorVars, step, latest, trained, diskVars, runVars,
                   dropped>>

\* An evaluation result; save_best_checkpoint saves the present weights if it is the
\* best so far.
TakeEval ==
    /\ tpc = "get" /\ queue # <<>> /\ Head(queue).kind = "eval"
    /\ queue' = Tail(queue)
    /\ tokens' = Append(tokens, step)
    /\ \/ UNCHANGED best
       \/ best' = [kind |-> "best", ckpt |-> Ckpt(latest, step, trained),
                   tag |-> Head(queue).step, evaluated |-> Head(queue).evaluated]
    /\ UNCHANGED <<lock, engine, generatorVars, trainerVars, saved, runVars, dropped>>

TakeDone ==
    /\ tpc = "get" /\ queue # <<>> /\ Head(queue) = Done
    /\ queue' = Tail(queue)
    /\ tpc' = "final"
    /\ UNCHANGED <<tokens, lock, engine, generatorVars, step, training, latest, trained,
                   diskVars, runVars, dropped>>

\* train_step up to the refit: broadcast_to_vllm asks for the lock.
Optimize ==
    /\ tpc = "train"
    /\ tpc' = "refit"
    /\ lock' = Append(lock, "trainer")
    /\ UNCHANGED <<tokens, queue, engine, generatorVars, step, training, latest, trained,
                   diskVars, runVars, dropped>>

\* Mutant: the client states saved are those of the generator at the moment.
MutRefitNow ==
    /\ tpc = "refit" /\ Head(lock) = "trainer"
    /\ lock' = Tail(lock)
    /\ engine' = step + 1 /\ step' = step + 1
    /\ tokens' = IF mode.forceSync THEN Append(tokens, step + 1) ELSE tokens
    /\ trained' = trained \union Ids(training.groups)
    /\ latest' = Snapshot(dropped, {})
    /\ training' = NoBatch
    /\ saved' = IF (step + 1) % SaveSteps = 0 THEN Ckpt(latest', step', trained') ELSE saved
    /\ tpc' = IF step + 1 >= MaxSteps THEN "final" ELSE "get"
    /\ UNCHANGED <<queue, generatorVars, best, runVars, dropped>>

\* The lock is there: pause, transfer, resume, release.  Back in the loop the step
\* counts, the token is given back if that is still to be done, and every
\* SaveSteps-th step is saved with the client states that came with the batch.
Refit ==
    /\ tpc = "refit" /\ Head(lock) = "trainer"
    /\ lock' = Tail(lock)
    /\ engine' = step + 1 /\ step' = step + 1
    /\ tokens' = IF mode.forceSync THEN Append(tokens, step + 1) ELSE tokens
    /\ trained' = trained \union Ids(training.groups)
    /\ latest' = training.at
    /\ training' = NoBatch
    /\ saved' = IF (step + 1) % SaveSteps = 0 THEN Ckpt(latest', step', trained') ELSE saved
    /\ tpc' = IF step + 1 >= MaxSteps THEN "final" ELSE "get"
    /\ UNCHANGED <<queue, generatorVars, best, runVars, dropped>>

\* After the loop: the last step is saved unless it has been.
FinalSave ==
    /\ tpc = "final"
    /\ tpc' = "done"
    /\ saved' = IF latest # NoState /\ step % SaveSteps # 0
                THEN Ckpt(latest, step, trained) ELSE saved
    /\ UNCHANGED <<tokens, queue, lock, engine, generatorVars, step, training, latest,
                   trained, best, runVars, dropped>>
-----------------------------------------------------------------------------
(* RLTrainer.fit, and the job as a whole *)

\* The trainer is through: the generator is killed where it is.
KillGenerator ==
    /\ tpc = "done" /\ gpc # "done"
    /\ gpc' = "done"
    /\ UNCHANGED <<tokens, queue, lock, engine, held, episode, cursor, again, drained, inflight,
                   finished, fresh, synced, lastEval, nextEval, trainerVars, diskVars,
                   runVars, dropped>>

\* Both actors start anew from client state c, at step s, the actor's weights having
\* seen the prompts of seen; lost says which prompts earlier restarts have skipped.  A
\* StatefulDataLoader saved after its StopIteration begins the episode again.
Start(c, s, seen, lost) ==
    /\ tokens' = [i \in 1 .. mode.queueSize |-> 0]
    /\ queue' = <<>> /\ lock' = <<>> /\ engine' = s
    /\ held' = 0 /\ episode' = c.episode /\ drained' = FALSE
    /\ again'  = IF c.drained THEN c.again + 1 ELSE c.again
    /\ cursor' = IF c.drained THEN 0 ELSE c.cursor
    /\ inflight' = {} /\ finished' = c.buffer
    /\ fresh' = (c = NoState) /\ synced' = (c = NoState)
    /\ lastEval' = -1 /\ nextEval' = EvalSteps
    /\ step' = s /\ training' = NoBatch /\ latest' = NoState
    /\ trained' = seen /\ dropped' = c.dropped
    /\ skipped' = lost \union
                  (ReadUpTo(c.episode + c.again, c.cursor) \ (seen \union c.dropped \union Ids(c.buffer)))
    /\ tpc' = IF s >= MaxSteps THEN "done" ELSE "get"
    /\ gpc' = IF s >= MaxSteps THEN "done" ELSE "slot"

Resume(ckpt) == Start(ckpt.at, ckpt.step, ckpt.trained, ckpt.skipped)

Crash ==
    /\ crashes < MaxCrashes /\ tpc # "done"
    /\ crashes' = crashes + 1
    /\ \/ saved # NoCkpt /\ Resume(saved)
       \/ saved = NoCkpt /\ best # NoCkpt /\ Resume(best.ckpt)
       \/ saved = NoCkpt /\ best = NoCkpt /\ Start(NoState, 0, {}, {})
    /\ UNCHANGED <<mode, diskVars>>
-----------------------------------------------------------------------------
Generator ==
    \/ TakeSlot \/ Evaluate \/ Refill \/ (\E g \in inflight : Collect(g)) \/ Ship \/ PutDone

Trainer ==
    \/ TakeBatch \/ TakeEval \/ TakeDone \/ Optimize \/ Refit \/ FinalSave

Next == Generator \/ Trainer \/ KillGenerator \/ Crash

Spec == Init /\ [][Next]_vars

\* Each actor goes on whenever it can: a rollout, an evaluation and an update end.
FairSpec == Spec /\ WF_vars(Generator) /\ WF_vars(Trainer) /\ WF_vars(KillGenerator)
-----------------------------------------------------------------------------
States == [episode : 0 .. Episodes, again : Nat, cursor : 0 .. DataLen, drained : BOOLEAN,
           dropped : SUBSET Prompts, buffer : SUBSET Groups]
Batches == [kind : {"batch"}, groups : SUBSET Groups, at : States]
Evals   == [kind : {"eval"}, step : Nat, evaluated : Nat]
Entries == Batches \union Evals \union {Done}
Ckpts   == [kind : {"ckpt"}, at : States, step : Nat, trained : SUBSET Prompts,
            skipped : SUBSET Prompts]
Bests   == [kind : {"best"}, ckpt : Ckpts, tag : Nat, evaluated : Nat]

TypeOK ==
    /\ mode \in Modes
    /\ tokens \in Seq(Nat)
    /\ queue \in Seq(Entries)
    /\ lock \in Seq({"generator", "trainer"})
    /\ engine \in Nat
    /\ gpc \in {"slot", "eval", "refill", "wait", "ship", "ending", "done"}
    /\ held \in Nat /\ episode \in 0 .. Episodes /\ cursor \in 0 .. DataLen
    /\ again \in Nat /\ drained \in BOOLEAN /\ fresh \in BOOLEAN /\ synced \in BOOLEAN
    /\ inflight \subseteq Groups /\ finished \subseteq Groups
    /\ lastEval \in Nat \union {-1} /\ nextEval \in Nat
    /\ tpc \in {"get", "train", "refit", "final", "done"}
    /\ step \in Nat
    /\ training \in Batches \union {NoBatch}
    /\ latest \in States
    /\ saved \in Ckpts \union {NoCkpt}
    /\ best \in Bests \union {NoCkpt}
    /\ trained \subseteq Prompts /\ dropped \subseteq Prompts /\ skipped \subseteq Prompts
    /\ crashes \in Nat

\* The prompts on their way: in flight, finished, in a queued batch, in training.
OnTheirWay ==
    <<Ids(inflight), Ids(finished),
      IF training = NoBatch THEN {} ELSE Ids(training.groups)>>
    \o [i \in 1 .. Len(queue) |-> IF queue[i].kind = "batch" THEN Ids(queue[i].groups) ELSE {}]

\* No weights are ever updated twice with one prompt of a pass over the data, across
\* surplus groups, two actors and restarts from any checkpoint.  A pass is an episode, but
\* for a restart from a snapshot that was taken after the loader's end: it passes over that
\* episode once more, and trains its prompts again.  When the data run out before MaxSteps,
\* every prompt of every pass has been trained, filtered out, or skipped by a restart.
OncePerPass ==
    /\ \A i, j \in DOMAIN OnTheirWay :
          /\ OnTheirWay[i] \cap (trained \union dropped) = {}
          /\ i # j => OnTheirWay[i] \cap OnTheirWay[j] = {}
    /\ again <= crashes
    /\ tpc = "done" /\ step < MaxSteps =>
          /\ episode = Episodes
          /\ ReadUpTo(Pass, 0) \subseteq trained \union dropped \union skipped

\* --train.force_sync_mode: a batch is trained at most async_queue_size - 1 updates
\* after the weights its groups were dispatched under; not at all with a queue of one.
StalenessBounded ==
    mode.forceSync /\ training # NoBatch =>
        \A g \in training.groups : step - g.ver < mode.queueSize

\* The prompts a restart from a checkpoint skips.
Skips(ckpt) == ReadUpTo(ckpt.at.episode + ckpt.at.again, ckpt.at.cursor)
                   \ (ckpt.trained \union ckpt.at.dropped \union Ids(ckpt.at.buffer)
                       \union ckpt.skipped)

Checkpoints == (IF saved = NoCkpt THEN {} ELSE {saved}) \union
               (IF best = NoCkpt THEN {} ELSE {best.ckpt})

\* A restart skips at most the prompts in flight behind one batch, and none at all in
\* force_sync_mode; and every checkpoint of a step beyond 0 has the data loader's
\* position, without which RLTrainer.fit cannot resume from it.  With force_sync_mode and
\* a queue of one, the best checkpoint has the weights that were evaluated, under the step
\* they were evaluated at.
CheckpointsSound ==
    /\ \A c \in Checkpoints :
          /\ Cardinality(Skips(c)) <= IF mode.forceSync THEN 0 ELSE Capacity - 1
          /\ c.step > 0 => c.at # NoState
    /\ mode.forceSync /\ mode.queueSize = 1 /\ best # NoCkpt =>
          best.ckpt.step = best.evaluated /\ best.tag = best.evaluated

\* The run ends: generator and trainer never wait for each other for ever.
TrainingEnds == <>(tpc = "done" /\ gpc = "done")

(***************************************************************************)
(* What a comment in the code says, and the code does not do.              *)
(***************************************************************************)

\* "Save checkpoint if eval metric is the best so far": the best checkpoint has the
\* weights that were evaluated.
BestIsTheEvaluated == best # NoCkpt => best.ckpt.step = best.evaluated
=============================================================================
