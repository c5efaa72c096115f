# A verification project for Linex

Linex is two programs in one repository.  **Polar** (`src/polar`) runs agent rollouts: a *rollout
server* splits a task into sessions and hands each to one of several *gateways*; a gateway drives a
session through container start-up, the agent's run and the evaluation, and stands as an inference
proxy between the agent and the model.  **Molt** (`src/molt`) is the reinforcement-learning trainer
that consumes those rollouts: a generator actor and a trainer actor joined by queues, and vLLM engines
whose weights are refreshed ("refit") while rollouts are under way.

This directory models in TLA+ the concurrent core of the two, the path a completion takes from the
agent's request to the loss, and the update of the weights: TLC checks small instances, TLAPS proves
the main safety results for all of them.  Paths below are relative to the repository's `src/`; a
definition carries the name of the function it models, and `PROJECT.json` ("map") gives its lines.

## 1. Inventory

"State" is what a component keeps between calls; "hard" is what tests hardly reach.

| Component (source) | State | Operations | Talks to | Hard | Correct when |
|---|---|---|---|---|---|
| Session dispatcher (`polar/gateway/dispatcher.py`) | `_sessions`, three stage queues, semaphore of run slots, `ManagedSession.{stage,inflight,cancel_requested,final_result,runtime}` | `enqueue`, `cancel`, `stop`, `snapshot`, three worker loops | gateway node, by three callbacks | `cancel()` suspends in `runtime.cancel()` between looking and acting; it interferes with a worker that has taken the id; five places release a slot | callbacks of one session never overlap, each stage runs once, no slot lost, metrics tell the truth, every session leaves |
| Rollout pipeline (`polar/rollout/pipeline.py`) | one coroutine per session, `_pending` futures | acquire, POST, confirm, wait/poll, persist, DELETE; `accept_callback_result` | scheduler, gateways (HTTP) | lost, late and duplicated requests, gateway restart, result by two channels around a deadline | one gateway per session, a result that exists is returned, nothing is left behind, every session is resolved |
| Node scheduler (`polar/rollout/balancer.py`) | `_nodes` with metrics, reservations, draining, last heartbeat | `register_node`, `heartbeat`, `acquire_node`, `release_reservation`, `drain_node`, `mark_unhealthy` | pipeline, gateways' heartbeats | admission by counts that are out of date | admission limit exceeded by a known factor only, no gateway shut out for good, drains end |
| Task manager, rollout server (`polar/rollout/{manager,server,models,timer}.py`) | tasks, their status and results | submit, cancel, status, callbacks | pipeline, scheduler | one session failing among siblings | each task ends with one result per session |
| Gateway node (`polar/gateway/{node,server}.py`) | `ManagedSession` resources, prewarmed evaluator runtime, heartbeat loop | dispatch, init/run/post-run handlers, push of the result, DELETE | dispatcher, registry, storage, runtimes | roll-back half-way through dispatch, prewarm handed over or stopped on every path, DELETE against post-run | no runtime leaked, result stored before it is freed |
| Registry, storage, completion writer (`polar/gateway/{session,storage,completion_writer}.py`) | session table, completions per session, bounded write queue | register, update, save, delete, enqueue, drain | gateway node, proxy | a completion saved after its session was deleted, a full queue | every completion of a live session is stored once, in order |
| Inference proxy (`polar/gateway/proxy.py`) | in-flight count, pause flag | forward, pause with drain, resume | vLLM engines, trainer's refit | pause waits for requests that the frozen engines hold | nothing generated by two sets of weights when a drain is asked for |
| Transforms, detection (`polar/gateway/transform`, `detection.py`) | none; a state per stream | requests, replies and streams of four API dialects to chat messages and back | proxy | items held back until a later one shows where they belong; places in a stream | requests are valid, a stream tells what the whole reply tells |
| Runtimes (`polar/runtime`) | one container each | start, exec, cancel, stop | node | I/O | - |
| Trajectory builders, evaluators (`polar/trajectory`) | none | merge completions into traces, score | post-run handler | forks, retries, compaction, sub-agents, replies cut off | every completion in exactly one trace, in its own context |
| Agent presets, topology config (`polar/agent`, `polar/config`) | none | command lines, parsing | - | none | - |
| Asynchronous trainer (`molt/trainer/rl_trainer.py`) | batch queue, token queue, global step, lock | generator loop, trainer loop, evaluation, refit, save | samples generator, engines, gateways | two actors waiting on each other, weights changing during generation, restart | no deadlock, bounded staleness, no prompt trained twice in a pass |
| Rollout side (`molt/trainer/rollout`) | pool of in-flight and finished groups, data-loader position | `generate_samples`, resume state | rollout server | surplus across calls, exhaustion, resume | each prompt once per pass over the data |
| vLLM engines (`molt/trainer/vllm`) | weights, pause flag, prefix cache | generate, pause, update, resume, reset of the cache | refit | a push in parts, one call of it failing, a reset refused, requests left in flight | no token from two versions, all resume |
| Checkpoints (`molt/trainer/fsdp/checkpoint.py`) | directories, `latest` marker | save, prune, resolve, load | trainer | crash between two file operations | a restart goes on from the last save, complete; the one just written is never pruned |
| Samples, credit, losses (`molt/trainer/rollout`, `molt/trainer/algorithm/{experience,advantage}.py`, `molt/models/loss.py`) | none | traces to samples, filters, groups, padding and packing, advantages, policy loss | trainer | two time axes shifted by one; groups of unequal numbers of traces | what is trained is what was sampled; credit is relative to the group |
| Batching, model workers (`molt/trainer/{algorithm,workers,ray}`, `molt/utils`) | replay buffers, gradients | balance, cut, pad, forward, optimizer steps | trainer, each other by collectives | remainders, workers that must agree on every count | workers never hang; every token of a step weighs the same |
| Supervised fine-tuning (`molt/trainer/sft_trainer.py`, `molt/datasets/sampler.py`) | epoch, step, consumed samples | fit, resume | checkpoints | resumption at any step on other ranks | the weights see what an uninterrupted job would show them |
| Models, meshes, optimizers, datasets, CLI (`molt/{models,datasets,cli}`, `molt/trainer/fsdp`) | tensors | numerics and I/O | - | outside TLA+ | - |

`PROJECT.json` lists the hazards found in this inventory, each at the line where it bites, with the
properties that cover it.

## 2. Modules

| Module | Role | Models |
|---|---|---|
| `SessionLifecycle` | abstract specification | what a client of a gateway is promised about one session: forward through INIT, READY, RUNNING, POSTRUN, then gone |
| `SessionDispatcher` | detailed specification | `gateway/dispatcher.py`, whole |
| `SessionDispatcherProofs` | proofs | inductive invariant; slots, refinement, metrics |
| `GatewayContract` | abstract specification | what the rollout server relies on at a gateway, for one session: its entry in the registry, the result kept in it, how far the work has got |
| `RolloutPipeline` | detailed specification | `_dispatch_and_collect` with all it calls, and the part of a gateway it talks to |
| `RolloutPipelineProofs` | proofs | one gateway per session, no result lost, its gateways keep the contract |
| `NodeScheduler` | detailed specification | `rollout/balancer.py` with the gateways' heartbeats and the pipeline's POSTs |
| `NodeSchedulerProofs` | proofs | types, over-admission bound |
| `AsyncTrainer` | detailed specification | both actors of `rl_trainer.py` with the pool of rollouts of `samples_generator.py` |
| `AsyncTrainerProofs` | proofs | every prompt once, staleness, checkpoints that resume |
| `GatewayNode` | detailed specification | the stage handlers of `gateway/node.py` for one session, with its containers, the evaluator's prewarm, and DELETE |
| `GatewayNodeProofs` | proofs | containers and results; the handlers follow the life cycle and keep the contract |
| `CompletionStore` | detailed specification | `gateway/{session,storage,completion_writer}.py` and the handlers of `server.py` that use them |
| `CompletionStoreProofs` | proofs | order, retention, what the builder is given |
| `Checkpoint` | detailed specification | `fsdp/checkpoint.py`, one file operation per action, and the saves of `rl_trainer.py` |
| `AtomicCheckpoint` | abstract specification | what a saved policy is to the trainer: a save that happens at once, and a restart from the last |
| `CheckpointProofs` | proofs | resumption, retention, atomic saves |
| `WeightRefit` | detailed specification | `broadcast_to_vllm` with engines, gateways' gate, and completions in flight |
| `WeightRefitProofs` | proofs | no mixed weights, all released after a refit |
| `BatchPlan` | pure algorithms | `seqlen_balancing.py`, `balance_experiences`, `setup_dynamic_batch` |
| `PolicyUpdate` | detailed specification, on `BatchPlan` | one update of the model workers, collective by collective |
| `SftTraining` | detailed specification | `SFTTrainer.fit`, its sampler and its resumption |
| `Transforms`, `ReplyStreams` | pure algorithms | `gateway/transform`: requests and replies; streams and the client that reads them |
| `PrefixMerging` | pure algorithms | `trajectory/builder` |
| `Conversation` | detailed specification, on the three above | a session's conversations, from the harness through gateway and server to the traces |
| `SampleBatches`, `Credit`, `Losses` | pure algorithms | samples, batches and packing; groups and advantages; the policy loss |
| `Learning` | composition, on `Conversation` and the three above | what is learned from a session |
| `MC...` | TLC instances | constants only |

### SessionDispatcher

The dispatcher is asyncio code: what lies between two suspension points is atomic, so an action ends at
a queue `get`, at the await of a stage callback, at the wait for a run slot, or at the await of
`runtime.cancel()`.  `_lock` is held only over code that does not suspend and is therefore not a
variable.  `cancel()` is two actions (`Cancel`, then `CancelReturns` or `CancelRaises`) because the code
decides before the await and queues the session after it.  `_acquire_ready_slot` races the semaphore
against `cancel_event`: `Grant` is the semaphore serving the waiter, `SlotAcquired` and `SlotAbandoned`
what the worker finds when it wakes up.  The queues are bags (count per id): order only removes
behaviours, and the fairness conditions put back the progress that FIFO gives.  Stage callbacks are
abstract: they end, with or without a final result.  `inits`, `runs` and `posts` count callbacks and
exist only for the properties.  An id is enqueued once, because the registry refuses a known id and
`stop()` is final.

### RolloutPipeline

One coroutine per session; `pc` is the await it is suspended in.  A request is sent, served and answered
in separate steps, so an answer may be stale when it is read.  The constant `Faults` names what the
network, a gateway or the disk may do; each fault is a disjunct guarded by its name.  Deadlines are flags
that may be raised at any time after they are set, whatever the gateway, the callback and the polls are doing:
the code compares a clock (`pipeline.py:242`).  On the gateway side the module keeps only what the
pipeline can observe: the registry's status, whether the payload is still there, and how far the
dispatcher has got.  `excused` is a history variable: it remembers what at the deadline, or of the poll after
it, explains that a result was missed.

### NodeScheduler

Sessions are anonymous and only counted.  A method of the scheduler holds its lock throughout and is one
action.  Taking the count, delivering the heartbeat, sending a POST and serving it are separate actions:
that gap is what the properties are about.  `posting[n]` separates POSTs sent before and since the last
heartbeat, because a heartbeat forgets the reservations of the former.  The score by which
`acquire_node` picks is left open, so the results hold for any score.  The stored `healthy` flag is not
a variable: every reader recomputes it from `last_heartbeat` first, which also means `mark_unhealthy`
has no effect on the next `acquire_node`.  `MaxSessions` bounds only the POSTs sent.

### AsyncTrainer

Two Ray actors, each single-threaded: an action ends where the actor may block (a queue, the lock, the
wait for a rollout).  `gpc` and `tpc` are those places.  `mode` is the command line; its four options
change the protocol, so one run covers all sixteen combinations.  `rollout_queue` carries batches,
evaluation results and `"done"`; `rollout_slots` carries tokens, each with the step at which it was given
back.  A put never waits with `vllm_lock` held: the code releases the lock first, and the model may do
both in one step because a token stands for room in the batch queue; a put without room would wait for ever,
which `TrainingEnds` would see.

The actor's weights are named by `step`, the engines' by `engine`, and a rollout remembers the `engine` it
was dispatched under (`ver`).  A group is one prompt with all its samples; prompts are numbered through
the passes over the data, which is what makes "twice" and "forgotten" sayable.  `Snapshot` is the `client_states` that
travel with a batch.  `Crash` kills the job at any moment; the next one takes the last regular checkpoint,
else the best one, else starts anew, and `Start` is what `RLTrainer.fit` then does.  The data loader
(torchdata's `StatefulDataLoader`) is external: a state saved within an episode keeps its position, one saved
after its `StopIteration` begins the same episode again, from its first prompt.  `again` counts these, and
prompts are numbered by their place in all passes, `Pass` being the episode plus the repeated ones.  `again`,
`trained`, `dropped` and `skipped` are history variables.

### GatewayNode

What the dispatcher's callbacks do.  `stage` is where the dispatcher has the session, `pc` the await its
handler is suspended in; three more things run in between: the prewarm task (`warm`, with the container
`fresh`), a DELETE (`deletion`), and the clock (`expired`, the only thing known of the deadline, which
`BeginPostrun` moves as `_grant_postrun_budget` does).  A container is live from the call of its `start()`
to the call of its `stop()`, and stopping until that returns; a second `stop()` returns at once, as the
`_destroyed` mark of the runtimes makes it do, so that teardown and DELETE may each rely on the other's.
INIT's copies of files are an await of their own (`pc = "copy"`), because they look at no deadline and have no
timeout.  The handlers' `except` branches are disjuncts: a `GatewayExecutionTimeout`, any other exception, the
quiet end of a cancelled session.  Of a result the module keeps the status and whether a trajectory is
attached.  The module takes the dispatcher at its abstract specification, `SessionLifecycle` (`Life` maps
`stage` to it), except that the second post-run of finding 3 is not repeated here.  `Entry` and `Work` map
status and awaits to `GatewayContract`, and `RolloutPipeline` has its gateways under the same contract
(`Contract`): that is how the two modules meet.  The actions of the contract are the pipeline's,
`Accept`, `GatewayStarts` (`Begin`), `GatewayFinishes` (`Finish`), `CallbackServed` (`Receive`),
`PushEnds` (`Leave`), `Forget` and `Crash` (`Restart`), except that a gateway may receive the
acknowledgement and drop the result in one step.

### CompletionStore

One session from the viewpoint of what is kept of it.  Handlers run on the event loop and are atomic between
awaits; `save_message` runs in a thread, so that a completion passes `Stamp`, `Save`, `TakeNumber` and
`HandOver`, one per lock, while the loop goes on with other things.  `calls` is the queue behind
`call_soon_threadsafe`, `queue` the writer's own; what the writer drops goes to `unwritten`.  `Load` puts
the record in the order of its timestamps, which is said by a bijection of its places rather than by a sort.
Of two requests one names the session and one only has its id as API key, which the registry resolves
otherwise.

### Checkpoint

A policy and a critic with a directory each.  Every file operation is an action and `Crash` may come between
any two.  A part of a checkpoint is named by the run and the step it is of; a part written or removed
halfway is `Torn`.  `older` relates the directories by modification time as a file system keeps it: a
change further down does not count.  `options` are `save_steps` and `max_num`.

For `AtomicCheckpoint` the save that counts (`Saved`) is the one the policy's marker names: it changes when the
marker is written, is known to be there when the last group's `save_ckpt` returns (`done`), and a killed
job resumes what its parts were loaded from (`Resumed`).  Everything else the files go through,
best checkpoints, pruning and the critic's directory included, is a stutter.

### WeightRefit

A remote call is handed to its actor and served in order; `ray.get` returns when all were served or raises
as soon as one failed.  `Entries` are the entries of the state dictionary that `policy_actor.py` does not
skip (`extra_state`, integers, tied weights), and the broadcast packs them in order: `part` is the entry
a flush begins with, and `Until` the one the next begins with, the first with which the threshold would be
reached.  A request passes the gateway's gate, is decoded by its
engine with the weights the engine has at that moment, and keeps in `kv` the versions its keys and values
are of.  With prefix caching `cache` holds the versions in an engine's prefix cache, and a request that is
forwarded to it may begin with them.  An engine that is asked to reset the cache does it, running requests
included, or refuses, which `reset_prefix_cache` prints and does not raise.  vLLM is external.  `culprits`
remembers which kind of call failed and `refused` which engines kept their cache in the present refit;
both are history variables.

### BatchPlan, PolicyUpdate

`BatchPlan` has the partition by largest differences and what is made of it, as functions of lengths.
`PolicyUpdate` runs them on every worker: a stage of `work` is the collective the worker waits at, and an
action is taken when all workers are there; a worker elsewhere would be a hang, which `Lockstep` excludes.
Gradients are kept as the micro-batches they are of, with the denominator each was divided by;
`Reduced` and `Syncs` are `MOLT_DEFER_GRAD_SYNC`.

### SftTraining

The weights are the sequence of the optimizer steps they have seen: the samples, and what the loss of each was
divided by.  A job is killed at any micro-batch and started again with other ranks; its step, epoch
and place in the epoch come from `consumed_samples` alone.

### Transforms, ReplyStreams, PrefixMerging, Conversation

What a string or a list of parts says is a sequence of atoms; an item, part or block of an API is one
record.  The state of a stream is a fold over chunks, and its client is written from the API's protocol (external).
`Conversation` joins them: a harness keeps each history in its API's format and sends it
whole; the gateway transforms it; the server (external) renders tokens with a template that keeps or drops
old reasoning, or cuts a prompt; the reply goes back.  `odd` counts what a harness does other than append:
a changed instruction, compaction, an answer that got lost, a sub-agent.  The builders run on the stored
completions, with a configured end of turn and with a detected one.

### SampleBatches, Credit, Losses, Learning

What becomes of a session's traces in the trainer.  A sample has fields on two axes, tokens and steps
between tokens; `sequences` is one longer than `action` and `lps`, and padding, rolling and packing must
keep them together.  Rationals are integers in units written in comments.  `Learning` puts the
traces `Conversation` builds next to those of a second session and a failed one and takes them through
filters, groups, batches, packed forward, advantages and loss.  The pure operators are checked on what sessions
produce, not on arbitrary input.


## 3. What the runs check

| Run | Instance | Shows |
|---|---|---|
| `dispatcher` | 2 sessions, one worker of each kind; `cancel()` may raise, `stop()` at any time | callback exclusion, stages once, no slot lost, slot drift bounded, metrics faithful, refinement of `SessionLifecycle`, every session leaves |
| `pipeline_faults` | 1 session, 2 gateways, every fault, one restart each | one gateway per session and nothing left behind, what a timeout can be blamed on, every session resolves |
| `scheduler` | 1 node, limit 2, up to 7 sessions present | over-admission at most 3 times the limit, an idle gateway is used, a drain completes |
| `gateway_node` | 1 session, every kind of request | no container outlives its session or ends too early, a result is kept and is the agent's, every session ends unless INIT hangs in a copy |
| `completion_store` | 2 requests, a writer's queue of one | the builder gets every answered completion, in causal order, and only the writer's count is retained |
| `trainer` | 16 command lines, 2 episodes of 3 prompts, batches of 2, 3 rollouts in flight, 3 updates, one crash | no prompt twice in a pass, none forgotten, staleness, checkpoints that resume, the run ends |
| `checkpoint` | policy and critic, 3 steps, two metrics, one kill between any two file operations | a restart resumes the last save; retention; refinement of `AtomicCheckpoint` |
| `refit` | 2 engines, 2 gateways, 2 completions, 2 pushes in two flushes, one failure | no token of mixed weights, all is released and new but where a reset was refused, every refit ends |
| `policy_update` | 2 groups of 2 workers; 1, 5 and 6 samples of lengths 1, 2, 4; 7 sets of options | lockstep, global token mean, an epoch trains the rollout |
| `sft` | 11 samples, batches of 4, 3 epochs, up to 2 kills, 1, 2 or 4 ranks | as if never stopped |
| `conversation` | 3 completions, 4 APIs, 5 shapes of reply, 3 servers, one odd deed of the harness | requests, streams, traces, samples, credit and loss |
| `conversation_split` | 2 completions | **finding**: calls of a reply in an interstitial |

**Why the bounds are enough.**  Dispatcher: the hazards are two sessions competing for one slot, and a worker
holding a session that another coroutine moves; two sessions and one worker of each kind make both happen, and
the theorems lift the safety results to all sizes.  Pipeline: coroutines of
different sessions share nothing in this module, so one session is enough; a retry needs a second gateway,
and with every fault available twice in a row a third adds no new pair.  Scheduler: no method reads the
state of two nodes except the choice among candidates, which is left open, so one node is enough; 7 is
one more than the bound 3 * 2, so a violation would be seen, and the bound is reached (TLC refutes `<`).
Trainer: an episode of 3 prompts and batches of 2 give a full batch and an incomplete one; the capacity
of 3 exceeds the batch, so rollouts outlive the call that dispatched them; 3 updates end training before
the data do, and filtered groups end the data before the updates; saving at every second update leaves
updates a restart repeats, and evaluating at every update lets each token be spent on an evaluation.
Gateway node: handlers of different sessions share only the dispatcher, so one session is enough, and the
run has every value of the constant.
Completion store: order is a relation between two requests, and a queue of one is full as soon as one waits.
Checkpoint: with `max_num` 2 a third save prunes one of two others, by metric or by age, and best ones
come in between; a second kill was checked with two steps and `max_num` 1 (six million states, too many for the
regular run).
Refit: two flushes make an engine hold two versions between them; with two pushes a completion begun before the
first may end after the second.  Policy update: 1 sample is fewer than groups, 5 leaves a remainder over two groups,
6 leaves none over groups and one over batches; the third length exceeds a budget of 3.  Fine-tuning: 11 samples
leave a remainder of 3 in every epoch, and a save every third step falls into the middle of an epoch.
Conversation: a third completion is the first whose prompt holds two earlier replies.  The lengths 20
and 12 cut some traces and 9 cuts some prompts.

**Deadlock** is checked where the module has no place to stop but its own `Done` or `Stop`: scheduler, gateway
node, policy update, fine-tuning.  It is off for the dispatcher, the pipeline and the trainer, which stop by
design when all is over (`EverySessionLeaves`, `EverySessionResolves` and `TrainingEnds` say what
deadlock freedom would), and for the store, the checkpoints, the refit and the conversation, whose bounds end
them.

**Fairness.**  Dispatcher: the event loop runs every ready task (weak fairness); asyncio queues and the
semaphore are FIFO, so whoever waits while the resource comes free again and again is served (strong
fairness per session and waiter); stage callbacks end, which is an assumption: the gateway bounds most of what
they do by the session's execution budget, but not the copies of INIT (`node.py:281`), and a callback that
hangs keeps its worker and its slot; nothing makes anyone call `cancel()` or `stop()`.  Pipeline: steps of a
coroutine, a gateway that is up serves requests and starts what it has queued, and a deadline that is set does
pass; that a gateway ever ends what it runs, or pushes it, is not assumed, and no fault is ever forced.  Scheduler: the
heartbeat loop ticks while the gateway is up; heartbeats and registrations are not all lost (strong
fairness); POSTs have a timeout and sessions a deadline.  Trainer: each actor goes on whenever it can (a
rollout ends by its session's timeout), and `RLTrainer.fit` kills the generator once the trainer is
through; the job need not be killed.  Gateway node: the workers, a DELETE that was sent and the clock go on;
starting a container, the commands of INIT, the agent, the builder and the evaluator are only known to end at
the deadline; the copies of files, in INIT and in the prewarm task, have no timeout and need not end at all, so
that of the prewarm only its `stop()` is known to, and `SessionEnds` is said of behaviours in which INIT
does not hang in a copy for ever.  Refit: actors serve their
calls, `wait_for` ends, an evaluation gives the lock back, and the lock, an asyncio lock with waiters in order,
is got at last (strong fairness); no completion has to end.

**Conditions in the properties**, each a statement about the code:

- `EverySessionLeaves` excludes sessions whose `runtime.cancel()` raised: they are in no
  queue any more and stay in `_sessions` for ever (`Stranded`).
- `EverySessionResolves` excludes a gateway that restarts before any poll has seen the session leave
  REGISTERED: the answer is then 404 for ever, no deadline runs, and the coroutine never ends.
- `OneGatewayPerSession` excludes gateways the pipeline gave up on without knowing whether they had
  accepted and, for what is left behind, a failed write of the result file (it leaves before the DELETE).
- `TimeoutMeansLost` lists what a timeout of a started session can be blamed on: its gateway restarted; at the
  deadline the gateway was not done with it (running it, or pushing its result); a poll was out then that had
  been answered already or that the callback overtook; or the poll after the deadline failed.  The third is
  finding 4, an acknowledged result that is dropped.
- `SessionEnds` is about sessions that do not hang in a copy of INIT (`node.py:281`): `upload_file` and
  `upload_dir` have no timeout and are outside `_await_with_budget`, and a session that hangs there keeps its
  INIT worker for ever.
- `AdmissionBounded` excludes nodes that lost an acknowledgement, registered again while known, or kept
  a POST waiting across two heartbeats (`irregular`): there a release gives back another session's
  reservation and nothing bounds the excess.
- `RuntimesStopped` excludes a container whose own `stop()` was cancelled (`cut`, finding 6) and one that
  DELETE is still stopping when the session leaves.  A docker command that fails is not modelled: the code
  bounds it in time and only logs its exit code.
- `OnlyCountRetained` excludes sessions that had a completion under way when they were deleted, or got one
  later (`late`): such a completion makes the record again, and nobody deletes it.  Its last conjunct says what
  *is* retained: the writer's count of the session's completions, one entry of `_sequences` for every session
  that ever had one (`completion_writer.py:145`), which nothing removes.
- `StalenessBounded` is about `force_sync_mode`.  Without it staleness has no bound, for a slow rollout
  survives any number of calls and refits; the comment at `rl_trainer.py:859` speaks of a
  "1-step-stale rollout".
- `CheckpointsSound` counts what a restart neither trains nor generates again: the prompts in flight when the
  batch was shipped.  `warm_resume_rollouts` does not change it, because `generate_samples` never leaves
  a finished group behind, so that the buffer it saves is always empty.  That the best checkpoint is the
  one evaluated is stated for the synchronous mode (finding 5).
- `OncePerPass` counts the skipped prompts of earlier restarts apart, and speaks of passes: a restart from a
  snapshot taken after the last prompt of an episode goes over that episode again (`rl_trainer.py:1032`), so
  that all its prompts are trained a second time.  TLC reaches such ends.  A test says of resumption that
  "few prompts are skipped rather than redispatched" (`tests/unit/test_samples_generator.py:247`); at the end of
  an episode the opposite happens.
- `ResumesTheLastSave` asks completeness of the policy only, and once it has a marker (finding 7).
- `NoMixedWeights` ends with a failed push: the engines then resume as they are, until the job ends.
- `RefitLeavesAllRunning` speaks of fresh keys and values with prefix caching only (finding 9), and of the engines
  that granted the reset: one that refuses it prints a warning that "rollout may reuse stale KV", and the refit
  goes on as a success (`vllm_engine.py:275`).  Such an engine is in `refused`, and there running completions
  and the prefix cache keep old keys and values.  After a failure it speaks of what did not itself fail to
  pause or resume.
- `EpochsTrainTheRollout` leaves out the remainders the code drops: less than a batch per group, none with
  `force_on_policy` and dynamic batches.
- `AppendingMerges` is about harnesses that only append, servers that keep old reasoning and cut no
  prompt, and replies the API can give back (`Replayable`).  `ContextFaithful` excuses a reply whose
  end of turn is not the configured one, and the split of finding 1.
- `RequestsValid` asks for a tool with every tool choice of the Anthropic, Google and Responses transforms only:
  that of chat forwards what it is given (`openai_chat.py:13`).
- `StreamsAgree` compares a streamed call of Responses with a `local_shell_call` by the commands in its arguments,
  and every other call as it is, arguments included.
- `EnvironmentIsTransparent` is about `gae` and the loss.  The loss is taken with every surrogate (`ppo`, `gspo`,
  `cispo`, `dppo`) and every correction that `PolicyLoss` accepts; its clips and bounds are one of each.
- `TrainedAsSampled`, `CreditIsRelative` and `EnvironmentIsTransparent` are evaluated when a session of one
  API (chat) ends: what follows the traces is the same for all.

## 4. Findings

One disagreement is shown by a run:

1. **A reply is split in two** (`openai_responses.py:641`, run `conversation_split`).  A Responses client gets a
   reply with text and calls as a message item and call items, and sends them back as such; they
   become two assistant messages.  The end of turn between them is where `_slice_interstitial` cuts, and the
   prompt's copy of the calls is merged into the trace as if the environment had written it, after the raw
   reply that has them already.

Findings 2 to 11 are stated as formulas of their modules, each with the words it contradicts.  Given to TLC in
place of the properties of the module's run each is refuted, the ones marked (*) with the change of constants
named; a passing property says how far the deviation goes.

2. **`cancel()` makes run slots** (`dispatcher.py:161`, `SlotsNeverExceedPool`).  A session that is READY and
   not in flight may still be *waiting* for its slot; `cancel()` releases one all the same, and the semaphore
   grows for the life of the gateway.  `SlotDriftBounded` (proved, part of
   `SlotsBalanced`) says by how much: at most one per cancelled session.
3. **Post-run twice** (`dispatcher.py:309`, `PostrunOnce`).  `cancel()` queues a parked session for post-run
   and leaves its id in the init or ready queue.  A worker that takes the stale id resets `stage`, so that
   `_move_to_postrun` queues it again while the first post-run callback is suspended.
   `StagesOnce` (proved) says this needs a cancellation.  (*) A second post-run worker.
4. **Acknowledged result dropped** (`pipeline.py:245`, `AcceptedResultIsReturned`).  The wait loop looks at
   the callback deadline before it looks at the future; a callback acknowledged during a polling GET is lost if
   the deadline has passed when the GET returns, for the gateway freed its copy on the acknowledgement.
5. **The best checkpoint is not what was evaluated** (`rl_trainer.py:844`, `BestIsTheEvaluated`).  The token is
   given back before the update, so the generator may evaluate while the trainer refits; the result is saved
   with the weights of the moment it is read, under the step of the evaluation.
6. **The evaluator's container leaks** (`node.py:491`, `EvalRuntimeStopped`).  The teardown cancels a prewarm
   task that is not done.  If the task has already failed it is inside `await eval_runtime.stop()`; the
   cancellation is raised there, `suppress(Exception)` lets it through, and neither kill nor removal is run.
   Agent and prewarm share one deadline, so both failing at once is not far-fetched.
7. **A torn checkpoint is loaded** (`fsdp/checkpoint.py:188`, `LoadedIsWhole`).  `extra_state.pt` counts as the
   sign of a finished checkpoint, but a save under a tag that exists writes model and optimizer
   over the old ones while the old `extra_state.pt` is there.  A critic that finished its first save before the
   policy did is written over by the next run, which begins at step 0 because the policy has nothing.
   (*) `MaxRuns = 3`.
8. **A drain cannot drain** (`train_rl_ray.py:896`, `rl_trainer.py:931`, `DrainCanFinish`).  The engines are
   paused before the gateways, so that the completions waited for stand still, and the refit goes on only
   when the wait times out (`RefitEnds`).
9. **Old keys and values** (`train_rl_ray.py:898`, `KvIsFresh`).  Completions in flight are said to be
   re-prefilled under the new weights; that takes a reset of the prefix cache, which is only done
   when prefix caching is on.
10. **A drained node returns** (`balancer.py:247`, `DrainedGetsNothing`).  Removing a drained node forgets that
    it was drained; its gateway is answered 404, registers again and is given sessions.
11. **The token budget is exceeded** (`replay_buffer.py:105`, `TokenBudget`).  First fit counts the
    micro-batches, but the balanced partition then fills that number of them without looking at the
    budget: lengths 3, 3, 2, 2, 2 and a budget of 6 give 7 and 5.  (*) One group, those lengths and that budget.

Four more contradict no words of the repository, or none that a formula states; the models have them and the
properties say what is left beside them (section 3).

12. **INIT can hang for ever** (`node.py:281`).  Copies of files have no timeout; `Fairness` of `GatewayNode`
    does not assume that they end.
13. **A count per session for ever** (`completion_writer.py:145`).  `CompletionWriter._sequences` only grows;
    the last conjunct of `OnlyCountRetained`.
14. **An episode trained twice** (`rl_trainer.py:1032`).  A checkpoint whose batch was the last of an episode has
    a loader state saved after `StopIteration`; a job that resumes from it begins the episode again
    (`Start`, `again`).
15. **A reset that was refused** (`vllm_engine.py:275`).  The refit succeeds with old keys and values
    in the prefix cache, which later completions begin with (`Refused`, `Forward`).

## 5. What is proved

A theorem holds for every value of the constants that its module's assumption admits; the assumptions
say only that sizes are positive and sets finite where they are counted, that a special value is no id, and
that the state dictionary has a weight and no name twice.  In no module are the safety invariants inductive;
each is proved from a strengthening that is listed as `InvariantHolds`, and that TLC checked on the module's
own instance before it was proved.  `TypeCorrect` is proved in every one of them.

**Dispatcher** (`SessionDispatcherProofs`), from `DispatcherAssumption` (the
constructor rejects empty pools).  `TypeCorrect` is inductive once the semaphore's guard is there.  The
strengthening follows a session's *id* as a token: an uncancelled live session has exactly one, in one
queue or one worker's hands, and `stage` and `inflight` agree with the place; a cancelled session may have
a second one, in the post-run queue or the hands of a suspended `cancel()`, and the invariant confines
where the stale one may still be.  From it follow `CallbacksExclusive` and `StagesDrivenOnce`.  A counting
argument over the holders of slots (finite-set lemmas: one worker changes, one session enters or leaves)
gives `SlotsConserved` and `DriftIsBounded`, together `SlotsStayBalanced`, and `SnapshotCounts`.
`DispatcherImplementsLifecycle` maps each step to a life-cycle step or a stutter and needs the invariant
to know that a resumed worker never moves a session backwards.

**Scheduler** (`NodeSchedulerProofs`), from `SchedulerAssumption`.  `OverAdmissionBounded`: for a regular
node, with `m` the reported total and `r` the reservations, present sessions are at most `2 Limit + m + r`,
and at most `beat + Limit + r` if a heartbeat is under way; POSTs sent since the last heartbeat are at
most `r`, earlier ones at most `Limit`.  A reservation is made only while `m + r < Limit`, hence the
factor 3: one limit admitted before the count was taken, one while it travelled, one since.

**Pipeline** (`RolloutPipelineProofs`), for any sessions, gateways and faults.  `SessionHasOneGateway`: a retry
goes to another gateway after a 404, which says only that the *registry* does not know the session; that
nothing of it works there needs `Known`, that a gateway drops the entry of a session it still works on only
when it was asked to (the cleaning DELETE) or was given up without an answer.  `NoResultSlips` says what a timeout can
be blamed on, with the deadline passing at any time: that the gateway is through with the session and no poll is
out when it passes means that the result is there to be found, because a gateway that knows the session
works on it, has its result, or has delivered it (`Alive`), and the gateway waited for does know it
(`Awaits`); from then on the result stays where it is until the coroutine has it (`Kept`), the coroutine polls
once more or has the future (`Due`), and what the poll finds is the result (`Found`).
`GatewaysKeepContract`: for each session, each gateway of the module goes through `GatewayContract` and stutters
while the server does something else; a session that is queued has not been seen to start (`Forward`).

**Gateway node** (`GatewayNodeProofs`), for any set of requests.  What `ContainersAreStopped` and `ResultIsKept`
say of a session that has left was settled awaits before: the invariant follows which await belongs to
which stage, what DELETE has done by then, and whose each container is (`Deleting`, `Containers`, `Warming`),
and for the result what it was made from (`Judged`, `Reported`).  `HandlersFollowLifecycle` needs `Awaits`, that
a handler which ends is the one of the stage the session is in; so the module follows the specification
that the dispatcher, which calls the handlers, was shown to implement.  `HandlersKeepContract` needs besides
that the first status goes when a worker takes the session up and a final one comes with the result only
(`Forward`).  With `GatewaysKeepContract` the two models of a gateway, the handlers and the one the pipeline's
theorems are about, are under one contract.  That the pipeline's gateways can do all the contract
allows, so that those theorems miss nothing a handler does, is read off the actions and not proved: it is a
statement about ENABLED.

**Completion store** (`CompletionStoreProofs`), for any finite set of requests and any size of the queue.
`CausesComeFirst` rests on a completion being stamped, stored and numbered before it is answered, so that
what was answered before a request began is behind both counters (`Marked`, `Handed`, `Caused`).
`OnlyTheCountIsRetained` and `AnsweredAreLoaded`, the action property of the builder, rest on
where a record can come from: none before dispatch, kept until the session is over, and made again after
DELETE by a completion under way only (`New`, `Kept`, `Gone`).  That the count which stays is the number of the
session's numbered completions is a fact about cardinality (`Counted`).

**Trainer** (`AsyncTrainerProofs`), for any data set, number of episodes, batch, capacity, queue, set of
command lines and number of restarts; the engines may take fewer rollouts than a batch has.
`PromptsTrainedOnce`: every prompt of a pass that was read is in one place only, in flight, finished, queued, in
training, trained or dropped (`Separate`), the data loader's position says which were read (`Read`), no restart
begins more than one pass again (`Begun`), and when `"done"` has been taken none is on its way (`Ending`).  `BatchesAreTimely`: in `force_sync_mode` every
batch under way has used up a token of `rollout_slots` (`Tokens`), so a group dispatched now has fewer than
`async_queue_size` updates before it, and each update brings it one place nearer (`Versions`).
`RestartsSkipLittle`: the snapshot that travels with a batch is good for the weights that will have seen all
batches up to it, and what it has read beyond that is what was in flight when it was taken (`Snapshots`,
`Pool`); a checkpoint under a step beyond 0 has a snapshot because a resumed job evaluates nothing, and so
saves no best checkpoint, before its first update (`Resumed`).  That the buffer of a snapshot is always
empty, which makes `warm_resume_rollouts` without effect, is part of what is proved (`Sound`):
`generate_samples` collects one rollout at a time and returns with the batch's last.

**Checkpoints** (`CheckpointProofs`), from `CheckpointAssumption`, for any groups of workers, any `save_steps` and
`max_num`, and any number of kills between two file operations.  `RestartsResume` and
`CheckpointImplementsAtomic` rest on the marker of a group (`Marked`): it names a regular directory that loads and
is no older than the last save that returned.  Writing cannot harm it, for a job that resumed from the policy's
marker saves under later steps (`PolicyInv`), nor can pruning, which is never at that directory (`VictimInv`).
`SaveInv` is what of the save under way is on disk at each point of `save_ckpt`.  A critic may be ahead
of the policy, which is finding 7 and the reason why completeness is proved of the policy only.
`CheckpointsAreKept` speaks of all groups at once: until the first kill they all had the same checkpoints with
the same metrics when the present save began, and each has that set, or the new directory besides, or has lost
the one element that all of them find worst (`Agree`, `Progress`, `Worst`).  The groups agree on the worst because
the age of a directory is the age of its step, which removal disturbs for the directory it is at only.

**Refit** (`WeightRefitProofs`), for any engines, gateways, completions and state dictionary with a weight in it,
any threshold, and failures at any call.  `AllRunAfterRefit` and `WeightsAreNotMixed` rest on the calls
that can still be queued at an actor where the refit is: its own only while it goes well, after an
exception also the one it gave up on (`EngineQueues`, `GateQueues`).  From them follows who stands still
(`Standing`, `Gates`) unless the failure was of a pause or resume itself (`Blame`).  Between flushes engines do
hold two versions; that they have the new one for every entry before the present flush is an induction
over the packing, whose steps are lemmas about `Until` (`Pushing`).  That an engine which granted the reset has
neither running keys and values nor cached ones of an older version is `Fresh`: what it has later it computes
itself, with even weights, or takes from its clean cache.

**Model-checked only**

- Liveness (`EverySessionLeaves`, `EverySessionResolves`, `TrainingEnds`, `RefitEnds` and the like): the prover
  handles neither fairness under quantifiers nor ENABLED.
- `Conversation`, `Learning` and what the pure algorithms compute (`BatchPlan`, `Transforms`, `ReplyStreams`,
  `PrefixMerging`, `SampleBatches`, `Credit`, `Losses`): folds over sequences, some recursive, and induction over
  data is out of the prover's reach.
- `PolicyUpdate` and `SftTraining`: `GlobalTokenMean`, `EpochsTrainTheRollout` and `AsIfNeverStopped` are about what
  `BatchPlan` and the sampler compute, for the same reason.  `Lockstep` needs only the number and the ends of
  the micro-batches, but these too come out of a fold, over as many optimizer steps as the rollout gives.
- That `GatewayContract` leaves the pipeline's gateways no less than it allows (above).

## 6. Not modelled, and why

Agent presets, configuration, datasets and the command line have no shared state; runtimes,
evaluators and HTTP pass-through are I/O; models, meshes and optimizers are numerics.  In the modelled parts:

- Scheduler: `_node_score` (a free choice) and bootstrap nodes (no caller passes any).  Pipeline: `close()`,
  sibling sessions of a failed task, timing records.  Gateway node: `close()`, the environment and logs of commands.
- Trainer: `freezing_actor_steps`, replayed dumps, the critic, and the branch that drains batches beyond
  `max_steps` (`rl_trainer.py:849`), which the `break` at line 893 makes unreachable.  A failing refit
  is in `WeightRefit`, not in `AsyncTrainer`.
- Store: listings for status pages, the storing of images.  Checkpoints: the limit by size (`max_mem`), an
  `rmtree` that fails silently, the layout of the HF export.
- Transforms: contents are atoms; response formats, usage counts, signatures of reasoning, a call with invalid
  JSON arguments.  The local-shell action loses keys it does not know, and a Responses shell call is a
  `local_shell_call` when it is given whole but a `function_call` in a stream (`StreamsAgree` compares the commands).
- Builders: what is known to break a chain and is left outside `AppendingMerges`: a retry of the same prompt,
  which leaves an empty tail; a reply that a stop string ended, whose end of turn is mistaken; replies of
  reasoning alone in Responses and empty replies in Google and Responses, which the history cannot hold;
  templates that drop old reasoning; developer messages in the middle.  `SampledOnce` and `ContextFaithful` hold
  for these too.
- Learning: whitening, division by the standard deviation, value loss, KL controllers, context-parallel shards.
  The mean log-ratio of `gspo` is rounded down, and probabilities are powers of two, of which `dppo`'s threshold
  tells any two from 1/4 up apart.  Two things seen while reading and
  stated nowhere: with `seq-mean-token-sum-norm` and no `loss_scale_factor` the loss is divided by the width of the
  micro-batch, so that a split of the batch changes it, and `reinforce` discounts over the
  environment's tokens, which `gae` does not.

## 7. Plan

All components of the plan are modelled, and proofs exist for the dispatcher, pipeline, scheduler, gateway
node, completion store, trainer, refit and checkpoints.  Every safety property of these modules that a run
checks is a theorem; three of the modules are shown to implement an abstract specification, and the pipeline's
gateways to keep the contract of one.  Left:

| Order | Modules | Question |
|---|---|---|
| 1 | `PolicyUpdate` | `Lockstep`, once what the partition returns can be stated without a fold |
| 2 | `RolloutPipeline` | the pipeline's gateway actions written as those of `GatewayContract`, which makes the composition one of modules |
| 3 | `SftTraining` | that the place to resume at, which is arithmetic on `consumed_samples` alone, is the place of the last checkpoint |
