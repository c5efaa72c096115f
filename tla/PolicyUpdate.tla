---------------------------- MODULE PolicyUpdate ----------------------------
(***************************************************************************)
(* One update of the model workers of molt from one rollout:               *)
(* balance_experiences lays the samples out, every model's forward runs on *)
(* the workers' chunks and its results return to the samples, the workers  *)
(* append their chunks to their replay buffers, and policy_train or        *)
(* value_train takes the optimizer steps.  Every forward, token count and  *)
(* optimizer step is a collective: a worker that reaches one waits there   *)
(* for all the others, so that workers that disagree hang.                 *)
(***************************************************************************)
EXTENDS BatchPlan

CONSTANTS
  Groups,       \* the data-parallel groups: args.actor's GPUs \div Duplicates
  Duplicates,   \* get_model_parallel_size: the workers that share one group's samples
  Lengths,      \* bound: the lengths a sample can have
  Sizes,        \* bound: how many samples a rollout can have
  Options       \* bound: records of the train.* options, with the fields
                \* dynamic, onPolicy, batch (train.batch_size \div Groups), micro, cap
                \* (max_tokens_per_gpu * cp_size * tp_size), epochs and defer
                \* (MOLT_DEFER_GRAD_SYNC)

ASSUME UpdateAssumption ==
  /\ Groups \in Nat \ {0} /\ Duplicates \in Nat \ {0}
  /\ Lengths \subseteq Nat \ {0} /\ Sizes \subseteq Nat
  \* FsdpStrategy.setup_distributed raises unless the batch is made of micro-batches.
  /\ \A o \in Options : ~o.dynamic => o.batch % o.micro = 0

Workers == 1..(Groups * Duplicates)

VARIABLES
  option,       \* the options of the run
  lengths,      \* the rollout: the length of each of its samples
  phase,        \* "balance", "forward", "append", "train", "failed" or "done"
  order,        \* the samples in the order balance_experiences returns
  results,      \* the sample each of the forward's results was computed from
  buffer,       \* NaiveReplayBuffer.items of every worker
  work,         \* where every worker is in policy_train
  updates       \* the optimizer steps taken: the micro-batches whose gradients each used

vars == <<option, lengths, phase, order, results, buffer, work, updates>>

Idle == [stage |-> "idle", epoch |-> 1, todo |-> <<>>, denominator |-> 0, micros |-> 0,
         grads |-> <<>>, reduced |-> <<>>]

\* The members of its data-parallel group: one worker of every group.
DataParallel(w) == {v \in Workers : (v - w) % Duplicates = 0}

Init ==
  /\ option \in Options
  /\ lengths \in UNION {[1..n -> Lengths] : n \in Sizes}
  /\ phase = "balance"
  /\ order = <<>> /\ results = <<>> /\ updates = <<>>
  /\ buffer = [w \in Workers |-> <<>>]
  /\ work = [w \in Workers |-> Idle]

Balance ==
  /\ phase = "balance"
  /\ IF Len(lengths) < Groups
     THEN phase' = "failed" /\ UNCHANGED order
     ELSE phase' = "forward" /\ order' = Balanced(lengths, Groups)
  /\ UNCHANGED <<option, lengths, results, buffer, work, updates>>

Chunk(w) == ChunkOf(order, w, Cardinality(Workers), Duplicates)

\* _dispatch_forward: execute_batch returns one result per item of a worker's chunk.
Forward ==
  /\ phase = "forward"
  /\ results' = Collected([w \in Workers |-> Chunk(w)], Cardinality(Workers), Duplicates)
  /\ phase' = "append"
  /\ UNCHANGED <<option, lengths, order, buffer, work, updates>>

----------------------------------------------------------------------------
(* policy_train and value_train                                            *)

\* The micro-batches of the dataloader, without dynamic batches.  The trailing
\* micro-batches that fill no accumulation window are not run.  With Duplicates = 1 the
\* loader shuffles the items; that order is left out, no property depends on it.
StaticBatches(items) ==
  LET count == Len(items) \div option.micro
      accum == IF option.onPolicy THEN Max({count, 1}) ELSE option.batch \div option.micro
  IN [m \in 1..(count - (count % accum)) |->
        [samples |-> SubSeq(items, (m - 1) * option.micro + 1, m * option.micro),
         ends |-> m % accum = 0]]

LocalBatch(w) == IF option.onPolicy THEN Max({Len(buffer[w]), 1}) ELSE option.batch

Counts(w) == LocalCounts(lengths, buffer[w], LocalBatch(w), option.cap)

\* The largest count any worker needs for an optimizer step.
Agreed(s) == Max({Counts(w)[s] : w \in Workers})

\* A mutant of Batches: a worker plans with its own counts.
MutBatches(w) ==
  IF option.dynamic THEN DynamicBatches(lengths, buffer[w], LocalBatch(w), Counts(w))
  ELSE StaticBatches(buffer[w])

Batches(w) ==
  IF option.dynamic
  THEN DynamicBatches(lengths, buffer[w], LocalBatch(w), [s \in DOMAIN Counts(w) |-> Agreed(s)])
  ELSE StaticBatches(buffer[w])

\* The loop over a dataloader: the next window to count, the next epoch or the end.
Loop(w, todo, epoch) ==
  LET worker == [Idle EXCEPT !.epoch = epoch, !.todo = todo, !.stage = "count"]
  IN IF todo # <<>> THEN worker
     ELSE IF epoch < option.epochs /\ Batches(w) # <<>>
     THEN [worker EXCEPT !.epoch = epoch + 1, !.todo = Batches(w)]
     ELSE [worker EXCEPT !.stage = "end"]

AppendAll ==
  /\ phase = "append"
  /\ buffer' = [w \in Workers |-> Chunk(w)]
  /\ work' = [w \in Workers |-> [Idle EXCEPT !.stage = "setup"]]
  /\ phase' = "train"
  /\ UNCHANGED <<option, lengths, order, results, updates>>

\* A collective: it happens when all workers are at it.
AllAt(stage) == phase = "train" /\ \A w \in Workers : work[w].stage = stage

\* setup_dynamic_batch, whose all_reduce takes one count per optimizer step.
Setup ==
  /\ AllAt("setup")
  /\ \A v, w \in Workers : option.dynamic => DOMAIN Counts(v) = DOMAIN Counts(w)
  /\ work' = [w \in Workers |-> Loop(w, Batches(w), 1)]
  /\ UNCHANGED <<option, lengths, phase, order, results, buffer, updates>>

\* The micro-batches up to the next end of a window.
Window(todo) == SubSeq(todo, 1, Min({m \in DOMAIN todo : todo[m].ends}))

\* A mutant of LocalTokens: the tokens of a micro-batch, not those of its window.
MutLocalTokens(w) ==
  LET samples == Head(work[w].todo).samples
  IN SumFunction([i \in DOMAIN samples |-> lengths[samples[i]]])

LocalTokens(w) ==
  LET batches == Window(work[w].todo)
  IN SumFunction([m \in DOMAIN batches |->
       SumFunction([i \in DOMAIN batches[m].samples |-> lengths[batches[m].samples[i]]])])

\* global_token_count: the tokens of a window over the data-parallel groups.
Count ==
  /\ AllAt("count")
  /\ work' = [w \in Workers |->
       [work[w] EXCEPT !.stage = "micro",
                       !.micros = Len(Window(work[w].todo)),
                       !.denominator = SumFunctionOnSet([v \in Workers |-> LocalTokens(v)],
                                                        DataParallel(w))]]
  /\ UNCHANGED <<option, lengths, phase, order, results, buffer, updates>>

\* training_step: the losses of policy, KL and entropy are divided by the tokens of the
\* step, the balancing loss of a mixture of experts by its micro-batches.
Contribution(w) ==
  [samples |-> Head(work[w].todo).samples, denominator |-> work[w].denominator,
   micros |-> work[w].micros]

\* The backward pass also reduces the gradients: at every micro-batch or, deferred, at the
\* last one of the window.
Syncs(w) == ~option.defer \/ Head(work[w].todo).ends

\* FSDP adds the gradients of the group's members that have not been reduced yet.
Reduced(w) ==
  LET group == SetToSortSeq(DataParallel(w), <)
  IN FlattenSeq([g \in DOMAIN group |-> Append(work[group[g]].grads, Contribution(group[g]))])

\* Forward and backward of one micro-batch.
MicroBatch ==
  /\ AllAt("micro")
  /\ \A v, w \in Workers : Syncs(v) = Syncs(w)
  /\ work' = [w \in Workers |->
       [work[w] EXCEPT
          !.grads = IF Syncs(w) THEN <<>> ELSE Append(@, Contribution(w)),
          !.reduced = IF Syncs(w) THEN @ \o Reduced(w) ELSE @,
          !.todo = Tail(@),
          !.stage = IF Head(work[w].todo).ends THEN "step" ELSE "micro"]]
  /\ UNCHANGED <<option, lengths, phase, order, results, buffer, updates>>

\* optimizer_step uses the reduced gradients and clears all.
Step ==
  /\ AllAt("step")
  /\ updates' = Append(updates, [epoch |-> work[1].epoch, batches |-> work[1].reduced])
  /\ work' = [w \in Workers |-> Loop(w, work[w].todo, work[w].epoch)]
  /\ UNCHANGED <<option, lengths, phase, order, results, buffer>>

Fit ==
  /\ AllAt("end")
  /\ phase' = "done"
  /\ buffer' = [w \in Workers |-> <<>>]
  /\ UNCHANGED <<option, lengths, order, results, work, updates>>

Stop == phase \in {"failed", "done"} /\ UNCHANGED vars

Next ==
  \/ Balance \/ Forward \/ AppendAll
  \/ Setup \/ Count \/ MicroBatch \/ Step \/ Fit
  \/ Stop

Spec == Init /\ [][Next]_vars

----------------------------------------------------------------------------

\* Workers never wait at different collectives, and never at one of another shape: the
\* hang that balance_experiences, the agreed counts and the dropped remainders prevent.
Lockstep ==
  \A v, w \in Workers :
    /\ work[v].stage = work[w].stage
    /\ work[v].stage = "setup" /\ option.dynamic => DOMAIN Counts(v) = DOMAIN Counts(w)
    /\ work[v].stage = "micro" => Syncs(v) = Syncs(w)

SamplesOf(batches) == FlattenSeq([i \in DOMAIN batches |-> batches[i].samples])

\* Every token of an optimizer step weighs the same: each sample's loss is divided by the
\* number of tokens of all samples, over all micro-batches and groups, of its step; and
\* the balancing losses of its micro-batches are averaged over all of them.
GlobalTokenMean ==
  \A u \in ToSet(updates) :
    LET samples == SamplesOf(u.batches)
        tokens == SumFunction([i \in DOMAIN samples |-> lengths[samples[i]]])
    IN \A i \in DOMAIN u.batches :
         /\ u.batches[i].denominator = tokens
         /\ Groups * u.batches[i].micros = Len(u.batches)

TrainedIn(epoch) == FlattenSeq([i \in DOMAIN updates |->
                      IF updates[i].epoch = epoch THEN SamplesOf(updates[i].batches) ELSE <<>>])

\* Every sample is trained with what the models computed from it: the results of a
\* forward, collected from workers that returned duplicates of them, are in order.  An
\* epoch trains no sample twice and leaves out only what fills no batch: with
\* force_on_policy and dynamic batches the kept rollout is one step; without, fewer than one
\* batch per group is left; and no gradient stays behind for the next update.
EpochsTrainTheRollout ==
  /\ phase \in {"append", "train"} => results = order
  /\ phase = "done" =>
       /\ \A w \in Workers : work[w].grads = <<>>
       /\ \A e \in 1..option.epochs :
            LET samples == TrainedIn(e)
                rest == ToSet(order) \ ToSet(samples)
                unit == IF ~option.onPolicy THEN option.batch
                        ELSE IF option.dynamic THEN 1 ELSE option.micro
            IN /\ IsInjective(samples)
               /\ Cardinality(rest) <= Groups * (unit - 1)
       /\ option.onPolicy => \A e \in 1..option.epochs :
                               Cardinality({i \in DOMAIN updates : updates[i].epoch = e}) <= 1
       /\ ~option.onPolicy => \A u \in ToSet(updates) : Len(SamplesOf(u.batches)) = Groups * option.batch

Load(samples) == SumFunction([i \in DOMAIN samples |-> lengths[samples[i]]])

\* molt/trainer/algorithm/replay_buffer.py:105, of the micro-batches of a dynamic batch: "the
\* token-budget split below still bounds microbatch size", but for a sample that alone
\* exceeds the budget.
TokenBudget ==
  option.dynamic => \A w \in Workers : \A m \in DOMAIN work[w].todo :
    LET samples == work[w].todo[m].samples
    IN Load(samples) <= option.cap \/ Len(samples) = 1
=============================================================================
