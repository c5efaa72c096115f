---------------------------- MODULE SftTraining ----------------------------
(***************************************************************************)
(* Supervised fine-tuning of molt: SFTTrainer.fit with its accumulation    *)
(* windows, the DistributedSampler that gives every data-parallel rank its *)
(* share of an epoch, the optimizer steps of FsdpStrategy, and a job that  *)
(* is killed anywhere and started again, from its last checkpoint and      *)
(* perhaps on another number of ranks.  What the weights have seen is the  *)
(* sequence of the samples of every optimizer step.                        *)
(***************************************************************************)
EXTENDS Integers, SequencesExt

CONSTANTS
  DataSize,     \* len(train_dataset)
  BatchSize,    \* args.train.batch_size
  Epochs,       \* args.train.max_epochs
  SaveSteps,    \* args.ckpt.save_steps after fit has resolved it; 0 for no checkpoints
  LossTokens,   \* the tokens of each sample that its loss mask keeps
  Layouts,      \* bound: records [ranks, micro] a job may be started with
  MaxStarts     \* bound: how often the job is started

ASSUME SftAssumption ==
  /\ {DataSize, BatchSize, Epochs, MaxStarts} \subseteq Nat \ {0}
  /\ SaveSteps \in Nat
  /\ LossTokens \in [1..DataSize -> Nat]
  /\ BatchSize <= DataSize
  \* FsdpStrategy.setup_distributed raises unless the batch is made of micro-batches.
  /\ \A l \in Layouts : BatchSize % (l.ranks * l.micro) = 0

VARIABLES
  job,          \* "down", "training" or "finished"
  starts,       \* how often the job was started
  layout,       \* the ranks and the micro-batch size of this start
  epoch, step,  \* as in fit: the epoch, and the 1-based micro-batch step
  consumed,     \* DistributedSampler.consumed_indices of this epoch, as samples
  drawn,        \* the batches the dataloader has given in this epoch
  window,       \* the drawn batches of the accumulation window not yet run
  tokens,       \* batch_num_tokens of the window
  timeSteps,    \* FsdpStrategy.time_steps
  grads,        \* the accumulated gradients: samples, and what their losses were divided by
  weights,      \* the gradients of every optimizer step the weights have seen
  saved         \* the last checkpoint: the weights and consumed_samples

vars == <<job, starts, layout, epoch, step, consumed, drawn, window, tokens, timeSteps, grads,
          weights, saved>>

NothingSaved == [weights |-> <<>>, consumed |-> 0]

\* num_update_steps_per_epoch.
StepsPerEpoch == DataSize \div BatchSize

\* accumulated_gradient of FsdpStrategy.setup_distributed.
AccumSteps == BatchSize \div (layout.ranks * layout.micro)

\* torch.randperm, seeded with seed + epoch: the same on every rank and in every start.
Shuffled(e) == [i \in 1..DataSize |-> ((i + 2 * e) % DataSize) + 1]

\* DistributedSampler.__init__ and __iter__ with drop_last: the indices of a rank.
NumSamples(ranks) == DataSize \div ranks

\* A mutant of ShardOf: a rank takes a contiguous part.
MutShardOf(rank, ranks, e) ==
  SubSeq(Shuffled(e), (rank - 1) * NumSamples(ranks) + 1, rank * NumSamples(ranks))

ShardOf(rank, ranks, e) == [i \in 1..NumSamples(ranks) |-> Shuffled(e)[(i - 1) * ranks + rank]]

Sampled(rank) ==
  LET shard == ShardOf(rank, layout.ranks, epoch)
  IN SubSeq(shard, consumed \div layout.ranks + 1, Len(shard))

\* The dataloader drops a trailing batch that is not full.
BatchesPerEpoch == (NumSamples(layout.ranks) - consumed \div layout.ranks) \div layout.micro

\* The b-th batch, over all ranks.
BatchOf(b) ==
  FlattenSeq([r \in 1..layout.ranks |->
    SubSeq(Sampled(r), (b - 1) * layout.micro + 1, b * layout.micro)])

Init ==
  /\ job = "down" /\ starts = 0
  /\ layout \in Layouts
  /\ epoch = 0 /\ step = 1 /\ consumed = 0 /\ drawn = 0 /\ timeSteps = 0 /\ tokens = 0
  /\ window = <<>> /\ grads = <<>> /\ weights = <<>>
  /\ saved = NothingSaved

FirstStep == (saved.consumed \div BatchSize) * AccumSteps + 1

\* train_sft.train: load_ckpt, if there is a checkpoint, and the head of fit.
Start ==
  /\ job = "down" /\ starts < MaxStarts
  /\ starts' = starts + 1 /\ UNCHANGED saved
  /\ layout' \in Layouts
  /\ job' = "training"
  /\ weights' = saved.weights
  /\ step' = FirstStep'
  /\ epoch' = (saved.consumed \div BatchSize) \div StepsPerEpoch
  /\ consumed' = saved.consumed % (StepsPerEpoch * BatchSize)
  /\ drawn' = 0 /\ window' = <<>> /\ tokens' = 0 /\ timeSteps' = 0 /\ grads' = <<>>

\* _prepare_accum_window: the tokens of the window, over the data-parallel ranks.
TokensOf(batches) ==
  LET samples == FlattenSeq(batches)
  IN SumFunction([i \in DOMAIN samples |-> LossTokens[samples[i]]])

\* The loop over the dataloader fills a window.
Draw ==
  /\ job = "training" /\ epoch < Epochs /\ window = <<>>
  /\ drawn + AccumSteps <= BatchesPerEpoch
  /\ window' = [b \in 1..AccumSteps |-> BatchOf(drawn + b)]
  /\ tokens' = TokensOf(window')
  /\ drawn' = drawn + AccumSteps
  /\ UNCHANGED <<job, starts, layout, epoch, step, consumed, timeSteps, grads, weights,
                 saved>>

SaveDue(s) == SaveSteps > 0 /\ s % SaveSteps = 0

\* _run_microbatch, with the optimizer step after the last micro-batch of a window, and the
\* checkpoint of save_logs_and_checkpoints after it.
MicroBatch ==
  LET batch == Head(window)
      seen == grads \o [i \in DOMAIN batch |-> [sample |-> batch[i], of |-> tokens]]
      stepped == (timeSteps + 1) % AccumSteps = 0
      globalStep == step \div AccumSteps
  IN /\ job = "training" /\ window # <<>>
     /\ window' = Tail(window)
     /\ timeSteps' = timeSteps + 1
     /\ grads' = IF stepped THEN <<>> ELSE seen
     /\ weights' = IF stepped THEN Append(weights, seen) ELSE weights
     /\ saved' = IF step % AccumSteps = 0 /\ SaveDue(globalStep)
                 THEN [weights |-> weights', consumed |-> globalStep * BatchSize]
                 ELSE saved
     /\ step' = step + 1
     /\ UNCHANGED <<job, starts, layout, epoch, consumed, drawn, tokens>>

\* The end of an epoch: a window that is not full is dropped, set_epoch starts the next.
NextEpoch ==
  /\ job = "training" /\ epoch < Epochs /\ window = <<>>
  /\ drawn + AccumSteps > BatchesPerEpoch
  /\ epoch' = epoch + 1
  /\ consumed' = 0 /\ drawn' = 0
  /\ UNCHANGED <<job, starts, layout, step, window, tokens, timeSteps, grads, weights, saved>>

Finish ==
  /\ job = "training" /\ epoch >= Epochs
  /\ job' = "finished"
  /\ UNCHANGED <<starts, layout, epoch, step, consumed, drawn, window, tokens, timeSteps, grads,
                 weights, saved>>

\* The job dies; only its checkpoint is left.
Kill ==
  /\ job = "training" /\ starts < MaxStarts
  /\ job' = "down"
  /\ UNCHANGED <<starts, layout, epoch, step, consumed, drawn, window, tokens, timeSteps, grads,
                 weights, saved>>

Stop == job = "finished" /\ UNCHANGED vars

Next == Start \/ Draw \/ MicroBatch \/ NextEpoch \/ Finish \/ Kill \/ Stop

Spec == Init /\ [][Next]_vars

----------------------------------------------------------------------------

\* The samples of the k-th optimizer step of a job that was never stopped: the next
\* BatchSize samples of its epoch's order, however many ranks share them.
Planned(k) ==
  LET e == (k - 1) \div StepsPerEpoch
      first == ((k - 1) % StepsPerEpoch) * BatchSize
  IN {Shuffled(e)[i] : i \in (first + 1)..(first + BatchSize)}

\* Whenever it was killed and however it was started again, the weights have seen exactly
\* what those of an uninterrupted job would have, in the same order and each sample once,
\* every loss divided by the tokens of its whole step; a job that ends has trained all its
\* epochs.
AsIfNeverStopped ==
  job # "down" =>
    /\ \A k \in DOMAIN weights :
         LET all == SumFunctionOnSet(LossTokens, Planned(k))
         IN ToSet(weights[k]) = {[sample |-> s, of |-> all] : s \in Planned(k)}
              /\ Len(weights[k]) = BatchSize
    /\ job = "finished" => Len(weights) = Epochs * StepsPerEpoch
    /\ saved.consumed = Len(saved.weights) * BatchSize
    /\ SaveSteps > 0 => saved.consumed % (SaveSteps * BatchSize) = 0
=============================================================================
