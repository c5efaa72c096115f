----------------------------- MODULE BatchPlan -----------------------------
(***************************************************************************)
(* How molt spreads the samples of a rollout over data-parallel ranks and  *)
(* micro-batches: the largest-differencing partition of                    *)
(* molt/utils/seqlen_balancing.py, its first-fit count of micro-batches,   *)
(* balance_experiences of molt/trainer/algorithm/experience.py, the slices *)
(* of RayActorGroup.async_run_method_batch and the plan of                 *)
(* NaiveReplayBuffer.setup_dynamic_batch.  A sample is its index in the    *)
(* rollout, from 1, and a rollout is the sequence of its samples' lengths. *)
(***************************************************************************)
EXTENDS Integers, SequencesExt

Total(lengths, samples) == MapThenSumSet(LAMBDA i : lengths[i], samples)

----------------------------------------------------------------------------
(* karmarkar_karp: a Set is [sum, items], a State a sequence of k Sets.     *)

EmptySet == [sum |-> 0, items |-> <<>>]

MergeSets(a, b) == [sum |-> a.sum + b.sum, items |-> a.items \o b.items]

\* Set.__lt__.  The items of two sets are disjoint, so that their first ones differ.
SetLess(a, b) ==
  \/ a.sum < b.sum
  \/ a.sum = b.sum /\ Len(a.items) < Len(b.items)
  \/ a.sum = b.sum /\ Len(a.items) = Len(b.items) /\ a.items # <<>> /\ a.items[1] < b.items[1]

Decreasing(sets) == SortSeq(sets, LAMBDA a, b : SetLess(b, a))

Spread(state) == state[1].sum - Last(state).sum

\* State.__lt__: the widest spread is popped first, then the larger first set.
StateLess(a, b) ==
  \/ Spread(a) > Spread(b)
  \/ Spread(a) = Spread(b) /\ SetLess(b[1], a[1])

MergeStates(a, b) ==
  Decreasing([i \in DOMAIN a |-> MergeSets(a[i], b[Len(b) + 1 - i])])

StateOf(lengths, samples, k) ==
  Decreasing([i \in 1..k |-> IF i <= Len(samples)
                             THEN [sum |-> lengths[samples[i]], items |-> <<samples[i]>>]
                             ELSE EmptySet])

ByLength(lengths, samples) ==
  SetToSortSeq(samples, LAMBDA i, j : lengths[i] < lengths[j]
                                      \/ (lengths[i] = lengths[j] /\ i < j))

Popped(states) == CHOOSE s \in states : \A t \in states \ {s} : StateLess(s, t)

MergedOnce(states) ==
  LET first == Popped(states)
      second == Popped(states \ {first})
  IN (states \ {first, second}) \cup {MergeStates(first, second)}

KarmarkarKarp(lengths, samples, k, equal) ==
  LET order == ByLength(lengths, samples)
      width == IF equal THEN k ELSE 1
      states == {StateOf(lengths, SubSeq(order, width * c + 1, width * (c + 1)), k) :
                   c \in 0..(Len(order) \div width - 1)}
      last == FoldLeftDomain(LAMBDA ss, i : IF i = 1 THEN ss ELSE MergedOnce(ss),
                             states, [i \in 1..Cardinality(states) |-> i])
  IN [i \in 1..k |-> (CHOOSE s \in last : TRUE)[i].items]

\* get_seqlen_balanced_partitions, with the order its check leaves in each part.
Partitions(lengths, samples, k, equal) ==
  [i \in 1..k |-> SetToSortSeq(ToSet(KarmarkarKarp(lengths, samples, k, equal)[i]), <)]

\* get_minimum_num_micro_batch_size: first fit, in the order the samples come.
MicroBatchCount(lengths, samples, cap) ==
  LET Fit(bins, i) ==
        LET room == {b \in DOMAIN bins : bins[b] + lengths[i] <= cap}
        IN IF room = {} THEN Append(bins, lengths[i])
           ELSE [bins EXCEPT ![Min(room)] = @ + lengths[i]]
  IN Len(FoldLeft(Fit, <<>>, samples))

----------------------------------------------------------------------------

LongestFirst(lengths, samples) ==
  SetToSortSeq(samples, LAMBDA i, j : lengths[i] > lengths[j]
                                      \/ (lengths[i] = lengths[j] /\ i < j))

\* balance_experiences: the trailing samples that do not divide are dropped, the others
\* are laid out as one block per rank, the longest of a block first.
Balanced(lengths, ranks) ==
  LET kept == 1..(Len(lengths) - (Len(lengths) % ranks))
      parts == Partitions(lengths, kept, ranks, TRUE)
  IN FlattenSeq([r \in 1..ranks |-> LongestFirst(lengths, ToSet(parts[r]))])

\* async_run_method_batch: the chunk of a worker; the members of one data-parallel group
\* (duplicates of them) take the same chunk.
ChunkOf(items, worker, workers, duplicates) ==
  LET size == Len(items) \div (workers \div duplicates)
      chunk == (worker - 1) \div duplicates
  IN SubSeq(items, chunk * size + 1, (chunk + 1) * size)

\* _dispatch_forward: the results of the first worker of every group, in order.
Collected(results, workers, duplicates) ==
  FlattenSeq([c \in 1..(workers \div duplicates) |-> results[(c - 1) * duplicates + 1]])

\* A mutant of StepPositions: every step starts at the first sample.
MutStepPositions(buffer, batch) ==
  [s \in 1..(Len(buffer) \div batch) |-> 1..(s * batch)]

\* setup_dynamic_batch, before the ranks agree: the positions of each optimizer step.
StepPositions(buffer, batch) ==
  [s \in 1..(Len(buffer) \div batch) |-> ((s - 1) * batch + 1)..(s * batch)]

LocalCounts(lengths, buffer, batch, cap) ==
  [s \in 1..(Len(buffer) \div batch) |->
     MicroBatchCount(lengths, SubSeq(buffer, (s - 1) * batch + 1, s * batch), cap)]

\* setup_dynamic_batch, once the counts of the steps are known.
DynamicBatches(lengths, buffer, batch, counts) ==
  LET at == [p \in DOMAIN buffer |-> lengths[buffer[p]]]
      steps == StepPositions(buffer, batch)
      Samples(part) == [p \in DOMAIN part |-> buffer[part[p]]]
  IN FlattenSeq([s \in DOMAIN counts |->
       LET parts == Partitions(at, steps[s], counts[s], FALSE)
       IN [m \in DOMAIN parts |-> [samples |-> Samples(parts[m]), ends |-> m = counts[s]]]])
=============================================================================
