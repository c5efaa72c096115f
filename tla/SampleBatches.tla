----------------------------- MODULE SampleBatches -----------------------------
(***************************************************************************)
(* From the traces of a task to the batches the model is trained on: the   *)
(* conversion and the filters of molt/trainer/rollout/samples_generator.py,*)
(* batches and single samples of molt/trainer/algorithm/experience.py and  *)
(* the packed forward of molt/trainer/fsdp/packing.py.                     *)
(*                                                                         *)
(* A session is [task, id, completed, traces], a trace [prompt, ids, mask, *)
(* lps, reward, media]: media counts its images, each one "img" token.     *)
(* The fields of a sample are on two axes: sequences and attention have a  *)
(* place for every token, action and lps one for every token but the first.*)
(***************************************************************************)
EXTENDS Integers, SequencesExt

NoReward == -1
NoRange  == <<>>           \* dynamic filtering is off
PadToken == <<"pad", 0>>

\* v itself; TLC evaluates a sequence written as a function once, and not each
\* time it is applied, when it is concatenated
Eager(v) == v \o <<>>

Zeros(v) == [i \in DOMAIN v |-> 0]
Count(mask) == Cardinality({i \in DOMAIN mask : mask[i] = 1})
Cut(v, n) == SubSeq(v, 1, Min({n, Len(v)}))

IsMedia(token) == token[1] = "img"
MediaRuns(tokens) ==
  Cardinality({i \in DOMAIN tokens : IsMedia(tokens[i]) /\ (i > 1 => ~IsMedia(tokens[i - 1]))})

Whole(t) == t.prompt \o t.ids
TokenMask(t) == Zeros(t.prompt) \o t.mask
TokenLogprobs(t) == Zeros(t.prompt) \o t.lps

\* why a trace becomes no sample, "" if it does; the first check that fails counts
DropReason(t, max, cut) ==
  LET whole  == Whole(t)
      cutTo  == Cut(whole, cut)
      checks ==
        << <<"empty_prompt_tokens", t.prompt = <<>> >>,
           <<"vlm_truncation", t.media > 0 /\ \E i \in (max + 1)..Len(whole) : IsMedia(whole[i])>>,
           <<"no_action_tokens", 1 \notin ToSet(Cut(TokenMask(t), cut))>>,
           <<"missing_reward", t.reward = NoReward>>,
           <<"vlm_media_misaligned", t.media > 0 /\ MediaRuns(cutTo) # t.media>> >>
      failed == SelectInSeq(checks, LAMBDA c : c[2])
  IN  IF failed = 0 THEN "" ELSE checks[failed][1]

\* mutant: the log-probabilities are not moved to the places of the action mask
MutSampleOf(session, t, cut) ==
  [drop |-> "", sequences |-> Cut(Whole(t), cut),
   attention |-> [i \in DOMAIN Cut(Whole(t), cut) |-> 1],
   action |-> Tail(Cut(TokenMask(t), cut)), lps |-> Front(Cut(TokenLogprobs(t), cut)),
   group |-> session.task, rollout |-> session.id, reward |-> t.reward]

SampleOf(session, t, cut) ==
  [drop |-> "", sequences |-> Cut(Whole(t), cut),
   attention |-> [i \in DOMAIN Cut(Whole(t), cut) |-> 1],
   action |-> Tail(Cut(TokenMask(t), cut)), lps |-> Tail(Cut(TokenLogprobs(t), cut)),
   group |-> session.task, rollout |-> session.id, reward |-> t.reward]

Dropped(reason) == [drop |-> reason]

\* _process_polar_task_result: what becomes of every session and trace of a task
Converted(task, sessions, max, train) ==
  LET cut == Min({max, train})
      of(s) ==
        IF s.task # task THEN <<Dropped("identity_mismatch")>>
        ELSE [k \in DOMAIN s.traces |->
                LET reason == DropReason(s.traces[k], max, cut)
                IN  IF reason = "" THEN SampleOf(s, s.traces[k], cut) ELSE Dropped(reason)]
             \o (IF ~s.completed /\ s.traces = <<>> THEN <<Dropped("session")>> ELSE <<>>)
  IN  IF sessions = <<>> THEN <<Dropped("empty_task")>>
      ELSE FlattenSeq([i \in DOMAIN sessions |-> of(sessions[i])])

\* the score of a rollout is that of its last sample; their mean must lie inside
\* the range
PassesDynamicFilter(samples, range) ==
  LET rollouts == {samples[i].rollout : i \in DOMAIN samples}
      score(r) == samples[SelectLastInSeq(samples, LAMBDA s : s.rollout = r)].reward
      total    == MapThenSumSet(score, rollouts)
      n        == Cardinality(rollouts)
  IN  range = NoRange \/ (n * range[1] < total /\ total < n * range[2])

\* _filter_group: all samples of a group that has every rollout, or none
FilterGroup(converted, expected, range) ==
  LET kept == SelectSeq(converted, LAMBDA s : s.drop = "")
  IN  IF /\ Cardinality({kept[i].rollout : i \in DOMAIN kept}) >= expected
         /\ kept # <<>> => PassesDynamicFilter(kept, range)
      THEN kept ELSE <<>>

(***************************************************************************)
(* Batches: the rows of every field, padded on the right.                  *)
(***************************************************************************)
StepFields == {"sequences", "attention", "action", "lps"}

PadRow(f, row, n) ==
  row \o [i \in 1..(n - Len(row)) |-> IF f = "sequences" THEN PadToken ELSE 0]

MakeBatch(samples) ==
  LET rows(f) == LET width == Max({Len(samples[i][f]) : i \in DOMAIN samples})
                 IN  Eager([i \in DOMAIN samples |-> PadRow(f, samples[i][f], width)])
  IN  [sequences |-> rows("sequences"), attention |-> rows("attention"),
       action |-> rows("action"), lps |-> rows("lps")]

SplitBatch(batch) ==
  [i \in DOMAIN batch.sequences |-> [f \in StepFields |-> batch[f][i]]]

\* as many places are cut off every field as the sample has padding tokens
RemovePadding(sample) ==
  LET padding == Len(sample.attention) - SelectLastInSeq(sample.attention, LAMBDA a : a = 1)
  IN  [f \in StepFields |-> SubSeq(sample[f], 1, Len(sample[f]) - padding)]

\* a batch in the replay buffer, as single samples without padding
Stored(batch) ==
  LET items == SplitBatch(batch) IN [i \in DOMAIN items |-> RemovePadding(items[i])]

(***************************************************************************)
(* The forward: the rows joined to one stream without padding, with the    *)
(* place where each row ends; the token each place is to predict; and the  *)
(* way back.                                                               *)
(***************************************************************************)
Roll(row) == Tail(row) \o <<Head(row)>>

PackPadded(batch, padTo) ==
  LET rows    == DOMAIN batch.sequences
      rolled  == Eager([r \in rows |-> Roll(batch.sequences[r])])
      places  == FlattenSeq([r \in rows |->
                   SelectSeq([c \in DOMAIN batch.attention[r] |-> <<r, c>>],
                             LAMBDA p : batch.attention[r][p[2]] = 1)])
      lengths == [r \in rows |-> Count(batch.attention[r])]
      ends    == [r \in rows |-> FoldSet(LAMBDA i, n : n + lengths[i], 0, 1..r)]
      extra   == [i \in 1..Max({0, padTo - Len(places)}) |-> PadToken]
  IN  [ids |-> [p \in DOMAIN places |-> batch.sequences[places[p][1]][places[p][2]]] \o extra,
       rolled |-> [p \in DOMAIN places |->
                     rolled[places[p][1]][places[p][2]]] \o extra,
       \* the row that is last takes the synthetic tokens
       ends |-> [ends EXCEPT ![Len(ends)] = @ + Len(extra)],
       indices |-> places]

\* what a model with variable-length attention computes at a place: the token
\* it is to predict, given the tokens of its row up to there
Scores(pack) ==
  Eager([p \in DOMAIN pack.ids |->
     LET begin == Max({0} \union {e \in ToSet(pack.ends) : e < p})
     IN  [given |-> SubSeq(pack.ids, begin + 1, p), target |-> pack.rolled[p]]])

Nothing == [given |-> <<>>, target |-> PadToken]

UnpackToPadded(values, indices, rows, width) ==
  [r \in 1..rows |->
     LET mine == {p \in DOMAIN indices : indices[p][1] = r}
     IN  [c \in 1..width |->
            LET at == {p \in mine : indices[p][2] = c}
            IN  IF at = {} THEN Nothing ELSE values[CHOOSE p \in at : TRUE]]]

\* Actor.forward: the last column, which predicts nothing, is dropped
Predictions(batch, padTo) ==
  LET pack == PackPadded(batch, padTo)
      full == UnpackToPadded(Scores(pack), pack.indices, Len(batch.sequences),
                             Len(batch.sequences[1]))
  IN  [r \in DOMAIN full |-> Front(full[r])]
================================================================================
