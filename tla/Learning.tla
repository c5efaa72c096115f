-------------------------------- MODULE Learning --------------------------------
(***************************************************************************)
(* What is learned from the conversations of a session: its traces, those  *)
(* of a second session of the task, and one that failed become samples, a  *)
(* group, a batch, credit and a loss.                                      *)
(***************************************************************************)
EXTENDS Conversation, SampleBatches, Credit, Losses

CONSTANTS MaxLengths,    \* pairs of data.max_len and data.train_max_len
          Longest,       \* a length that cuts nothing
          RewardLists,   \* rewards of a session's traces, in turn
          LossSettings   \* [agg, mode, clip, is]: how loss.py aggregates, its surrogate and
                         \* the clip of it, and the correction

\* the session is over (what follows is the same for every API)
Over == Len(log) = MaxCompletions /\ odd = 0 /\ api = "openai_chat"
        /\ server.keeps /\ \A i \in DOMAIN log : Len(log[i].prompt) < server.limit

MediaOf(messages) ==
  MapThenSumSet(LAMBDA i : Len(Images(messages[i].content)), DOMAIN messages)

\* a session's traces as the trainer gets them, with rewards
Session(id, traces, requests, rewards) ==
  [task |-> "task", id |-> id, completed |-> TRUE,
   traces |-> Eager([k \in DOMAIN traces |->
     [prompt |-> traces[k].prompt, ids |-> traces[k].ids, mask |-> traces[k].mask,
      lps |-> traces[k].lps, reward |-> rewards[1 + ((k - 1) % Len(rewards))],
      media |-> MediaOf(requests[k])]])]

\* the session with its conversations merged, and with one trace per request
SessionOf(traces, rewards) ==
  Session("merged", traces, [k \in DOMAIN traces |-> Last(traces[k].kept).messages], rewards)
MergedSession(rewards) == SessionOf(Build(NoEot, log), rewards)
PerRequestSession(rewards) ==
  Session("single", PerRequest(log), [k \in DOMAIN log |-> log[k].messages], rewards)
FailedSession == [task |-> "task", id |-> "failed", completed |-> FALSE, traces |-> <<>>]
StraySession == [FailedSession EXCEPT !.task = "other"]

Batchable(samples) == [i \in DOMAIN samples |-> [f \in StepFields |-> samples[i][f]]]

\* the samples of the rollouts of a task of two
Kept(sessions, m) == FilterGroup(Converted("task", sessions, m[1], m[2]), 2, <<0, 2>>)

\* a row's action at a step predicts the token at the row's next place from the places up
\* to the step, and has the log-probability that token was sampled with
RowAsSampled(sample, scores) ==
  \A t \in DOMAIN sample.action : sample.action[t] = 1 =>
    LET p   == sample.lps[t]
        row == sample.sequences
    IN  /\ p > 0 /\ row[t + 1] = log[p \div 100].tokens[p % 100]
        /\ scores[t] = [given |-> SubSeq(row, 1, t), target |-> row[t + 1]]

RowsAsSampled(samples, scores) == \A i \in DOMAIN samples : RowAsSampled(samples[i], scores[i])

BatchAsSampled(samples, batch) ==
  /\ Stored(batch) = Batchable(samples)
  /\ RowsAsSampled(samples, Predictions(batch, 2 + MapThenSumSet(
       LAMBDA i : Len(samples[i].sequences), DOMAIN samples)))

GroupAsSampled(samples, whole, m) ==
  /\ m[1] = Longest /\ m[2] = Longest => Len(samples) = whole
  /\ samples # <<>> =>
        /\ {samples[i].rollout : i \in DOMAIN samples} = {"merged", "single"}
        /\ BatchAsSampled(samples, MakeBatch(samples))

WithoutReward(session) ==
  [session EXCEPT !.traces = [k \in DOMAIN session.traces |->
                                [session.traces[k] EXCEPT !.reward = 0]]]

\* of a task whose two rollouts are the session in its two forms
TrainedWhole(merged, single, m) ==
  /\ Kept(<<single>>, m) = <<>> /\ Kept(<<single, FailedSession>>, m) = <<>>
  /\ Kept(<<WithoutReward(merged), WithoutReward(single)>>, m) = <<>>
  /\ GroupAsSampled(Kept(<<merged, StraySession, single>>, m),
                    Len(merged.traces) + Len(single.traces), m)

\* A group is trained on only with all its rollouts and unless all failed; then, where
\* nothing is cut, with every trace of them; and each sample, whatever its length is cut
\* to, batched, packed, padded for other ranks and taken apart again, is trained on the
\* tokens the model sampled: the action at a step predicts the next token of its own row from the row up
\* to the step, and the log-probability there is the one that token was sampled with
\* (samples_generator.py:435, packing.py:75).
TrainedAsSampled ==
  Over => \A m \in MaxLengths :
            TrainedWhole(MergedSession(<<1>>), PerRequestSession(<<0, 1>>), m)

\* a group of rollouts with the weights of its samples
Grouped(a, b) ==
  Weighed(FilterGroup(Converted("task", <<a, b>>, Longest, Longest), 2, NoRange))

SumsToNothing(s) ==
  /\ MapThenSumSet(LAMBDA i : s[i].weight * GroupCredit(s, i), DOMAIN s) = 0
  /\ MapThenSumSet(LAMBDA i : s[i].weight * Rloo(s, i), DOMAIN s) = 0
  /\ (\A i, j \in DOMAIN s : s[i].reward = s[j].reward) =>
       \A i \in DOMAIN s : GroupCredit(s, i) = 0 /\ Rloo(s, i) = 0
  /\ Spread(s, "task") = 0 <=> \A i \in DOMAIN s : GroupCredit(s, i) = 0

\* the last samples of two groups have the same credit
SameCredit(s, t) ==
  GroupCredit(s, Len(s)) * Last(t).units = GroupCredit(t, Len(t)) * Last(s).units

RelativeCredit(merged, rewards) ==
  /\ SumsToNothing(Grouped(PerRequestSession(rewards), merged))
  /\ SameCredit(Grouped([PerRequestSession(<<1>>) EXCEPT !.id = "twin"], PerRequestSession(<<0>>)),
                Grouped([merged EXCEPT !.id = "twin"], PerRequestSession(<<0>>)))

\* Credit is given relative to the group: it adds up to nothing over a group,
\* and there is none where all rewards are equal, whichever number of traces
\* and tokens the rollouts have; whether a session's conversations are merged
\* or not makes no difference to the credit of the others (advantage.py:106).
CreditIsRelative ==
  Over => \A rewards \in RewardLists : RelativeCredit(MergedSession(<<1>>), rewards)

\* the steps of a sample that are actions, and what they are given
ActionsAlone(sample) ==
  LET at == SelectSeq([t \in DOMAIN sample.mask |-> t], LAMBDA t : sample.mask[t] = 1)
  IN  [f \in DOMAIN sample |-> [k \in DOMAIN at |-> sample[f][at[k]]]]

\* some values for the steps of a row
Some(mask, n) == [t \in DOMAIN mask |-> ((t + n) % 3) - 1]

\* The tokens the environment wrote between the actions of a sample are
\* transparent to the estimator of GAE: the actions have the advantages and the
\* critic the targets they would have without them, for any discount
\* (advantage.py:241).  With lambda 1 and no discount an advantage is what
\* followed minus the value.
SameAlone(sample, gamma, lam, adv) ==
  /\ Gae(ActionsAlone(sample), 3, gamma, lam) = ActionsAlone([mask |-> sample.mask, adv |-> adv]).adv
  /\ gamma = 1 /\ lam = 1 =>
       ValueTargets(sample, adv)
         = [t \in DOMAIN adv |-> sample.mask[t] * Returns(sample, 3, 1)[t]]

SameAdvantages(mask) ==
  \A gamma \in 1..2, lam \in 0..2 :
    LET sample == [mask |-> mask, kl |-> Some(mask, 1), values |-> Some(mask, 2)]
    IN  SameAlone(sample, gamma, lam, Gae(sample, 3, gamma, lam))

\* a row with n where the environment wrote
RowWith(mask, n) ==
  LET v(k) == Eager([t \in DOMAIN mask |-> Some(mask, k)[t] * (IF mask[t] = 1 THEN 1 ELSE n)])
  IN  [new |-> v(0), old |-> v(1), advantages |-> v(3), mask |-> mask,
       rollout |-> [t \in DOMAIN mask |-> IF mask[t] = 1 THEN 0 ELSE -n]]

RowsWith(traces, n) == <<>> \o [k \in DOMAIN traces |-> RowWith(traces[k].mask, n)]

\* Nothing that models or estimators computed for them has an effect on the
\* loss, with any of the settings that PolicyLoss accepts.
SameLoss(traces) ==
  LET clean == RowsWith(traces, 0)
      dirty == RowsWith(traces, 1)
  IN  \A set \in LossSettings : Accepted(set.mode, set.clip, set.is) =>
        PolicyLoss(clean, set.agg, set.mode, set.clip, set.is)
          = PolicyLoss(dirty, set.agg, set.mode, set.clip, set.is)

Transparent(traces) ==
  SameLoss(traces) /\ \A k \in DOMAIN traces : SameAdvantages(traces[k].mask)

\* What the environment wrote into a conversation changes neither GAE's advantages
\* and targets nor the loss (SameAdvantages, SameLoss).  A discounted return, that of
\* reinforce with gamma below 1, is no part of this: it counts the environment's
\* tokens as steps (advantage.py:168).
EnvironmentIsTransparent == Over => Transparent(MergedSession(<<1>>).traces)
================================================================================
