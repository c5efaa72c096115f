--------------------------------- MODULE Credit ---------------------------------
(***************************************************************************)
(* What each token of a batch is given credit for: the groups and weights  *)
(* of molt/trainer/rollout/experience_maker.py and the estimators of       *)
(* molt/trainer/algorithm/advantage.py.  A sample is [group, rollout,      *)
(* reward, action].  Rationals are scaled to integers: what is in units of *)
(* 1/n is multiplied by n, as a comment says.                              *)
(***************************************************************************)
EXTENDS Integers, SequencesExt

Actions(s) == Cardinality({t \in DOMAIN s.action : s.action[t] = 1})

\* the samples of a group, and those of a rollout in it
GroupOf(samples, g) == {i \in DOMAIN samples : samples[i].group = g}
RolloutOf(samples, i) ==
  {j \in DOMAIN samples : samples[j].group = samples[i].group
                          /\ samples[j].rollout = samples[i].rollout}
Rollouts(samples, g) == {RolloutOf(samples, i) : i \in GroupOf(samples, g)}

ActionsOf(samples, rollout) == Max({1, MapThenSumSet(LAMBDA i : Actions(samples[i]), rollout)})

\* the weights of a group's samples are in units of 1/Units
Units(samples, g) ==
  FoldSet(LAMBDA r, p : p * ActionsOf(samples, r), 1, Rollouts(samples, g))

\* mutant: samples weigh by their tokens in the group, not in their rollout
MutWeight(samples, i) == Actions(samples[i])

\* its share of the action tokens of its rollout
Weight(samples, i) ==
  Actions(samples[i]) * (Units(samples, samples[i].group)
                           \div ActionsOf(samples, RolloutOf(samples, i)))

\* the samples with their weights
Weighed(samples) ==
  <<>> \o [i \in DOMAIN samples |->
             [group |-> samples[i].group, rollout |-> samples[i].rollout,
              reward |-> samples[i].reward, weight |-> Weight(samples, i),
              units |-> Units(samples, samples[i].group)]]

Weighted(samples, indices) ==
  MapThenSumSet(LAMBDA i : samples[i].reward * samples[i].weight, indices)

\* reward minus the mean of the group, which is that of its rollouts' means;
\* in units of 1/(rollouts * units).  dr_grpo uses it as it is, grpo and
\* reinforce_baseline divide it by a standard deviation.
GroupCredit(samples, i) ==
  LET g == samples[i].group
      n == Cardinality(Rollouts(samples, g))
  IN  samples[i].reward * n * samples[i].units - Weighted(samples, GroupOf(samples, g))

\* the variance is zero exactly when this is
Spread(samples, g) ==
  MapThenSumSet(LAMBDA i : GroupCredit(samples, i) * GroupCredit(samples, i) * samples[i].weight,
                GroupOf(samples, g))

\* rloo: reward minus the mean of the other rollouts' means, in units of
\* 1/((rollouts - 1) * units); the reward itself, without others
Rloo(samples, i) ==
  LET g == samples[i].group
      n == Cardinality(Rollouts(samples, g))
  IN  IF n = 1 THEN samples[i].reward * samples[i].units
      ELSE samples[i].reward * (n - 1) * samples[i].units
             - (Weighted(samples, GroupOf(samples, g)) - Weighted(samples, RolloutOf(samples, i)))

(***************************************************************************)
(* Along one sample, [mask, kl, values] by step: per-token rewards, with   *)
(* the sample's own at its last action token.                              *)
(***************************************************************************)
TokenReward(sample, reward) ==
  LET last == SelectLastInSeq(sample.mask, LAMBDA a : a = 1)
  IN  [t \in DOMAIN sample.mask |->
         sample.mask[t] * ((IF t = last THEN reward ELSE 0) - sample.kl[t])]

\* reinforce: discounted sums of what follows
Returns(sample, reward, gamma) ==
  LET r == TokenReward(sample, reward)
      sum[t \in 1..(Len(r) + 1)] == IF t > Len(r) THEN 0 ELSE r[t] + gamma * sum[t + 1]
  IN  [t \in DOMAIN r |-> sum[t]]

\* gae, from the last step: the value and the advantage that follow are carried
\* over steps that are no action
MutGaeStep(sample, r, gamma, lam, t, next) ==
  LET v == sample.mask[t] * sample.values[t]
      a == r[t] + gamma * next.value - v + gamma * lam * next.adv
  IN  [adv |-> IF sample.mask[t] = 1 THEN a ELSE next.adv, value |-> v]

GaeStep(sample, r, gamma, lam, t, next) ==
  LET v == sample.mask[t] * sample.values[t]
      a == r[t] + gamma * next.value - v + gamma * lam * next.adv
  IN  IF sample.mask[t] = 1 THEN [adv |-> a, value |-> v] ELSE next

Gae(sample, reward, gamma, lam) ==
  LET r == TokenReward(sample, reward)
      run[t \in 1..(Len(r) + 1)] ==
        IF t > Len(r) THEN [adv |-> 0, value |-> 0]
        ELSE GaeStep(sample, r, gamma, lam, t, run[t + 1])
  IN  [t \in DOMAIN r |-> sample.mask[t] * run[t].adv]

\* the target of the critic
ValueTargets(sample, advantages) ==
  [t \in DOMAIN advantages |-> sample.mask[t] * (advantages[t] + sample.values[t])]
================================================================================
