--------------------------------- MODULE Losses ---------------------------------
(***************************************************************************)
(* The policy loss of molt/models/loss.py over a batch of rows by step.    *)
(* Log-probabilities are integers, to base 2, and a ratio is counted in    *)
(* quarters, so that exp is exact for differences from -2 up; a loss is a  *)
(* sum of [over, by] terms: over \div by, kept apart.                      *)
(***************************************************************************)
EXTENDS Integers, SequencesExt

LogRatioLimit == 3                           \* stands for 30.0

Clamp(x, low, high) == Max({low, Min({x, high})})
Ratio(x) == CASE x <= -2 -> 1 [] x = -1 -> 2 [] x = 0 -> 4 [] x = 1 -> 8 [] x = 2 -> 16
              [] OTHER -> 32

SumOver(v, mask) == MapThenSumSet(LAMBDA t : v[t] * mask[t], DOMAIN v)
Steps(mask) == Cardinality({t \in DOMAIN mask : mask[t] = 1})

(***************************************************************************)
(* Surrogates: the loss of one action from its log-ratio x, its advantage  *)
(* and its new and old log-probability.                                    *)
(***************************************************************************)
\* clip: [low, high, dual] in quarters, dual = 0 for none; is: [level, mode, low, high]
\* PolicyLoss.__init__: the settings it does not refuse
Accepted(mode, clip, is) ==
  /\ is.level \in {"seq", "geo"} => is.mode = "mask"
  /\ mode = "dppo" => is.level = "off"
  /\ mode = "cispo" => clip.high >= 4
  /\ clip.dual # 0 => mode = "ppo" /\ clip.dual > 4

Ppo(x, advantage, clip) ==
  LET plain == Ratio(x) * advantage
      bound == Clamp(Ratio(x), 4 - clip.low, 4 + clip.high) * advantage
      least == Min({plain, bound})
  IN  IF clip.dual > 0 /\ advantage < 0 THEN -Max({least, clip.dual * advantage}) ELSE -least

\* its clip.high is a ceiling of the ratio, not a distance from 1
Cispo(x, advantage, logp, clip) == -(Min({Ratio(x), clip.high}) * advantage * logp)

\* the divergence of two probabilities, powers of two from 1/4 up and kept below 1, is above
\* the threshold unless they are the same
Apart(logp, old) == Min({logp, 0}) # Min({old, 0})

Dppo(x, advantage, logp, old) ==
  IF Apart(logp, old) /\ advantage * (Ratio(x) - 4) > 0 THEN 0 ELSE -(Ratio(x) * advantage)

\* gspo is ppo without the dual clip on the ratio of the row
Surrogate(mode, x, advantage, logp, old, clip) ==
  CASE mode = "cispo" -> Cispo(x, advantage, logp, clip)
    [] mode = "dppo"  -> Dppo(x, advantage, logp, old)
    [] OTHER          -> Ppo(x, advantage, clip)

\* the log-ratios that a surrogate works with, each within the limit, or for gspo that of the
\* row, their mean, which is rounded down here
RatiosOf(mode, x, mask) ==
  IF mode = "gspo" THEN [t \in DOMAIN x |-> SumOver(x, mask) \div Max({1, Steps(mask)})]
  ELSE [t \in DOMAIN x |-> Clamp(x[t], -LogRatioLimit, LogRatioLimit)]

(***************************************************************************)
(* The correction for engine and trainer disagreeing on a log-probability: *)
(* a unit is a token, or a sequence by the sum or the mean of its tokens.  *)
(* Bounds are on the log-ratio.                                            *)
(***************************************************************************)
SequenceWithin(level, diff, mask, bounds) ==
  LET sum == IF level = "seq" THEN Clamp(SumOver(diff, mask), -LogRatioLimit, LogRatioLimit)
             ELSE SumOver(diff, mask)
      n   == IF level = "seq" THEN 1 ELSE Max({1, Steps(mask)})
  IN  n * bounds.low <= sum /\ sum <= n * bounds.high

TokenWithin(x, bounds) == bounds.low <= x /\ x <= bounds.high

\* the weights of the tokens of a row, in quarters; "clip" and "trunc" have level "token"
Coefficients(is, diff, mask) ==
  LET whole == SequenceWithin(is.level, diff, mask, is)
      within(t) == IF is.level = "token" THEN TokenWithin(diff[t], is) ELSE whole
  IN  [t \in DOMAIN mask |->
         CASE is.level = "off" -> 4
           [] is.level # "off" /\ is.mode = "mask" -> IF within(t) THEN Ratio(diff[t]) ELSE 0
           [] is.level # "off" /\ is.mode = "clip" -> Ratio(Clamp(diff[t], is.low, is.high))
           [] OTHER -> Ratio(Min({diff[t], is.high}))]

\* PolicyLoss.forward up to the aggregation, for one row
\* [new, old, rollout, advantages, mask]; for dppo the rollout's log-probabilities are the old
LossRow(row, mode, clip, is) ==
  LET old  == IF mode = "dppo" THEN row.rollout ELSE row.old
      x    == <<>> \o RatiosOf(mode, <<>> \o [t \in DOMAIN row.mask |->
                 row.mask[t] * (row.new[t] - old[t])], row.mask)
      a    == <<>> \o [t \in DOMAIN row.mask |-> row.mask[t] * row.advantages[t]]
      diff == <<>> \o [t \in DOMAIN row.mask |->
                 Clamp(old[t] - row.rollout[t], -LogRatioLimit, LogRatioLimit)]
      by   == <<>> \o Coefficients(is, diff, row.mask)
  IN  <<>> \o [t \in DOMAIN row.mask |->
                  by[t] * Surrogate(mode, x[t], a[t], row.new[t], old[t], clip)]

(***************************************************************************)
(* agg_loss: over the action tokens, or the sequences that have any; the   *)
(* batch sizes are those of the whole optimizer step, so that its pieces,  *)
(* on whatever rank and in whatever micro-batch, add up.                   *)
(***************************************************************************)
\* the loss of one row as [over, by], in a batch of tokens and sequences
RowLoss(agg, loss, mask, tokens, sequences) ==
  CASE agg = "token-mean" -> [over |-> SumOver(loss, mask), by |-> tokens]
    [] agg = "seq-mean-token-sum" -> [over |-> SumOver(loss, mask), by |-> sequences]
    [] OTHER -> [over |-> SumOver(loss, mask), by |-> sequences * Max({1, Steps(mask)})]

PolicyLoss(rows, agg, mode, clip, is) ==
  LET tokens    == MapThenSumSet(LAMBDA i : Steps(rows[i].mask), DOMAIN rows)
      sequences == Cardinality({i \in DOMAIN rows : Steps(rows[i].mask) > 0})
  IN  [i \in DOMAIN rows |->
         RowLoss(agg, LossRow(rows[i], mode, clip, is), rows[i].mask, tokens, sequences)]
================================================================================
