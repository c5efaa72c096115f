----------------------------- MODULE PrefixMerging -----------------------------
(***************************************************************************)
(* The trajectory builders: the completions stored for a session become    *)
(* the token-level traces the trainer learns from.  A completion record is *)
(*                                                                         *)
(*   [messages |-> the request's messages, prompt |-> the server's tokens  *)
(*    of them, tokens |-> the tokens sampled, content |-> <<id, logprob>>  *)
(*    of each of them, message |-> the reply, finish |-> why it ended]     *)
(*                                                                         *)
(* Log-probabilities are positive codes, unique to a sampled token; 0 is   *)
(* the 0.0 written for the tokens nobody sampled.                          *)
(***************************************************************************)
EXTENDS Integers, SequencesExt

NoEot == <<"none", 0>>   \* no end-of-turn token is configured or detected

Natural == {"stop", "tool_calls", "stop_sequence"}   \* _NATURAL_STOP_REASONS

\* build_trace_from_completion: log-probabilities are used only when they are
\* paired with exactly the sampled tokens; <<>> is None
TraceOf(c) ==
  LET paired == Len(c.content) > 0 /\ \A i \in DOMAIN c.content : c.content[i][2] > 0
      ids    == [i \in DOMAIN c.content |-> c.content[i][1]]
  IN  [prompt |-> c.prompt, ids |-> c.tokens, mask |-> [i \in DOMAIN c.tokens |-> 1],
       lps |-> IF paired /\ ids = c.tokens
               THEN [i \in DOMAIN ids |-> c.content[i][2]] ELSE <<>>,
       before |-> c.messages, after |-> <<c.message>>, finish |-> c.finish]

\* the validators of Trace: it raises unless the lengths agree and every
\* trainable token has a log-probability
Valid(t) == /\ Len(t.mask) = Len(t.ids)
            /\ t.lps # <<>> => Len(t.lps) = Len(t.ids)
            /\ (\E i \in DOMAIN t.mask : t.mask[i] = 1) => t.lps # <<>>

(***************************************************************************)
(* Grouping: a completion joins the chain with the longest tip, the prompt *)
(* of its last completion, that its own prompt begins with.                *)
(***************************************************************************)
Extends(messages, tip) == tip # <<>> /\ IsPrefix(tip, messages)

FindExtendableChain(messages, tips) ==
  LET fits == {i \in DOMAIN tips : Extends(messages, tips[i])}
  IN  IF fits = {} THEN Len(tips) + 1
      ELSE CHOOSE i \in fits : \A j \in fits :
             \/ Len(tips[j]) < Len(tips[i])
             \/ Len(tips[j]) = Len(tips[i]) /\ i <= j

Routed(g, c) ==
  LET i == FindExtendableChain(c.messages, g.tips)
  IN  IF i > Len(g.tips)
      THEN [chains |-> Append(g.chains, <<c>>), tips |-> Append(g.tips, c.messages)]
      ELSE [chains |-> [g.chains EXCEPT ![i] = Append(@, c)],
            tips |-> [g.tips EXCEPT ![i] = c.messages]]

Chains(completions) ==
  FoldLeft(Routed, [chains |-> <<>>, tips |-> <<>>], completions).chains

(***************************************************************************)
(* Finalization: the raw tokens of each reply, and between two replies the *)
(* tokens of the later prompt that follow the earlier reply's copy in it.  *)
(***************************************************************************)
EotOf(configured, chain) ==
  LET ends == {i \in DOMAIN chain : chain[i].finish \in Natural /\ chain[i].tokens # <<>>}
  IN  IF configured # NoEot \/ ends = {} THEN configured
      ELSE Last(chain[CHOOSE i \in ends : \A j \in ends : i <= j].tokens)

\* how much of the previous prompt the next one begins with: all of it, or all
\* but the last token, which the reply's first may have been merged into
SharedPrefix(previous, next) ==
  IF IsPrefix(previous, next) THEN Len(previous)
  ELSE IF IsPrefix(Front(previous), next) THEN Len(previous) - 1 ELSE 0

\* the place of the end-of-turn token in the tail, 0 if there is none
EotAt(tail, eot) == SelectInSeq(tail, LAMBDA t : t = eot)

MutSliceInterstitial(tail, raw, eot) == SubSeq(tail, EotAt(tail, eot), Len(tail))

SliceInterstitial(tail, raw, eot) ==
  LET k == EotAt(tail, eot)
  IN  IF raw # <<>> /\ Last(raw) = eot THEN SubSeq(tail, k + 1, Len(tail))
      ELSE SubSeq(tail, k, Len(tail))

Glue(tokens) == [i \in DOMAIN tokens |-> 0]

AppendResponse(m, t, c) ==
  [m EXCEPT !.ids = @ \o t.ids, !.mask = @ \o t.mask, !.lps = @ \o t.lps,
            !.after = @ \o t.after, !.count = @ + Len(t.after),
            !.prompt = t.prompt, !.raw = t.ids, !.kept = Append(@, c)]

\* one completion of a chain, after the first: merged, unless the chain broke
Merged(eot, m, c) ==
  LET t    == TraceOf(c)
      n    == SharedPrefix(m.prompt, t.prompt)
      tail == SubSeq(t.prompt, n + 1, Len(t.prompt))
      gap  == SliceInterstitial(tail, m.raw, eot)
      new  == SubSeq(t.before, m.count + 1, Len(t.before))
  IN  IF m.broken \/ n = 0 \/ eot = NoEot \/ EotAt(tail, eot) = 0
      THEN [m EXCEPT !.broken = TRUE]
      ELSE AppendResponse([m EXCEPT !.ids = @ \o gap, !.mask = @ \o Glue(gap),
                                    !.lps = @ \o Glue(gap), !.after = @ \o new,
                                    !.count = @ + Len(new)], t, c)

\* the trace of a chain whose replies were merged to m
FinalTrace(first, m) ==
  [prompt |-> first.prompt, ids |-> m.ids, mask |-> m.mask, lps |-> m.lps,
   before |-> first.before, after |-> m.after, finish |-> Last(m.kept).finish,
   kept |-> m.kept, broken |-> m.broken]

FinalizeChain(configured, chain) ==
  LET first == TraceOf(chain[1])
      empty == [ids |-> <<>>, mask |-> <<>>, lps |-> <<>>, after |-> <<>>,
                count |-> Len(first.before), prompt |-> <<>>, raw |-> <<>>,
                kept |-> <<>>, broken |-> FALSE]
      eot   == EotOf(configured, chain)
  IN  FinalTrace(first, FoldLeft(LAMBDA s, c : Merged(eot, s, c),
                                 AppendResponse(empty, first, chain[1]), Tail(chain)))

\* PrefixMergingBuilder.build
Build(configured, completions) ==
  FoldLeft(LAMBDA traces, chain : Append(traces, FinalizeChain(configured, chain)),
           <<>>, Chains(completions))

\* PerRequestBuilder.build
PerRequest(completions) == [i \in DOMAIN completions |-> TraceOf(completions[i])]

\* a builder raises, and the session has no trajectory, when a trace is invalid
Buildable(traces, completions) ==
  /\ \A i \in DOMAIN completions : Valid(TraceOf(completions[i]))
  /\ \A i \in DOMAIN traces : Valid(traces[i])
================================================================================
