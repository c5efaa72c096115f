----------------------------- MODULE Conversation ------------------------------
(***************************************************************************)
(* A session's conversations with the model, through the gateway, up to    *)
(* the traces built from them.  A harness keeps the history of each of its *)
(* conversations in its API's own format and sends all of it with every    *)
(* request; the gateway turns it into chat messages; the server renders    *)
(* them to tokens and samples a reply; the completion is stored; the reply *)
(* goes back in the API's format and becomes part of the history.          *)
(***************************************************************************)
EXTENDS ReplyStreams, PrefixMerging

CONSTANTS Shapes,          \* the replies the model gives
          Servers,         \* how prompts are rendered: [keeps, limit]
          MaxCompletions,
          MaxAside         \* how often the harness may do other than append

ASSUME BoundsAssumption == MaxCompletions \in Nat /\ MaxAside \in Nat

VARIABLES api,     \* the API the harness speaks
          server,  \* the chat template keeps reasoning; the prompt's token limit
          convs,   \* conversations: [system, turns, asks, waits]
          log,     \* the stored completions, oldest first
          odd      \* what the harness did other than appending to histories

vars == <<api, server, convs, log, odd>>

(***************************************************************************)
(* The harness: turns in the format of its API.                            *)
(***************************************************************************)
ByKind(v) == [i \in DOMAIN v |-> Item(IF v[i][1] = "img" THEN "image" ELSE "text", <<v[i]>>)]

UserTurn(v) ==
  [role |-> "user",
   items |-> CASE api = "openai_chat" -> <<Msg("user", v)>>
               [] api = "openai_responses" -> <<[Item("message", v) EXCEPT !.role = "user"]>>
               [] OTHER -> ByKind(v)]

HarnessResult(c, v) ==
  CASE api = "anthropic" -> [ResultItem("tool_result", c.id, v) EXCEPT
                               !.name = IF Images(v) = <<>> THEN "is_error" ELSE ""]
    [] api = "google" -> ResultItem("functionResponse", c.id, v)
    [] api = "openai_responses" ->
         ResultItem(IF c.name \in Shell THEN "local_shell_call_output" ELSE "function_call_output",
                    c.id, v)
    [] OTHER -> ToolMsg(c.id, Texts(v))

\* the results of the calls, and with them perhaps a word of the user
ResultTurn(calls, v, more) ==
  [role |-> "user",
   items |-> [i \in DOMAIN calls |-> HarnessResult(calls[i], v)]
          \o (IF more = <<>> THEN <<>> ELSE UserTurn(more).items)]

ReplyTurn(items) ==
  [role |-> IF api = "google" THEN "model" ELSE "assistant", items |-> items]

\* the request's body; Claude Code's system prompt begins with a line that
\* differs from request to request
Body(c) == [system |-> (IF api = "anthropic" THEN << <<"billing", Len(log)>> >> ELSE <<>>)
                         \o convs[c].system,
            turns |-> convs[c].turns]

\* how requests are addressed: by the path of their API or, those of a
\* sub-agent, so that only their headers and keys tell the API
Door(c) ==
  LET bare(headers, keys) == [path |-> "", headers |-> headers, keys |-> keys]
      by(path, door) == IF c = 1 THEN [door EXCEPT !.path = path] ELSE door
  IN  CASE api = "anthropic" -> by("/v1/messages", bare({"anthropic-version"}, {"messages"}))
        [] api = "google" -> by("generateContent", bare({}, {"contents"}))
        [] api = "openai_responses" -> by("/v1/responses", bare({}, {"input", "instructions"}))
        [] OTHER -> by("/v1/chat/completions", bare({}, {"messages"}))

(***************************************************************************)
(* The inference server: the tokens of messages, and of replies.           *)
(***************************************************************************)
Eot == <<"eot", 0>>
Dot == <<"dot", 0>>    \* a token that ends many a text

\* how a text is tokenized when a prompt is rendered
Written(a) == CASE a[1] \in {"text", "ntext"} -> << <<"text", a[2]>>, Dot >>
                [] a[1] = "cut" -> << <<"text", a[2]>> >>
                [] a[1] = "null" -> <<>>
                [] OTHER -> <<a>>
AllWritten(v) == FlattenSeq([i \in DOMAIN v |-> Written(v[i])])

\* a reply that begins with a newline merges with the newline before it
Opening(m) == m.reasoning \o SelectSeq(m.content, LAMBDA a : a[1] # "null")
Header(m) == << <<m.role, 0>>,
               <<IF Opening(m) # <<>> /\ Opening(m)[1][1] = "ntext" THEN "nlnl" ELSE "nl", 0>> >>

TokensOf(m, reasoning) ==
  Header(m) \o (IF reasoning THEN m.reasoning ELSE <<>>) \o AllWritten(m.content)
    \o [i \in DOMAIN m.calls |-> <<"call", m.calls[i].id>>] \o <<Eot>>

\* a template that does not keep reasoning drops it before the last user message
Render(messages) ==
  LET asked == SelectLastInSeq(messages, LAMBDA m : m.role = "user")
      all   == FlattenSeq([i \in DOMAIN messages |->
                             TokensOf(messages[i], server.keeps \/ i > asked)])
               \o << <<"assistant", 0>>, <<"nl", 0>> >>
  IN  IF Len(all) <= server.limit THEN all
      ELSE SubSeq(all, Len(all) - server.limit + 1, Len(all))

\* the reply of a shape as the n-th completion of the session
ReplyOf(shape, n) ==
  [reasoning |-> IF shape.thinks THEN << <<"reason", n>> >> ELSE <<>>,
   content |-> IF shape.says = "" THEN NoContent ELSE << <<shape.says, n>> >>,
   calls |-> [i \in DOMAIN shape.calls |->
                [id |-> 10 * n + i, name |-> shape.calls[i],
                 args |-> << <<IF shape.calls[i] = "shell" THEN "bad" ELSE "json", n>> >>]],
   finish |-> shape.finish]

\* the tokens sampled: not those the text would be tokenized to
Sampled(r, ends) ==
  LET raw(t) == IF t = Dot THEN t ELSE <<"raw_" \o t[1], t[2]>>
      all    == r.reasoning \o AllWritten(r.content)
                  \o [i \in DOMAIN r.calls |-> <<"call", r.calls[i].id>>]
  IN  [i \in DOMAIN all |-> raw(all[i])] \o (IF ends THEN <<Eot>> ELSE <<>>)

\* the server's answer: with log-probabilities of the tokens, or short of them
Answers(r, ends, n) ==
  LET tokens == Sampled(r, ends)
      lps    == [i \in DOMAIN tokens |-> 100 * n + i]
  IN  {[tokens |-> tokens, lps |-> p] : p \in {lps, Tail(lps), [lps EXCEPT ![1] = 0]}}

MutContract(a) == Len(a.lps) = Len(a.tokens)

\* InferenceClient.completion: what it accepts from the server
Contract(a) == Len(a.lps) = Len(a.tokens) /\ \A i \in DOMAIN a.lps : a.lps[i] > 0

(***************************************************************************)
(* Actions.                                                                *)
(***************************************************************************)
Conv(n, v) == [system |-> << <<"sys", n>> >>, turns |-> <<UserTurn(v)>>, asks |-> TRUE,
               waits |-> <<>>]

Init == /\ api \in APIs /\ server \in Servers
        /\ convs = <<Conv(1, << <<"user", 0>> >>)>>
        /\ log = <<>> /\ odd = 0

GoesOn == Len(log) < MaxCompletions
Aside == odd + Len(convs) <= MaxAside

\* A request of a conversation, answered or not: the gateway stores the
\* completion either way.  An answer that was lost is asked for again.
Ask(c, shape, lost) ==
  /\ convs[c].asks /\ GoesOn
  /\ lost => Aside
  /\ LET n == Len(log) + 1
         r == ReplyOf(shape, n)
         messages == TransformRequest(Detect(Door(c)), Body(c))
     IN  \E a \in Answers(r, shape.ends, n) :
             /\ Contract(a)
             /\ log' = Append(log,
                  [conv |-> c, n |-> n, reply |-> r, messages |-> messages,
                   prompt |-> Render(messages), tokens |-> a.tokens, finish |-> r.finish,
                   message |-> Assistant(r.content, r.reasoning, r.calls),
                   content |-> [i \in DOMAIN a.tokens |-> <<a.tokens[i], a.lps[i]>>]])
             /\ convs' = IF lost THEN convs
                         ELSE [convs EXCEPT
                                 ![c].turns = Append(@, ReplyTurn(
                                   TransformResponse(Detect(Door(c)), r).items)),
                                 ![c].asks = FALSE, ![c].waits = r.calls]
  /\ odd' = odd + (IF lost THEN 1 ELSE 0)
  /\ UNCHANGED <<api, server>>

\* what a user or a tool says when n completions are stored, every other time
\* with an image
News == << <<"user", Len(log)>> >>
        \o (IF Len(log) % 2 = 1 THEN << <<"img", Len(log)>> >> ELSE <<>>)

Continue(c, turn) == convs' = [convs EXCEPT ![c].turns = Append(@, turn), ![c].asks = TRUE,
                                         ![c].waits = <<>>]

\* the calls of the reply have results
Results(c, more) ==
  /\ GoesOn /\ ~convs[c].asks /\ convs[c].waits # <<>>
  /\ Continue(c, ResultTurn(convs[c].waits, News, more))
  /\ UNCHANGED <<api, server, log, odd>>

\* the user, or the harness in the user's name, goes on
GoOn(c) ==
  /\ GoesOn /\ ~convs[c].asks /\ convs[c].waits = <<>>
  /\ Continue(c, UserTurn(News))
  /\ UNCHANGED <<api, server, log, odd>>

\* the harness adds an instruction of its own to the history
Instruct(c) ==
  /\ GoesOn /\ ~convs[c].asks /\ convs[c].waits = <<>> /\ Aside
  /\ api \in {"openai_chat", "openai_responses"}
  /\ LET note == << <<"note", Len(log)>> >>
         item == IF api = "openai_chat" THEN Msg("developer", note)
                 ELSE [Item("message", note) EXCEPT !.role = "developer"]
     IN  Continue(c, [role |-> "user", items |-> <<item>> \o UserTurn(News).items])
  /\ odd' = odd + 1
  /\ UNCHANGED <<api, server, log>>

\* the history has grown too long: a summary takes its place
Compact(c) ==
  /\ GoesOn /\ ~convs[c].asks /\ Aside
  /\ convs' = [convs EXCEPT ![c] = [Conv(c, << <<"summary", Len(log)>> >>)
                                     EXCEPT !.system = convs[c].system]]
  /\ odd' = odd + 1
  /\ UNCHANGED <<api, server, log>>

\* a sub-agent begins, with a task of its own or as a fork of the conversation
Spawn(c, fork) ==
  /\ GoesOn /\ log # <<>> /\ Aside
  /\ fork => ~convs[c].asks /\ convs[c].waits = <<>>
  /\ LET n == Len(convs) + 1
         v == << <<"task", Len(log)>> >>
     IN  convs' = Append(convs, IF fork
                                THEN [convs[c] EXCEPT !.turns = Append(@, UserTurn(v)), !.asks = TRUE]
                                ELSE Conv(n, v))
  /\ odd' = odd + (IF fork THEN 1 ELSE 0)
  /\ UNCHANGED <<api, server, log>>

Next == \E c \in DOMAIN convs :
          \/ \E shape \in Shapes, lost \in BOOLEAN : Ask(c, shape, lost)
          \/ \E more \in {<<>>, << <<"more", Len(log)>> >>} : Results(c, more)
          \/ GoOn(c)
          \/ Instruct(c)
          \/ Compact(c)
          \/ \E fork \in BOOLEAN : Spawn(c, fork)

Spec == Init /\ [][Next]_vars

(***************************************************************************)
(* Properties of the traces.                                               *)
(***************************************************************************)
Configured == {NoEot, Eot}   \* the builder is told the end-of-turn token, or finds it

LogprobsOf(completions) ==
  FlattenSeq([i \in DOMAIN completions |->
                [j \in DOMAIN completions[i].content |-> completions[i].content[j][2]]])

SampledIn(ts) ==
  /\ Buildable(ts, log)
  /\ \A i \in DOMAIN ts :
       /\ SelectSeq(ts[i].lps, LAMBDA p : p > 0) = LogprobsOf(ts[i].kept)
       /\ \A k \in DOMAIN ts[i].ids :
            IF ts[i].mask[k] = 0 THEN ts[i].lps[k] = 0
            ELSE LET p == ts[i].lps[k]
                 IN  p > 0 /\ ts[i].ids[k] = log[p \div 100].tokens[p % 100]
  /\ \A c \in DOMAIN log :
       Cardinality({i \in DOMAIN ts : \E k \in DOMAIN ts[i].kept : ts[i].kept[k].n = c})
         \in (IF \E i \in DOMAIN ts : ts[i].broken THEN {0, 1} ELSE {1})

\* A build never fails, and every token the model sampled is trained on at most
\* once, under its own log-probability and mask 1; all the others have mask 0
\* and 0.0.  A completion is trained on as a whole or not at all, and only what
\* follows the first break of a chain is left out (prefix_merging.py:128).
SampledOnce == \A e \in Configured : SampledIn(Build(e, log))

\* a token as it is in a rendered prompt, whoever wrote it
Canonical(t) == CASE t[1] \in {"raw_text"} -> <<"text", t[2]>>
                  [] t[1] = "raw_call" -> <<"call", t[2]>>
                  [] t[1] = "nlnl" -> <<"nl", 0>>
                  [] OTHER -> t
Context(tokens) ==
  LET seen == SelectSeq(tokens, LAMBDA t : t[1] \notin {"reason", "raw_reason"})
  IN  [i \in DOMAIN seen |-> Canonical(seen[i])]

\* a reply that Responses replays as a message and, apart from it, its calls
Split(c) == api = "openai_responses" /\ c.reply.content # NoContent /\ c.reply.calls # <<>>

FaithfulIn(e, ts) ==
  \A i \in DOMAIN ts : \A k \in DOMAIN ts[i].kept :
    LET t == ts[i]
        c == t.kept[k]
        p == SelectInSeq(t.lps, LAMBDA x : x = c.content[1][2])
    IN  \/ Context(t.prompt \o SubSeq(t.ids, 1, p - 1)) = Context(c.prompt)
        \/ EotOf(e, t.kept) # Eot
        \/ \E j \in 1..(k - 1) : Split(t.kept[j])

\* What stands before a reply in its trace is the prompt the reply was sampled
\* from, but for the earlier replies, which stand as they were sampled, and the
\* reasoning in them.  Excluded are chains whose end-of-turn token was taken
\* from a reply that did not end with it, and replies split in the replay.
ContextFaithful == \A e \in Configured : FaithfulIn(e, Build(e, log))

CallsCopied(ts) ==
  \E i \in DOMAIN ts : \E k \in DOMAIN ts[i].ids :
    LET t == ts[i].ids[k]
    IN  /\ ts[i].mask[k] = 0 /\ t[1] = "call"
        /\ \E j \in DOMAIN ts[i].kept : \E x \in DOMAIN ts[i].kept[j].reply.calls :
             ts[i].kept[j].reply.calls[x].id = t[2]

\* What stands between two replies of a trace is what the environment said:
\* tool results, the user's turns and the template's glue, never a copy of a
\* call the model made in a reply that is in the trace already
\* (prefix_merging.py:22).
InterstitialsAreNotReplies == \A e \in Configured : ~CallsCopied(Build(e, log))

\* a reply the API can replay: the others leave no item behind, or only
\* reasoning, which Responses holds back for a later message
Replayable(c) ==
  \/ api \in {"openai_chat", "anthropic"}
  \/ /\ api = "google"
     /\ c.reply.content # NoContent \/ c.reply.calls # <<>> \/ c.reply.reasoning # <<>>
  \/ api = "openai_responses" /\ ((c.reply.content = NoContent) # (c.reply.calls = <<>>))

\* While the harness only appends, whatever its API, each conversation becomes
\* one trace with all its replies: the transforms turn a history that grew into
\* messages that grew, and the server these into tokens that grew.
AppendingMerges ==
  \A e \in Configured :
    LET ts == Build(e, log)
        of(c) == SelectSeq(log, LAMBDA x : x.conv = c)
    IN  odd = 0 /\ server.keeps /\ (\A i \in DOMAIN log : Len(log[i].prompt) < server.limit)
          /\ (\A i \in DOMAIN log : Replayable(log[i]))
          /\ (\A c \in DOMAIN convs : of(c) = <<>> \/ EotOf(e, of(c)) = Eot)
        => {ts[i].kept : i \in DOMAIN ts} = {of(c) : c \in DOMAIN convs} \ {<<>>}

(***************************************************************************)
(* Properties of requests and replies.                                     *)
(***************************************************************************)
ToolLists == {<<>>, <<[kind |-> "function", name |-> "read"]>>,
              <<[kind |-> "server", name |-> "web_search"]>>,
              <<[kind |-> "shell", name |-> ""], [kind |-> "function", name |-> "read"]>>}
ToolChoices == {[mode |-> m, name |-> "read"] :
                  m \in {"absent", "auto", "any", "none", "named", "shell"}}

\* Every request has at most one system message, in the first place; each tool
\* message answers a call of an earlier assistant message; and the transforms of
\* the other three APIs forward no tool choice without a tool, as that of
\* openai_chat does (openai_chat.py:13).
RequestsValid ==
  /\ \A c \in DOMAIN log : \A i \in DOMAIN log[c].messages :
       LET ms == log[c].messages
       IN  /\ ms[i].role \in {"system", "developer"} => i = 1 /\ ms[i].role = "system"
           /\ ms[i].role = "tool" =>
                \E j \in 1..(i - 1) : \E k \in DOMAIN ms[j].calls : ms[j].calls[k].id = ms[i].id
  /\ log = <<>> => \A tools \in ToolLists, choice \in ToolChoices :
       LET o == Offered(api, tools, choice)
       IN  api = "openai_chat" \/ (o.choice # "absent" => o.tools # <<>>)

\* the items of a reply; a stream has a shell call as the function call it is made from
Neutral(items) ==
  [i \in DOMAIN items |->
     IF api = "openai_responses" /\ items[i].type = "function_call" /\ items[i].name \in Shell
     THEN CallItem("local_shell_call", [items[i] EXCEPT !.args = ShellAction(@)])
     ELSE items[i]]

Agree(s, whole) == s.ok /\ Neutral(s.items) = Neutral(whole.items) /\ s.stop = whole.stop

\* A client that reads the last reply as a stream, of the one chunk the gateway
\* sends or of many, has the same items, each call with its own arguments, and
\* the same end as one that reads it whole, and the events keep to the API's
\* protocol.  A shell call of Responses is a local_shell_call only when whole.
StreamsAgree ==
  log # <<>> =>
    LET r == Last(log).reply
    IN  \A chunks \in {OneChunk(r), Pieces(r)} :
          Agree(Streamed(api, chunks), TransformResponse(api, r))
================================================================================
