------------------------------ MODULE Transforms -------------------------------
(***************************************************************************)
(* What the gateway makes of a request in each of the four APIs, and what  *)
(* it gives back for a reply, whole or as a stream.                        *)
(*                                                                         *)
(* Contents are sequences of atoms <<kind, id>>: a string is the sequence  *)
(* of its lines, a list of parts the sequence of the parts, an image being *)
(* an "img" atom, so that joining texts is concatenation.  NoContent is    *)
(* None.  A block, part or item of an API is a record with one shape.      *)
(***************************************************************************)
EXTENDS Integers, SequencesExt

APIs == {"anthropic", "openai_chat", "openai_responses", "google"}
NoContent == << <<"null", 0>> >>
Shell == {"shell", "execute", "run_command"}   \* the names of local shell tools

Images(v) == SelectSeq(v, LAMBDA a : a[1] = "img")
Texts(v)  == SelectSeq(v, LAMBDA a : a[1] \notin {"img", "null"})

\* a message of the Chat Completions API
Msg(role, content) ==
  [role |-> role, content |-> content, reasoning |-> <<>>, calls |-> <<>>, id |-> 0]
Assistant(content, reasoning, calls) ==
  [Msg("assistant", content) EXCEPT !.reasoning = reasoning, !.calls = calls]
ToolMsg(id, content) == [Msg("tool", content) EXCEPT !.id = id]

\* a block of Anthropic, a part of Google, an item of Responses
Item(type, v) == [type |-> type, role |-> "", v |-> v, id |-> 0, name |-> "", args |-> <<>>]
CallItem(type, c) == [Item(type, <<>>) EXCEPT !.id = c.id, !.name = c.name, !.args = c.args]
ResultItem(type, id, v) == [Item(type, v) EXCEPT !.id = id]
Call(b) == [id |-> b.id, name |-> b.name, args |-> b.args]

OfType(items, types) == SelectSeq(items, LAMBDA b : b.type \in types)
Joined(items) == FlattenSeq([i \in DOMAIN items |-> items[i].v])
CallsOf(items) == [i \in DOMAIN items |-> Call(items[i])]

MutSystemFirst(messages) == messages

\* BaseTransformer._merge_developer_role: one system message, at the top
SystemFirst(messages) ==
  LET system(m) == m.role \in {"system", "developer"}
      of   == SelectSeq(messages, system)
      text == FlattenSeq([i \in DOMAIN of |-> Texts(of[i].content)])
      rest == SelectSeq(messages, LAMBDA m : ~system(m))
  IN  IF text = <<>> THEN rest ELSE <<Msg("system", text)>> \o rest

\* the texts and images of a tool's result: images follow in a user message
ResultMessages(id, text, images) ==
  <<ToolMsg(id, text)>> \o (IF images = <<>> THEN <<>> ELSE <<Msg("user", images)>>)

(***************************************************************************)
(* Arguments of a tool call: JSON, or a text that is none ("bad").         *)
(***************************************************************************)
IsJson(args) == args # <<>> /\ \A i \in DOMAIN args : args[i][1] # "bad"
ParseJsonSafe(args) == IF IsJson(args) THEN args ELSE <<>>         \* {}
ParseArguments(args) ==                                            \* {}, {"raw": ..}
  IF args = <<>> \/ IsJson(args) THEN args ELSE << <<"raw", args[1][2]>> >>
\* the commands of a shell call, and its arguments again: a text that is no JSON
\* is the command, and of other keys only two limits are kept
ShellAction(args) == [i \in DOMAIN args |-> <<"cmd", args[i][2]>>]
ShellArguments(action) == [i \in DOMAIN action |-> <<"json", action[i][2]>>]

(***************************************************************************)
(* Anthropic: [system |-> v, turns |-> sequence of [role, items]].         *)
(***************************************************************************)
StripBilling(v) == IF v # <<>> /\ v[1][1] = "billing" THEN Tail(v) ELSE v

AnthropicContent(blocks) == Joined(OfType(blocks, {"text", "image", "document"}))
Thinking(blocks) == Joined(OfType(blocks, {"thinking"}))

\* the result of a tool, a failed one marked as such
AnthropicResult(b) ==
  ResultMessages(b.id,
                 (IF b.name = "is_error" THEN << <<"error", 0>> >> ELSE <<>>) \o Texts(b.v),
                 Images(b.v))

AnthropicMessages(turn) ==
  LET uses    == OfType(turn.items, {"tool_use"})
      texts   == OfType(turn.items, {"text"})
      results == OfType(turn.items, {"tool_result"})
  IN  CASE turn.role = "assistant" /\ uses # <<>> ->
             <<Assistant(IF texts = <<>> THEN NoContent ELSE Joined(texts),
                         Thinking(turn.items), CallsOf(uses))>>
        [] turn.role = "user" /\ results # <<>> ->
             FlattenSeq([i \in DOMAIN results |-> AnthropicResult(results[i])])
               \o (IF Joined(texts) = <<>> THEN <<>> ELSE <<Msg("user", Joined(texts))>>)
        [] turn.role = "assistant" /\ uses = <<>> ->
             <<Assistant(AnthropicContent(turn.items), Thinking(turn.items), <<>>)>>
        [] OTHER -> <<Msg(turn.role, AnthropicContent(turn.items))>>

AnthropicRequest(body) ==
  LET system == StripBilling(Texts(body.system))
  IN  SystemFirst((IF system = <<>> THEN <<>> ELSE <<Msg("system", system)>>)
        \o FlattenSeq([i \in DOMAIN body.turns |-> AnthropicMessages(body.turns[i])]))

StopReason(finish) ==
  CASE finish = "length" -> "max_tokens" [] finish = "tool_calls" -> "tool_use"
    [] finish = "stop_sequence" -> "stop_sequence" [] OTHER -> "end_turn"

AnthropicResponse(r) ==
  LET blocks == (IF r.reasoning = <<>> THEN <<>> ELSE <<Item("thinking", r.reasoning)>>)
             \o (IF Texts(r.content) = <<>> THEN <<>> ELSE <<Item("text", r.content)>>)
             \o [i \in DOMAIN r.calls |-> CallItem("tool_use",
                   [r.calls[i] EXCEPT !.args = ParseJsonSafe(@)])]
  IN  [items |-> IF blocks = <<>> THEN <<Item("text", <<>>)>> ELSE blocks,
       stop |-> StopReason(r.finish)]

(***************************************************************************)
(* Google: a model's turn is one assistant message; what a user's turn     *)
(* says comes before the results it carries.                               *)
(***************************************************************************)
GoogleContent(parts) == Joined(OfType(parts, {"text", "image"}))
Thoughts(parts) == Joined(OfType(parts, {"thought"}))

GoogleMessages(turn) ==
  LET content == GoogleContent(turn.items)
      thought == Thoughts(turn.items)
      calls   == CallsOf(OfType(turn.items, {"functionCall"}))
      results == OfType(turn.items, {"functionResponse"})
  IN  CASE turn.role = "model" ->
             IF content = <<>> /\ calls = <<>> /\ thought = <<>> THEN <<>>
             ELSE <<Assistant(content, thought, calls)>>
        [] turn.role \in {"system", "developer"} ->
             IF Texts(content) = <<>> THEN <<>> ELSE <<Msg("system", Texts(content))>>
        [] OTHER ->
             (IF OfType(turn.items, {"text", "image"}) = <<>> THEN <<>>
              ELSE <<Msg("user", content)>>)
             \o [i \in DOMAIN results |-> ToolMsg(results[i].id, Texts(results[i].v))]

GoogleRequest(body) ==
  SystemFirst((IF Texts(body.system) = <<>> THEN <<>> ELSE <<Msg("system", Texts(body.system))>>)
    \o FlattenSeq([i \in DOMAIN body.turns |-> GoogleMessages(body.turns[i])]))

GoogleFinish(finish) == IF finish = "length" THEN "MAX_TOKENS" ELSE "STOP"

ToolCallPart(c) == CallItem("functionCall", [c EXCEPT !.args = ParseArguments(@)])

GoogleResponse(r) ==
  [items |-> (IF r.reasoning = <<>> THEN <<>> ELSE <<Item("thought", r.reasoning)>>)
          \o (IF Texts(r.content) = <<>> THEN <<>> ELSE <<Item("text", r.content)>>)
          \o [i \in DOMAIN r.calls |-> ToolCallPart(r.calls[i])],
   stop |-> GoogleFinish(r.finish)]

(***************************************************************************)
(* Responses: the input items are read one by one; calls, results, plain   *)
(* inputs and reasoning are held until an item shows where they belong.    *)
(***************************************************************************)
ToolBlock(s) ==
  (IF s.calls = <<>> THEN <<>> ELSE <<Assistant(NoContent, s.reason, s.calls)>>) \o s.outs

FlushTools(s) ==
  IF s.calls = <<>> /\ s.outs = <<>> THEN s
  ELSE [s EXCEPT !.out = @ \o ToolBlock(s), !.calls = <<>>, !.outs = <<>>, !.reason = <<>>]

FlushInput(s) ==
  IF s.input = <<>> THEN s ELSE [s EXCEPT !.out = Append(@, Msg("user", s.input)), !.input = <<>>]

ShellCall(b) == [Call(b) EXCEPT !.name = "shell", !.args = ShellArguments(@)]
ResponsesResult(b) == ResultMessages(b.id, Texts(b.v), Images(b.v))

MutNextBlock(s) == s

\* a new block of reasoning or calls begins once the last block has results
NextBlock(s) == IF s.outs = <<>> THEN s ELSE FlushTools(s)

ConvertItem(s, b) ==
  CASE b.type = "reasoning" -> [NextBlock(s) EXCEPT !.reason = @ \o b.v]
    [] b.type \in {"input_text", "input_image"} -> [FlushTools(s) EXCEPT !.input = @ \o b.v]
    [] b.type = "message" ->
         LET t == FlushTools(FlushInput(s))
         IN  IF b.role = "assistant"
             THEN [t EXCEPT !.out = Append(@, Assistant(b.v, t.reason, <<>>)), !.reason = <<>>]
             ELSE [t EXCEPT !.out = Append(@, Msg(b.role, b.v))]
    [] b.type = "function_call" -> [NextBlock(FlushInput(s)) EXCEPT !.calls = Append(@, Call(b))]
    [] b.type = "local_shell_call" ->
         [NextBlock(FlushInput(s)) EXCEPT !.calls = Append(@, ShellCall(b))]
    [] b.type \in {"function_call_output", "local_shell_call_output"} ->
         [FlushInput(s) EXCEPT !.outs = @ \o ResponsesResult(b)]
    [] OTHER ->
         LET t == FlushTools(FlushInput(s))
         IN  IF b.type = "" /\ b.v # <<>> THEN [t EXCEPT !.out = Append(@, Msg(b.role, b.v))] ELSE t

InputMessages(items) ==
  LET empty == [out |-> <<>>, calls |-> <<>>, outs |-> <<>>, input |-> <<>>, reason |-> <<>>]
      read  == FlushInput(FoldLeft(ConvertItem, empty, items))
      end   == FlushTools(read)
  IN  end.out \o (IF end.reason = <<>> THEN <<>> ELSE <<Assistant(NoContent, end.reason, <<>>)>>)

ResponsesRequest(body) ==
  SystemFirst((IF body.system = <<>> THEN <<>> ELSE <<Msg("system", body.system)>>)
    \o InputMessages(FlattenSeq([i \in DOMAIN body.turns |-> body.turns[i].items])))

ResponsesResponse(r) ==
  [items |-> (IF r.reasoning = <<>> THEN <<>> ELSE <<Item("reasoning", r.reasoning)>>)
          \o (IF Texts(r.content) = <<>> THEN <<>>
              ELSE <<[Item("message", r.content) EXCEPT !.role = "assistant"]>>)
          \o [i \in DOMAIN r.calls |->
                IF r.calls[i].name \in Shell
                THEN CallItem("local_shell_call", [r.calls[i] EXCEPT !.args = ShellAction(@)])
                ELSE CallItem("function_call", r.calls[i])],
   stop |-> "completed"]

(***************************************************************************)
(* Chat Completions: messages and replies pass as they are.                *)
(***************************************************************************)
ChatRequest(body) ==
  SystemFirst((IF body.system = <<>> THEN <<>> ELSE <<Msg("system", body.system)>>)
    \o FlattenSeq([i \in DOMAIN body.turns |-> body.turns[i].items]))

ChatResponse(r) == [items |-> <<Assistant(r.content, r.reasoning, r.calls)>>, stop |-> r.finish]

(***************************************************************************)
(* The API of a request, and the transforms it selects.                    *)
(***************************************************************************)
Detect(door) ==
  CASE door.path = "/v1/messages" -> "anthropic"
    [] door.path = "/v1/chat/completions" -> "openai_chat"
    [] door.path = "/v1/responses" -> "openai_responses"
    [] door.path = "generateContent" -> "google"
    [] OTHER -> CASE "anthropic-version" \in door.headers -> "anthropic"
                  [] "contents" \in door.keys -> "google"
                  [] {"input", "instructions"} \subseteq door.keys -> "openai_responses"
                  [] OTHER -> "openai_chat"

TransformRequest(api, body) ==
  CASE api = "anthropic" -> AnthropicRequest(body)
    [] api = "google" -> GoogleRequest(body)
    [] api = "openai_responses" -> ResponsesRequest(body)
    [] OTHER -> ChatRequest(body)

TransformResponse(api, r) ==
  CASE api = "anthropic" -> AnthropicResponse(r)
    [] api = "google" -> GoogleResponse(r)
    [] api = "openai_responses" -> ResponsesResponse(r)
    [] OTHER -> ChatResponse(r)

(***************************************************************************)
(* The tools offered, [kind, name], and the choice among them, [mode,      *)
(* name].  What has no function the agent could run is dropped, and a      *)
(* choice is forwarded only with tools.                                    *)
(***************************************************************************)
Functions(tools) == SelectSeq(tools, LAMBDA t : t.kind = "function" /\ t.name # "")
Names(tools) == [i \in DOMAIN tools |-> tools[i].name]

AnthropicTools(tools) == Names(Functions(tools))
GoogleTools(tools) == Names(Functions(tools))
\* the shell tool of Responses has no name of its own
ResponsesTools(tools) ==
  Names(Functions([i \in DOMAIN tools |-> IF tools[i].kind = "shell"
                                          THEN [kind |-> "function", name |-> "shell"] ELSE tools[i]]))

AnthropicChoice(c) ==
  CASE c.mode = "any" -> "required" [] c.mode = "none" -> "none"
    [] c.mode = "named" -> c.name [] OTHER -> "auto"

GoogleChoice(c) ==
  CASE c.mode = "none" -> "none" [] c.mode = "any" -> "required"
    [] c.mode = "named" -> c.name [] OTHER -> "absent"

ResponsesChoice(c) ==
  CASE c.mode = "any" -> "required" [] c.mode = "named" -> c.name
    [] c.mode = "shell" -> "shell" [] OTHER -> c.mode

\* the tools and the choice of the request that is forwarded
Offered(api, tools, choice) ==
  LET bind(forwarded, chosen) ==
        [tools |-> forwarded, choice |-> IF forwarded = <<>> THEN "absent" ELSE chosen]
  IN  CASE api = "anthropic" -> bind(AnthropicTools(tools), AnthropicChoice(choice))
        [] api = "google" -> bind(GoogleTools(tools), GoogleChoice(choice))
        [] api = "openai_responses" -> bind(ResponsesTools(tools), ResponsesChoice(choice))
        [] OTHER -> [tools |-> Names(tools), choice |-> choice.mode]
================================================================================
