----------------------------- MODULE ReplyStreams ------------------------------
(***************************************************************************)
(* A reply given back as a stream: the states the transformers keep while  *)
(* chunks of the reply pass, the events they emit, and what a client makes *)
(* of the events.  The gateway itself streams a reply it already has as    *)
(* one chunk; the states are written for chunks of any size.               *)
(*                                                                         *)
(* A chunk is [reasoning, content, calls, finish], with calls a sequence   *)
(* of [index, id, name, args]; "" and <<>> are absent.                     *)
(***************************************************************************)
EXTENDS Transforms

Chunk(reasoning, content, calls, finish) ==
  [reasoning |-> reasoning, content |-> content, calls |-> calls, finish |-> finish]
Delta(i, c) == [index |-> i - 1, id |-> c.id, name |-> c.name, args |-> c.args]

\* _response_to_stream_chunk: the whole reply in one chunk
OneChunk(r) ==
  <<Chunk(r.reasoning, Texts(r.content), [i \in DOMAIN r.calls |-> Delta(i, r.calls[i])], r.finish)>>

\* a reply as a server would stream it: names before arguments, then the end
Pieces(r) ==
  <<Chunk(r.reasoning, <<>>, <<>>, "")>>
  \o [i \in DOMAIN Texts(r.content) |-> Chunk(<<>>, <<Texts(r.content)[i]>>, <<>>, "")]
  \o [i \in DOMAIN r.calls |->
        Chunk(<<>>, <<>>, <<[Delta(i, r.calls[i]) EXCEPT !.args = <<>>]>>, "")]
  \o [i \in DOMAIN r.calls |-> Chunk(<<>>, <<>>, <<[Delta(i, r.calls[i]) EXCEPT !.name = ""]>>, "")]
  \o <<Chunk(<<>>, <<>>, <<>>, r.finish)>>

\* the calls heard of so far, with one more delta
Heard(calls, d) ==
  LET known == IF d.index + 1 \in DOMAIN calls THEN calls
               ELSE Append(calls, [id |-> d.id, name |-> "", args |-> <<>>, at |-> -1])
  IN  [known EXCEPT ![d.index + 1].name = IF d.name = "" THEN @ ELSE d.name,
                    ![d.index + 1].args = @ \o d.args]

Event(type, at, item) == [type |-> type, at |-> at, item |-> item]
Emit(s, e) == [s EXCEPT !.events = Append(@, e)]
Started(s) == SelectSeq(s.calls, LAMBDA c : c.at >= 0)

(***************************************************************************)
(* Anthropic: blocks are opened in turn; a thinking or text block is       *)
(* closed when another begins, a tool's when the reply ends.               *)
(***************************************************************************)
AnthropicStart ==
  [next |-> 0, think |-> -1, text |-> -1, calls |-> <<>>, stop |-> "end_turn", events |-> <<>>]

Close(s, block) ==
  IF s[block] < 0 THEN s
  ELSE [Emit(s, Event("stop", s[block], <<>>)) EXCEPT ![block] = -1]

OpenBlock(s, item) == [Emit(s, Event("start", s.next, item)) EXCEPT !.next = @ + 1]

Think(s, v) ==
  LET t == IF s.think >= 0 THEN s
           ELSE [OpenBlock(s, Item("thinking", <<>>)) EXCEPT !.think = s.next]
  IN  IF v = <<>> THEN s ELSE Emit(t, Event("delta", t.think, Item("thinking", v)))

Say(s, v) ==
  LET q == Close(s, "think")
      t == IF q.text >= 0 THEN q
           ELSE [OpenBlock(q, Item("text", <<>>)) EXCEPT !.text = q.next]
  IN  IF v = <<>> THEN s ELSE Emit(t, Event("delta", t.text, Item("text", v)))

ProcessToolCall(s, d) ==
  LET calls == Heard(s.calls, d)
      c     == calls[d.index + 1]
      begun == OpenBlock(Close(Close([s EXCEPT !.calls = calls], "think"), "text"),
                         [CallItem("tool_use", c) EXCEPT !.args = <<>>])
      input(t, at, args) == IF args = <<>> THEN t
                            ELSE Emit(t, Event("delta", at, [Item("tool_use", <<>>) EXCEPT !.args = args]))
  IN  CASE c.name # "" /\ c.at < 0 ->
             input([begun EXCEPT !.calls[d.index + 1].at = s.next], s.next, c.args)
        [] c.at >= 0 -> input([s EXCEPT !.calls = calls], c.at, d.args)
        [] OTHER -> [s EXCEPT !.calls = calls]

AnthropicChunk(s, ch) ==
  FoldLeft(ProcessToolCall,
           [Say(Think(s, ch.reasoning), ch.content) EXCEPT
              !.stop = IF ch.finish = "" THEN @ ELSE StopReason(ch.finish)], ch.calls)

AnthropicEnd(s) ==
  LET t     == Close(Close(s, "think"), "text")
      done  == FoldLeft(LAMBDA q, c : Emit(q, Event("stop", c.at, <<>>)), t, Started(t))
      empty == Emit(OpenBlock(done, Item("text", <<>>)), Event("stop", done.next, <<>>))
  IN  Emit(IF s.next = 0 THEN empty ELSE done, Event("end", 0, s.stop)).events

(***************************************************************************)
(* Responses: places are computed, the reasoning's and the message's       *)
(* first; what was said is repeated when an item is done and at the end.   *)
(***************************************************************************)
ResponsesStart ==
  [think |-> FALSE, closed |-> FALSE, reason |-> <<>>, text |-> FALSE, said |-> <<>>,
   place |-> 0, offset |-> 0, calls |-> <<>>, events |-> <<>>]

ReasoningItem(s) == Item("reasoning", s.reason)
MessageItem(s) == [Item("message", s.said) EXCEPT !.role = "assistant"]

CloseReasoning(s) ==
  IF ~s.think \/ s.closed THEN s
  ELSE [Emit(s, Event("stop", 0, ReasoningItem(s))) EXCEPT !.closed = TRUE]

Reason(s, v) ==
  LET t == IF s.think THEN s
           ELSE [Emit(s, Event("start", 0, Item("reasoning", <<>>))) EXCEPT !.think = TRUE]
  IN  IF v = <<>> THEN s
      ELSE [Emit(t, Event("delta", 0, Item("reasoning", v))) EXCEPT !.reason = @ \o v]

Speak(s, v) ==
  LET q  == CloseReasoning(s)
      at == IF q.think THEN 1 ELSE 0
      t  == IF q.text THEN q
            ELSE [Emit(q, Event("start", at, [Item("message", <<>>) EXCEPT !.role = "assistant"]))
                    EXCEPT !.text = TRUE, !.place = at, !.offset = at + 1]
  IN  IF v = <<>> THEN s
      ELSE [Emit(t, Event("delta", t.place, Item("message", v))) EXCEPT !.said = @ \o v]

MutAfterReasoning(s) == CloseReasoning(s)

\* tools that follow the reasoning directly come right after it
AfterReasoning(s) ==
  IF ~s.think \/ s.closed THEN s
  ELSE [CloseReasoning(s) EXCEPT !.offset = IF s.text THEN @ ELSE 1]

FunctionCall(s, d) ==
  LET calls == Heard(s.calls, d)
      c     == calls[d.index + 1]
      at    == s.offset + d.index
      t     == [s EXCEPT !.calls = calls]
      begun == Emit([t EXCEPT !.calls[d.index + 1].at = at],
                    Event("start", at, [CallItem("function_call", c) EXCEPT !.args = <<>>]))
      input(q, args) == IF args = <<>> THEN q
                        ELSE Emit(q, Event("delta", at, [Item("function_call", <<>>) EXCEPT !.args = args]))
  IN  CASE c.name # "" /\ c.at < 0 -> input(begun, c.args)
        [] c.at >= 0 -> input(t, d.args)
        [] OTHER -> t

ResponsesChunk(s, ch) ==
  LET t == Speak(Reason(s, ch.reasoning), ch.content)
  IN  FoldLeft(FunctionCall, IF ch.calls = <<>> THEN t ELSE AfterReasoning(t), ch.calls)

ResponsesEnd(s) ==
  LET t     == CloseReasoning(s)
      said  == IF t.text THEN Emit(t, Event("stop", t.place, MessageItem(t))) ELSE t
      done  == FoldLeft(LAMBDA q, c : Emit(q, Event("stop", c.at, CallItem("function_call", c))),
                        said, Started(said))
      calls == Started(s)
      output == (IF s.think THEN <<ReasoningItem(s)>> ELSE <<>>)
             \o (IF s.text THEN <<MessageItem(s)>> ELSE <<>>)
             \o [i \in DOMAIN calls |-> CallItem("function_call", calls[i])]
  IN  Emit(done, Event("end", 0, output)).events

(***************************************************************************)
(* Google: a part is sent as it comes, the calls together once their       *)
(* arguments are whole.                                                    *)
(***************************************************************************)
GoogleStart == [calls |-> <<>>, finish |-> "", sent |-> FALSE, ended |-> FALSE, out |-> <<>>]

Send(s, parts, finish) ==
  [s EXCEPT !.out = Append(@, [items |-> parts,
                               stop |-> IF finish = "" THEN "" ELSE GoogleFinish(finish)]),
            !.ended = @ \/ finish # ""]

CallParts(s) ==
  LET named == SelectSeq(s.calls, LAMBDA c : c.name # "")
  IN  [i \in DOMAIN named |-> ToolCallPart(Call(named[i]))]

GoogleChunk(s, ch) ==
  LET parts == (IF ch.reasoning = <<>> THEN <<>> ELSE <<Item("thought", ch.reasoning)>>)
            \o (IF ch.content = <<>> THEN <<>> ELSE <<Item("text", ch.content)>>)
      t == [s EXCEPT !.calls = FoldLeft(Heard, @, ch.calls),
                     !.finish = IF ch.finish = "" THEN @ ELSE ch.finish]
  IN  CASE parts # <<>> -> Send(t, parts, ch.finish)
        [] parts = <<>> /\ t.finish # "" /\ ~t.sent /\ CallParts(t) # <<>> ->
             Send([t EXCEPT !.sent = TRUE], CallParts(t), t.finish)
        [] parts = <<>> /\ (t.sent \/ CallParts(t) = <<>>) /\ ch.finish # "" /\ ~t.ended ->
             Send(t, <<>>, ch.finish)
        [] OTHER -> t

GoogleEnd(s) ==
  IF s.sent \/ CallParts(s) = <<>> THEN s.out ELSE Send(s, CallParts(s), s.finish).out

(***************************************************************************)
(* What a client has when the stream ends: the items, why it ended, and    *)
(* whether the events kept to the protocol (items start in order, change   *)
(* only while open, and are closed once).                                  *)
(***************************************************************************)
Hear(h, e) ==
  CASE e.type = "start" ->
         [h EXCEPT !.items = Append(@, e.item), !.open = @ \union {e.at},
                   !.ok = @ /\ e.at = Len(h.items)]
    [] e.type = "delta" /\ e.at \in h.open ->
         [h EXCEPT !.items[e.at + 1].v = @ \o e.item.v, !.items[e.at + 1].args = @ \o e.item.args]
    [] e.type = "stop" /\ e.at \in h.open ->
         [h EXCEPT !.open = @ \ {e.at}, !.ok = @ /\ (e.item = <<>> \/ e.item = h.items[e.at + 1])]
    [] e.type = "end" -> [h EXCEPT !.stop = e.item, !.ok = @ /\ h.open = {}]
    [] OTHER -> [h EXCEPT !.ok = FALSE]

Heed(events) ==
  FoldLeft(Hear, [items |-> <<>>, open |-> {}, stop |-> <<>>, ok |-> TRUE], events)

\* the reply as the client of an API has it after a stream of chunks
Streamed(api, chunks) ==
  CASE api = "anthropic" ->
         LET h == Heed(AnthropicEnd(FoldLeft(AnthropicChunk, AnthropicStart, chunks)))
         IN  [items |-> [i \in DOMAIN h.items |-> [h.items[i] EXCEPT !.args = ParseJsonSafe(@)]],
              stop |-> h.stop, ok |-> h.ok]
    [] api = "openai_responses" ->
         LET h == Heed(ResponsesEnd(FoldLeft(ResponsesChunk, ResponsesStart, chunks)))
         IN  [items |-> h.items, stop |-> "completed", ok |-> h.ok /\ h.stop = h.items]
    [] api = "google" ->
         LET out == GoogleEnd(FoldLeft(GoogleChunk, GoogleStart, chunks))
             stops == SelectSeq(out, LAMBDA o : o.stop # "")
         IN  [items |-> FlattenSeq([i \in DOMAIN out |-> out[i].items]),
              stop |-> IF stops = <<>> THEN "" ELSE Last(stops).stop, ok |-> stops # <<>>]
    [] OTHER ->
         LET of(f) == FlattenSeq([i \in DOMAIN chunks |-> chunks[i][f]])
             calls == FoldLeft(Heard, <<>>, of("calls"))
             said == IF of("content") = <<>> THEN NoContent ELSE of("content")
         IN  [items |-> <<Assistant(said, of("reasoning"), CallsOf(calls))>>,
              stop |-> Last(chunks).finish, ok |-> TRUE]
================================================================================
