----------------------------- MODULE ChatAdapter -----------------------------
(***************************************************************************)
(* The answer side of chat_adapter.go: how the events of a Responses       *)
(* stream, or a Responses JSON body, become a Chat Completions stream or a *)
(* Chat Completions object.  Tool calls are gathered by                    *)
(* chatToolCallIndexer and chatToolCallState in both.  The tool type is    *)
(* always "function" here, so EmittedToolType is the flag shown.           *)
(***************************************************************************)
EXTENDS ResponsesEvents

-----------------------------------------------------------------------------
(* Tool calls *)

NoCall == [call |-> "", name |-> "", args |-> <<>>, ecall |-> "", ename |-> "",
           eargs |-> <<>>, shown |-> FALSE]

\* indexes and next of the indexer, the states, and the position last merged.
NoTools == [keys |-> <<>>, next |-> 0, calls |-> <<>>, at |-> 0]

\* Without an id and a name the call is the first one.
indexFor(t, call, name) ==
  LET key == IF call # "" THEN <<"id", call>> ELSE <<"name", name>>
  IN  CASE call = "" /\ name = "" -> [keys |-> t.keys, next |-> t.next, index |-> 0]
        [] key \in DOMAIN t.keys -> [keys |-> t.keys, next |-> t.next, index |-> t.keys[key]]
        [] OTHER -> [keys |-> (key :> t.next) @@ t.keys, next |-> t.next + 1, index |-> t.next]

ToolEventTypes == {"response.output_tool_call.delta", "response.output_tool_call.done",
                   "response.function_call_arguments.delta",
                   "response.function_call_arguments.done"}
AppendTypes == {"response.output_tool_call.delta", "response.function_call_arguments.delta"}

ToolItem(item) == item.type = "function_call" \/ item.call # "" \/ item.name # ""

isChatToolCallEvent(e) ==
  e.type \in ToolEventTypes \/ ToolItem(e.item) \/ e.call # "" \/ (e.hasArgs /\ e.name # "")

\* chatToolDeltaFromPayload up to the index, with chatToolCallCandidate and the mode.
ToolDelta(e) ==
  LET own == ToolItem(e.item)
  IN  [call |-> IF own THEN e.item.call ELSE e.call,
       name |-> IF own THEN e.item.name ELSE e.name,
       has |-> own \/ e.hasArgs,
       args |-> IF own THEN e.item.args ELSE e.args,
       append |-> e.type \in AppendTypes]

applyDelta(c, d) ==
  [c EXCEPT !.call = IF d.call # "" THEN d.call ELSE @,
            !.name = IF d.name # "" THEN d.name ELSE @,
            !.args = IF ~d.has THEN @ ELSE IF d.append THEN @ \o d.args ELSE d.args]

\* chatToolDeltaFromPayload followed by mergeChatToolCallDelta; at is 0 when there is no delta.
mergeToolEvent(t, e) ==
  LET d == ToolDelta(e)
      i == indexFor(t, d.call, d.name)
      size == IF Len(t.calls) > i.index THEN Len(t.calls) ELSE i.index + 1
  IN  IF ~isChatToolCallEvent(e) \/ (d.call = "" /\ d.name = "" /\ ~d.has)
      THEN [t EXCEPT !.at = 0]
      ELSE [keys |-> i.keys, next |-> i.next, at |-> i.index + 1,
            calls |-> [k \in 1..size |->
                         LET c == IF k \in DOMAIN t.calls THEN t.calls[k] ELSE NoCall
                         IN  IF k = i.index + 1 THEN applyDelta(c, d) ELSE c]]

mergeResponseOutputToolCalls(t, response) ==
  FoldLeft(LAMBDA acc, item :
             mergeToolEvent(acc, [Event("response.output_item.done") EXCEPT !.item = item]),
           t, response.items)

\* toMessageToolCall and compactChatToolCalls.
compactChatToolCalls(calls) ==
  LET shown == SelectSeq(calls, LAMBDA c : c.call # "" \/ c.name # "" \/ c.args # <<>>)
  IN  [k \in DOMAIN shown |-> FunctionCall(shown[k].call, shown[k].name, shown[k].args)]

responseToolCalls(response) ==
  compactChatToolCalls(mergeResponseOutputToolCalls(NoTools, response).calls)

\* What of a call the client has not been sent; has FALSE is no arguments.
Pending(c) ==
  [call |-> IF c.call = c.ecall THEN "" ELSE c.call,
   name |-> IF c.name = c.ename THEN "" ELSE c.name,
   has |-> c.args # c.eargs,
   args |-> IF c.args = c.eargs THEN <<>>
            ELSE IF IsPrefix(c.eargs, c.args) THEN SubSeq(c.args, Len(c.eargs) + 1, Len(c.args))
            ELSE c.args]

\* buildStreamDelta returns nil.
NothingPending(c) == c.shown /\ c.call = c.ecall /\ c.name = c.ename /\ c.args = c.eargs

\* The emitted arguments are not remembered.
EmittedNames(c) == [c EXCEPT !.ecall = c.call, !.ename = c.name, !.shown = TRUE]

\* The emitted fields after buildStreamDelta.
Emitted(c) == [c EXCEPT !.ecall = c.call, !.ename = c.name, !.eargs = c.args, !.shown = TRUE]

-----------------------------------------------------------------------------
(* What a response object holds *)

responseText(r) == IF r.hasText THEN r.text ELSE ItemText(r.items)
responseRefusal(r) == ItemRefusal(r.items)
responseFailure(r) == r.present /\ (r.error \/ r.status \in {"failed", "cancelled"})

incompleteFinishReason(r) ==
  CASE r.reason \in {"max_output_tokens", "max_tokens"} -> "length"
    [] r.reason = "content_filter" -> "content_filter"
    [] OTHER -> "stop"

\* responseUsage, and recordUsageFromChatUsage on its result: 0 is no usage.
responseUsage(r) == r.usage

chatMessageFromResponse(r, text, refusal, calls) ==
  [text |-> IF text # <<>> THEN text ELSE responseText(r),
   refusal |-> IF refusal # <<>> THEN refusal ELSE responseRefusal(r),
   calls |-> IF compactChatToolCalls(calls) # <<>> THEN compactChatToolCalls(calls)
             ELSE responseToolCalls(r)]

chatResponseHasAssistantPayload(r, m) ==
  m.text # <<>> \/ r.hasText \/ r.output = "array" \/ m.refusal # <<>> \/ m.calls # <<>>

-----------------------------------------------------------------------------
(* The whole answer: kind "completion", "failed" (502 with the provider's  *)
(* error) or "invalid" (the conversion returned an error)                  *)

Invalid == [kind |-> "invalid", status |-> 0, id |-> "", text |-> <<>>, refusal |-> <<>>,
            calls |-> <<>>, finish |-> "", usage |-> 0]
Failed == [Invalid EXCEPT !.kind = "failed", !.status = 502]

\* marshalChatCompletion; "generated" is an id of the router's own.
marshalChatCompletion(r, m, finish) ==
  [kind |-> "completion", status |-> 200, id |-> IF r.id # "" THEN r.id ELSE "generated",
   text |-> m.text, refusal |-> m.refusal, calls |-> m.calls, finish |-> finish,
   usage |-> responseUsage(r)]

chatCompletionFromResponsesJSON(r) ==
  LET m == chatMessageFromResponse(r, <<>>, <<>>, <<>>)
  IN  CASE ~r.present -> Invalid
        [] responseFailure(r) -> Failed
        [] ~chatResponseHasAssistantPayload(r, m) -> Invalid
        [] OTHER -> marshalChatCompletion(r, m, IF m.calls # <<>> THEN "tool_calls" ELSE "stop")

NewWhole == [text |-> <<>>, refusal |-> <<>>, response |-> NoResponse, finish |-> "stop",
             terminal |-> FALSE, tools |-> NoTools, stop |-> ""]

\* The loop of chatCompletionFromResponsesSSE; stop is a return.
WholeEvent(w, e) ==
  LET seen ==
        CASE e.type = "response.output_text.delta" -> [w EXCEPT !.text = @ \o e.text]
          [] e.type = "response.output_text.done" -> [w EXCEPT !.text = e.text]
          [] e.type = "response.refusal.delta" -> [w EXCEPT !.refusal = @ \o e.text]
          [] e.type \in {"response.completed", "response.incomplete"} /\ e.response.present ->
               [w EXCEPT !.terminal = TRUE, !.response = e.response,
                         !.tools = mergeResponseOutputToolCalls(@, e.response),
                         !.finish = IF e.type = "response.incomplete"
                                    THEN incompleteFinishReason(e.response) ELSE @]
          [] e.type \in {"response.completed", "response.incomplete"} ->
               [w EXCEPT !.terminal = TRUE]
          [] OTHER -> w
  IN  CASE w.stop # "" -> w
        [] e.type \in {"[DONE]", "garbage"} -> [w EXCEPT !.stop = "invalid"]
        [] e.type \in {"response.failed", "error"} -> [w EXCEPT !.stop = "failed"]
        [] OTHER -> [seen EXCEPT !.tools = mergeToolEvent(@, e)]

WholeResult(w) ==
  LET m == chatMessageFromResponse(w.response, w.text, w.refusal, w.tools.calls)
  IN  CASE w.stop = "invalid" -> Invalid
        [] w.stop = "failed" -> Failed
        [] ~w.terminal \/ ~w.response.present -> Invalid
        [] ~chatResponseHasAssistantPayload(w.response, m) -> Invalid
        [] OTHER -> marshalChatCompletion(w.response, m, IF m.calls # <<>> THEN "tool_calls" ELSE w.finish)

chatCompletionFromResponsesSSE(events) == WholeResult(FoldLeft(WholeEvent, NewWhole, events))

-----------------------------------------------------------------------------
(* The stream: a pipe the goroutine of chatCompletionStreamFromResponses   *)
(* writes and closes.  err is the error it closes the pipe with, or "none". *)

NoDelta == [index |-> -1, call |-> "", name |-> "", has |-> FALSE, args |-> <<>>]

\* chatStreamChunk; kind "error", "usage" and "done" are the other payloads.
Chunk(kind) == [kind |-> kind, id |-> "", role |-> FALSE, text |-> <<>>, refusal |-> <<>>,
                tool |-> NoDelta, finish |-> "", usage |-> 0]

NewStream == [id |-> "generated", sent |-> FALSE, role |-> FALSE, tools |-> NoTools,
              saw |-> FALSE, terminal |-> FALSE, out |-> <<>>, usage |-> 0,
              marked |-> FALSE, err |-> "none"]

adoptResponseID(s, r) ==
  IF s.sent \/ ~r.present \/ r.id = "" THEN s ELSE [s EXCEPT !.id = r.id]

\* markChunk and the write of a chunk without a role.
Write(s, c) ==
  [s EXCEPT !.sent = TRUE, !.marked = @ \/ s.id = "generated",
            !.out = Append(@, [c EXCEPT !.id = s.id])]

\* A chunk of the message: the first one carries the role.
WriteDelta(s, c) == [Write(s, [c EXCEPT !.role = ~s.role]) EXCEPT !.role = TRUE]

WriteCall(s, p) ==
  LET c == s.tools.calls[p]
      d == Pending(c)
      delta == [index |-> p - 1, call |-> d.call, name |-> d.name, has |-> d.has, args |-> d.args]
  IN  IF NothingPending(c) THEN s
      ELSE [WriteDelta(s, [Chunk("delta") EXCEPT !.tool = delta])
              EXCEPT !.tools.calls[p] = Emitted(c)]

flushPendingToolCalls(s) == FoldLeft(WriteCall, s, [k \in DOMAIN s.tools.calls |-> k])

\* The finish chunk, the usage chunk and [DONE].
WriteEnd(s, finish, usage, includeUsage) ==
  LET ended == Write(s, [Chunk("delta") EXCEPT !.finish = finish])
      counted == IF includeUsage THEN Write(ended, [Chunk("usage") EXCEPT !.usage = usage]) ELSE ended
  IN  [counted EXCEPT !.out = Append(@, Chunk("done"))]

WriteFailure(s) ==
  [s EXCEPT !.out = @ \o <<Chunk("error"), Chunk("done")>>, !.err = "failed"]

StreamTerminal(s, e, includeUsage) ==
  LET r == e.response
      adopted == [adoptResponseID(s, r) EXCEPT
                    !.terminal = TRUE,
                    !.usage = IF responseUsage(r) = 0 THEN @ ELSE responseUsage(r),
                    !.tools = mergeResponseOutputToolCalls(@, r)]
      flushed == flushPendingToolCalls(adopted)
      saw == flushed.saw \/ compactChatToolCalls(flushed.tools.calls) # <<>>
      finish == CASE saw -> "tool_calls"
                  [] e.type = "response.incomplete" -> incompleteFinishReason(r)
                  [] OTHER -> "stop"
  IN  IF ~r.present THEN [s EXCEPT !.terminal = TRUE, !.err = "invalid"]
      ELSE WriteEnd([flushed EXCEPT !.saw = saw], finish, responseUsage(r), includeUsage)

StreamToolEvent(s, e) ==
  LET merged == [s EXCEPT !.tools = mergeToolEvent(@, e)]
      written == WriteCall(merged, merged.tools.at)
  IN  IF merged.tools.at = 0 THEN s
      ELSE [written EXCEPT !.saw = @ \/ Len(written.out) > Len(s.out)]

\* flush in writeChatCompletionStream, for one event.
StreamEvent(s, e, includeUsage) ==
  CASE s.err # "none" -> s
    [] e.type = "[DONE]" -> IF s.terminal THEN s ELSE [s EXCEPT !.err = "invalid"]
    [] e.type = "garbage" -> [s EXCEPT !.err = "invalid"]
    [] e.type \in {"response.created", "response.in_progress"} -> adoptResponseID(s, e.response)
    [] e.type = "response.output_text.delta" ->
         WriteDelta(s, [Chunk("delta") EXCEPT !.text = e.text])
    [] e.type = "response.refusal.delta" ->
         WriteDelta(s, [Chunk("delta") EXCEPT !.refusal = e.text])
    [] e.type \in {"response.failed", "error"} -> WriteFailure(s)
    [] e.type \in {"response.completed", "response.incomplete"} ->
         StreamTerminal(s, e, includeUsage)
    [] OTHER -> StreamToolEvent(s, e)

\* The end of the body is taken for the end of the answer.
CloseStreamSilently(s, clean) == IF s.err = "none" /\ ~clean THEN [s EXCEPT !.err = "invalid"] ELSE s

\* The end of the body: clean, or cut by a read error.
CloseStream(s, clean) ==
  IF s.err = "none" /\ (~clean \/ ~s.terminal) THEN [s EXCEPT !.err = "invalid"] ELSE s

chatCompletionStreamFromResponsesJSON(r, includeUsage) ==
  LET m == chatMessageFromResponse(r, <<>>, <<>>, <<>>)
      s0 == [adoptResponseID(NewStream, r) EXCEPT !.usage = responseUsage(r), !.terminal = TRUE]
      s1 == IF m.text = <<>> THEN s0 ELSE WriteDelta(s0, [Chunk("delta") EXCEPT !.text = m.text])
      s2 == IF m.refusal = <<>> THEN s1
            ELSE WriteDelta(s1, [Chunk("delta") EXCEPT !.refusal = m.refusal])
      s3 == flushPendingToolCalls([s2 EXCEPT !.tools = mergeResponseOutputToolCalls(@, r)])
      finish == CASE m.calls # <<>> -> "tool_calls"
                  [] r.status = "incomplete" -> incompleteFinishReason(r)
                  [] OTHER -> "stop"
  IN  CASE ~r.present -> [NewStream EXCEPT !.err = "refused"]
        [] responseFailure(r) -> WriteFailure(NewStream)
        [] ~chatResponseHasAssistantPayload(r, m) -> [NewStream EXCEPT !.err = "refused"]
        [] OTHER -> WriteEnd(s3, finish, responseUsage(r), includeUsage)
-----------------------------------------------------------------------------
(* The body of an answer, whole: the data lines it holds and the JSON it is *)

DataEvents(a) == IF a.form = "sse" THEN Events(a) ELSE <<>>
JSONBody(a) == IF a.form = "json" THEN [Terminal([a EXCEPT !.output = TRUE]) EXCEPT !.present = TRUE]
               ELSE NoResponse

\* bytes.Contains(data, "data:"): a JSON body may mention it, too.
MentionsData(a) == a.form = "sse" \/ "data:" \in Range(ItemText(a.items))

\* chatCompletionFromResponsesBody.
chatCompletionFromResponsesBody(a) ==
  CASE a.large -> Invalid
    [] a.type = "sse" \/ MentionsData(a) -> chatCompletionFromResponsesSSE(DataEvents(a))
    [] OTHER -> chatCompletionFromResponsesJSON(JSONBody(a))

\* collectResponsesSSEForJSON: kind "pass" leaves the answer alone.
collectResponsesSSEForJSON(a) ==
  LET c == CollectSSE(DataEvents(a))
  IN  CASE a.type = "json" -> [kind |-> "pass", response |-> JSONBody(a)]
        [] a.large \/ ~c.ok -> [kind |-> "invalid", response |-> NoResponse]
        [] OTHER -> [kind |-> "collected", response |-> c.response]
=============================================================================
