--------------------------- MODULE UpstreamAnswers ---------------------------
(***************************************************************************)
(* One request from its body to its answer: the request is converted for   *)
(* the provider (CodexRequest), sent, and the provider's answer arrives    *)
(* event by event and is converted back (ChatAdapter, ResponsesEvents) or  *)
(* shown by the playground (Playground).  The provider may be unreachable, *)
(* fail, send an answer of any form, or be cut off after any event; the    *)
(* client may leave and the playground's wait limit may pass at any step.  *)
(***************************************************************************)
EXTENDS Playground, CodexRequest

CONSTANTS Calls,      \* what clients send: via, path and body, or run and oauth
          Answers     \* what providers answer

VARIABLES stage,    \* where the handler is
          req,      \* the request
          sent,     \* its conversion: ok, payload, stream, usage
          answer,   \* the provider's answer
          got,      \* how many of its events have arrived
          cut,      \* why the body ended early: "lost", "gone", "expired"; why there was
                    \* no answer: "refused", or "slow" by the transport's limits; or "none"
          stream,   \* the chat stream written so far
          reply,    \* what the client is told
          records,  \* the playground's records of this request
          gone, timedOut

exchange == <<stage, req, sent, answer, got, cut, stream, reply, records, gone, timedOut>>

ChatPath == "/v1/chat/completions"
NativePaths == {"/backend-api/codex/responses", "/backend-api/codex/responses/compact"}

NoAnswer == [status |-> 0, form |-> "text", type |-> "text", items |-> <<>>, end |-> "none",
             reason |-> "", id |-> "", usage |-> 0, output |-> FALSE, textDone |-> FALSE,
             ids |-> TRUE, done |-> FALSE, large |-> FALSE]

\* kind "none" is no answer yet; whole is a converted body, code and text the playground's.
NoReply == [kind |-> "none", code |-> 0, text |-> <<>>, whole |-> Invalid, response |-> NoResponse]
Reply(kind) == [NoReply EXCEPT !.kind = kind]

AnswerInit ==
  /\ req \in Calls
  /\ stage = "start" /\ sent = RefusedBody /\ answer = NoAnswer /\ got = 0 /\ cut = "none"
  /\ stream = NewStream /\ reply = NoReply /\ records = <<>> /\ gone = FALSE /\ timedOut = FALSE

Total(a) == IF a.form = "sse" THEN Len(Events(a)) ELSE 1

\* Is the body converted while it arrives (adaptChatCompletionsResponse).
Streaming ==
  req.via = "chat" /\ sent.stream /\ answer.status < 400
  /\ (answer.type = "sse" \/ answer.form = "sse")

-----------------------------------------------------------------------------
(* The gateway's request *)

\* A body that cannot be converted is refused.
Prepared(p) ==
  /\ sent' = p
  /\ stage' = IF p.ok THEN "prepared" ELSE "done"
  /\ reply' = IF p.ok THEN reply ELSE Reply("refused")

Prepare ==
  /\ stage = "start" /\ req.via # "playground"
  /\ Prepared(IF req.path = ChatPath THEN buildChatAdapterRequest(req.body)
              ELSE codexBackendBody(req.path, req.body))
  /\ UNCHANGED <<req, answer, got, cut, stream, records, gone, timedOut>>

-----------------------------------------------------------------------------
(* The playground's request *)

\* recordRun, and the envelope of the handler.
EndRun(e) ==
  /\ stage' = "done"
  /\ records' = Append(records, recordInput(e))
  /\ reply' = [Reply("envelope") EXCEPT !.code = playgroundCode(e), !.text = e.text]

ValidateRun ==
  /\ stage = "start" /\ req.via = "playground"
  /\ IF Validate(req.run) THEN stage' = "select" /\ reply' = reply
     ELSE stage' = "done" /\ reply' = [Reply("envelope") EXCEPT !.code = playgroundCode(End("validation", 0, <<>>))]
  /\ UNCHANGED <<req, sent, answer, got, cut, stream, records, gone, timedOut>>

\* The bodies of buildPlaygroundUpstreamRequest.
PlaygroundBody(q) ==
  [model |-> Str("model"), stream |-> Bool(FALSE)]
  @@ (IF q.endpoint = "responses"
      THEN [input |-> Str(<<"prompt">>)]
      ELSE [messages |-> Arr(<<Obj([role |-> Str("user"), content |-> Str(<<"prompt">>)])>>)])
  @@ (IF q.max = -1 THEN EmptyMap
      ELSE (IF q.endpoint = "responses" THEN "max_output_tokens" ELSE "max_completion_tokens")
           :> Num(q.max))

buildPlaygroundUpstreamRequest(q, oauth) ==
  CASE ~oauth -> [ok |-> TRUE, payload |-> PlaygroundBody(q), stream |-> FALSE, usage |-> FALSE]
    [] q.endpoint = "responses" -> normalizeCodexResponsesPayloadMap(PlaygroundBody(q), TRUE)
    [] OTHER -> buildChatAdapterRequest(PlaygroundBody(q))

\* Its result is sent, or the run ends with an internal error.
PreparedRun(p) ==
  /\ sent' = p
  /\ IF p.ok THEN stage' = "prepared" /\ UNCHANGED <<records, reply>>
             ELSE EndRun(End("internal", 0, <<>>))

\* The selectors of AccountRouting: an account, or one of their errors.
SelectAccount ==
  /\ stage = "select"
  /\ \/ PreparedRun(buildPlaygroundUpstreamRequest(req.run, req.oauth))
     \/ \E outcome \in {"no_account", "missing", "unavailable", "select_error"} :
          /\ outcome = "no_account" => req.run.mode = "auto"
          /\ outcome \in {"missing", "unavailable"} => req.run.mode = "account"
          /\ EndRun(End(outcome, 0, <<>>)) /\ UNCHANGED sent
  /\ UNCHANGED <<req, answer, got, cut, stream, gone, timedOut>>

-----------------------------------------------------------------------------
(* The exchange with the provider *)

\* The request is on its way: its body is not looked at again.
Send(a) ==
  /\ stage = "prepared"
  /\ stage' = "reading" /\ answer' = a
  /\ sent' = [sent EXCEPT !.payload = EmptyMap]
  /\ req' = IF req.via = "playground" THEN req ELSE [via |-> req.via, path |-> req.path, body |-> EmptyMap]
  /\ UNCHANGED <<got, cut, stream, reply, records, gone, timedOut>>

SendFails(cause) ==
  /\ stage = "prepared"
  /\ cut' = cause
  /\ IF req.via = "playground" THEN EndRun(DoError(gone, timedOut, cause = "slow"))
     ELSE stage' = "done" /\ reply' = Reply(IF gone THEN "gone" ELSE "unreachable") /\ UNCHANGED records
  /\ UNCHANGED <<req, sent, answer, got, stream, gone, timedOut>>

\* The converter of a stream stops at its first error.
Deliver ==
  /\ stage = "reading" /\ got < Total(answer) /\ stream.err = "none"
  /\ got' = got + 1
  /\ stream' = IF Streaming /\ answer.form = "sse"
          THEN StreamEvent(stream, Events(answer)[got + 1], sent.usage) ELSE stream
  /\ UNCHANGED <<stage, req, sent, answer, cut, reply, records, gone, timedOut>>

\* What the gateway's client gets of a whole answer.
Convert(a) ==
  LET w == chatCompletionFromResponsesBody(a)
      c == collectResponsesSSEForJSON(a)
  IN  CASE req.via = "chat" /\ a.status >= 400 -> Reply("pass")
        [] req.via = "chat" -> [Reply(w.kind) EXCEPT !.whole = w]
        [] req.path \notin NativePaths /\ ~sent.stream -> [Reply(c.kind) EXCEPT !.response = c.response]
        [] OTHER -> Reply("pass")

\* A client that streams, or a body that arrives as JSON for one.
ConvertStream(a, clean) ==
  LET converted == IF a.large THEN [NewStream EXCEPT !.err = "refused"]
                   ELSE chatCompletionStreamFromResponsesJSON(JSONBody(a), sent.usage)
  IN  IF Streaming THEN CloseStream(stream, clean) ELSE converted

EndBody ==
  /\ stage = "reading" /\ (got = Total(answer) \/ stream.err # "none")
  /\ IF req.via = "playground"
     THEN EndRun(RunPlayground(req.oauth, req.run.endpoint, answer)) /\ UNCHANGED stream
     ELSE /\ stage' = "done" /\ UNCHANGED records
          /\ IF req.via = "chat" /\ sent.stream /\ answer.status < 400
             THEN /\ stream' = ConvertStream(answer, TRUE)
                  /\ reply' = Reply(IF stream'.err = "refused" THEN "invalid" ELSE "stream")
             ELSE reply' = Convert(answer) /\ UNCHANGED stream
  /\ UNCHANGED <<req, sent, answer, got, cut, gone, timedOut>>

\* A read error before the end of the body.
CutBody(cause) ==
  /\ stage = "reading" /\ got < Total(answer) /\ stream.err = "none"
  /\ cause = "gone" => gone
  /\ cause = "expired" => timedOut
  /\ cut' = cause
  /\ IF req.via = "playground" THEN EndRun(ReadError(cause)) /\ UNCHANGED stream
     ELSE /\ stage' = "done" /\ UNCHANGED records
          /\ stream' = IF Streaming THEN CloseStream(stream, FALSE) ELSE stream
          /\ reply' = Reply(CASE cause = "gone" -> "gone"
                             [] Streaming -> "stream"
                             [] Convert(answer).kind = "pass" -> "aborted"
                             [] OTHER -> "invalid")
  /\ UNCHANGED <<req, sent, answer, got, gone, timedOut>>

-----------------------------------------------------------------------------
(* The world around it *)

ClientLeaves ==
  /\ stage # "done" /\ ~gone
  /\ gone' = TRUE
  /\ UNCHANGED <<stage, req, sent, answer, got, cut, stream, reply, records, timedOut>>

\* The timer of RunPlayground.
WaitExpires ==
  /\ req.via = "playground" /\ stage \in {"prepared", "reading"} /\ ~timedOut
  /\ timedOut' = TRUE
  /\ UNCHANGED <<stage, req, sent, answer, got, cut, stream, reply, records, gone>>

AnswerNext ==
  \/ Prepare \/ ValidateRun \/ SelectAccount
  \/ \E a \in Answers : Send(a)
  \/ \E cause \in {"refused", "slow"} : SendFails(cause)
  \/ Deliver \/ EndBody
  \/ \E cause \in {"lost", "gone", "expired"} : CutBody(cause)
  \/ ClientLeaves \/ WaitExpires

AnswerSpec == AnswerInit /\ [][AnswerNext]_exchange

-----------------------------------------------------------------------------
(* What was asked *)

ReasoningPart(v) == \E t \in InterleavedParts : Val(Fields(v), "type") = Str(t)

\* The pieces of text of a value: of its parts, or of the output of a tool.
Said(v) ==
  CASE Kind(v) = "str" -> Of(v)
    [] Kind(v) = "obj" /\ ~ReasoningPart(v) ->
         IF Kind(Val(Of(v), "text")) = "str" THEN Of(Of(v)["text"])
         ELSE IF Kind(Val(Of(v), "refusal")) = "str" THEN Of(Of(v)["refusal"]) ELSE <<>>
    [] OTHER -> <<>>
AllSaid(v) == IF Kind(v) = "arr" THEN Flatten(Said, Of(v)) ELSE Said(v)
ItemSaid(v) ==
  IF Kind(v) # "obj" THEN <<>>
  ELSE (IF Kind(Val(Of(v), "output")) = "str" THEN Of(Of(v)["output"])
        ELSE AllSaid(Val(Of(v), "content")))
       \o (IF Kind(Val(Of(v), "refusal")) = "str" THEN Of(Of(v)["refusal"]) ELSE <<>>)

System(v) == Val(Fields(v), "role") \in {Str("system"), Str("developer")}
Asked(body) == IF Kind(Val(body, "messages")) = "arr" THEN Of(body["messages"])
               ELSE IF Kind(Val(body, "input")) = "arr" THEN Of(body["input"])
               ELSE <<Obj([content |-> Val(body, "input")])>>
\* coerceMessages leaves out what a tool said to no call.
Heard(r) == SelectSeq(Asked(r.body), LAMBDA m : ~System(m) /\ (r.path = ChatPath \/ ~ToolWithoutID(m)))

Normal(path, p) ==
  IF path \in {"/v1/responses/compact", "/backend-api/codex/responses/compact"}
  THEN decodeCodexResponsesCompactRequest(p, FALSE) ELSE normalizeCodexResponsesPayloadMap(p, FALSE)

FixedPoint(n, p) == n.ok /\ n.payload = p

Aliases == {"promptCacheKey", "promptCacheRetention", "reasoningEffort", "reasoningSummary",
            "textVerbosity", "verbosity"}

\* Every body the bridge sends for an OAuth account is one the backend takes: converting it
\* again changes nothing, no field the backend refuses and no message of role tool is left in
\* it, and the texts of the instructions and of every message are all there, in their order.
\* A request whose messages all became instructions is the one with nothing to convert.
RequestFaithful ==
  stage = "prepared" /\ req.via \in {"chat", "responses"} =>
    LET p == sent.payload
        input == Of(p["input"])
        system == SelectSeq(Asked(req.body), System)
    IN  /\ input # <<>> => FixedPoint(Normal(req.path, p), p)
        /\ DOMAIN p \cap (UnsupportedFields \cup Aliases) = {}
        /\ \A v \in Range(input) :
             /\ Val(Fields(v), "role") # Str("tool") /\ DOMAIN Fields(v) \cap InterleavedKeys = {}
             /\ \A part \in Range(Parts(Val(Fields(v), "content"))) : ~ReasoningPart(part)
        /\ Flatten(ItemSaid, input) = Flatten(ItemSaid, Heard(req))
        /\ Of(p["instructions"])
             = AllSaid(Val(req.body, "instructions")) \o Flatten(ItemSaid, system)

-----------------------------------------------------------------------------
(* What was answered *)

LastOf(seq, none) == IF seq = <<>> THEN none ELSE seq[Len(seq)]

\* What a client of the stream puts together.
Joined(out) ==
  LET parts(i) == SelectSeq(out, LAMBDA c : c.tool.index = i)
      ids(i) == SelectSeq(parts(i), LAMBDA c : c.tool.call # "")
      names(i) == SelectSeq(parts(i), LAMBDA c : c.tool.name # "")
      indices == {c.tool.index : c \in Range(out)} \ {-1}
      call(i) == FunctionCall(LastOf(ids(i), Chunk("")).tool.call, LastOf(names(i), Chunk("")).tool.name,
                              Flat(LAMBDA c : c.tool.args, parts(i)))
  IN  [text |-> Flat(LAMBDA c : c.text, out), refusal |-> Flat(LAMBDA c : c.refusal, out),
       calls |-> [k \in 1..Cardinality(indices) |-> call(k - 1)]]

TrueFinish(a) ==
  CASE ItemCalls(a.items) # <<>> -> "tool_calls"
    [] a.end = "response.incomplete" -> incompleteFinishReason(Terminal(a))
    [] OTHER -> "stop"

\* The arguments of several calls are told apart by the calls' ids only: without them all
\* go to the first call (indexFor).
CallsNamed(a) == a.ids \/ Len(ItemCalls(a.items)) <= 1

\* output_text.done replaces the text of the parts before it.
OneText(a) == a.textDone => Cardinality({k \in DOMAIN a.items : a.items[k].text # <<>>}) <= 1

\* A message is the provider's.
Agrees(m, a) ==
  /\ m.text = ItemText(a.items) /\ m.refusal = ItemRefusal(a.items)
  /\ CallsNamed(a) => m.calls = ItemCalls(a.items)

Finishes(out) == SelectSeq(out, LAMBDA c : c.finish # "")

\* A chat stream, at every moment, is one message so far: the first delta and only it carries
\* the role, all chunks carry one id, nothing follows [DONE], and its text is a prefix of the
\* provider's text.
StreamSound ==
  LET out == stream.out
      deltas == SelectSeq(out, LAMBDA c : c.kind = "delta" /\ c.finish = "")
      ids == {c.id : c \in {d \in Range(out) : d.kind \in {"delta", "usage"}}}
  IN  /\ \A k \in DOMAIN deltas : deltas[k].role = (k = 1)
      /\ Cardinality(ids) <= 1
      /\ \A k \in DOMAIN out : out[k].kind = "done" => k = Len(out)
      /\ IsPrefix(Joined(out).text, ItemText(answer.items))

\* What the playground shows is the provider's: its text, its status, or its failure.
RunShown ==
  req.via = "playground" /\ stage = "done" /\ records # <<>> =>
    /\ reply.code = 0 /\ OneText(answer) => reply.text \in {<<>>, ItemText(answer.items)}
    /\ records[1].outcome = "upstream_error" =>
         records[1].status = answer.status \/ answer.end \in {"response.failed", "error"}

\* The client of a chat or responses request gets the provider's answer: the stream put
\* together, the whole completion and the collected JSON hold the provider's text, refusal,
\* tool calls with their arguments, finish reason and usage, neither repeated nor dropped,
\* whether or not the events of arguments name their call and the last event repeats the
\* output; and the playground shows the provider's text.  The code does less in four cases:
\* the arguments of several calls whose events do not name them (CallsNamed), a whole
\* completion of several texts with output_text.done (OneText), the finish reason of one
\* made from JSON, and an answer collected from an error event, which has no items.
AnswerFaithful ==
  /\ StreamSound /\ RunShown
  /\ reply.kind = "stream" /\ stream.err = "none" =>
       /\ Agrees(Joined(stream.out), answer) /\ stream.usage = answer.usage
       /\ Len(Finishes(stream.out)) = 1 /\ Finishes(stream.out)[1].finish = TrueFinish(answer)
       /\ LastOf(stream.out, Chunk("")).kind = "done"
       /\ {c.usage : c \in {d \in Range(stream.out) : d.kind = "usage"}}
            = IF sent.usage THEN {answer.usage} ELSE {}
  /\ reply.kind = "completion" /\ OneText(answer) =>
       /\ Agrees(reply.whole, answer) /\ reply.whole.usage = answer.usage
       /\ answer.form = "sse" => reply.whole.finish = TrueFinish(answer)
  /\ reply.kind = "collected" /\ answer.end # "error" =>
       reply.response.items = answer.items /\ reply.response.text = ItemText(answer.items)

\* An answer that was cut, ended without its last event or failed is never told as a success:
\* a stream closes without an error, or shows a finish reason, and a completion is returned only
\* after the provider's response.completed or response.incomplete arrived.  A collected answer
\* says that it failed.
CutNeverSucceeds ==
  LET arrived == \/ answer.form = "json"
                 \/ /\ answer.form = "sse"
                    /\ \E k \in 1..got :
                         Events(answer)[k].type \in {"response.completed", "response.incomplete"}
      whole == cut = "none" /\ arrived /\ answer.end \in {"response.completed", "response.incomplete"}
  IN  /\ reply.kind = "completion" \/ (reply.kind = "stream" /\ stream.err = "none") => whole
      /\ Finishes(stream.out) # <<>> => arrived
      /\ reply.kind = "collected" =>
           /\ cut = "none" /\ answer.end # "none"
           /\ reply.response.error = (answer.end \in {"response.failed", "error"})

\* The playground's client and its history are told the same, and the truth: a run that passed
\* validation leaves one record, whose outcome fits the code; code 0 is given only for an answer
\* with a 2xx status that was read whole; a run counts as cancelled only if the client left,
\* and as timed out only if the wait limit passed or the transport gave up waiting, which the
\* code reports alike; and the account that was called is charged with the run.
PlaygroundTruthful ==
  req.via = "playground" /\ stage = "done" =>
    LET r == records[1]
        reached == answer # NoAnswer
    IN  /\ Len(records) = IF Validate(req.run) THEN 1 ELSE 0
        /\ records # <<>> =>
             /\ reply.code = 0 <=> r.outcome \in {"success", "no_extractable_text"}
             /\ reply.code = 0 =>
                  /\ reached /\ answer.status \in 200..299 /\ cut = "none" /\ got = Total(answer)
                  /\ ~answer.large /\ r.status = answer.status
             /\ reply.code = 4004 <=> r.outcome = "upstream_error"
             /\ r.outcome = "cancelled" => gone
             /\ reply.code = 4005 <=> r.outcome = "upstream_timeout"
             /\ r.outcome = "upstream_timeout" => timedOut \/ cut = "slow"
             /\ reached => r.account

\* docs/error-codes.md, 4005: "Provider request exceeded the Playground wait limit."
WaitLimitReported == cut = "expired" => reply.code = 4005

=============================================================================
