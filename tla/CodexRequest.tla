---------------------------- MODULE CodexRequest ----------------------------
(***************************************************************************)
(* The request side of the OAuth bridge: codex_request.go, which turns a   *)
(* Responses body into the one the ChatGPT backend accepts, and the first  *)
(* half of chat_adapter.go, which turns a Chat Completions body into a     *)
(* Responses body and hands it to the same code.                           *)
(*                                                                         *)
(* A JSON value is a pair of its kind and its content; a Go map is a       *)
(* function on its keys.  A text (content, output, instructions) is the    *)
(* sequence of its pieces; a blank string is "" or <<>>; a tool's name is  *)
(* its rank in the order of strings, 0 the empty one.                      *)
(***************************************************************************)
EXTENDS Integers, Sequences, FiniteSets, SequencesExt, TLC

Null == <<"null">>
Str(s) == <<"str", s>>
Bool(b) == <<"bool", b>>
Num(n) == <<"num", n>>
Obj(f) == <<"obj", f>>
Arr(s) == <<"arr", s>>

Kind(v) == v[1]
Of(v) == v[2]
EmptyMap == [k \in {} |-> Null]

\* payload[f], which is nil for a missing key.
Val(p, f) == IF f \in DOMAIN p THEN p[f] ELSE Null
Put(p, f, v) == (f :> v) @@ p
Delete(p, fs) == [k \in DOMAIN p \ fs |-> p[k]]
Fields(v) == IF Kind(v) = "obj" THEN Of(v) ELSE EmptyMap
Flatten(f(_), s) == FlattenSeq([k \in DOMAIN s |-> f(s[k])])

Typed(p, f, kinds) == Kind(Val(p, f)) \in kinds \cup {"null"}

-----------------------------------------------------------------------------
(* Texts *)

\* firstString.
FirstString(p, keys) ==
  LET some == SelectSeq(keys, LAMBDA k : Kind(Val(p, k)) = "str" /\ Of(Val(p, k)) # "")
  IN  IF some = <<>> THEN "" ELSE Of(p[some[1]])

\* contentText of an element of an array, or of an object; <<"json">> is its encoding.
PartText(v) ==
  CASE Kind(v) = "str" -> Of(v)
    [] Kind(v) = "obj" ->
         LET keys == SelectSeq(<<"text", "refusal", "content">>,
                               LAMBDA k : Kind(Val(Of(v), k)) = "str")
         IN  IF keys = <<>> THEN <<"json">> ELSE Of(Of(v)[keys[1]])
    [] OTHER -> <<>>

contentText(v) == IF Kind(v) = "arr" THEN Flatten(PartText, Of(v)) ELSE PartText(v)

Part(type, text) == Obj([type |-> Str(type), text |-> Str(text)])
inputTextMessage(text) ==
  Obj([role |-> Str("user"), content |-> Arr(<<Part("input_text", text)>>)])
ToolOutput(call, text) ==
  Obj([type |-> Str("function_call_output"), call_id |-> Str(call), output |-> Str(text)])

CallIDKeys == <<"tool_call_id", "toolCallId", "call_id">>

-----------------------------------------------------------------------------
(* Aliases and checks *)

UnsupportedFields == {"max_output_tokens", "prompt_cache_retention", "safety_identifier",
                      "temperature"}
UnsupportedToolTypes == {"file_search", "code_interpreter", "computer_use",
                         "computer_use_preview"}
IncludeAllowlist == {"reasoning.encrypted_content", "message.output_text.logprobs"}
InterleavedKeys == {"function_call", "reasoning_content", "reasoning_details", "tool_calls"}
InterleavedParts == {"reasoning", "reasoning_content", "reasoning_details"}

moveCodexStringAlias(p, from, to) ==
  IF from \notin DOMAIN p THEN p
  ELSE IF to \notin DOMAIN p /\ Kind(p[from]) = "str"
       THEN Put(Delete(p, {from}), to, p[from])
       ELSE Delete(p, {from})

moveCodexNestedStringAlias(p, field, from, to) ==
  LET target == Fields(Val(p, field))
  IN  IF from \notin DOMAIN p THEN p
      ELSE IF to \notin DOMAIN target /\ Kind(p[from]) = "str"
           THEN Put(Delete(p, {from}), field, Obj(Put(target, to, p[from])))
           ELSE Delete(p, {from})

normalizeCodexServiceTier(p) ==
  IF Val(p, "service_tier") = Str("fast") THEN Put(p, "service_tier", Str("priority")) ELSE p

MoveCacheAliases(p) ==
  moveCodexStringAlias(moveCodexStringAlias(p, "promptCacheKey", "prompt_cache_key"),
                       "promptCacheRetention", "prompt_cache_retention")
MoveReasoningAliases(p) ==
  moveCodexNestedStringAlias(
    moveCodexNestedStringAlias(p, "reasoning", "reasoningEffort", "effort"),
    "reasoning", "reasoningSummary", "summary")
MoveTextAliases(p) ==
  moveCodexNestedStringAlias(
    moveCodexNestedStringAlias(p, "text", "textVerbosity", "verbosity"),
    "text", "verbosity", "verbosity")

normalizeCodexOpenAICompatibleAliases(p) ==
  normalizeCodexServiceTier(MoveTextAliases(MoveReasoningAliases(MoveCacheAliases(p))))

validateCodexResponsesObjectFields(p) ==
  /\ Typed(p, "reasoning", {"obj"}) /\ Typed(p, "text", {"obj"})
  /\ Typed(Fields(Val(p, "text")), "format", {"obj"})

validateCodexResponsesScalarFields(p) ==
  /\ \A f \in {"service_tier", "conversation", "previous_response_id", "prompt_cache_key"} :
       Typed(p, f, {"str"})
  /\ Typed(p, "tool_choice", {"str", "obj"})

normalizeCodexPreviousResponseID(p) ==
  IF Val(p, "previous_response_id") = Str("") THEN Delete(p, {"previous_response_id"}) ELSE p

NonEmpty(v) == Kind(v) = "str" /\ Of(v) # ""
validateCodexConversation(p) ==
  ~(NonEmpty(Val(p, "conversation")) /\ NonEmpty(Val(p, "previous_response_id")))

validateCodexInclude(p) ==
  /\ Typed(p, "include", {"arr"})
  /\ Kind(Val(p, "include")) = "arr" =>
       \A v \in Range(Of(p["include"])) : Kind(v) = "str" /\ Of(v) \in IncludeAllowlist

\* codexInstructions, optionalCodexBool, requiredCodexString and the refusal of store.
ValidCommon(p) ==
  /\ NonEmpty(Val(p, "model")) /\ Typed(p, "instructions", {"str"})
  /\ Typed(p, "store", {"bool"}) /\ Val(p, "store") # Bool(TRUE)

WithInstructions(p) ==
  IF Val(p, "instructions") = Null THEN Put(p, "instructions", Str(<<>>)) ELSE p

-----------------------------------------------------------------------------
(* Tools *)

RenameTool(v) ==
  IF Kind(v) = "obj" /\ Val(Of(v), "type") = Str("web_search_preview")
  THEN Obj(Put(Of(v), "type", Str("web_search"))) ELSE v

ToolSupported(v) ==
  Kind(v) = "obj" /\ Kind(Val(Of(v), "type")) = "str" => Of(Of(v)["type"]) \notin UnsupportedToolTypes

ToolsOf(p) == IF Kind(Val(p, "tools")) = "arr" THEN Of(p["tools"]) ELSE <<>>

\* normalizeCodexTools and normalizeCodexToolChoice.
normalizeCodexTools(p) ==
  LET renamed == IF ToolsOf(p) = <<>> THEN p
                 ELSE Put(p, "tools", Arr([k \in DOMAIN ToolsOf(p) |-> RenameTool(ToolsOf(p)[k])]))
  IN  IF "tool_choice" \in DOMAIN renamed
      THEN Put(renamed, "tool_choice", RenameTool(renamed["tool_choice"])) ELSE renamed

codexToolSortKey(v) ==
  LET f == Fields(v)
      named == IF Kind(Val(f, "name")) = "str" THEN f ELSE Fields(Val(f, "function"))
  IN  IF Kind(Val(named, "name")) = "str" THEN Of(named["name"]) ELSE 0

\* canonicalizeCodexTools: a stable sort.
Canonical(tools) ==
  LET key(i) == codexToolSortKey(tools[i])
      order == SetToSortSeq(DOMAIN tools,
                            LAMBDA i, j : key(i) < key(j) \/ (key(i) = key(j) /\ i < j))
  IN  [k \in DOMAIN order |-> tools[order[k]]]

stripCodexUnsupportedUpstreamFields(p) ==
  Delete(IF ToolsOf(p) = <<>> THEN p ELSE Put(p, "tools", Arr(Canonical(ToolsOf(p)))),
         UnsupportedFields)

-----------------------------------------------------------------------------
(* Input *)

coerceMessages(instructions, messages) ==
  LET role(m) == IF Kind(m) # "obj" THEN "none"
                 ELSE IF Kind(Val(Of(m), "role")) = "str" THEN Of(Of(m)["role"]) ELSE "user"
      text(m) == contentText(Val(Of(m), "content"))
      call(m) == FirstString(Of(m), CallIDKeys)
      system(m) == IF role(m) \in {"system", "developer"} THEN text(m) ELSE <<>>
      item(m) ==
        CASE role(m) \in {"none", "system", "developer"} -> <<>>
          [] role(m) = "assistant" ->
               <<Obj([role |-> Str("assistant"), content |-> Arr(<<Part("output_text", text(m))>>)])>>
          [] role(m) = "tool" -> IF call(m) = "" THEN <<>> ELSE <<ToolOutput(call(m), text(m))>>
          [] OTHER -> IF text(m) = <<>> THEN <<>> ELSE <<inputTextMessage(text(m))>>
  IN  [instructions |-> instructions \o Flatten(system, messages), input |-> Flatten(item, messages)]

isCodexInputFileWithID(v) ==
  Kind(v) = "obj" /\ Val(Of(v), "type") = Str("input_file") /\ NonEmpty(Val(Of(v), "file_id"))

\* The parts of a content: its elements, or the one object it is.
Parts(v) == IF Kind(v) = "arr" THEN Of(v) ELSE IF Kind(v) = "obj" THEN <<v>> ELSE <<>>

codexInputHasFileID(items) ==
  \E v \in Range(items) :
    \/ isCodexInputFileWithID(v)
    \/ \E part \in Range(Parts(Val(Fields(v), "content"))) : isCodexInputFileWithID(part)

\* sanitizeCodexContentPart: <<>> for a part of the model's reasoning.
SanitizePart(v) ==
  IF Kind(v) # "obj" THEN <<v>>
  ELSE IF \E t \in InterleavedParts : Val(Of(v), "type") = Str(t) THEN <<>>
  ELSE <<Obj(Delete(Of(v), InterleavedKeys))>>

\* sanitizeCodexContent: <<>> drops the field.
sanitizeCodexContent(v) ==
  CASE Kind(v) = "arr" -> <<Arr(Flatten(SanitizePart, Of(v)))>>
    [] Kind(v) = "obj" -> SanitizePart(v)
    [] OTHER -> <<v>>

TextPart(v, types) ==
  LET f == Fields(v)
      type == IF Kind(Val(f, "type")) = "str" THEN Of(f["type"]) ELSE ""
  IN  CASE Kind(Val(f, "text")) = "str" /\ type \in types \cup {""} -> <<Of(f["text"])>>
        [] type = "refusal" /\ Kind(Val(f, "refusal")) = "str" -> <<Of(f["refusal"])>>
        [] OTHER -> <<>>

AssistantPart(v) ==
  LET found == TextPart(v, {"input_text", "output_text", "text"})
  IN  CASE found # <<>> -> Part("output_text", found[1])
        [] Kind(v) = "str" -> Part("output_text", Of(v))
        [] OTHER -> v

normalizeCodexAssistantContent(v) ==
  CASE Kind(v) = "str" -> Arr(<<Part("output_text", Of(v))>>)
    [] Kind(v) = "arr" -> Arr([k \in DOMAIN Of(v) |-> AssistantPart(Of(v)[k])])
    [] Kind(v) = "obj" -> Arr(<<AssistantPart(v)>>)
    [] OTHER -> v

normalizeCodexToolOutputValue(v) ==
  LET text(part) == IF Kind(part) = "str" THEN <<Of(part)>>
                    ELSE TextPart(part, {"input_text", "output_text", "refusal", "text"})
      texts == Flatten(text, Parts(v))
  IN  CASE Kind(v) = "null" -> <<>>
        [] Kind(v) = "str" -> Of(v)
        [] texts # <<>> -> FlattenSeq(texts)
        [] OTHER -> <<"json">>

\* normalizeCodexRoleInputItem on the sanitized fields.
NormalizeRole(f) ==
  CASE Val(f, "role") = Str("assistant") /\ "content" \in DOMAIN f ->
         Obj(Put(f, "content", normalizeCodexAssistantContent(f["content"])))
    [] Val(f, "role") = Str("tool") ->
         ToolOutput(FirstString(f, CallIDKeys),
                    normalizeCodexToolOutputValue(IF Val(f, "output") # Null THEN f["output"]
                                                  ELSE Val(f, "content")))
    [] OTHER -> Obj(f)

\* The reasoning of another model is kept.
sanitizeKeepingReasoning(v) == IF Kind(v) # "obj" THEN v ELSE NormalizeRole(Of(v))

sanitizeCodexInputItem(v) ==
  LET f == Delete(Fields(v), InterleavedKeys)
      content == IF "content" \in DOMAIN f THEN sanitizeCodexContent(f["content"]) ELSE <<>>
  IN  IF Kind(v) # "obj" THEN v
      ELSE NormalizeRole(IF content = <<>> THEN Delete(f, {"content"})
                         ELSE Put(f, "content", content[1]))

ToolWithoutID(v) ==
  Val(Fields(v), "role") = Str("tool") /\ FirstString(Of(v), CallIDKeys) = ""

inputMissingOrEmpty(v) == Kind(v) = "null" \/ (Kind(v) \in {"str", "arr"} /\ Of(v) = <<>>)

\* normalizeCodexInput accepts the input.
InputAccepted(v) ==
  \/ Kind(v) = "str"
  \/ Kind(v) = "arr" /\ ~codexInputHasFileID(Of(v)) /\ ~\E i \in Range(Of(v)) : ToolWithoutID(i)

normalizeCodexInput(p) ==
  LET v == p["input"]
  IN  Put(p, "input", IF Kind(v) = "str" THEN Arr(<<inputTextMessage(Of(v))>>)
                      ELSE Arr([k \in DOMAIN Of(v) |-> sanitizeCodexInputItem(Of(v)[k])]))

\* messages, where compatible, become instructions and input.
WithMessages(p, compat) ==
  LET c == coerceMessages(Of(p["instructions"]), Of(p["messages"]))
  IN  IF compat /\ Kind(Val(p, "messages")) = "arr"
      THEN Put(Put(Delete(p, {"messages"}), "instructions", Str(c.instructions)), "input", Arr(c.input))
      ELSE p

MessagesAccepted(p, compat) ==
  LET has == Kind(Val(p, "messages")) = "arr"
      missing == inputMissingOrEmpty(Val(p, "input"))
  IN  Typed(p, "messages", {"arr"}) /\ (IF compat THEN has = missing ELSE ~missing)

-----------------------------------------------------------------------------
(* The normalisations: ok, the body sent, and whether the client streams   *)
(* and asked for the usage                                                 *)

RefusedBody == [ok |-> FALSE, payload |-> EmptyMap, stream |-> FALSE, usage |-> FALSE]

\* normalizeCodexResponsesPayloadMap in its stages: q has its aliases moved, t its
\* instructions and tools, m its messages turned into input.
AcceptedAliased(q) ==
  /\ validateCodexResponsesScalarFields(q) /\ validateCodexConversation(q)
  /\ Val(q, "truncation") = Null
  /\ ValidCommon(q) /\ Typed(q, "stream", {"bool"}) /\ validateCodexInclude(q)
  /\ Typed(q, "tools", {"arr"}) /\ \A tool \in Range(ToolsOf(q)) : ToolSupported(tool)

FinishInput(m, stream) ==
  IF ~InputAccepted(Val(m, "input")) THEN RefusedBody
  ELSE [ok |-> TRUE, stream |-> stream, usage |-> FALSE,
        payload |-> stripCodexUnsupportedUpstreamFields(
                      Put(Put(normalizeCodexInput(m), "store", Bool(FALSE)), "stream", Bool(TRUE)))]

NormalizeMessages(t, compat) ==
  IF ~MessagesAccepted(t, compat) THEN RefusedBody
  ELSE FinishInput(WithMessages(t, compat), Val(t, "stream") = Bool(TRUE))

NormalizeAliased(q, compat) ==
  IF ~AcceptedAliased(q) THEN RefusedBody
  ELSE NormalizeMessages(normalizeCodexTools(WithInstructions(q)), compat)

normalizeCodexResponsesPayloadMap(p, compat) ==
  IF ~validateCodexResponsesObjectFields(p) THEN RefusedBody
  ELSE NormalizeAliased(
         normalizeCodexPreviousResponseID(normalizeCodexOpenAICompatibleAliases(p)), compat)

\* decodeCodexResponsesCompactRequest, likewise.
FinishCompact(m) ==
  IF ~InputAccepted(Val(m, "input")) THEN RefusedBody
  ELSE [ok |-> TRUE, stream |-> FALSE, usage |-> FALSE,
        payload |-> Delete(stripCodexUnsupportedUpstreamFields(normalizeCodexInput(m)), {"store"})]

CompactMessages(t, compat) ==
  IF MessagesAccepted(t, compat) THEN FinishCompact(WithMessages(t, compat)) ELSE RefusedBody

CompactAliased(q, compat) ==
  IF Typed(q, "service_tier", {"str"}) /\ Typed(q, "prompt_cache_key", {"str"}) /\ ValidCommon(q)
  THEN CompactMessages(WithInstructions(q), compat) ELSE RefusedBody

decodeCodexResponsesCompactRequest(p, compat) ==
  IF ~Typed(p, "reasoning", {"obj"}) THEN RefusedBody
  ELSE CompactAliased(normalizeCodexOpenAICompatibleAliases(p), compat)

\* codexBackendBody: the path chooses the normalisation.
codexBackendBody(path, p) ==
  CASE path \in {"/v1/responses", "/backend-api/codex/responses"} ->
         normalizeCodexResponsesPayloadMap(p, path = "/v1/responses")
    [] path \in {"/v1/responses/compact", "/backend-api/codex/responses/compact"} ->
         decodeCodexResponsesCompactRequest(p, path = "/v1/responses/compact")
    [] OTHER -> [ok |-> TRUE, payload |-> p, stream |-> FALSE, usage |-> FALSE]

-----------------------------------------------------------------------------
(* Chat Completions *)

CopiedFields == {"temperature", "top_p", "stop", "presence_penalty", "frequency_penalty", "seed",
                 "service_tier", "parallel_tool_calls", "verbosity", "prompt_cache_key"}

\* decodeChatMessages, validateChatStore, validateChatN, optionalJSONBool.
ValidChat(r) ==
  /\ NonEmpty(Val(r, "model"))
  /\ Kind(Val(r, "messages")) = "arr" /\ Of(r["messages"]) # <<>>
  /\ \A m \in Range(Of(r["messages"])) :
       Kind(m) = "obj" /\ Val(Of(m), "role") \in {Str("system"), Str("developer"), Str("user"),
                                                 Str("assistant"), Str("tool")}
  /\ Typed(r, "stream", {"bool"}) /\ Typed(r, "store", {"bool"}) /\ Val(r, "store") # Bool(TRUE)
  /\ Val(r, "n") \in {Null, Num(1)}

\* chatMaxOutputTokens: the limits agree; the second one wins.
ValidLimits(r) ==
  /\ \A f \in {"max_tokens", "max_completion_tokens"} :
       Typed(r, f, {"num"}) /\ (Val(r, f) # Null => Of(r[f]) >= 0)
  /\ Val(r, "max_tokens") # Null /\ Val(r, "max_completion_tokens") # Null
       => r["max_tokens"] = r["max_completion_tokens"]
MaxOutput(r) == IF Val(r, "max_completion_tokens") # Null THEN r["max_completion_tokens"]
                ELSE Val(r, "max_tokens")

\* chatTextContent: is it text only, and the text.
PlainPart(v) ==
  \/ Kind(v) = "str"
  \/ /\ Kind(v) = "obj" /\ Kind(Val(Of(v), "text")) = "str"
     /\ Val(Of(v), "type") \in {Null, Str(""), Str("text")}
TextOnly(v) == Kind(v) = "null" \/ (Kind(v) = "arr" /\ \A q \in Range(Of(v)) : PlainPart(q)) \/ PlainPart(v)

\* normalizeChatUserContentPart.
ImageOf(v) == Fields(Val(Of(v), "image_url"))
ValidUserPart(v) ==
  /\ Kind(v) = "obj"
  /\ \/ Val(Of(v), "type") = Str("text") /\ Kind(Val(Of(v), "text")) = "str"
     \/ /\ Val(Of(v), "type") = Str("image_url")
        /\ Val(ImageOf(v), "url") \in {Str("https://"), Str("data:")}
        /\ "detail" \in DOMAIN ImageOf(v) => ImageOf(v)["detail"] \in {Str("auto"), Str("low"), Str("high")}
UserPart(v) ==
  IF Val(Of(v), "type") = Str("text") THEN Part("input_text", Of(Of(v)["text"]))
  ELSE Obj([type |-> Str("input_image"), image_url |-> ImageOf(v)["url"]]
           @@ (IF "detail" \in DOMAIN ImageOf(v) THEN [detail |-> ImageOf(v)["detail"]] ELSE EmptyMap))

ValidUserContent(v) ==
  Kind(v) = "str" \/ (Kind(v) = "arr" /\ Of(v) # <<>> /\ \A q \in Range(Of(v)) : ValidUserPart(q))
normalizeChatUserContent(v) ==
  IF Kind(v) = "str" THEN Arr(<<Part("input_text", Of(v))>>)
  ELSE Arr([k \in DOMAIN Of(v) |-> UserPart(Of(v)[k])])

\* The tool calls of an assistant message.
ValidToolCall(v) ==
  LET fn == Fields(Val(Fields(v), "function"))
  IN  /\ Kind(v) = "obj" /\ FirstString(Of(v), <<"id", "call_id", "tool_call_id">>) # ""
      /\ Kind(Val(fn, "name")) = "str" /\ Of(fn["name"]) # 0 /\ Kind(Val(fn, "arguments")) = "str"
CallItem(v) ==
  LET fn == Of(Of(v)["function"])
  IN  Obj([type |-> Str("function_call"), name |-> fn["name"], arguments |-> fn["arguments"],
           call_id |-> Str(FirstString(Of(v), <<"id", "call_id", "tool_call_id">>))])

ValidChatMessage(m) ==
  LET role == Of(m["role"])
  IN  CASE role \in {"system", "developer"} -> TextOnly(Val(m, "content"))
        [] role = "user" -> "content" \in DOMAIN m => ValidUserContent(m["content"])
        [] role = "tool" -> FirstString(m, CallIDKeys) # ""
        [] OTHER -> /\ Typed(m, "tool_calls", {"arr"})
                    /\ Kind(Val(m, "tool_calls")) = "arr" =>
                         \A c \in Range(Of(m["tool_calls"])) : ValidToolCall(c)

\* assistantChatInputItems.
assistantChatInputItems(m) ==
  LET text == contentText(Val(m, "content"))
      said == (IF text = <<>> THEN <<>> ELSE <<Part("output_text", text)>>)
              \o (IF Val(m, "refusal") \in {Null, Str(<<>>)} THEN <<>>
                  ELSE <<Obj([type |-> Str("refusal"), refusal |-> m["refusal"]])>>)
      calls == IF Kind(Val(m, "tool_calls")) = "arr" THEN Of(m["tool_calls"]) ELSE <<>>
  IN  (IF said = <<>> THEN <<>> ELSE <<Obj([role |-> Str("assistant"), content |-> Arr(said)])>>)
      \o [k \in DOMAIN calls |-> CallItem(calls[k])]

chatInputItemsFromMessage(m) ==
  CASE m["role"] \in {Str("system"), Str("developer")} -> <<>>
    [] m["role"] = Str("assistant") -> assistantChatInputItems(m)
    [] m["role"] = Str("tool") ->
         <<ToolOutput(FirstString(m, CallIDKeys), contentText(Val(m, "content")))>>
    [] OTHER -> <<Obj(IF "content" \in DOMAIN m
                      THEN Put(m, "content", normalizeChatUserContent(m["content"])) ELSE m)>>

\* convertChatMessages.
SystemText(m) ==
  IF m["role"] \in {Str("system"), Str("developer")} THEN contentText(Val(m, "content")) ELSE <<>>
MessagesOf(r) == [k \in DOMAIN Of(r["messages"]) |-> Of(Of(r["messages"])[k])]

\* chatReasoning.
ValidReasoning(r) ==
  Typed(r, "reasoning", {"obj"}) /\ Val(r, "reasoning_effort") # Str("") /\ Typed(r, "reasoning_effort", {"str"})
Reasoning(r) ==
  LET own == Fields(Val(r, "reasoning"))
  IN  IF Val(r, "reasoning_effort") = Null THEN own ELSE Put(own, "effort", r["reasoning_effort"])

\* normalizeChatTools.
ChatToolTypes == {"function", "web_search", "web_search_preview"}
ToolType(f) == IF NonEmpty(Val(f, "type")) THEN Of(f["type"]) ELSE "function"
ValidChatTool(v) ==
  /\ Kind(v) = "obj" /\ ToolType(Of(v)) \in ChatToolTypes
  /\ Kind(Val(Of(v), "function")) = "obj" => Val(Fields(Of(v)["function"]), "name") \notin {Null, Str(0)}
ChatTool(v) ==
  IF Kind(Val(Of(v), "function")) = "obj"
  THEN Obj([type |-> Str("function"), name |-> Of(Of(v)["function"])["name"]])
  ELSE RenameTool(Obj(Put(Of(v), "type", Str(ToolType(Of(v))))))

\* normalizeChatToolChoice.
ChoiceFn(r) == Fields(Val(Fields(Val(r, "tool_choice")), "function"))
ValidChoice(r) == Kind(Val(Fields(Val(r, "tool_choice")), "function")) = "obj"
                    => Val(ChoiceFn(r), "name") \notin {Null, Str(0)}
Choice(r) ==
  IF Kind(Val(Fields(Val(r, "tool_choice")), "function")) = "obj"
  THEN Obj([type |-> Str(ToolType(Of(r["tool_choice"]))), name |-> ChoiceFn(r)["name"]])
  ELSE Val(r, "tool_choice")

\* chatTextFormat and chatStreamIncludeUsage.
FormatType(v) == IF Kind(v) = "str" THEN v ELSE Val(Fields(v), "type")
ValidFormat(r) ==
  LET v == Val(r, "response_format")
  IN  \/ v = Null
      \/ FormatType(v) \in {Str("text"), Str("json_object")}
      \/ Kind(v) = "obj" /\ FormatType(v) = Str("json_schema") /\ Kind(Val(Of(v), "json_schema")) = "obj"
Format(r) ==
  LET v == r["response_format"]
      schema == IF FormatType(v) = Str("json_schema") THEN Of(Of(v)["json_schema"]) ELSE EmptyMap
  IN  Obj([format |-> Obj((("type" :> FormatType(v)) @@ [k \in DOMAIN schema \cap {"name", "schema", "strict"} |-> schema[k]]))])
ValidOptions(r) ==
  Typed(r, "stream_options", {"obj"}) /\ Typed(Fields(Val(r, "stream_options")), "include_usage", {"bool"})
IncludeUsage(r) == Val(Fields(Val(r, "stream_options")), "include_usage") = Bool(TRUE)

ChatPayload(r) ==
  LET given(f, v) == IF v = Null THEN EmptyMap ELSE f :> v
      tools == ToolsOf(r)
  IN  [model |-> r["model"], store |-> Bool(FALSE), stream |-> Bool(TRUE),
       instructions |-> Str(Flatten(SystemText, MessagesOf(r))),
       input |-> Arr(Flatten(chatInputItemsFromMessage, MessagesOf(r)))]
      @@ given("max_output_tokens", MaxOutput(r))
      @@ [f \in {g \in CopiedFields : Val(r, g) # Null} |-> r[f]]
      @@ given("reasoning", IF Reasoning(r) = EmptyMap THEN Null ELSE Obj(Reasoning(r)))
      @@ given("tools", IF Val(r, "tools") = Null THEN Null ELSE Arr([k \in DOMAIN tools |-> ChatTool(tools[k])]))
      @@ given("tool_choice", Choice(r))
      @@ given("text", IF Val(r, "response_format") = Null THEN Null ELSE Format(r))

\* buildChatAdapterRequest: the checks, then the normalisation of what was built.
ValidChatRequest(r) ==
  /\ ValidChat(r) /\ ValidLimits(r)
  /\ \A m \in Range(MessagesOf(r)) : ValidChatMessage(m)
  /\ ValidReasoning(r)
  /\ Typed(r, "tools", {"arr"}) /\ \A t \in Range(ToolsOf(r)) : ValidChatTool(t)
  /\ ValidChoice(r) /\ ValidFormat(r) /\ ValidOptions(r)

ForChat(native, r) ==
  IF native.ok
  THEN [native EXCEPT !.stream = Val(r, "stream") = Bool(TRUE), !.usage = IncludeUsage(r)]
  ELSE RefusedBody

buildChatAdapterRequest(r) ==
  IF ValidChatRequest(r)
  THEN ForChat(normalizeCodexResponsesPayloadMap(ChatPayload(r), FALSE), r) ELSE RefusedBody
=============================================================================
