-------------------------- MODULE MCUpstreamAnswers --------------------------
(* An instance of UpstreamAnswers: requests that take each branch of the    *)
(* conversions, and answers of every form a provider may send.              *)
EXTENDS UpstreamAnswers

Msg(role, content) == [role |-> Str(role), content |-> content]
User == Obj(Msg("user", Str(<<"u">>)))
Base == [model |-> Str("m"), input |-> Arr(<<User>>)]

MCTool(type, rank) == Obj([type |-> Str(type), name |-> Str(rank)])

MCInputs ==
  { Str(<<"u">>), Arr(<<>>), Num(1), Arr(<<User, Str(<<"loose">>)>>),
    Arr(<<Obj(Msg("assistant", Str(<<"a">>)) @@ [reasoning_content |-> Str(<<"r">>)]), User>>),
    Arr(<<Obj(Msg("assistant", Arr(<<Part("text", <<"a">>), Part("reasoning", <<"r">>),
                                     Str(<<"b">>)>>)))>>),
    Arr(<<Obj(Msg("assistant", Part("reasoning", <<"r">>))), Obj(Msg("assistant", Null))>>),
    Arr(<<Obj(Msg("tool", Arr(<<Str(<<"t">>), Part("output_text", <<"v">>)>>))
              @@ [tool_call_id |-> Str("c1")]), User>>),
    Arr(<<Obj([role |-> Str("tool"), output |-> Str(<<"t">>), call_id |-> Str("c1")])>>),
    Arr(<<Obj(Msg("tool", Str(<<"t">>)))>>),
    Arr(<<Obj(Msg("user", Arr(<<Obj([type |-> Str("input_file"), file_id |-> Str("f")])>>)))>>) }

MCFields ==
  { [promptCacheKey |-> Str("k"), reasoningEffort |-> Str("low"), reasoningSummary |-> Num(1)],
    [reasoning |-> Obj([effort |-> Str("high")]), reasoningEffort |-> Str("low")],
    [reasoning |-> Str("high")], [text |-> Obj([format |-> Num(1)])],
    [textVerbosity |-> Str("low"), verbosity |-> Str("high"), text |-> Null],
    [service_tier |-> Str("fast"), temperature |-> Num(1), safety_identifier |-> Str("x")],
    [promptCacheRetention |-> Str("24h"), max_output_tokens |-> Num(5)],
    [conversation |-> Str("c"), previous_response_id |-> Str("p")],
    [conversation |-> Str("c"), previous_response_id |-> Str("")],
    [truncation |-> Str("auto")], [store |-> Bool(TRUE)], [stream |-> Num(1)],
    [stream |-> Bool(TRUE), store |-> Bool(FALSE)], [instructions |-> Str(<<"i">>)],
    [instructions |-> Num(1)], [model |-> Str("")], [tool_choice |-> Bool(TRUE)],
    [include |-> Arr(<<Str("reasoning.encrypted_content")>>)], [include |-> Arr(<<Str("other")>>)],
    [tools |-> Arr(<<MCTool("function", 2), MCTool("web_search_preview", 1), Str("odd")>>),
     tool_choice |-> Obj([type |-> Str("web_search_preview")])],
    [tools |-> Arr(<<MCTool("file_search", 1)>>)] }

MCMessages ==
  { Arr(<<Obj(Msg("system", Str(<<"s">>))), User>>), Arr(<<User>>), Arr(<<>>),
    Arr(<<Obj(Msg("developer", Arr(<<Part("text", <<"s">>), Part("text", <<"d">>)>>)))>>),
    Arr(<<User, Obj(Msg("assistant", Str(<<"a">>))),
          Obj(Msg("tool", Str(<<"t">>)) @@ [tool_call_id |-> Str("c1")]), User>>),
    Arr(<<User, Obj(Msg("tool", Str(<<"t">>)))>>) }

MCChatMessages ==
  MCMessages \cup
  { Arr(<<User, Obj([role |-> Str("assistant"), refusal |-> Str(<<"no">>),
                     tool_calls |-> Arr(<<Obj([id |-> Str("c1"), function |->
                        Obj([name |-> Str(1), arguments |-> Str(<<"x">>)])])>>)])>>),
    Arr(<<Obj([role |-> Str("assistant"), tool_calls |-> Arr(<<Obj([id |-> Str("")])>>)])>>),
    Arr(<<Obj(Msg("user", Arr(<<Part("text", <<"u">>), Obj([type |-> Str("image_url"),
            image_url |-> Obj([url |-> Str("data:"), detail |-> Str("low")])])>>)))>>),
    Arr(<<Obj(Msg("user", Arr(<<Obj([type |-> Str("image_url"), image_url |->
            Obj([url |-> Str("file:")])])>>)))>>),
    Arr(<<Obj(Msg("function", Str(<<"f">>)))>>),
    Arr(<<Obj(Msg("system", Arr(<<Obj([type |-> Str("image_url")])>>)))>>) }

MCChatFields ==
  { [stream |-> Bool(TRUE), stream_options |-> Obj([include_usage |-> Bool(TRUE)])],
    [stream_options |-> Num(1)], [n |-> Num(2)], [store |-> Bool(TRUE)],
    [max_tokens |-> Num(1), max_completion_tokens |-> Num(2)],
    [max_tokens |-> Num(1), temperature |-> Num(1), verbosity |-> Str("low")],
    [reasoning |-> Obj([effort |-> Str("high")]), reasoning_effort |-> Str("low")],
    [response_format |-> Str("json_object"), service_tier |-> Str("fast")],
    [response_format |-> Obj([type |-> Str("json_schema"),
                              json_schema |-> Obj([name |-> Str("n"), extra |-> Str("e")])])],
    [response_format |-> Obj([type |-> Str("xml")])],
    [tools |-> Arr(<<Obj([function |-> Obj([name |-> Str(2)])]), MCTool("web_search_preview", 1)>>),
     tool_choice |-> Obj([type |-> Str("function"), function |-> Obj([name |-> Str(2)])])],
    [tools |-> Arr(<<MCTool("code_interpreter", 1)>>)], [unknown |-> Num(1)] }

Paths == {"/v1/responses", "/backend-api/codex/responses", "/v1/responses/compact",
          "/backend-api/codex/responses/compact"}

MCRequests ==
  [via : {"responses"}, path : Paths,
   body : {Put(Base, "input", i) : i \in MCInputs} \cup {f @@ Base : f \in MCFields}
          \cup {[model |-> Str("m"), messages |-> m] : m \in MCMessages}
          \cup {Put(Base, "messages", Arr(<<User>>)), [model |-> Str("m")]}]
  \cup
  [via : {"chat"}, path : {ChatPath},
   body : {[model |-> Str("m"), messages |-> m] : m \in MCChatMessages}
          \cup {f @@ [model |-> Str("m"), messages |-> Arr(<<User>>)] : f \in MCChatFields}
          \cup {[model |-> Str("m"), messages |-> Arr(<<User>>), stream |-> Bool(TRUE)]}]
  \cup
  [via : {"playground"}, oauth : BOOLEAN,
   run : [mode : {"auto", "account"}, account : {-1, 1}, endpoint : {"responses", "chat_completions"},
          session : {-1}, model : {1}, text : {1}, max : {1}]
         \cup [mode : {"auto"}, account : {-1}, endpoint : {"responses", "other"},
               session : {-1, 0, 2}, model : {1}, text : {0, 2}, max : {-1, 3}]]

Call1 == FunctionCall("c1", "f", <<"x", "y">>)
MCItems ==
  { <<>>, <<Message(<<"a", "b">>, <<>>)>>, <<Message(<<>>, <<"no">>)>>, <<Image>>,
    <<Message(<<"a">>, <<>>), Call1>>, <<Call1, FunctionCall("c2", "f", <<>>)>>,
    <<Message(<<"a">>, <<>>), Message(<<"b">>, <<>>)>> }
TwoCalls == <<Call1, FunctionCall("c2", "f", <<"z">>)>>

MCAnswer == [NoAnswer EXCEPT !.status = 200, !.form = "sse", !.type = "sse", !.id = "r1", !.usage = 1,
                             !.end = "response.completed"]

MCAnswers ==
  {[MCAnswer EXCEPT !.items = i, !.end = e, !.output = o, !.textDone = t,
                    !.reason = IF e = "response.incomplete" THEN "max_output_tokens" ELSE ""] :
     i \in MCItems, o \in BOOLEAN, t \in BOOLEAN,
     e \in {"response.completed", "response.incomplete", "response.failed", "error", "none"}}
  \cup
  {[MCAnswer EXCEPT !.items = <<Call1>>, !.type = ty, !.id = n, !.usage = 0, !.done = d] :
     ty \in {"sse", "text"}, n \in {"", "r1"}, d \in BOOLEAN}
  \cup
  {[MCAnswer EXCEPT !.items = i, !.ids = FALSE, !.output = o] :
     i \in {<<Message(<<"a">>, <<>>), Call1>>, TwoCalls}, o \in BOOLEAN}
  \cup
  {[MCAnswer EXCEPT !.items = i, !.form = "json", !.type = ty, !.end = e, !.large = l] :
     i \in {<<Message(<<"a">>, <<>>), Call1>>, <<Message(<<"data:">>, <<>>)>>, <<>>},
     ty \in {"json", "text"}, l \in BOOLEAN,
     e \in {"response.completed", "response.incomplete", "response.failed"}}
  \cup
  {[MCAnswer EXCEPT !.status = st, !.form = "text", !.type = ty, !.end = "none"] :
     st \in {200, 401, 500}, ty \in {"text", "json", "sse"}}

=============================================================================
