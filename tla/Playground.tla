----------------------------- MODULE Playground -----------------------------
(***************************************************************************)
(* One run of the account playground: what PlaygroundService.Validate      *)
(* accepts, what Client.RunPlayground makes of a provider's answer, the    *)
(* record PlaygroundService.Run leaves for each way a run can end and the  *)
(* code playgroundapi answers with.                                        *)
(*                                                                         *)
(* A string field is its length: 0 is blank once trimmed.  -1 is a field   *)
(* that was not sent.                                                      *)
(***************************************************************************)
EXTENDS ChatAdapter

CONSTANTS ShortLimit, PromptLimit, MaxOutputTokens

ASSUME LimitsAssumption == {ShortLimit, PromptLimit, MaxOutputTokens} \subseteq Nat \ {0}

Within(n, limit) == n \in 1..limit

\* Validate accepts the run.
Validate(q) ==
  /\ \/ q.mode = "auto" /\ q.account = -1
     \/ q.mode = "account" /\ q.account > 0
  /\ q.endpoint \in {"responses", "chat_completions"}
  /\ q.session # -1 => Within(q.session, ShortLimit)
  /\ Within(q.model, ShortLimit) /\ Within(q.text, PromptLimit)
  /\ q.max # -1 => Within(q.max, MaxOutputTokens)

\* A run's end: the kind of error, or "ran"; the provider's status and the text.
End(kind, status, text) == [kind |-> kind, status |-> status, text |-> text]

\* ExtractPlaygroundOutputText.
ExtractPlaygroundOutputText(r) == IF r.hasText /\ r.text # <<>> THEN r.text ELSE ItemText(r.items)

\* The status is not looked at before the answer is shown.
RunPlaygroundAnyStatus(oauth, endpoint, a) ==
  IF a.large THEN End("too_large", 0, <<>>) ELSE End("ran", a.status, ItemText(a.items))

\* RunPlayground from the whole body on.
RunPlayground(oauth, endpoint, a) ==
  LET c == CollectSSE(DataEvents(a))
      w == chatCompletionFromResponsesBody(a)
  IN  IF a.large THEN End("too_large", 0, <<>>)
      ELSE IF a.status \notin 200..299 THEN End("upstream", a.status, <<>>)
      ELSE IF oauth /\ endpoint = "responses" /\ a.type # "json"
      THEN IF c.ok THEN End("ran", a.status, ExtractPlaygroundOutputText(c.response))
           ELSE End("malformed", 0, <<>>)
      ELSE IF oauth /\ endpoint = "chat_completions"
      THEN CASE w.kind = "invalid" -> End("malformed", 0, <<>>)
             [] w.kind = "failed" -> End("upstream", w.status, <<>>)
             [] OTHER -> End("ran", a.status, w.text)
      ELSE IF a.form # "json" THEN End("malformed", 0, <<>>)
      ELSE End("ran", a.status, ExtractPlaygroundOutputText(JSONBody(a)))

\* The errors before a body is read: httpClient.Do, and readPlaygroundResponseBody.  The
\* transport has limits of its own, to connect, for the TLS handshake and for the headers:
\* isTimeout does not tell them from the wait limit.
DoError(gone, expired, slow) ==
  End(IF gone THEN "cancelled" ELSE IF slow \/ expired THEN "timeout" ELSE "connect", 0, <<>>)
ReadError(cause) == End(IF cause = "gone" THEN "cancelled" ELSE "internal", 0, <<>>)

\* recordInputForPlaygroundError, and the recordRun calls of Run: outcome, status, account.
RunRecord(outcome, status, account) == [outcome |-> outcome, status |-> status, account |-> account]
recordInput(e) ==
  CASE e.kind = "no_account" -> RunRecord("no_available_account", 200, FALSE)
    [] e.kind = "missing" -> RunRecord("account_unavailable", 200, FALSE)
    [] e.kind = "unavailable" -> RunRecord("account_unavailable", 200, TRUE)
    [] e.kind = "select_error" -> RunRecord("router_error", 500, FALSE)
    [] e.kind = "cancelled" -> RunRecord("cancelled", 499, TRUE)
    [] e.kind = "upstream" -> RunRecord("upstream_error", e.status, TRUE)
    [] e.kind = "timeout" -> RunRecord("upstream_timeout", 200, TRUE)
    [] e.kind \in {"malformed", "too_large"} -> RunRecord("router_error", 200, TRUE)
    [] e.kind = "ran" ->
         RunRecord(IF e.text # <<>> THEN "success" ELSE "no_extractable_text", e.status, TRUE)
    [] OTHER -> RunRecord("router_error", 500, TRUE)

\* playgroundErrorResponse and playgroundSuccess.
playgroundCode(e) ==
  CASE e.kind = "validation" -> 4001
    [] e.kind = "no_account" -> 4002
    [] e.kind \in {"missing", "unavailable"} -> 4003
    [] e.kind = "upstream" -> 4004
    [] e.kind = "timeout" -> 4005
    [] e.kind = "malformed" -> 4006
    [] e.kind = "too_large" -> 4007
    [] e.kind = "ran" -> 0
    [] OTHER -> 4900

=============================================================================
