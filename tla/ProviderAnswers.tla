--------------------------- MODULE ProviderAnswers ---------------------------
(***************************************************************************)
(* What openAIProvider makes of the provider's HTTP answers while an       *)
(* account is being bound: the device code, its polls and the exchange of  *)
(* an authorization code.  Durations are in units of five seconds.         *)
(***************************************************************************)
EXTENDS Integers

defaultDevicePollInterval == 1
maxDevicePollInterval == 12

\* Fields of a duration that are not there, or are not numbers.
Absent == -9
Unparseable == -8

\* What a call returns: code "ok" or that of a TokenExchangeError, the HTTP
\* status it keeps (0: none), a device code's interval and lifetime, an id_token.
\* NoCode is a code or a field of an answer that is not there.
NoCode == ""
NoIdToken == [jwt |-> FALSE, email |-> "", account |-> "", exp |-> Absent]
Result(code, http) ==
  [code |-> code, http |-> http, interval |-> 0, ttl |-> 0, idToken |-> NoIdToken]

HttpCode(http) == CASE http = 403 -> "http_403" [] http = 404 -> "http_404"
                    [] OTHER -> "http_other"
defaultOAuthErrorCode(code, http) ==
  IF code # NoCode THEN code ELSE IF http > 0 THEN HttpCode(http) ELSE "invalid_response"

\* An answer has http 0 when none arrived (client.Do failed) and readable is
\* FALSE when its body was cut, exceeds oauthResponseBodyLimit or is not JSON.
Arrived(a, result) ==
  IF a.http = 0 THEN Result("request_failed", 0)
  ELSE IF ~a.readable THEN Result("invalid_response", a.http)
  ELSE result

-----------------------------------------------------------------------------
(* The device code: [http, readable, error, ids, interval, ttl].  ids tells  *)
(* whether device_auth_id and user_code are there, ttl is expires_at - now. *)

classifyDeviceCodeError(a) ==
  Result(IF a.http = 404 THEN "device_auth_unavailable"
                         ELSE defaultOAuthErrorCode(a.error, a.http), a.http)

deviceCodeFromResponse(a) ==
  IF a.ids /\ a.interval \in {Absent} \cup Nat /\ a.ttl \in Nat \ {0}
  THEN [Result("ok", a.http) EXCEPT
          !.interval = IF a.interval \in {Absent, 0} THEN defaultDevicePollInterval
                                                     ELSE a.interval,
          !.ttl = a.ttl]
  ELSE Result("invalid_response", a.http)

RequestDeviceCode(a) ==
  Arrived(a, IF a.http = 200 THEN deviceCodeFromResponse(a) ELSE classifyDeviceCodeError(a))

-----------------------------------------------------------------------------
(* The exchange of a code: [http, readable, error, complete, idToken].       *)
(* complete: all three tokens are there and expires_in is not negative.     *)

classifyTokenExchangeError(a) ==
  Result(IF a.error = NoCode THEN "invalid_response" ELSE a.error, a.http)

tokensFromResponse(a) ==
  IF a.complete THEN [Result("ok", a.http) EXCEPT !.idToken = a.idToken]
                ELSE Result("invalid_response", a.http)

exchangeTokens(a) ==
  Arrived(a, IF a.http = 200 THEN tokensFromResponse(a) ELSE classifyTokenExchangeError(a))

-----------------------------------------------------------------------------
(* A poll: [http, readable, error, status, code], where code tells whether   *)
(* authorization_code and code_verifier are both there, and the answer t to *)
(* the exchange that follows.                                               *)

PendingStatuses == {"pending", "authorization_pending"}

classifyPendingDevicePoll(a) ==
  IF {a.error, a.status} \cap PendingStatuses # {} THEN "authorization_pending"
  ELSE IF "slow_down" \in {a.error, a.status} THEN "slow_down" ELSE NoCode

semanticDevicePollCode(a) ==
  IF a.error # NoCode THEN a.error
  ELSE IF a.status \in {NoCode, "ok", "success"} THEN NoCode ELSE a.status

\* A poll whose answer is a code goes on to the exchange.
Granted(a) ==
  /\ a.http = 200 /\ a.readable /\ a.code
  /\ classifyPendingDevicePoll(a) = NoCode /\ semanticDevicePollCode(a) = NoCode

PollDeviceCode(a, t) ==
  Arrived(a,
    IF classifyPendingDevicePoll(a) # NoCode THEN Result(classifyPendingDevicePoll(a), 0)
    ELSE IF semanticDevicePollCode(a) # NoCode THEN Result(semanticDevicePollCode(a), a.http)
    ELSE IF a.http # 200 THEN Result(HttpCode(a.http), a.http)
    ELSE IF ~a.code THEN Result("invalid_response", a.http)
    ELSE exchangeTokens(t))

-----------------------------------------------------------------------------
(* The claims of an id_token: jwt tells whether it is three segments with a  *)
(* JSON payload (ExtractClaims).                                            *)

firstNonEmpty(a, b) == IF a # "" THEN a ELSE b

deriveOAuthAccountName(claims) == firstNonEmpty(claims.email, claims.account)

\* The tokens can become a row: what is not so fails as invalid_response.
Persistable(idToken) == idToken.jwt /\ deriveOAuthAccountName(idToken) # ""

-----------------------------------------------------------------------------
isTransientDevicePollTransport(r) ==
  <<r.code, r.http>> \in {<<"http_403", 403>>, <<"http_404", 404>>}

\* slow_down: twice the interval, between the default and the maximum.
SlowedDown(current) ==
  LET next == 2 * current
  IN  CASE next < defaultDevicePollInterval -> defaultDevicePollInterval
        [] next > maxDevicePollInterval     -> maxDevicePollInterval
        [] OTHER                            -> next

\* Bugs: a poll that is refused while the user has not decided ends the flow; the
\* interval is not raised.
KeptPollingStrict(r) == r.code \in {"authorization_pending", "slow_down"}
nextIntervalKept(current, r) == current

\* nextDevicePollInterval: does the poller go on, and after how long.
KeptPolling(r) ==
  r.code \in {"authorization_pending", "slow_down"} \/ isTransientDevicePollTransport(r)

nextInterval(current, r) == IF r.code = "slow_down" THEN SlowedDown(current) ELSE current
=============================================================================
