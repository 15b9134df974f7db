--------------------------- MODULE GatewayExchange ----------------------------
(***************************************************************************)
(* What the data plane does once AccountRouting has picked an account:     *)
(* the token, the bridge, the upstream call, the adaptation of its answer, *)
(* the reply to the client and the request record, and for WebSocket       *)
(* routes the relay with its two copying goroutines.                       *)
(*                                                                         *)
(* Exchanges share no state, so the model is one of them.  Status codes    *)
(* are the numbers the router writes, or what the upstream answered: "ok"  *)
(* (2xx), "redirect" (3xx), "error" (4xx, 5xx).  A body is whole, cut off  *)
(* by the end of a connection, or not what its type says.                  *)
(***************************************************************************)
EXTENDS GatewayRoutes, Sequences

VARIABLES
  stage, call, kind, \* where the handler is, its request, the account's kind
  upstream, resp,  \* what the upstream answered, and after the adapter
  gone,            \* the client has gone: the request context is done
  reply,           \* what was sent, and the record
  peer,            \* the two WebSocket connections
  copier, results, \* relayWebSockets: its goroutines and its channel
  ctx              \* its context, "live" or "cancelled"

relay == <<peer, copier, results, ctx>>
exchange == <<stage, call, kind, upstream, resp, gone, reply, relay>>

Answers == [code : {"ok", "redirect", "error"},
            type : {"json", "sse", "other"},
            body : {"whole", "cut", "malformed"}]
NoAnswer == [code |-> "ok", type |-> "other", body |-> "cut"]
NoReply == [sent |-> "none", recorded |-> "none", outcome |-> "none"]
Peers == {"downstream", "upstream"}
Directions == {"downstream_to_upstream", "upstream_to_downstream"}
Source(d) == IF d = "downstream_to_upstream" THEN "downstream" ELSE "upstream"
Target(d) == IF d = "downstream_to_upstream" THEN "upstream" ELSE "downstream"

\* Any route but the models list, with any account routing may pick for it.
ExchangeInit ==
  /\ call \in [op : Ops \ {"models.list"}, stream : BOOLEAN]
  /\ call.stream => call.op \in {"responses.create", "chat.create"}
  /\ kind \in AccountKinds /\ (kind.credential = "oauth" => kind.capabilities = {})
  /\ proxyAccountEligible(kind, call.op)
  /\ stage = "prepare" /\ upstream = NoAnswer /\ resp = NoAnswer /\ gone = FALSE
  /\ reply = NoReply /\ peer = [p \in Peers |-> "none"]
  /\ copier = [d \in Directions |-> "none"] /\ results = <<>> /\ ctx = "live"

\* The response to the client and one call of the recorder.
Answer(sent, recorded, outcome) ==
  /\ reply' = [sent |-> sent, recorded |-> recorded, outcome |-> outcome]
  /\ stage' = "done"

writeError(code, outcome) == Answer(code, code, outcome)

-----------------------------------------------------------------------------
(* The token, the bridge and the upstream.                                 *)

\* prepareToken: the API key, or RefreshIfStale (see TokenRefresh).
PreForward ==
  /\ stage = "prepare"
  /\ \/ stage' = "bridge" /\ UNCHANGED reply
     \/ writeError("502", "router_error")
  /\ UNCHANGED <<call, kind, upstream, resp, gone, relay>>

\* selectGatewayBridge, DecodeClientRequest and BuildUpstreamRequest; a
\* System One account without base_url is an error of its own.
SelectBridge ==
  /\ stage = "bridge"
  /\ IF selectGatewayBridge(call.op, kind.credential)
     THEN \/ stage' = "forward" /\ UNCHANGED reply
          \/ writeError("400", "router_error")
          \/ call.op = "systemone.create" /\ writeError("500", "router_error")
     ELSE writeError("503", "no_available_account")
  /\ UNCHANGED <<call, kind, upstream, resp, gone, relay>>

\* No answer: a timeout, a request body over the limit, no URL, a refused or
\* broken connection, a client that left.
ForwardFails ==
  /\ stage = "forward"
  /\ \E code \in {"504", "502"} \cup (IF call.op \in WebSocketOps THEN {}
                                      ELSE {"413", "400"}) :
       writeError(code, "router_error")
  /\ UNCHANGED <<call, kind, upstream, resp, gone, relay>>

\* adaptBridgeResponse: the answers it may hand on; none of them when the
\* upstream's answer does not convert.  A conversation that ends in
\* response.failed is a 502 in JSON.  A Chat stream is converted while it is
\* read: response.failed, an event that does not parse or no terminal event
\* closes the pipe with an error, and its reader sees a stream cut off.
Adapted(adapter, u) ==
  CASE adapter = "passthrough" -> {u}
    [] adapter = "collect" ->
         IF u.type = "json" THEN {u}
         ELSE IF u.type = "sse" /\ u.body = "whole"
              THEN {[u EXCEPT !.type = "json"]} ELSE {}
    [] adapter = "chat_json" ->
         IF u.code = "error" THEN {u}
         ELSE IF u.type # "other" /\ u.body = "whole"
              THEN {[u EXCEPT !.type = "json", !.code = c] : c \in {"ok", "error"}}
              ELSE {}
    [] adapter = "chat_sse" ->
         IF u.code = "error" THEN {u}
         ELSE IF u.type # "other" /\ u.body = "whole"
              THEN {[u EXCEPT !.type = "sse", !.body = b] : b \in {"whole", "cut"}}
              ELSE IF u.type = "sse" THEN {[u EXCEPT !.body = "cut"]} ELSE {}

\* The upstream answers; malformed also stands for a body that does not
\* decompress.
ForwardBridgeRequest ==
  /\ stage = "forward" /\ call.op \notin WebSocketOps
  /\ \E u \in Answers :
       LET out == Adapted(Adapter(call.op, kind.credential, call.stream), u) IN
       /\ upstream' = u
       /\ \/ \E v \in out : resp' = v /\ stage' = "respond" /\ UNCHANGED reply
          \/ /\ out = {} \/ u.body = "malformed"
             /\ writeError("502", "router_error") /\ UNCHANGED resp
  /\ UNCHANGED <<call, kind, gone, relay>>

-----------------------------------------------------------------------------
(* The answer to the client.                                               *)

\* The client's request context ends: what is still to be read of the
\* upstream's answer may fail from now on.
ClientLeaves ==
  /\ stage \in {"forward", "respond"} /\ call.op \notin WebSocketOps /\ ~gone
  /\ gone' = TRUE
  /\ UNCHANGED <<stage, call, kind, upstream, resp, reply, relay>>

OutcomeOf(op, code) ==
  IF code = "error" \/ (op = "systemone.create" /\ code = "redirect")
  THEN "upstream_error" ELSE "success"

Passed == Answer(resp.code, resp.code, OutcomeOf(call.op, resp.code))

\* System One: the whole body is read and a success validated first.
RespondSystemOne ==
  LET valid == /\ resp.body # "cut"
               /\ resp.code = "ok" => resp.type = "json" /\ resp.body = "whole"
  IN /\ stage = "respond" /\ call.op = "systemone.create"
     /\ \/ valid /\ Passed
        \/ /\ ~valid \/ gone
           /\ \E code \in {"502", "504"} : writeError(code, "router_error")
     /\ UNCHANGED <<call, kind, upstream, resp, gone, relay>>

\* readBounded before the headers are written.
RespondJSON ==
  /\ stage = "respond" /\ call.op # "systemone.create" /\ resp.type # "sse"
  /\ \/ resp.body # "cut" /\ Passed
     \/ (resp.body = "cut" \/ gone) /\ writeError("502", "router_error")
  /\ UNCHANGED <<call, kind, upstream, resp, gone, relay>>

\* Mutant: the error ignored.
classifySSEForwardFailureIgnored(outcome) == outcome

\* The status has been sent when the stream fails.
classifySSEForwardFailure(outcome) ==
  IF outcome # "success" THEN outcome
  ELSE IF gone THEN "cancelled" ELSE "router_error"

\* ForwardSSE; a malformed event fails when it is too large or captured.
RespondSSE ==
  LET code == resp.code IN
  /\ stage = "respond" /\ call.op # "systemone.create" /\ resp.type = "sse"
  /\ \/ resp.body # "cut" /\ Passed
     \/ /\ resp.body # "whole" \/ gone
        /\ Answer(code, code, classifySSEForwardFailure(OutcomeOf(call.op, code)))
  /\ UNCHANGED <<call, kind, upstream, resp, gone, relay>>

-----------------------------------------------------------------------------
(* serveWebSocket after the bridge.                                        *)

\* The dial succeeded; Accept takes the connection, and the copiers start,
\* or it answers the client by itself.
DialBridgeWebSocket ==
  /\ stage = "forward" /\ call.op \in WebSocketOps
  /\ \/ /\ stage' = "relay" /\ UNCHANGED reply
        /\ peer' = [p \in Peers |-> "open"]
        /\ copier' = [d \in Directions |-> "copying"]
     \/ Answer("library", "400", "router_error") /\ UNCHANGED <<peer, copier>>
  /\ UNCHANGED <<call, kind, upstream, resp, gone, results, ctx>>

\* A peer closes with status 1000 or 1001, or is lost: another status, a
\* broken connection, a message over the read limit.
PeerEnds(p, how) ==
  /\ peer[p] = "open" /\ peer' = [peer EXCEPT ![p] = how]
  /\ UNCHANGED <<stage, call, kind, upstream, resp, gone, reply, copier, results, ctx>>

\* copyWebSocketMessages returns and its goroutine sends the result.
Stops(d, normal) ==
  /\ copier[d] = "copying"
  /\ copier' = [copier EXCEPT ![d] = "stopped"]
  /\ results' = Append(results, [direction |-> d, normal |-> normal])
  /\ UNCHANGED <<stage, call, kind, upstream, resp, gone, reply, peer, ctx>>

\* It reads the end of its source, or fails to write to a target that ended.
CopierReadsEnd(d) ==
  peer[Source(d)] \in {"normal", "lost"} /\ Stops(d, peer[Source(d)] = "normal")
CopierFailsToWrite(d) == peer[Target(d)] \in {"normal", "lost"} /\ Stops(d, FALSE)

\* Its context is cancelled or its connection closed by relayWebSockets.
CopierInterrupted(d) ==
  (ctx = "cancelled" \/ peer[Source(d)] = "closed") /\ Stops(d, FALSE)

\* Mutant: returns on the first result without cancelling and closing.
RelayFirstResultOnly ==
  /\ stage = "relay" /\ results # <<>> /\ stage' = "closing"
  /\ UNCHANGED <<call, kind, upstream, resp, gone, reply, relay>>

\* The first result: cancel and close both connections.
RelayFirstResult ==
  /\ stage = "relay" /\ results # <<>> /\ stage' = "closing"
  /\ ctx' = "cancelled"
  /\ peer' = [p \in Peers |-> IF peer[p] = "open" THEN "closed" ELSE peer[p]]
  /\ UNCHANGED <<call, kind, upstream, resp, gone, reply, copier, results>>

\* The second result, or one second; the first one decides the outcome.
RelayReturns ==
  /\ stage = "closing"
  /\ Answer("101", "101",
       IF results[1].normal THEN "success"
       ELSE IF results[1].direction = "downstream_to_upstream"
            THEN "cancelled" ELSE "router_error")
  /\ UNCHANGED <<call, kind, upstream, resp, gone, relay>>

Relay ==
  \/ \E p \in Peers, how \in {"normal", "lost"} : PeerEnds(p, how)
  \/ \E d \in Directions :
       CopierReadsEnd(d) \/ CopierFailsToWrite(d) \/ CopierInterrupted(d)
  \/ RelayFirstResult \/ RelayReturns

ExchangeNext ==
  \/ PreForward \/ SelectBridge \/ ForwardFails \/ ForwardBridgeRequest
  \/ ClientLeaves \/ RespondSystemOne \/ RespondJSON \/ RespondSSE
  \/ DialBridgeWebSocket \/ Relay

ExchangeSpec == ExchangeInit /\ [][ExchangeNext]_exchange

\* The steps of the relay that wait for nobody: goroutines that can run do.
\* Nothing makes a peer close, take a message or send one.
FairExchange ==
  /\ ExchangeSpec /\ WF_exchange(RelayFirstResult) /\ WF_exchange(RelayReturns)
  /\ \A d \in Directions : WF_exchange(CopierInterrupted(d))

-----------------------------------------------------------------------------
(* What an exchange promises.                                              *)

\* The one error answer the router does not pass on: collectResponsesSSEForJSON
\* reads what is not JSON as events whatever the status, and fails.
Uncollectable ==
  Adapter(call.op, kind.credential, call.stream) = "collect" /\ upstream.type = "other"

\* The record tells what happened.  success: the upstream answered with no
\* error status, and its body was read to the end and handed on with no
\* error, after the conversion too, so never for a Chat stream broken off by
\* response.failed; or a WebSocket peer closed normally.  (ForwardSSE ignores
\* failed writes: a client that leaves after the last read is not noticed.)
\* upstream_error: the upstream's error was passed on.  cancelled: the client
\* left or a WebSocket ended.  An error answered whole reaches a client that
\* stayed as that error and is recorded as one.  What is recorded is what was
\* sent, unless the library answered the upgrade.
RecordTruthful ==
  stage = "done" =>
    /\ reply.outcome = "success" =>
         IF call.op \in WebSocketOps THEN \E p \in Peers : peer[p] = "normal"
         ELSE \A a \in {upstream, resp} : a.code # "error" /\ a.body # "cut"
    /\ reply.outcome = "upstream_error" =>
         reply.sent = resp.code /\ (upstream.code = "ok" => resp.code = "error")
    /\ reply.outcome = "cancelled" =>
         gone \/ \E p \in Peers : peer[p] \in {"normal", "lost"}
    /\ (upstream.code = "error" /\ upstream.body = "whole" /\ ~gone /\ ~Uncollectable)
         => reply.sent = "error" /\ reply.outcome = "upstream_error"
    /\ reply.sent \in {reply.recorded, "library"}

\* Once one goroutine of a relay has stopped, the relay is recorded and the
\* other goroutine stops too: no copier is left behind, whatever the peers do.
RelayCleansUp ==
  (\E d \in Directions : copier[d] = "stopped")
    ~> (stage = "done" /\ \A d \in Directions : copier[d] = "stopped")
=============================================================================
