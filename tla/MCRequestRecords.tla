-------------------------- MODULE MCRequestRecords --------------------------
(***************************************************************************)
(* Two requests, one of them a WebSocket relay, two older rows, a queue of *)
(* one and batches of one.                                                 *)
(***************************************************************************)
EXTENDS RequestRecords, TLC

MCRequests == {"h1", "ws"}
MCHijacked == {"ws"}

Row(account, outcome, model, mode, usage, ttft, latency, words) ==
  [account |-> account, outcome |-> outcome, model |-> model, mode |-> mode, usage |-> usage,
   ttft |-> ttft, latency |-> latency, words |-> words]

MCAttr ==
  ("h1" :> Row(1, "success", "m1", "sse",
               "input_tokens" :> 5 @@ "details" :> 2 @@ "output_tokens" :> 3, 2, 6, {"w1"})) @@
  ("ws" :> Row(1, "no_extractable_text", Empty, "websocket",
               "input" :> 1 @@ "cached_input" :> 4 @@ "output" :> 1, 0, 3, {}))

MCInitRows ==
  {[id |-> 1, at |-> -720, req |-> "old1"] @@ Row(0, "upstream_error", "m2", "json", <<>>, -1, 4, {"w1", "w2"}),
   [id |-> 2, at |-> 0, req |-> "old2"] @@
     Row(1, "success", "m1", "sse", "input_tokens" :> -1 @@ "output_tokens" :> 2, 3, 3, {"w1"})}

MCWalks == {[NoQuery EXCEPT !.limit = 1], [NoQuery EXCEPT !.limit = 201],
            [NoQuery EXCEPT !.limit = 1, !.accounts = <<1, 1>>]}

MCQueries ==
  {NoQuery, [NoQuery EXCEPT !.accounts = <<1, 1>>],
   [NoQuery EXCEPT !.limit = 1, !.before = 3, !.models = <<"m1">>],
   [NoQuery EXCEPT !.accounts = <<0>>], [NoQuery EXCEPT !.models = <<Empty>>],
   [NoQuery EXCEPT !.search = Blank], [NoQuery EXCEPT !.modes = <<"xml">>],
   [NoQuery EXCEPT !.start = 0, !.end = 720, !.modes = <<"json", "websocket">>],
   [NoQuery EXCEPT !.start = 1440, !.end = 1],
   [NoQuery EXCEPT !.outcomes = <<"success", "upstream_error">>, !.search = "w1"]}
=============================================================================
