-------------------------- MODULE AccountLoginProofs --------------------------
(***************************************************************************)
(* What AccountLogin keeps true for any number of flows and of concurrent  *)
(* HTTP requests, and whatever a provider that meets ProviderAssumption    *)
(* answers, loses or delays.                                               *)
(***************************************************************************)
EXTENDS AccountLogin, FiniteSetTheorems, TLAPS

FlowFields == {"method", "status", "consumed", "winner", "err", "expires", "interval", "due",
               "polling", "listener"}
TaskFields == {"call", "pc", "state", "flow"}
HeardFields == {"at", "floor", "decided", "tokens", "lapsed"}

\* The names of the ends that the router decides.
Ends == {NoCode, "cancelled", "flow_expired", "expired_token", "access_denied"}

\* A flow that was started, with its rows, its history and its user's decision, at time t.
FlowSound(flow, row, h, g, t) ==
  /\ DOMAIN flow = FlowFields
  /\ flow.method \in {"browser", "device"} /\ flow.status \in {"pending", "success", "error"}
  /\ flow.consumed \in BOOLEAN /\ flow.polling \in BOOLEAN
  /\ flow.winner \in {"unknown", "manual_paste", "loopback"}
  /\ flow.expires \in Int /\ flow.due \in Int /\ flow.interval \in Int
  /\ DOMAIN h = HeardFields
  /\ g \in {"waiting", "approved", "denied"}
  /\ flow.status = "pending" =>
       flow.err = NoCode /\ row = 0 /\ h.tokens = FALSE /\ h.lapsed = FALSE
  /\ flow.status = "success" =>
       flow.err = NoCode /\ row = 1 /\ h.tokens = TRUE /\ h.lapsed = FALSE
  /\ flow.status = "error" =>
       h.lapsed \in BOOLEAN /\ (h.lapsed = TRUE => flow.err \in {"expired_token", "cancelled"})
  /\ flow.status = "error" =>
       /\ row = 0
       /\ h.tokens = TRUE => \/ flow.err \in {"invalid_response", "oauth_store_failed"}
                             \/ /\ flow.method = "device"
                                /\ flow.err \in {"cancelled", "expired_token"}
  /\ flow.consumed = FALSE => flow.status = "pending" /\ flow.winner = "unknown"
  /\ flow.method = "device" =>
       /\ flow.winner = "unknown" /\ flow.listener = "none"
       /\ flow.consumed => flow.status # "pending"
       /\ flow.polling /\ flow.consumed => flow.err \in {"cancelled", "expired_token"}
  /\ flow.method = "browser" =>
       /\ flow.polling = FALSE /\ flow.due = 0
       /\ flow.consumed /\ flow.winner = "unknown" =>
            flow.status = "error" /\ flow.err \in {"cancelled", "flow_expired"}
  /\ flow.err = "flow_expired" => t >= flow.expires
  /\ flow.err = "expired_token" => t >= flow.expires \/ h.lapsed = TRUE
  /\ flow.err = "access_denied" =>
       IF flow.method = "device" THEN g = "denied" ELSE flow.winner # "unknown"
  /\ flow.err \notin Ends => h.decided = TRUE

FlowInv(f) ==
  IF flows[f].status = "unborn"
  THEN flows[f] = Unborn /\ rows[f] = 0 /\ heard[f] = Unheard /\ grant[f] = "waiting"
  ELSE FlowSound(flows[f], rows[f], heard[f], grant[f], now)

FlowsInv ==
  /\ now \in Int
  /\ DOMAIN flows = Flows /\ DOMAIN rows = Flows /\ DOMAIN heard = Flows /\ DOMAIN grant = Flows
  /\ \E n \in 0 .. Cardinality(Flows) : Born = 1 .. n
  /\ \A f \in Flows : FlowInv(f)

\* The slot holds the one flow that is pending; what was released is over.
SlotInv ==
  /\ slot \in Flows \cup {0}
  /\ \A f \in Flows : flows[f].status = "pending" <=> slot = f
  /\ \A f \in released : f \in Flows /\ IsTerminal(f)
  /\ latest \in released \cup {0}

\* What a handler knows of its flow.
Places == [paste |-> {"consume", "deny", "exchange", "consumed"},
           loopback |-> {"consume", "deny", "exchange", "lost"},
           cancel |-> {"cancel", "wait"}]
TaskSound(k, flow) ==
  /\ k.call \in {"paste", "loopback", "cancel"} /\ k.pc \in Places[k.call]
  /\ flow.status # "unborn"
  /\ k.call # "cancel" => flow.method = "browser"
  /\ k.call = "paste" => k.state = k.flow
  /\ k.pc = "exchange" =>
       /\ flow.consumed /\ flow.status = "pending"
       /\ flow.winner = IF k.call = "paste" THEN "manual_paste" ELSE "loopback"
  /\ k.pc = "consumed" => flow.consumed

TaskInv ==
  /\ DOMAIN task = Handlers
  /\ \A c \in Handlers : /\ DOMAIN task[c] = TaskFields
                         /\ ~ Free(c) => /\ task[c].flow \in Flows
                                         /\ TaskSound(task[c], flows[task[c].flow])
  /\ \A c, d \in Handlers :
       task[c].pc = "exchange" /\ task[d].pc = "exchange" /\ task[c].flow = task[d].flow => c = d

IInv == FlowsInv /\ SlotInv /\ TaskInv

\* When the next poll of a device flow is due, and how long it waits at least.
PaceInv ==
  \A f \in Flows :
    flows[f].method = "device" =>
      /\ flows[f].interval \in Nat \ {0} /\ heard[f].at \in Int /\ heard[f].floor \in Nat
      /\ heard[f].floor <= flows[f].interval /\ heard[f].floor <= maxDevicePollInterval
      /\ flows[f].due # 0 => flows[f].due = heard[f].at + flows[f].interval

-----------------------------------------------------------------------------
(* What the provider's answers become *)

\* "" is none of the codes.
LEMMA NoCodeIsNone ==
  NoCode \notin {"request_failed", "invalid_response", "ok", "http_403", "http_404", "http_other",
                 "authorization_pending", "slow_down", "oauth_store_failed", "access_denied",
                 "cancelled", "flow_expired", "expired_token", "pending", "success",
                 "no_flow", "state_mismatch", "already_consumed", "invalid_grant"}
BY Zenon DEF NoCode

Named == {"access_denied", "cancelled", "flow_expired"}

LEMMA ResultCode == \A code, http : Result(code, http).code = code
BY DEF Result

LEMMA ExchangeCodes ==
  ASSUME NEW t
  PROVE  /\ exchangeTokens(t).code # NoCode
         /\ t.error \notin Named => exchangeTokens(t).code \notin Named
<1>1. /\ classifyTokenExchangeError(t).code = IF t.error = NoCode THEN "invalid_response" ELSE t.error
      /\ tokensFromResponse(t).code = IF t.complete THEN "ok" ELSE "invalid_response"
  BY DEF classifyTokenExchangeError, tokensFromResponse, Result
<1>2. exchangeTokens(t).code \in {"request_failed", "invalid_response", "ok",
                                  classifyTokenExchangeError(t).code}
  BY <1>1 DEF exchangeTokens, Arrived, Result
<1> QED BY <1>1, <1>2, NoCodeIsNone DEF Named

\* Tokens that arrived become a row, or the failure says why not.
LEMMA PersistedCodes ==
  ASSUME NEW r, NEW stored, r.code # NoCode
  PROVE  /\ Persisted(r, stored) = NoCode => r.code = "ok"
         /\ r.code # "ok" => Persisted(r, stored) = r.code
         /\ r.code = "ok" => Persisted(r, stored) \in {NoCode, "invalid_response", "oauth_store_failed"}
BY DEF Persisted

\* A poll whose answer could be read.
Read(a, t) ==
  IF classifyPendingDevicePoll(a) # NoCode THEN Result(classifyPendingDevicePoll(a), 0)
  ELSE IF semanticDevicePollCode(a) # NoCode THEN Result(semanticDevicePollCode(a), a.http)
  ELSE IF a.http # 200 THEN Result(HttpCode(a.http), a.http)
  ELSE IF ~ a.code THEN Result("invalid_response", a.http)
  ELSE exchangeTokens(t)

LEMMA PollRead == ASSUME NEW a, NEW t
                  PROVE  /\ PollDeviceCode(a, t) = Arrived(a, Read(a, t))
                         /\ a.http # 0 /\ a.readable => PollDeviceCode(a, t) = Read(a, t)
<1>1. PollDeviceCode(a, t) = Arrived(a, Read(a, t))
  BY DEF PollDeviceCode, Read
<1>2. a.http # 0 /\ a.readable => Arrived(a, Read(a, t)) = Read(a, t)
  BY DEF Arrived
<1> QED BY <1>1, <1>2

LEMMA ArrivedCode == ASSUME NEW a, NEW x
                     PROVE  Arrived(a, x).code \in {"request_failed", "invalid_response", x.code}
BY ResultCode DEF Arrived

LEMMA ReadCode ==
  ASSUME NEW a, NEW t
  PROVE  Read(a, t).code =
           IF classifyPendingDevicePoll(a) # NoCode THEN classifyPendingDevicePoll(a)
           ELSE IF semanticDevicePollCode(a) # NoCode THEN semanticDevicePollCode(a)
           ELSE IF a.http # 200 THEN HttpCode(a.http)
           ELSE IF ~ a.code THEN "invalid_response"
           ELSE exchangeTokens(t).code
BY ResultCode DEF Read

LEMMA WaitsKeepPolling ==
  ASSUME NEW a \in WaitAnswers, NEW t
  PROVE  KeptPolling(PollDeviceCode(a, t))
<1>1. a.http # 0 /\ a.readable
  BY ProviderAssumption
<1>2. CASE classifyPendingDevicePoll(a) # NoCode
  <2>1. PollDeviceCode(a, t) = Result(classifyPendingDevicePoll(a), 0)
    BY <1>1, <1>2, PollRead DEF Read
  <2>2. classifyPendingDevicePoll(a) \in {"authorization_pending", "slow_down"}
    BY <1>2 DEF classifyPendingDevicePoll
  <2> QED BY <2>1, <2>2 DEF KeptPolling, Result
<1>3. CASE classifyPendingDevicePoll(a) = NoCode
  <2>1. a.http \in {403, 404} /\ semanticDevicePollCode(a) = NoCode
    BY <1>3, ProviderAssumption
  <2>2. PollDeviceCode(a, t) = Result(HttpCode(a.http), a.http)
    BY <1>1, <1>3, <2>1, PollRead DEF Read
  <2>3. <<HttpCode(a.http), a.http>> \in {<<"http_403", 403>>, <<"http_404", 404>>}
    BY <2>1 DEF HttpCode
  <2> QED BY <2>2, <2>3 DEF KeptPolling, isTransientDevicePollTransport, Result
<1> QED BY <1>2, <1>3

LEMMA PollCodes ==
  ASSUME NEW a, NEW t
  PROVE  /\ PollDeviceCode(a, t).code # NoCode
         /\ PollDeviceCode(a, t).code \in Named =>
              \/ a.error \in Named \/ a.status \in Named
              \/ exchangeTokens(t).code \in Named
<1>1. /\ HttpCode(a.http) \in {"http_403", "http_404", "http_other"}
      /\ classifyPendingDevicePoll(a) \in {"authorization_pending", "slow_down", NoCode}
      /\ semanticDevicePollCode(a) \in {NoCode, a.error, a.status}
  BY DEF HttpCode, classifyPendingDevicePoll, semanticDevicePollCode
<1>2. exchangeTokens(t).code # NoCode
  BY ExchangeCodes
<1>3. /\ Read(a, t).code # NoCode
      /\ Read(a, t).code \in Named => \/ a.error \in Named \/ a.status \in Named
                                      \/ exchangeTokens(t).code \in Named
  <2>1. \/ Read(a, t).code = classifyPendingDevicePoll(a) /\ classifyPendingDevicePoll(a) # NoCode
        \/ Read(a, t).code = semanticDevicePollCode(a) /\ semanticDevicePollCode(a) # NoCode
        \/ Read(a, t).code \in {HttpCode(a.http), "invalid_response", exchangeTokens(t).code}
    BY ReadCode
  <2> QED BY <1>1, <1>2, <2>1, NoCodeIsNone DEF Named
<1>4. PollDeviceCode(a, t).code \in {"request_failed", "invalid_response", Read(a, t).code}
  BY PollRead, ArrivedCode
<1> QED BY <1>3, <1>4, NoCodeIsNone DEF Named

\* An answer that ends the polling came from a provider that was not waiting, and
\* access_denied from a user who denied.
LEMMA PollOutcome ==
  ASSUME NEW f, grant[f] \in {"waiting", "approved", "denied"}, NEW a \in PollAnswers(f),
         NEW t \in IF Granted(a) THEN TokenAnswers ELSE {NoTokens},
         ~ KeptPolling(PollDeviceCode(a, t))
  PROVE  /\ a \notin WaitAnswers
         /\ PollDeviceCode(a, t).code \in Named =>
              PollDeviceCode(a, t).code = "access_denied" /\ grant[f] = "denied"
<1>1. a \notin WaitAnswers
  BY WaitsKeepPolling
<1>2. \/ a \in FaultAnswers
      \/ a = Decision(FALSE, "access_denied") /\ grant[f] = "denied"
      \/ a = Decision(TRUE, NoCode) \/ a = Decision(FALSE, "expired_token")
  <2>1. CASE grant[f] = "waiting"
    <3>1. PollAnswers(f) = FaultAnswers \cup {Decision(FALSE, "expired_token")} \cup WaitAnswers
      BY <2>1 DEF PollAnswers
    <3> QED BY <1>1, <3>1
  <2>2. CASE grant[f] = "denied"
    <3>1. PollAnswers(f) = FaultAnswers \cup {Decision(FALSE, "expired_token")}
                           \cup {Decision(FALSE, "access_denied")}
      BY <2>2 DEF PollAnswers
    <3> QED BY <2>2, <3>1
  <2>3. CASE grant[f] = "approved"
    <3>1. PollAnswers(f) = FaultAnswers \cup {Decision(FALSE, "expired_token")}
                           \cup {Decision(TRUE, NoCode)}
      BY <2>3 DEF PollAnswers
    <3> QED BY <3>1
  <2> QED BY <2>1, <2>2, <2>3
<1>3. exchangeTokens(t).code \notin Named
  <2>1. t \in TokenAnswers \/ t = NoTokens
    OBVIOUS
  <2>2. NoTokens.error = NoCode
    BY DEF NoTokens
  <2>3. t.error \notin Named
    BY <2>1, <2>2, ProviderAssumption, NoCodeIsNone DEF Named
  <2> QED BY <2>3, ExchangeCodes
<1>4. CASE a \in FaultAnswers
  BY <1>1, <1>3, <1>4, PollCodes, ProviderAssumption DEF Named
<1>5. CASE a = Decision(TRUE, NoCode) \/ a = Decision(FALSE, "expired_token")
  <2>1. a.error \in {NoCode, "expired_token"} /\ a.status = NoCode
    BY <1>5 DEF Decision
  <2> QED BY <1>1, <1>3, <2>1, PollCodes, NoCodeIsNone DEF Named
<1>6. CASE a = Decision(FALSE, "access_denied") /\ grant[f] = "denied"
  <2>1. a.error = "access_denied" /\ a.status = NoCode /\ a.http = 403 /\ a.readable
    BY <1>6 DEF Decision
  <2>2. classifyPendingDevicePoll(a) = NoCode /\ semanticDevicePollCode(a) = "access_denied"
    BY <2>1 DEF classifyPendingDevicePoll, semanticDevicePollCode, PendingStatuses
  <2>3. PollDeviceCode(a, t).code = "access_denied"
    <3>1. PollDeviceCode(a, t) = Read(a, t)
      BY <2>1, PollRead
    <3>2. Read(a, t).code = "access_denied"
      BY <2>2, ReadCode, NoCodeIsNone
    <3> QED BY <3>1, <3>2
  <2> QED BY <1>1, <1>6, <2>3
<1> QED BY <1>2, <1>4, <1>5, <1>6

-----------------------------------------------------------------------------
(* Steps on one flow *)

LEMMA SoundLater == ASSUME NEW flow, NEW row, NEW h, NEW g, NEW t \in Int, NEW u \in Int,
                           t <= u, FlowSound(flow, row, h, g, t)
                    PROVE  FlowSound(flow, row, h, g, u)
<1>1. /\ flow.err = "flow_expired" => u >= flow.expires
      /\ flow.err = "expired_token" => u >= flow.expires \/ h.lapsed = TRUE
  BY DEF FlowSound
<1> QED BY <1>1, Zenon DEF FlowSound

LEMMA FlowStarted == ASSUME IInv, NEW f \in Flows, flows[f].status # "unborn"
                     PROVE  FlowSound(flows[f], rows[f], heard[f], grant[f], now)
BY Zenon DEF IInv, FlowsInv, FlowInv

LEMMA NoFlowZero == 0 \notin Flows /\ Flows \subseteq Nat
<1>1. Cardinality(Flows) \in Nat
  BY FlowsAssumption, FS_CardinalityType
<1> QED BY <1>1, FlowsAssumption

\* A flow that is not in the slot is over.
LEMMA OverOrCurrent == ASSUME IInv, NEW f \in Flows, flows[f].status # "unborn", slot # f
                       PROVE  flows[f].status \in Terminal
<1>1. flows[f].status \in {"pending", "success", "error"}
  BY FlowStarted DEF FlowSound
<1>2. flows[f].status # "pending"
  BY Zenon DEF IInv, SlotInv
<1> QED BY <1>1, <1>2 DEF Terminal

\* A flow that nobody has won is in the slot, without an outcome.
LEMMA UnwonIsCurrent ==
  ASSUME IInv, NEW f \in Flows, flows[f].status # "unborn", ~ flows[f].consumed
  PROVE  /\ slot = f /\ flows[f].status = "pending" /\ flows[f].winner = "unknown"
         /\ flows[f].consumed = FALSE
<1>1. flows[f].consumed = FALSE
  BY FlowStarted DEF FlowSound
<1>2. flows[f].status = "pending" /\ flows[f].winner = "unknown"
  BY <1>1, FlowStarted, Zenon DEF FlowSound
<1> QED BY <1>1, <1>2, Zenon DEF IInv, SlotInv

Untouched(S) ==
  \A f \in S : /\ flows'[f] = flows[f] /\ rows'[f] = rows[f] /\ heard'[f] = heard[f]
               /\ grant'[f] = grant[f]
SameDomains ==
  DOMAIN flows' = Flows /\ DOMAIN rows' = Flows /\ DOMAIN heard' = Flows /\ DOMAIN grant' = Flows

\* One flow, started before, changes; time goes on.
LEMMA FlowsStep ==
  ASSUME IInv, NEW f \in Flows, Untouched(Flows \ {f}), SameDomains,
         now' \in Int, now <= now', flows[f].status # "unborn", flows'[f].status # "unborn",
         FlowSound(flows'[f], rows'[f], heard'[f], grant'[f], now')
  PROVE  FlowsInv'
<1>1. ASSUME NEW g \in Flows PROVE FlowInv(g)'
  <2>1. CASE g = f
    BY <2>1, Zenon DEF FlowInv
  <2>2. CASE g # f
    <3>1. /\ flows'[g] = flows[g] /\ rows'[g] = rows[g] /\ heard'[g] = heard[g]
          /\ grant'[g] = grant[g] /\ FlowInv(g) /\ now \in Int
      BY <2>2 DEF Untouched, IInv, FlowsInv
    <3>2. CASE flows[g].status = "unborn"
      BY <3>1, <3>2, Zenon DEF FlowInv
    <3>3. CASE flows[g].status # "unborn"
      <4>1. FlowSound(flows[g], rows[g], heard[g], grant[g], now')
        BY <3>1, <3>3, SoundLater DEF FlowInv
      <4> QED BY <3>1, <3>3, <4>1, Zenon DEF FlowInv
    <3> QED BY <3>2, <3>3
  <2> QED BY <2>1, <2>2
<1>2. Born' = Born
  BY DEF Born, Untouched
<1> QED BY <1>1, <1>2, Zenon DEF FlowsInv, IInv, SameDomains

\* The same without a change of any flow.
LEMMA FlowsSame ==
  ASSUME IInv, UNCHANGED <<flows, rows, heard, grant>>, now' \in Int, now <= now'
  PROVE  FlowsInv'
<1>1. ASSUME NEW g \in Flows PROVE FlowInv(g)'
  <2>1. FlowInv(g) /\ now \in Int
    BY DEF IInv, FlowsInv
  <2>2. CASE flows[g].status = "unborn"
    BY <2>1, <2>2, Zenon DEF FlowInv
  <2>3. CASE flows[g].status # "unborn"
    <3>1. FlowSound(flows[g], rows[g], heard[g], grant[g], now')
      BY <2>1, <2>3, SoundLater DEF FlowInv
    <3> QED BY <2>3, <3>1, Zenon DEF FlowInv
  <2> QED BY <2>2, <2>3
<1>2. Born' = Born
  BY DEF Born
<1> QED BY <1>1, <1>2, Zenon DEF FlowsInv, IInv

LEMMA SlotKept ==
  ASSUME IInv, UNCHANGED <<slot, released, latest>>,
         \A f \in Flows : flows'[f].status = flows[f].status
  PROVE  SlotInv'
BY DEF IInv, SlotInv, IsTerminal

\* Only an outcome is added: the flow leaves the slot.
LEMMA Finished ==
  ASSUME IInv, NEW f \in Flows, NEW flow, Finish(f, flow), flows[f].status = "pending",
         flow.status \in Terminal
  PROVE  /\ flows'[f] = flow /\ DOMAIN flows' = Flows
         /\ \A g \in Flows \ {f} : flows'[g] = flows[g]
         /\ SlotInv' /\ slot' = 0 /\ f \in released'
<1>1. slot = f /\ DOMAIN flows = Flows
  BY Zenon DEF IInv, SlotInv, FlowsInv
<1>2. /\ flows' = [flows EXCEPT ![f] = flow] /\ slot' = 0 /\ released' = released \cup {f}
      /\ latest' = f
  BY <1>1 DEF Finish
<1>3. /\ flows'[f] = flow /\ DOMAIN flows' = Flows
      /\ \A g \in Flows \ {f} : flows'[g] = flows[g]
  BY <1>1, <1>2
<1>4. \A g \in Flows : flows'[g].status = "pending" <=> slot' = g
  <2>1. \A g \in Flows : g # f => flows[g].status # "pending"
    BY <1>1, Zenon DEF IInv, SlotInv
  <2>2. flow.status # "pending"
    BY DEF Terminal
  <2> QED BY <1>2, <1>3, <2>1, <2>2, NoFlowZero
<1>5. \A g \in released' : g \in Flows /\ IsTerminal(g)'
  BY <1>2, <1>3 DEF IInv, SlotInv, IsTerminal
<1> QED BY <1>2, <1>3, <1>4, <1>5 DEF SlotInv

-----------------------------------------------------------------------------
(* What handlers know stays true *)

Follows(old, new) ==
  /\ old.status # "unborn" => new.status # "unborn" /\ new.method = old.method
  /\ old.consumed => new.consumed
\* A flow that a rail has won waits for that rail.
Awaits(old, new) ==
  old.consumed /\ old.status = "pending" => new.status = "pending" /\ new.winner = old.winner

LEMMA StillKnown ==
  ASSUME NEW k, NEW old, NEW new, TaskSound(k, old), Follows(old, new),
         k.pc = "exchange" => Awaits(old, new)
  PROVE  TaskSound(k, new)
<1>1. /\ old.status # "unborn" /\ new.status # "unborn" /\ new.method = old.method
      /\ old.consumed => new.consumed
  BY Zenon DEF TaskSound, Follows
<1>2. k.pc = "exchange" =>
        /\ new.consumed /\ new.status = "pending"
        /\ new.winner = IF k.call = "paste" THEN "manual_paste" ELSE "loopback"
  BY <1>1, Zenon DEF TaskSound, Awaits
<1> QED BY <1>1, <1>2, Zenon DEF TaskSound

\* Handlers that do not move.
LEMMA OthersKnow ==
  ASSUME IInv, NEW d \in Handlers, task'[d] = task[d],
         \A f \in Flows : Follows(flows[f], flows'[f]),
         task[d].pc = "exchange" => Awaits(flows[task[d].flow], flows'[task[d].flow])
  PROVE  /\ DOMAIN task'[d] = TaskFields
         /\ task'[d].pc # "idle" => /\ task'[d].flow \in Flows
                                    /\ TaskSound(task'[d], flows'[task'[d].flow])
<1>1. DOMAIN task'[d] = TaskFields
  BY DEF IInv, TaskInv
<1>2. ASSUME task[d].pc # "idle"
      PROVE  task[d].flow \in Flows /\ TaskSound(task[d], flows'[task[d].flow])
  <2>1. task[d].flow \in Flows /\ TaskSound(task[d], flows[task[d].flow])
    BY <1>2 DEF IInv, TaskInv, Free
  <2> QED BY <2>1, StillKnown
<1> QED BY <1>1, <1>2

LEMMA TasksSame ==
  ASSUME IInv, UNCHANGED task,
         \A f \in Flows : Follows(flows[f], flows'[f]) /\ Awaits(flows[f], flows'[f])
  PROVE  TaskInv'
<1>1. DOMAIN task' = Handlers
  BY DEF IInv, TaskInv
<1>2. ASSUME NEW d \in Handlers
      PROVE  /\ DOMAIN task'[d] = TaskFields
             /\ task'[d].pc # "idle" => /\ task'[d].flow \in Flows
                                        /\ TaskSound(task'[d], flows'[task'[d].flow])
  <2>1. task[d].pc = "exchange" => task[d].flow \in Flows
    BY DEF IInv, TaskInv, Free
  <2> QED BY <2>1, OthersKnow
<1>3. \A c, d \in Handlers :
        task'[c].pc = "exchange" /\ task'[d].pc = "exchange" /\ task'[c].flow = task'[d].flow
          => c = d
  BY DEF IInv, TaskInv
<1> QED BY <1>1, <1>2, <1>3 DEF TaskInv, Free

\* Handler c moves to k.
LEMMA TaskMoves ==
  ASSUME IInv, NEW c \in Handlers, NEW k, task' = [task EXCEPT ![c] = k],
         DOMAIN k = TaskFields,
         k.pc # "idle" => k.flow \in Flows /\ TaskSound(k, flows'[k.flow]),
         \A f \in Flows : Follows(flows[f], flows'[f]),
         \A d \in Handlers \ {c} :
           task[d].pc = "exchange" =>
             /\ Awaits(flows[task[d].flow], flows'[task[d].flow])
             /\ k.pc = "exchange" => task[d].flow # k.flow
  PROVE  TaskInv'
<1>1. DOMAIN task = Handlers
  BY DEF IInv, TaskInv
<1>2. DOMAIN task' = Handlers /\ task'[c] = k /\ \A d \in Handlers \ {c} : task'[d] = task[d]
  BY <1>1
<1>3. ASSUME NEW d \in Handlers
      PROVE  /\ DOMAIN task'[d] = TaskFields
             /\ task'[d].pc # "idle" => /\ task'[d].flow \in Flows
                                        /\ TaskSound(task'[d], flows'[task'[d].flow])
  <2>1. CASE d = c
    BY <1>2, <2>1
  <2>2. CASE d # c
    <3>1. task'[d] = task[d]
      BY <1>2, <2>2
    <3> QED BY <2>2, <3>1, OthersKnow
  <2> QED BY <2>1, <2>2
<1>4. ASSUME NEW a \in Handlers, NEW d \in Handlers, task'[a].pc = "exchange",
             task'[d].pc = "exchange", task'[a].flow = task'[d].flow
      PROVE  a = d
  <2>1. CASE a = c /\ d # c
    BY <1>2, <1>4, <2>1
  <2>2. CASE a # c /\ d = c
    BY <1>2, <1>4, <2>2
  <2>3. CASE a # c /\ d # c
    <3>1. task[a].pc = "exchange" /\ task[d].pc = "exchange" /\ task[a].flow = task[d].flow
      BY <1>2, <1>4, <2>3
    <3> QED BY <3>1 DEF IInv, TaskInv
  <2> QED BY <2>1, <2>2, <2>3
<1> QED BY <1>2, <1>3, <1>4 DEF TaskInv, Free

LEMMA SameFlows == ASSUME UNCHANGED flows
                   PROVE  \A f \in Flows : Follows(flows[f], flows'[f]) /\ Awaits(flows[f], flows'[f])
BY Zenon DEF Follows, Awaits

\* Flow f changes and no rail is at its exchange.
LEMMA OneFollows ==
  ASSUME NEW f \in Flows, \A g \in Flows \ {f} : flows'[g] = flows[g],
         Follows(flows[f], flows'[f]), Awaits(flows[f], flows'[f])
  PROVE  \A g \in Flows : Follows(flows[g], flows'[g]) /\ Awaits(flows[g], flows'[g])
<1> SUFFICES ASSUME NEW g \in Flows
             PROVE  Follows(flows[g], flows'[g]) /\ Awaits(flows[g], flows'[g])
  OBVIOUS
<1>1. CASE g = f
  BY <1>1
<1>2. CASE g # f
  <2>1. flows'[g] = flows[g]
    BY <1>2
  <2> QED BY <2>1, Zenon DEF Follows, Awaits
<1> QED BY <1>1, <1>2

\* A handler that answers is free again.
LEMMA AnswerMoves ==
  ASSUME IInv, NEW c \in Handlers, NEW answer, NEW rail, AnswerNaming(c, answer, rail),
         \A f \in Flows : Follows(flows[f], flows'[f]),
         \A d \in Handlers \ {c} :
           task[d].pc = "exchange" => Awaits(flows[task[d].flow], flows'[task[d].flow])
  PROVE  TaskInv'
<1>1. task' = [task EXCEPT ![c] = NoTask]
  BY DEF AnswerNaming
<1>2. DOMAIN NoTask = TaskFields /\ NoTask.pc = "idle"
  BY DEF NoTask, TaskFields
<1> QED BY <1>1, <1>2, TaskMoves

\* All that is known of flows that no rail is exchanging a code for.
LEMMA KnownFlows ==
  ASSUME IInv, NEW d \in Handlers, task[d].pc = "exchange"
  PROVE  task[d].flow \in Flows
BY DEF IInv, TaskInv, Free

-----------------------------------------------------------------------------
(* Answers *)

\* The answer fits the flow it names.
Fits(answer, rail, flow, row, known, t) ==
  /\ answer = "pasted" => row = 1 /\ flow.winner = "manual_paste"
  /\ answer = "already_consumed" => rail # "unknown" /\ rail = flow.winner
  /\ answer = "page_success" => row = 1 /\ flow.winner = "loopback"
  /\ answer = "page_lost" => row = 1
  /\ answer \in {"page_cancel", "cancelled", "invalid_grant", "store_failed"} =>
       flow.status = "error" /\ row = 0
  /\ answer \in {"no_flow", "state_mismatch", "idle", "mismatch"} => flow.status \in Terminal
  /\ answer = "flow_expired" => t >= flow.expires
  /\ answer = "page_410" => t >= flow.expires \/ ~ known
  /\ answer = "unexplained" => flow.err = "cancelled" \/ ~ known

LEMMA Answering ==
  ASSUME NEW answer, NEW f, NEW rail, said' = Said(answer, f, rail),
         f # 0 => Fits(answer, rail, flows'[f], rows'[f], slot' = f \/ f \in released', now')
  PROVE  AnswersTruthful'
<1>1. CASE answer \in Others \/ f = 0
  <2>1. said'.answer = "other"
    BY <1>1 DEF Said
  <2> QED BY <2>1 DEF AnswersTruthful
<1>2. CASE answer \notin Others /\ f # 0
  <2>1. said'.answer = answer /\ said'.flow = f /\ said'.rail = rail
    BY <1>2 DEF Said
  <2>2. Fits(answer, rail, flows'[f], rows'[f], slot' = f \/ f \in released', now')
    BY <1>2
  <2> QED BY <2>1, <2>2 DEF AnswersTruthful, Fits, IsTerminal, Known
<1> QED BY <1>1, <1>2

LEMMA Silence == ASSUME said' = Silent PROVE AnswersTruthful'
BY DEF Silent, AnswersTruthful

-----------------------------------------------------------------------------
(* The start of a flow *)

LEMMA InitIInv == Init => IInv /\ AnswersTruthful
<1> SUFFICES ASSUME Init PROVE IInv /\ AnswersTruthful
  OBVIOUS
<1>1. \A f \in Flows : flows[f] = Unborn /\ rows[f] = 0 /\ heard[f] = Unheard /\ grant[f] = "waiting"
  BY DEF Init
<1>2. Unborn.status = "unborn"
  BY DEF Unborn
<1>3. Born = 1 .. 0
  BY <1>1, <1>2 DEF Born
<1>4. 0 \in 0 .. Cardinality(Flows)
  BY FlowsAssumption, FS_CardinalityType
<1>5. FlowsInv
  BY <1>1, <1>2, <1>3, <1>4 DEF FlowsInv, FlowInv, Init
<1>6. SlotInv
  BY <1>1, <1>2, NoFlowZero DEF SlotInv, Init
<1>7. \A c \in Handlers : task[c] = NoTask
  BY DEF Init
<1>8. DOMAIN NoTask = TaskFields /\ NoTask.pc = "idle"
  BY DEF NoTask, TaskFields
<1>9. TaskInv
  BY <1>7, <1>8 DEF TaskInv, Free, Init
<1>10. AnswersTruthful
  BY DEF Init, Silent, AnswersTruthful
<1> QED BY <1>5, <1>6, <1>9, <1>10 DEF IInv

\* The flow after the last one started is fresh.
LEMMA NextFlow ==
  ASSUME IInv, NEW f \in Flows, f = Cardinality(Born) + 1
  PROVE  /\ flows[f] = Unborn /\ rows[f] = 0 /\ heard[f] = Unheard /\ grant[f] = "waiting"
         /\ \E n \in 0 .. Cardinality(Flows) : Born \cup {f} = 1 .. n
<1>1. PICK n \in 0 .. Cardinality(Flows) : Born = 1 .. n
  BY DEF IInv, FlowsInv
<1>2. Cardinality(Flows) \in Nat /\ Flows = 1 .. Cardinality(Flows)
  BY FlowsAssumption, FS_CardinalityType
<1>3. n \in Nat
  BY <1>1, <1>2
<1>4. Cardinality(1 .. n) = n
  <2>1. 1 \in Int /\ n \in Int
    BY <1>3
  <2>2. Cardinality(1 .. n) = IF 1 > n THEN 0 ELSE n - 1 + 1
    BY <2>1, FS_Interval
  <2> QED BY <1>3, <2>2
<1>5. f = n + 1
  BY <1>1, <1>4
<1>6. f \notin Born /\ Born \cup {f} = 1 .. (n + 1) /\ n + 1 \in 0 .. Cardinality(Flows)
  BY <1>1, <1>2, <1>3, <1>5
<1>7. flows[f].status = "unborn" /\ FlowInv(f)
  BY <1>6 DEF Born, IInv, FlowsInv
<1> QED BY <1>6, <1>7, Zenon DEF FlowInv

LEMMA Started ==
  ASSUME IInv, slot = 0, NEW f \in Flows, f = Cardinality(Born) + 1,
         NEW flow, Occupy(f, flow), flow.status = "pending",
         FlowSound(flow, 0, heard'[f], "waiting", now),
         DOMAIN heard' = Flows, \A g \in Flows \ {f} : heard'[g] = heard[g],
         UNCHANGED <<now, grant, rows, task>>
  PROVE  IInv'
<1>1. /\ flows[f] = Unborn /\ rows[f] = 0 /\ grant[f] = "waiting"
      /\ \E n \in 0 .. Cardinality(Flows) : Born \cup {f} = 1 .. n
  BY NextFlow
<1>2. /\ DOMAIN flows = Flows /\ DOMAIN rows = Flows /\ DOMAIN grant = Flows
      /\ now \in Int
  BY DEF IInv, FlowsInv
<1>3. /\ flows' = [flows EXCEPT ![f] = flow] /\ slot' = f
      /\ released' = {g \in released : flows[g].listener # "none"}
      /\ latest' = IF latest \in released' THEN latest ELSE 0
  BY DEF Occupy
<1>4. flows'[f] = flow /\ DOMAIN flows' = Flows /\ \A g \in Flows \ {f} : flows'[g] = flows[g]
  BY <1>2, <1>3
<1>5. FlowsInv'
  <2>1. ASSUME NEW g \in Flows PROVE FlowInv(g)'
    <3>1. CASE g = f
      <4>1. flows'[f].status # "unborn"
        BY <1>4
      <4>2. FlowSound(flows'[f], rows'[f], heard'[f], grant'[f], now')
        BY <1>1, <1>4
      <4> QED BY <3>1, <4>1, <4>2, Zenon DEF FlowInv
    <3>2. CASE g # f
      <4>1. /\ flows'[g] = flows[g] /\ rows'[g] = rows[g] /\ heard'[g] = heard[g]
            /\ grant'[g] = grant[g] /\ now' = now /\ FlowInv(g)
        BY <1>4, <3>2 DEF IInv, FlowsInv
      <4> QED BY <4>1, Zenon DEF FlowInv
    <3> QED BY <3>1, <3>2
  <2>2. Born' = Born \cup {f}
    BY <1>4 DEF Born
  <2> QED BY <1>1, <1>2, <1>4, <2>1, <2>2 DEF FlowsInv
<1>6. SlotInv'
  <2>1. \A g \in Flows : flows[g].status # "pending"
    BY NoFlowZero DEF IInv, SlotInv
  <2>2. \A g \in released : g \in Flows /\ g # f /\ flows[g].status \in Terminal
    BY <1>1 DEF IInv, SlotInv, IsTerminal, Unborn, Terminal
  <2>3. \A g \in Flows : flows'[g].status = "pending" <=> slot' = g
    BY <1>3, <1>4, <2>1
  <2>4. \A g \in released' : g \in Flows /\ IsTerminal(g)'
    BY <1>3, <1>4, <2>2 DEF IsTerminal
  <2> QED BY <1>3, <2>3, <2>4 DEF SlotInv
<1>7. TaskInv'
  <2>1. Follows(flows[f], flows'[f]) /\ Awaits(flows[f], flows'[f])
    BY <1>1 DEF Follows, Awaits, Unborn
  <2> QED BY <1>4, <2>1, OneFollows, TasksSame
<1> QED BY <1>5, <1>6, <1>7 DEF IInv

LEMMA OtherSaid == ASSUME NEW answer, NEW f, NEW rail, said' = Said(answer, f, rail),
                          answer \in Others \/ f = 0
                   PROVE  AnswersTruthful'
<1>1. said'.answer = "other"
  BY DEF Said
<1> QED BY <1>1 DEF AnswersTruthful

\* Steps that only answer.
LEMMA Unmoved == ASSUME IInv, UNCHANGED <<coordinator, outside, task>> PROVE IInv'
<1>1. UNCHANGED <<flows, rows, heard, grant, now, slot, released, latest, task>> /\ now \in Int
  BY DEF coordinator, outside, IInv, FlowsInv
<1> QED BY <1>1, FlowsSame, SlotKept, SameFlows, TasksSame DEF IInv

LEMMA StepStartRefused ==
  ASSUME IInv, NEW c \in Handlers, StartRefused(c) PROVE IInv' /\ AnswersTruthful'
<1>1. IInv'
  BY Unmoved DEF StartRefused, AnswerAtOnce
<1>2. \/ said' = Said("invalid_provider", 0, "unknown")
      \/ said' = Said("in_progress", slot, "unknown")
  BY DEF StartRefused, AnswerAtOnce
<1> QED BY <1>1, <1>2, OtherSaid DEF Others

LEMMA FreshSound ==
  ASSUME NEW flow, NEW h, NEW t, DOMAIN flow = FlowFields, flow.method \in {"browser", "device"},
         flow.status = "pending", flow.consumed = FALSE, flow.winner = "unknown",
         flow.err = NoCode, flow.polling = FALSE, flow.expires \in Int, flow.due \in Int, flow.interval \in Int,
         flow.method = "browser" => flow.due = 0, flow.method = "device" => flow.listener = "none",
         h.tokens = FALSE, h.lapsed = FALSE, DOMAIN h = HeardFields
  PROVE  FlowSound(flow, 0, h, "waiting", t)
<1>1. flow.err \in Ends /\ flow.err \notin {"flow_expired", "expired_token", "access_denied"}
  BY NoCodeIsNone DEF Ends
<1> QED BY <1>1 DEF FlowSound

LEMMA StepBrowserStart ==
  ASSUME IInv, NEW c \in Handlers, OauthBrowserStart(c) PROVE IInv' /\ AnswersTruthful'
<1> DEFINE f == Cardinality(Born) + 1
           New(l) == [Unborn EXCEPT !.method = "browser", !.status = "pending", !.listener = l,
                                    !.expires = now + BrowserTTL]
<1>1. PICK l \in Listeners : f \in Flows /\ Occupy(f, New(l)) /\ AnswerAtOnce("started", f)
  BY DEF OauthBrowserStart
<1>2. slot = 0 /\ UNCHANGED <<now, grant, rows, heard, task>>
  BY <1>1 DEF OauthBrowserStart, outside, AnswerAtOnce
<1>3. heard[f] = Unheard /\ DOMAIN heard = Flows /\ now \in Int /\ BrowserTTL \in Nat
  BY <1>1, NextFlow, FlowsAssumption DEF IInv, FlowsInv
<1>4. /\ New(l).method = "browser" /\ New(l).status = "pending" /\ New(l).consumed = FALSE
      /\ New(l).winner = "unknown" /\ New(l).err = NoCode /\ New(l).expires = now + BrowserTTL
      /\ New(l).due = 0 /\ New(l).polling = FALSE /\ New(l).interval = 0
      /\ DOMAIN New(l) = FlowFields
  BY DEF Unborn, FlowFields
<1>5. FlowSound(New(l), 0, heard'[f], "waiting", now)
  <2>1. heard'[f].tokens = FALSE /\ heard'[f].lapsed = FALSE /\ DOMAIN heard'[f] = HeardFields
    BY <1>2, <1>3 DEF Unheard, HeardFields
  <2> HIDE DEF New, f
  <2>2. New(l).expires \in Int /\ New(l).due \in Int /\ New(l).interval \in Int
    BY <1>3, <1>4
  <2> QED BY <1>4, <2>1, <2>2, FreshSound
<1>6. IInv'
  <2> HIDE DEF New, f
  <2>1. f = Cardinality(Born) + 1
    BY DEF f
  <2> QED BY <1>1, <1>2, <1>3, <1>4, <1>5, <2>1, Started
<1> QED BY <1>1, <1>6, OtherSaid DEF AnswerAtOnce, Others

LEMMA DeviceCode ==
  ASSUME NEW a \in DeviceAnswers, RequestDeviceCode(a).code = "ok"
  PROVE  /\ RequestDeviceCode(a).interval \in Nat \ {0} /\ RequestDeviceCode(a).ttl \in Nat
         /\ a.interval <= maxDevicePollInterval =>
              RequestDeviceCode(a).interval <= maxDevicePollInterval
<1>1. CASE a.http # 200
  <2>1. classifyDeviceCodeError(a).code = "ok"
    BY <1>1 DEF RequestDeviceCode, Arrived, Result
  <2>2. classifyDeviceCodeError(a).code \in
          {"device_auth_unavailable", a.error, "invalid_response", "http_403", "http_404", "http_other"}
    BY DEF classifyDeviceCodeError, defaultOAuthErrorCode, HttpCode, Result
  <2> QED BY <2>1, <2>2, ProviderAssumption
<1>2. CASE a.http = 200
  <2>1. RequestDeviceCode(a) = deviceCodeFromResponse(a)
    BY <1>2 DEF RequestDeviceCode, Arrived, Result
  <2>2. a.ids /\ a.interval \in {Absent} \cup Nat /\ a.ttl \in Nat \ {0}
    BY <2>1 DEF deviceCodeFromResponse, Result
  <2> QED BY <2>1, <2>2 DEF deviceCodeFromResponse, Result, defaultDevicePollInterval,
                            maxDevicePollInterval, Absent
<1> QED BY <1>1, <1>2

LEMMA StepDeviceStart ==
  ASSUME IInv, NEW c \in Handlers, OauthDeviceStart(c) PROVE IInv' /\ AnswersTruthful'
<1> DEFINE f == Cardinality(Born) + 1
           New(r) == [Unborn EXCEPT !.method = "device", !.status = "pending",
                                    !.expires = now + r.ttl, !.interval = r.interval,
                                    !.due = now + r.interval]
<1>1. PICK a \in DeviceAnswers :
        /\ f \in DeviceFlows
        /\ IF RequestDeviceCode(a).code = "ok"
           THEN /\ Occupy(f, New(RequestDeviceCode(a)))
                /\ heard' = [heard EXCEPT ![f].at = now, ![f].floor = RequestDeviceCode(a).interval]
                /\ AnswerAtOnce("started", f)
           ELSE /\ AnswerAtOnce(oauthDeviceStartError(RequestDeviceCode(a)), 0)
                /\ UNCHANGED <<coordinator, heard>>
  BY DEF OauthDeviceStart
<1> DEFINE r == RequestDeviceCode(a)
<1>2. slot = 0 /\ UNCHANGED <<now, grant, rows, task>> /\ f \in Flows
  BY <1>1, FlowsAssumption DEF OauthDeviceStart, AnswerAtOnce
<1>3. CASE r.code # "ok"
  <2>1. UNCHANGED <<coordinator, outside, task>> /\ said' = Said(oauthDeviceStartError(r), 0, "unknown")
    BY <1>1, <1>2, <1>3 DEF outside, AnswerAtOnce
  <2> QED BY <2>1, Unmoved, OtherSaid
<1>4. CASE r.code = "ok"
  <2>1. /\ Occupy(f, New(r)) /\ said' = Said("started", f, "unknown")
        /\ heard' = [heard EXCEPT ![f].at = now, ![f].floor = r.interval]
    BY <1>1, <1>4 DEF AnswerAtOnce
  <2>2. heard[f] = Unheard /\ DOMAIN heard = Flows /\ now \in Int /\ r.interval \in Nat /\ r.ttl \in Nat
    BY <1>2, <1>4, NextFlow, DeviceCode DEF IInv, FlowsInv
  <2> HIDE DEF r
  <2>3. /\ New(r).method = "device" /\ New(r).status = "pending" /\ New(r).consumed = FALSE
        /\ New(r).winner = "unknown" /\ New(r).err = NoCode /\ New(r).expires = now + r.ttl
        /\ New(r).due = now + r.interval /\ New(r).polling = FALSE /\ New(r).listener = "none"
        /\ New(r).interval = r.interval /\ DOMAIN New(r) = FlowFields
    BY DEF Unborn, FlowFields
  <2>4. /\ heard'[f].tokens = FALSE /\ heard'[f].lapsed = FALSE /\ DOMAIN heard'[f] = HeardFields
        /\ DOMAIN heard' = Flows /\ \A g \in Flows \ {f} : heard'[g] = heard[g]
    BY <1>2, <2>1, <2>2 DEF Unheard, HeardFields
  <2> HIDE DEF New, f
  <2>5. New(r).expires \in Int /\ New(r).due \in Int /\ New(r).interval \in Int
    BY <2>2, <2>3
  <2>6. FlowSound(New(r), 0, heard'[f], "waiting", now)
    BY <2>3, <2>4, <2>5, FreshSound
  <2>7. f = Cardinality(Born) + 1
    BY DEF f
  <2>8. IInv'
    BY <1>2, <2>1, <2>3, <2>4, <2>6, <2>7, Started
  <2> QED BY <2>1, <2>8, OtherSaid DEF Others
<1> QED BY <1>3, <1>4

-----------------------------------------------------------------------------
(* Handlers that leave the coordinator alone *)

LEMMA Says ==
  ASSUME IInv, NEW answer, NEW f, AnswerAtOnce(answer, f), UNCHANGED <<coordinator, outside>>,
         f # 0 /\ answer \notin Others =>
           Fits(answer, "unknown", flows[f], rows[f], slot = f \/ f \in released, now)
  PROVE  IInv' /\ AnswersTruthful'
<1>1. UNCHANGED task /\ said' = Said(answer, f, "unknown")
  BY DEF AnswerAtOnce
<1>2. UNCHANGED <<flows, slot, released, latest, rows, now>>
  BY DEF coordinator, outside
<1>3. CASE answer \in Others \/ f = 0
  BY <1>1, <1>3, Unmoved, OtherSaid
<1>4. CASE answer \notin Others /\ f # 0
  <2>1. Fits(answer, "unknown", flows'[f], rows'[f], slot' = f \/ f \in released', now')
    BY <1>2, <1>4
  <2> QED BY <1>1, <2>1, Unmoved, Answering
<1> QED BY <1>3, <1>4

LEMMA Replies ==
  ASSUME IInv, NEW c \in Handlers, NEW answer, NEW rail, AnswerNaming(c, answer, rail),
         UNCHANGED <<coordinator, outside>>,
         answer \notin Others =>
           Fits(answer, rail, flows[task[c].flow], rows[task[c].flow],
                slot = task[c].flow \/ task[c].flow \in released, now)
  PROVE  IInv' /\ AnswersTruthful'
<1> DEFINE f == task[c].flow
<1>1. said' = Said(answer, f, rail)
  BY DEF AnswerNaming
<1>2. UNCHANGED <<flows, slot, released, latest, rows, now, heard, grant>> /\ now \in Int
  BY DEF coordinator, outside, IInv, FlowsInv
<1>3. IInv'
  <2>1. FlowsInv' /\ SlotInv'
    BY <1>2, FlowsSame, SlotKept
  <2>2. TaskInv'
    BY <1>2, SameFlows, KnownFlows, AnswerMoves
  <2> QED BY <2>1, <2>2 DEF IInv
<1>4. CASE answer \in Others
  BY <1>1, <1>3, <1>4, OtherSaid
<1>5. CASE answer \notin Others
  <2>1. Fits(answer, rail, flows'[f], rows'[f], slot' = f \/ f \in released', now')
    BY <1>2, <1>5
  <2> HIDE DEF f
  <2> QED BY <1>1, <1>3, <2>1, Answering
<1> QED BY <1>4, <1>5

\* A handler goes on, without a code to exchange.
LEMMA Goes ==
  ASSUME IInv, NEW c \in Handlers, NEW k, task' = [task EXCEPT ![c] = k], DOMAIN k = TaskFields,
         k.pc # "exchange", k.flow \in Flows, TaskSound(k, flows[k.flow]),
         said' = Silent, UNCHANGED <<coordinator, outside>>
  PROVE  IInv' /\ AnswersTruthful'
<1>1. UNCHANGED <<flows, slot, released, latest, rows, now, heard, grant>> /\ now \in Int
  BY DEF coordinator, outside, IInv, FlowsInv
<1>2. FlowsInv' /\ SlotInv'
  BY <1>1, FlowsSame, SlotKept
<1>3. TaskSound(k, flows'[k.flow])
  BY <1>1
<1>4. TaskInv'
  BY <1>1, <1>3, SameFlows, KnownFlows, TaskMoves
<1> QED BY <1>2, <1>4, Silence DEF IInv

LEMMA Begins ==
  ASSUME IInv, NEW c \in Handlers, NEW call, NEW state, NEW f \in Flows, NEW pc,
         Begin(c, call, state, f, pc), pc # "exchange",
         TaskSound([call |-> call, pc |-> pc, state |-> state, flow |-> f], flows[f]),
         UNCHANGED <<coordinator, outside>>
  PROVE  IInv' /\ AnswersTruthful'
<1> DEFINE k == [call |-> call, pc |-> pc, state |-> state, flow |-> f]
<1>1. task' = [task EXCEPT ![c] = k] /\ said' = Silent
  BY DEF Begin
<1>2. DOMAIN k = TaskFields /\ k.pc = pc /\ k.flow = f
  BY DEF TaskFields
<1>3. TaskSound(k, flows[k.flow])
  BY <1>2
<1> HIDE DEF k
<1> QED BY <1>1, <1>2, <1>3, Goes

\* What a busy handler is at.
LEMMA Busy ==
  ASSUME IInv, NEW c \in Handlers, task[c].pc # "idle"
  PROVE  /\ DOMAIN task = Handlers /\ DOMAIN task[c] = TaskFields /\ task[c].flow \in Flows
         /\ TaskSound(task[c], flows[task[c].flow]) /\ flows[task[c].flow].status # "unborn"
         /\ FlowSound(flows[task[c].flow], rows[task[c].flow], heard[task[c].flow],
                      grant[task[c].flow], now)
<1>1. /\ DOMAIN task = Handlers /\ DOMAIN task[c] = TaskFields /\ task[c].flow \in Flows
      /\ TaskSound(task[c], flows[task[c].flow])
  BY DEF IInv, TaskInv, Free
<1>2. flows[task[c].flow].status # "unborn"
  BY <1>1, Zenon DEF TaskSound
<1> QED BY <1>1, <1>2, FlowStarted

LEMMA GoesOn ==
  ASSUME IInv, NEW c \in Handlers, task[c].pc # "idle", NEW pc, Goto(c, pc),
         pc \notin {"exchange", "idle"}, pc \in Places[task[c].call],
         pc = "consumed" => flows[task[c].flow].consumed, UNCHANGED <<coordinator, outside>>
  PROVE  IInv' /\ AnswersTruthful'
<1> DEFINE k == [task[c] EXCEPT !.pc = pc]
<1>1. /\ DOMAIN task = Handlers /\ DOMAIN task[c] = TaskFields /\ task[c].flow \in Flows
      /\ TaskSound(task[c], flows[task[c].flow])
  BY Busy
<1>2. task' = [task EXCEPT ![c] = k] /\ said' = Silent
  BY DEF Goto
<1>3. /\ DOMAIN k = TaskFields /\ k.pc = pc /\ k.flow = task[c].flow /\ k.call = task[c].call
      /\ k.state = task[c].state
  BY <1>1 DEF TaskFields
<1> HIDE DEF k
<1>4. TaskSound(k, flows[k.flow])
  BY <1>1, <1>3, Zenon DEF TaskSound
<1> QED BY <1>1, <1>2, <1>3, <1>4, Goes

\* The flow a pasted URL is held against is in the slot if its own is.
LEMMA FoundFlow ==
  ASSUME IInv
  PROVE  /\ BrowserFlow # 0 => /\ BrowserFlow \in Flows
                               /\ flows[BrowserFlow].method = "browser"
                               /\ flows[BrowserFlow].status # "unborn"
         /\ \A g \in Flows : flows[g].method = "browser" /\ slot = g => BrowserFlow = g
<1>1. slot \in Flows \cup {0} /\ latest \in Flows \cup {0}
  BY DEF IInv, SlotInv
<1>2. \A g \in Flows : flows[g].method = "browser" => flows[g].status # "unborn"
  <2> SUFFICES ASSUME NEW g \in Flows, flows[g].status = "unborn" PROVE flows[g].method = "none"
    OBVIOUS
  <2>1. flows[g] = Unborn
    BY DEF IInv, FlowsInv, FlowInv
  <2> QED BY <2>1 DEF Unborn
<1>3. BrowserFlow # 0 => BrowserFlow \in {slot, latest} /\ flows[BrowserFlow].method = "browser"
  BY DEF BrowserFlow
<1>4. \A g \in Flows : flows[g].method = "browser" /\ slot = g => BrowserFlow = g
  BY NoFlowZero DEF BrowserFlow
<1> QED BY <1>1, <1>2, <1>3, <1>4

\* A URL bears the state of no flow, or of a browser flow.
LEMMA URLState ==
  ASSUME NEW url \in URLs \cup {[kind |-> "elsewhere", state |-> 0]}
  PROVE  /\ url.kind \in {"code", "access_denied", "other_error", "empty", "elsewhere"}
         /\ url.state # 0 => /\ url.state \in Flows /\ flows[url.state].method = "browser"
                             /\ flows[url.state].status # "unborn"
BY DEF URLs, Born

LEMMA StepManualCallback ==
  ASSUME IInv, NEW c \in Handlers, NEW url \in URLs \cup {[kind |-> "elsewhere", state |-> 0]},
         OauthBrowserManualCallback(c, url)
  PROVE  IInv' /\ AnswersTruthful'
<1> DEFINE f == BrowserFlow
           Past(pc) == f # 0 /\ url.state = f /\ Begin(c, "paste", url.state, f, pc)
<1>1. UNCHANGED <<coordinator, outside>>
  BY DEF OauthBrowserManualCallback
<1>2. \/ AnswerAtOnce("invalid_url", 0)
      \/ AnswerAtOnce("upstream_error", 0)
      \/ f = 0 /\ AnswerAtOnce("no_flow", url.state)
      \/ f # 0 /\ url.state # f /\ AnswerAtOnce("state_mismatch", url.state)
      \/ f # 0 /\ url.state = f /\ Expired(f) /\ AnswerAtOnce("flow_expired", f)
      \/ Past("consume")
      \/ Past("consumed") /\ flows[f].consumed
      \/ Past("deny")
  <2> HIDE DEF f
  <2>1. f = BrowserFlow
    BY DEF f
  <2>2. url.kind \in {"code", "access_denied", "other_error", "empty", "elsewhere"}
    BY URLState
  <2> QED BY <2>1, <2>2 DEF OauthBrowserManualCallback
<1>3. f # 0 => f \in Flows /\ flows[f].method = "browser" /\ flows[f].status # "unborn"
  BY FoundFlow
<1>4. url.state # 0 /\ url.state # f => flows[url.state].status \in Terminal
  <2> SUFFICES ASSUME url.state # 0, url.state # f PROVE flows[url.state].status \in Terminal
    OBVIOUS
  <2>1. url.state \in Flows /\ flows[url.state].method = "browser" /\ flows[url.state].status # "unborn"
    BY URLState
  <2>2. slot # url.state
    BY <2>1, FoundFlow
  <2> QED BY <2>1, <2>2, OverOrCurrent
<1> HIDE DEF f
<1>5. CASE AnswerAtOnce("invalid_url", 0) \/ AnswerAtOnce("upstream_error", 0)
  BY <1>1, <1>5, Says
<1>6. CASE \/ f = 0 /\ AnswerAtOnce("no_flow", url.state)
           \/ f # 0 /\ url.state # f /\ AnswerAtOnce("state_mismatch", url.state)
  <2>1. PICK answer \in {"no_flow", "state_mismatch"} : AnswerAtOnce(answer, url.state)
    BY <1>6
  <2>2. url.state # 0 =>
          Fits(answer, "unknown", flows[url.state], rows[url.state],
               slot = url.state \/ url.state \in released, now)
    BY <1>4, <1>6, <2>1 DEF Fits
  <2> QED BY <1>1, <2>1, <2>2, Says
<1>7. CASE f # 0 /\ url.state = f /\ Expired(f) /\ AnswerAtOnce("flow_expired", f)
  <2>1. now >= flows[f].expires
    <3>1. flows[f].expires \in Int /\ now \in Int
      BY <1>3, <1>7, FlowStarted DEF FlowSound, IInv, FlowsInv
    <3> QED BY <1>7, <3>1 DEF Expired
  <2>2. Fits("flow_expired", "unknown", flows[f], rows[f], slot = f \/ f \in released, now)
    BY <2>1 DEF Fits
  <2> QED BY <1>1, <1>7, <2>2, Says
<1>8. CASE Past("consume") \/ (Past("consumed") /\ flows[f].consumed) \/ Past("deny")
  <2>1. PICK pc \in {"consume", "consumed", "deny"} :
          Past(pc) /\ (pc = "consumed" => flows[f].consumed)
    BY <1>8
  <2>2. TaskSound([call |-> "paste", pc |-> pc, state |-> url.state, flow |-> f], flows[f])
    BY <1>3, <2>1 DEF TaskSound, Places
  <2> QED BY <1>1, <1>3, <2>1, <2>2, Begins
<1> QED BY <1>2, <1>5, <1>6, <1>7, <1>8

LEMMA StepLoopback ==
  ASSUME IInv, NEW c \in Handlers, NEW f \in Born, NEW url \in URLs, Loopback(c, f, url)
  PROVE  IInv' /\ AnswersTruthful'
<1>1. UNCHANGED <<coordinator, outside>>
  BY DEF Loopback
<1>2. \/ AnswerAtOnce("page_400", 0) \/ AnswerAtOnce("page_422", 0)
      \/ \E pc \in {"consume", "deny"} : Begin(c, "loopback", url.state, f, pc)
  <2>1. url.kind \in {"code", "access_denied", "other_error", "empty"}
    BY DEF URLs
  <2> QED BY <2>1 DEF Loopback
<1>3. CASE AnswerAtOnce("page_400", 0) \/ AnswerAtOnce("page_422", 0)
  BY <1>1, <1>3, Says
<1>4. ASSUME NEW pc \in {"consume", "deny"}, Begin(c, "loopback", url.state, f, pc)
      PROVE  IInv' /\ AnswersTruthful'
  <2>1. f \in Flows /\ flows[f].status # "unborn"
    BY DEF Born
  <2>2. TaskSound([call |-> "loopback", pc |-> pc, state |-> url.state, flow |-> f], flows[f])
    <3>1. flows[f].method = "browser"
      <4>1. flows[f].listener = "open"
        BY DEF Loopback
      <4> QED BY <2>1, <4>1, FlowStarted DEF FlowSound
    <3> QED BY <1>4, <2>1, <3>1 DEF TaskSound, Places
  <2> QED BY <1>1, <1>4, <2>1, <2>2, Begins
<1> QED BY <1>2, <1>3, <1>4

-----------------------------------------------------------------------------
(* The rails, and the cancel *)

\* What a rail is told when the flow is not its to take.
LEMMA RailErrors ==
  ASSUME NEW f, NEW state
  PROVE  \/ /\ RailError(f, state) = NoCode /\ Known(f) /\ ~ flows[f].consumed
            /\ ~ Expired(f) /\ state = f
         \/ RailError(f, state) = "no_flow" /\ ~ Known(f)
         \/ RailError(f, state) = "state_mismatch" /\ state # f
         \/ RailError(f, state) = "flow_expired" /\ Expired(f)
         \/ RailError(f, state) = "already_consumed" /\ flows[f].consumed
BY DEF RailError, ConsumedError

LEMMA RailRefused ==
  ASSUME IInv, NEW c \in Handlers, task[c].pc \in {"consume", "deny"}, NEW state,
         task[c].call = "paste" => state = task[c].flow,
         RailError(task[c].flow, state) # NoCode, Refused(c, RailError(task[c].flow, state)),
         UNCHANGED <<coordinator, outside>>
  PROVE  IInv' /\ AnswersTruthful'
<1> DEFINE f == task[c].flow
           err == RailError(f, state)
<1>1. /\ f \in Flows /\ flows[f].status # "unborn"
      /\ TaskSound(task[c], flows[f]) /\ FlowSound(flows[f], rows[f], heard[f], grant[f], now)
  BY Busy
<1>2. task[c].call \in {"paste", "loopback"}
  BY <1>1 DEF TaskSound, Places
<1>3. Expired(f) => now >= flows[f].expires
  BY <1>1 DEF FlowSound, Expired, IInv, FlowsInv
<1>4. \/ err = "no_flow" /\ ~ Known(f)
      \/ err = "state_mismatch" /\ state # f
      \/ err = "flow_expired" /\ Expired(f)
      \/ err = "already_consumed" /\ flows[f].consumed
  BY RailErrors
<1>5. CASE err = "already_consumed" /\ flows[f].consumed
  <2> DEFINE pc == IF task[c].call = "paste" THEN "consumed" ELSE "lost"
  <2>1. Goto(c, pc)
    BY <1>5 DEF Refused
  <2>2. pc \notin {"exchange", "idle"} /\ pc \in Places[task[c].call]
    BY <1>2 DEF Places
  <2> HIDE DEF pc
  <2> QED BY <1>5, <2>1, <2>2, GoesOn
<1>6. CASE err # "already_consumed" /\ task[c].call = "paste"
  <2>1. AnswerNaming(c, err, "unknown")
    BY <1>6 DEF Refused, Answer
  <2>2. CASE err = "no_flow" /\ ~ Known(f)
    <3>1. flows[f].status \in Terminal
      BY <1>1, <2>2, OverOrCurrent DEF Known
    <3>2. Fits("no_flow", "unknown", flows[f], rows[f], slot = f \/ f \in released, now)
      BY <3>1 DEF Fits
    <3> QED BY <2>1, <2>2, <3>2, Replies
  <2>3. CASE err = "flow_expired" /\ Expired(f)
    <3>1. Fits("flow_expired", "unknown", flows[f], rows[f], slot = f \/ f \in released, now)
      BY <1>3, <2>3 DEF Fits
    <3> QED BY <2>1, <2>3, <3>1, Replies
  <2> QED BY <1>4, <1>6, <2>2, <2>3
<1>7. CASE err # "already_consumed" /\ task[c].call = "loopback"
  <2>1. AnswerNaming(c, PageOf(err), "unknown")
    BY <1>7 DEF Refused, Answer
  <2>2. CASE err = "state_mismatch"
    <3>1. PageOf(err) \in Others
      BY <2>2 DEF PageOf, Others
    <3> QED BY <2>1, <3>1, Replies
  <2>3. CASE \/ err = "no_flow" /\ ~ Known(f)
             \/ err = "flow_expired" /\ Expired(f)
    <3>1. PageOf(err) = "page_410"
      BY <2>3 DEF PageOf
    <3>2. Fits("page_410", "unknown", flows[f], rows[f], slot = f \/ f \in released, now)
      BY <1>3, <2>3 DEF Fits, Known
    <3> QED BY <2>1, <3>1, <3>2, Replies
  <2> QED BY <1>4, <1>7, <2>2, <2>3
<1> QED BY <1>2, <1>4, <1>5, <1>6, <1>7

LEMMA StepConsumeCode ==
  ASSUME IInv, NEW c \in Handlers, ConsumeCode(c) PROVE IInv' /\ AnswersTruthful'
<1> DEFINE f == task[c].flow
           err == RailError(f, task[c].state)
<1>1. /\ task[c].pc = "consume" /\ UNCHANGED <<slot, released, latest, outside>>
      /\ err # NoCode => Refused(c, err) /\ UNCHANGED flows
      /\ err = NoCode => /\ flows' = [flows EXCEPT ![f].consumed = TRUE, ![f].winner = Rail(c)]
                         /\ Goto(c, "exchange")
  BY DEF ConsumeCode
<1>2. /\ f \in Flows /\ flows[f].status # "unborn" /\ DOMAIN task = Handlers
      /\ DOMAIN task[c] = TaskFields
      /\ TaskSound(task[c], flows[f]) /\ FlowSound(flows[f], rows[f], heard[f], grant[f], now)
  BY <1>1, Busy
<1>3. /\ task[c].call \in {"paste", "loopback"} /\ flows[f].method = "browser"
      /\ task[c].call = "paste" => task[c].state = f
  BY <1>1, <1>2 DEF TaskSound, Places
<1>4. CASE err # NoCode
  <2>1. UNCHANGED <<coordinator, outside>>
    BY <1>1, <1>4 DEF coordinator
  <2> QED BY <1>1, <1>3, <1>4, <2>1, RailRefused
<1>5. CASE err = NoCode
  <2>1. ~ flows[f].consumed
    BY <1>5, RailErrors, NoCodeIsNone
  <2>2. /\ flows[f].status = "pending" /\ flows[f].winner = "unknown" /\ flows[f].consumed = FALSE
    BY <1>2, <2>1, UnwonIsCurrent
  <2>3. DOMAIN flows = Flows /\ DOMAIN rows = Flows /\ DOMAIN heard = Flows /\ DOMAIN grant = Flows
        /\ now \in Int /\ DOMAIN flows[f] = FlowFields
    BY <1>2 DEF IInv, FlowsInv, FlowSound
  <2> DEFINE new == [flows[f] EXCEPT !.consumed = TRUE, !.winner = Rail(c)]
  <2>4. flows' = [flows EXCEPT ![f] = new]
    BY <1>1, <1>5
  <2>5. /\ DOMAIN new = FlowFields /\ new.consumed = TRUE /\ new.winner = Rail(c)
        /\ new.method = "browser" /\ new.status = "pending" /\ new.err = flows[f].err
        /\ new.expires = flows[f].expires /\ new.due = flows[f].due
        /\ new.polling = flows[f].polling /\ new.interval = flows[f].interval
    BY <1>3, <2>2, <2>3 DEF FlowFields
  <2> HIDE DEF new
  <2>6. /\ flows'[f] = new /\ \A g \in Flows \ {f} : flows'[g] = flows[g]
        /\ DOMAIN flows' = Flows /\ UNCHANGED <<rows, heard, grant, now>>
    BY <1>1, <1>2, <2>3, <2>4 DEF outside
  <2>7. Rail(c) \in {"manual_paste", "loopback"}
    BY DEF Rail
  <2>8. FlowSound(new, rows[f], heard[f], grant[f], now)
    BY <1>2, <1>3, <2>2, <2>5, <2>7 DEF FlowSound
  <2>9. FlowsInv'
    <3>1. Untouched(Flows \ {f}) /\ SameDomains
      BY <2>3, <2>6 DEF Untouched, SameDomains
    <3>2. FlowSound(flows'[f], rows'[f], heard'[f], grant'[f], now') /\ now <= now'
      BY <2>3, <2>6, <2>8
    <3>3. flows'[f].status # "unborn"
      BY <2>5, <2>6
    <3> HIDE DEF f
    <3> QED BY <1>2, <2>3, <2>6, <3>1, <3>2, <3>3, FlowsStep
  <2>10. SlotInv'
    <3>1. \A g \in Flows : flows'[g].status = flows[g].status
      BY <2>2, <2>5, <2>6
    <3> QED BY <1>1, <3>1, SlotKept
  <2>11. \A g \in Flows : Follows(flows[g], flows'[g]) /\ Awaits(flows[g], flows'[g])
    <3>1. Follows(flows[f], flows'[f]) /\ Awaits(flows[f], flows'[f])
      BY <1>3, <2>2, <2>5, <2>6 DEF Follows, Awaits
    <3> HIDE DEF f
    <3> QED BY <1>2, <2>6, <3>1, OneFollows
  <2> DEFINE k == [task[c] EXCEPT !.pc = "exchange"]
  <2>12. task' = [task EXCEPT ![c] = k] /\ said' = Silent
    BY <1>1, <1>5 DEF Goto
  <2>13. /\ DOMAIN k = TaskFields /\ k.pc = "exchange" /\ k.flow = f /\ k.call = task[c].call
         /\ k.state = task[c].state
    BY <1>2 DEF TaskFields
  <2> HIDE DEF k
  <2>14. TaskSound(k, flows'[k.flow])
    BY <1>3, <2>5, <2>6, <2>13 DEF TaskSound, Places, Rail
  <2>15. \A d \in Handlers \ {c} :
           task[d].pc = "exchange" =>
             task[d].flow \in Flows /\ task[d].flow # f
    <3> SUFFICES ASSUME NEW d \in Handlers, task[d].pc = "exchange"
                 PROVE  task[d].flow \in Flows /\ flows[task[d].flow].consumed
      BY <2>1
    <3>1. task[d].flow \in Flows /\ TaskSound(task[d], flows[task[d].flow])
      BY Busy
    <3> QED BY <3>1, Zenon DEF TaskSound
  <2>16. TaskInv'
    <3> HIDE DEF f
    <3>1. \A d \in Handlers \ {c} :
            task[d].pc = "exchange" =>
              /\ Awaits(flows[task[d].flow], flows'[task[d].flow])
              /\ task[d].flow # k.flow
      BY <2>11, <2>13, <2>15
    <3>2. \A g \in Flows : Follows(flows[g], flows'[g])
      BY <2>11
    <3>3. k.flow \in Flows
      BY <1>2, <2>13
    <3> QED BY <2>12, <2>13, <2>14, <3>1, <3>2, <3>3, TaskMoves
  <2> QED BY <2>9, <2>10, <2>12, <2>16, Silence DEF IInv
<1> QED BY <1>4, <1>5

\* A flow that somebody won gets the outcome of its tokens.
LEMMA Completed ==
  ASSUME IInv, NEW f \in Flows, flows[f].status = "pending", NEW r, NEW stored,
         flows[f].method = "browser" => flows[f].winner # "unknown",
         r.code # NoCode,
         r.code \in Named =>
           r.code = "access_denied" /\ flows[f].method = "device" /\ grant[f] = "denied",
         Complete(f, Persisted(r, stored)), heard' = Heard(f, r), UNCHANGED <<now, grant>>
  PROVE  /\ FlowsInv' /\ SlotInv' /\ \A g \in Flows : Follows(flows[g], flows'[g])
         /\ \A g \in Flows \ {f} : flows'[g] = flows[g]
         /\ flows'[f].winner = flows[f].winner
         /\ Persisted(r, stored) = NoCode => rows'[f] = 1
         /\ Persisted(r, stored) # NoCode => flows'[f].status = "error" /\ rows'[f] = 0
<1> DEFINE failure == Persisted(r, stored)
           old == flows[f]
           base == IF failure = NoCode THEN Succeeded(f) ELSE Failed(f, failure)
           new == [base EXCEPT !.polling = FALSE]
<1>1. /\ DOMAIN flows = Flows /\ DOMAIN rows = Flows /\ DOMAIN heard = Flows
      /\ DOMAIN grant = Flows /\ now \in Int
  BY DEF IInv, FlowsInv
<1>2. FlowSound(old, rows[f], heard[f], grant[f], now)
  BY FlowStarted
<1>3. /\ DOMAIN old = FlowFields /\ old.err = NoCode /\ rows[f] = 0 /\ heard[f].tokens = FALSE
      /\ heard[f].lapsed = FALSE
      /\ DOMAIN heard[f] = HeardFields
  BY <1>2 DEF FlowSound
<1>4. /\ DOMAIN new = FlowFields /\ new.polling = FALSE /\ new.consumed = TRUE
      /\ new.status = IF failure = NoCode THEN "success" ELSE "error"
      /\ new.err = failure
      /\ new.method = old.method /\ new.winner = old.winner /\ new.expires = old.expires
      /\ new.due = old.due /\ new.listener = old.listener /\ new.interval = old.interval
  <2>1. CASE failure = NoCode
    BY <1>3, <2>1 DEF Succeeded, FlowFields
  <2>2. CASE failure # NoCode
    BY <1>3, <2>2 DEF Failed, FlowFields
  <2> QED BY <2>1, <2>2
<1>5. /\ Finish(f, new)
      /\ rows' = IF failure = NoCode THEN [rows EXCEPT ![f] = @ + 1] ELSE rows
  BY DEF Complete
<1>6. /\ DOMAIN rows' = Flows /\ \A g \in Flows \ {f} : rows'[g] = rows[g]
      /\ rows'[f] = IF failure = NoCode THEN 1 ELSE 0
  BY <1>1, <1>3, <1>5
<1>7. /\ DOMAIN heard' = Flows /\ \A g \in Flows \ {f} : heard'[g] = heard[g]
      /\ heard'[f].decided = TRUE /\ DOMAIN heard'[f] = HeardFields
      /\ r.code = "ok" => heard'[f].tokens = TRUE
      /\ r.code # "ok" => heard'[f].tokens = FALSE
      /\ heard'[f].lapsed \in BOOLEAN
      /\ r.code = "expired_token" <=> heard'[f].lapsed = TRUE
  <2>1. heard' = [heard EXCEPT ![f] = [heard[f] EXCEPT !.decided = TRUE,
                                                        !.tokens = @ \/ r.code = "ok",
                                                        !.lapsed = @ \/ r.code = "expired_token"]]
    BY DEF Heard
  <2>2. DOMAIN heard' = Flows /\ \A g \in Flows \ {f} : heard'[g] = heard[g]
    BY <1>1, <2>1
  <2>3. heard'[f] = [heard[f] EXCEPT !.decided = TRUE, !.tokens = @ \/ r.code = "ok",
                                     !.lapsed = @ \/ r.code = "expired_token"]
    BY <1>1, <2>1
  <2>4. /\ heard'[f].decided = TRUE /\ DOMAIN heard'[f] = HeardFields
        /\ heard'[f].tokens = (heard[f].tokens \/ r.code = "ok")
        /\ heard'[f].lapsed = (heard[f].lapsed \/ r.code = "expired_token")
    BY <1>3, <2>3 DEF HeardFields
  <2> QED BY <1>3, <2>2, <2>4, Zenon
<1>8. /\ failure = NoCode => r.code = "ok"
      /\ r.code # "ok" => failure = r.code
      /\ r.code = "ok" => failure \in {NoCode, "invalid_response", "oauth_store_failed"}
  BY PersistedCodes
<1> HIDE DEF new, failure
<1>9. new.status \in Terminal
  BY <1>4 DEF Terminal
<1>10. /\ flows'[f] = new /\ DOMAIN flows' = Flows
       /\ \A g \in Flows \ {f} : flows'[g] = flows[g]
       /\ SlotInv'
  BY <1>5, <1>9, Finished
<1>11. FlowSound(new, rows'[f], heard'[f], grant[f], now)
  <2>1. /\ new.method \in {"browser", "device"} /\ new.expires \in Int /\ new.due \in Int
        /\ new.interval \in Int
        /\ new.winner \in {"unknown", "manual_paste", "loopback"}
        /\ grant[f] \in {"waiting", "approved", "denied"}
        /\ new.method = "device" => new.winner = "unknown" /\ new.listener = "none"
        /\ new.method = "browser" => new.due = 0 /\ new.winner # "unknown"
    BY <1>2, <1>4 DEF FlowSound
  <2>2. /\ new.err \in Named =>
             new.err = "access_denied" /\ new.method = "device" /\ grant[f] = "denied"
        /\ failure # NoCode => (heard'[f].tokens = TRUE =>
                                 new.err \in {"invalid_response", "oauth_store_failed"})
        /\ new.err = "expired_token" <=> heard'[f].lapsed = TRUE
    BY <1>4, <1>7, <1>8, NoCodeIsNone DEF Named
  <2>3. /\ new.err # "flow_expired"
        /\ new.err = "access_denied" => IF new.method = "device" THEN grant[f] = "denied"
                                                                 ELSE new.winner # "unknown"
    BY <2>2 DEF Named
  <2>4. CASE failure = NoCode
    BY <1>4, <1>6, <1>7, <1>8, <2>1, <2>3, <2>4, NoCodeIsNone DEF FlowSound
  <2>5. CASE failure # NoCode
    BY <1>4, <1>6, <1>7, <2>1, <2>2, <2>3, <2>5 DEF FlowSound
  <2> QED BY <2>4, <2>5
<1>12. FlowsInv'
  <2>1. Untouched(Flows \ {f}) /\ SameDomains
    BY <1>1, <1>6, <1>7, <1>10 DEF Untouched, SameDomains
  <2>2. FlowSound(flows'[f], rows'[f], heard'[f], grant'[f], now') /\ now <= now' /\ now' \in Int
    BY <1>1, <1>10, <1>11
  <2>3. flows'[f].status # "unborn"
    BY <1>4, <1>10
  <2> QED BY <2>1, <2>2, <2>3, FlowsStep
<1>13. ASSUME NEW g \in Flows PROVE Follows(flows[g], flows'[g])
  <2>1. CASE g = f
    BY <1>4, <1>10, <2>1 DEF Follows
  <2>2. CASE g # f
    <3>1. flows'[g] = flows[g]
      BY <1>10, <2>2
    <3> QED BY <3>1, Zenon DEF Follows
  <2> QED BY <2>1, <2>2
<1> QED BY <1>4, <1>6, <1>10, <1>12, <1>13 DEF failure

LEMMA StepExchangeCode ==
  ASSUME IInv, NEW c \in Handlers, ExchangeCode(c) PROVE IInv' /\ AnswersTruthful'
<1> DEFINE f == task[c].flow
           Verdict(failure) ==
             CASE failure = NoCode -> IF task[c].call = "paste" THEN "pasted" ELSE "page_success"
               [] task[c].call = "loopback" /\ failure # NoCode           -> "page_502"
               [] task[c].call = "paste" /\ failure = "invalid_grant" -> "invalid_grant"
               [] task[c].call = "paste" /\ failure = "oauth_store_failed" -> "store_failed"
               [] OTHER                                               -> "upstream_error"
<1>1. task[c].pc = "exchange" /\ UNCHANGED <<now, grant>>
  BY DEF ExchangeCode
<1>2. PICK t \in TokenAnswers, stored \in BOOLEAN :
        /\ Complete(f, Persisted(exchangeTokens(t), stored))
        /\ heard' = Heard(f, exchangeTokens(t))
        /\ Answer(c, Verdict(Persisted(exchangeTokens(t), stored)))
  BY DEF ExchangeCode
<1> DEFINE failure == Persisted(exchangeTokens(t), stored)
<1>3. f \in Flows /\ TaskSound(task[c], flows[f]) /\ flows[f].status # "unborn"
  BY <1>1, Busy
<1>4. /\ task[c].call \in {"paste", "loopback"} /\ flows[f].method = "browser"
      /\ flows[f].status = "pending"
      /\ flows[f].winner = IF task[c].call = "paste" THEN "manual_paste" ELSE "loopback"
  BY <1>1, <1>3 DEF TaskSound, Places
<1>5. exchangeTokens(t).code # NoCode /\ exchangeTokens(t).code \notin Named
  BY ExchangeCodes, ProviderAssumption DEF Named
<1>6. said' = Said(Verdict(failure), f, "unknown")
  BY <1>2 DEF Answer, AnswerNaming
<1>7. /\ Verdict(failure) \in {"pasted", "page_success"} => failure = NoCode
      /\ Verdict(failure) = "pasted" => task[c].call = "paste"
      /\ Verdict(failure) = "page_success" => task[c].call = "loopback"
      /\ Verdict(failure) \in {"invalid_grant", "store_failed"} => failure # NoCode
      /\ Verdict(failure) \in {"pasted", "page_success", "page_502", "invalid_grant", "store_failed",
                             "upstream_error"}
  <2> HIDE DEF failure
  <2> QED BY <1>4, NoCodeIsNone
<1>8. /\ FlowsInv' /\ SlotInv' /\ \A g \in Flows : Follows(flows[g], flows'[g])
      /\ \A g \in Flows \ {f} : flows'[g] = flows[g]
      /\ flows'[f].winner = flows[f].winner
      /\ failure = NoCode => rows'[f] = 1
      /\ failure # NoCode => flows'[f].status = "error" /\ rows'[f] = 0
  <2>1. flows[f].winner # "unknown"
    BY <1>4
  <2> HIDE DEF f
  <2> QED BY <1>1, <1>2, <1>3, <1>4, <1>5, <2>1, Completed
<1>9. TaskInv'
  <2>1. ASSUME NEW d \in Handlers \ {c}, task[d].pc = "exchange"
        PROVE  Awaits(flows[task[d].flow], flows'[task[d].flow])
    <3>1. task[d].flow # f
      BY <1>1, <2>1 DEF IInv, TaskInv
    <3>2. task[d].flow \in Flows
      BY <2>1, KnownFlows
    <3>3. flows'[task[d].flow] = flows[task[d].flow]
      BY <1>8, <3>1, <3>2
    <3> QED BY <3>3, Zenon DEF Awaits
  <2>2. AnswerNaming(c, Verdict(failure), "unknown")
    BY <1>2 DEF Answer
  <2> HIDE DEF Verdict, f
  <2> QED BY <1>8, <2>1, <2>2, AnswerMoves
<1>10. Fits(Verdict(failure), "unknown", flows'[f], rows'[f], slot' = f \/ f \in released', now')
  <2> HIDE DEF Verdict, f, failure
  <2> QED BY <1>4, <1>7, <1>8 DEF Fits
<1>11. AnswersTruthful'
  <2> HIDE DEF Verdict, f, failure
  <2> QED BY <1>6, <1>10, Answering
<1> QED BY <1>8, <1>9, <1>11 DEF IInv

\* A flow that nobody has won ends without tokens.
LEMMA FailedSound ==
  ASSUME IInv, NEW f \in Flows, flows[f].status # "unborn", ~ flows[f].consumed,
         NEW new, Finish(f, new), UNCHANGED outside,
         DOMAIN new = FlowFields, new.status = "error", new.consumed = TRUE,
         new.method = flows[f].method, new.expires = flows[f].expires, new.due = flows[f].due,
         new.polling = flows[f].polling, new.listener = flows[f].listener,
         new.interval = flows[f].interval,
         \/ new.winner = "unknown" /\ new.err = "cancelled"
         \/ /\ new.winner = "unknown" /\ now >= flows[f].expires
            /\ new.err = IF flows[f].method = "device" THEN "expired_token" ELSE "flow_expired"
         \/ /\ new.winner \in {"manual_paste", "loopback"} /\ flows[f].method = "browser"
            /\ new.err = "access_denied"
  PROVE  /\ FlowsInv' /\ SlotInv' /\ flows'[f] = new /\ rows'[f] = 0
         /\ \A g \in Flows : Follows(flows[g], flows'[g]) /\ Awaits(flows[g], flows'[g])
<1>1. /\ DOMAIN flows = Flows /\ DOMAIN rows = Flows /\ DOMAIN heard = Flows
      /\ DOMAIN grant = Flows /\ now \in Int /\ UNCHANGED <<now, grant, rows, heard>>
  BY DEF IInv, FlowsInv, outside
<1>2. FlowSound(flows[f], rows[f], heard[f], grant[f], now)
  BY FlowStarted
<1>3. flows[f].status = "pending" /\ flows[f].winner = "unknown" /\ flows[f].consumed = FALSE
  BY UnwonIsCurrent
<1>4. rows[f] = 0 /\ heard[f].tokens = FALSE /\ heard[f].lapsed = FALSE
  BY <1>2, <1>3 DEF FlowSound
<1>5. /\ flows'[f] = new /\ DOMAIN flows' = Flows
      /\ \A g \in Flows \ {f} : flows'[g] = flows[g]
      /\ SlotInv'
  BY <1>3, Finished DEF Terminal
<1>6. FlowSound(new, rows[f], heard[f], grant[f], now)
  <2>1. /\ new.method \in {"browser", "device"} /\ new.expires \in Int /\ new.due \in Int
        /\ new.interval \in Int
        /\ new.winner \in {"unknown", "manual_paste", "loopback"} /\ new.polling \in BOOLEAN
        /\ grant[f] \in {"waiting", "approved", "denied"}
        /\ DOMAIN heard[f] = HeardFields
        /\ new.method = "device" => new.listener = "none"
        /\ new.method = "browser" => new.due = 0 /\ new.polling = FALSE
    BY <1>2 DEF FlowSound
  <2>2. new.method = "device" => new.winner = "unknown" /\ new.err \in {"cancelled", "expired_token"}
    OBVIOUS
  <2>3. new.method = "browser" /\ new.winner = "unknown" => new.err \in {"cancelled", "flow_expired"}
    OBVIOUS
  <2>4. new.err \in {"flow_expired", "expired_token"} => now >= new.expires
    OBVIOUS
  <2>5. new.err = "access_denied" => new.method = "browser" /\ new.winner # "unknown"
    OBVIOUS
  <2>6. new.err \in Ends
    BY DEF Ends
  <2> QED BY <1>4, <2>1, <2>2, <2>3, <2>4, <2>5, <2>6 DEF FlowSound
<1>7. FlowsInv'
  <2>1. Untouched(Flows \ {f}) /\ SameDomains
    BY <1>1, <1>5 DEF Untouched, SameDomains
  <2>2. FlowSound(flows'[f], rows'[f], heard'[f], grant'[f], now') /\ now <= now' /\ now' \in Int
    BY <1>1, <1>5, <1>6
  <2>3. flows'[f].status # "unborn"
    BY <1>5
  <2> QED BY <2>1, <2>2, <2>3, FlowsStep
<1>8. Follows(flows[f], flows'[f]) /\ Awaits(flows[f], flows'[f])
  BY <1>3, <1>5 DEF Follows, Awaits
<1>9. \A g \in Flows : Follows(flows[g], flows'[g]) /\ Awaits(flows[g], flows'[g])
  BY <1>5, <1>8, OneFollows
<1> QED BY <1>1, <1>4, <1>5, <1>7, <1>9

LEMMA StepCancelFromRail ==
  ASSUME IInv, NEW c \in Handlers, cancelFromRail(c) PROVE IInv' /\ AnswersTruthful'
<1> DEFINE f == task[c].flow
           err == RailError(f, f)
           new == [Failed(f, "access_denied") EXCEPT !.winner = Rail(c)]
           answer == IF task[c].call = "paste" THEN "cancelled" ELSE "page_cancel"
<1>1. /\ task[c].pc = "deny" /\ UNCHANGED outside
      /\ err # NoCode => Refused(c, err) /\ UNCHANGED coordinator
      /\ err = NoCode => Finish(f, new) /\ AnswerNaming(c, answer, "unknown")
  BY DEF cancelFromRail, Answer
<1>2. /\ f \in Flows /\ flows[f].status # "unborn" /\ TaskSound(task[c], flows[f])
      /\ FlowSound(flows[f], rows[f], heard[f], grant[f], now)
  BY <1>1, Busy
<1>3. CASE err # NoCode
  BY <1>1, <1>3, RailRefused
<1>4. CASE err = NoCode
  <2>1. ~ flows[f].consumed
    BY <1>4, RailErrors, NoCodeIsNone
  <2>2. flows[f].method = "browser" /\ DOMAIN flows[f] = FlowFields
    BY <1>1, <1>2 DEF TaskSound, Places, FlowSound
  <2>3. /\ DOMAIN new = FlowFields /\ new.status = "error" /\ new.consumed = TRUE
        /\ new.method = flows[f].method /\ new.expires = flows[f].expires
        /\ new.due = flows[f].due /\ new.polling = flows[f].polling
        /\ new.interval = flows[f].interval
        /\ new.listener = flows[f].listener /\ new.err = "access_denied" /\ new.winner = Rail(c)
    BY <2>2 DEF Failed, FlowFields
  <2>4. Rail(c) \in {"manual_paste", "loopback"}
    BY DEF Rail
  <2> HIDE DEF new, f
  <2>5. /\ FlowsInv' /\ SlotInv' /\ flows'[f] = new /\ rows'[f] = 0
        /\ \A g \in Flows : Follows(flows[g], flows'[g]) /\ Awaits(flows[g], flows'[g])
    BY <1>1, <1>2, <1>4, <2>1, <2>2, <2>3, <2>4, FailedSound
  <2>6. TaskInv'
    BY <1>1, <1>4, <2>5, KnownFlows, AnswerMoves
  <2>7. Fits(answer, "unknown", flows'[f], rows'[f], slot' = f \/ f \in released', now')
    BY <2>3, <2>5 DEF Fits
  <2>8. said' = Said(answer, f, "unknown")
    BY <1>1, <1>4 DEF AnswerNaming, f
  <2> QED BY <2>5, <2>6, <2>7, <2>8, Answering DEF IInv
<1> QED BY <1>3, <1>4

LEMMA StepConsumed ==
  ASSUME IInv, NEW c \in Handlers, manualCallbackConsumed(c) PROVE IInv' /\ AnswersTruthful'
<1> DEFINE f == task[c].flow
           rail == IF Known(f) THEN flows[f].winner ELSE "unknown"
<1>1. task[c].pc = "consumed" /\ UNCHANGED <<coordinator, outside>>
  BY DEF manualCallbackConsumed
<1>2. /\ f \in Flows /\ flows[f].status # "unborn" /\ TaskSound(task[c], flows[f])
      /\ FlowSound(flows[f], rows[f], heard[f], grant[f], now)
  BY <1>1, Busy
<1>3. flows[f].method = "browser" /\ flows[f].consumed
  BY <1>1, <1>2 DEF TaskSound, Places
<1>4. CASE Known(f) /\ flows[f].winner # "unknown"
  <2>1. AnswerNaming(c, "already_consumed", rail)
    BY <1>4 DEF manualCallbackConsumed
  <2>2. Fits("already_consumed", rail, flows[f], rows[f], slot = f \/ f \in released, now)
    BY <1>4 DEF Fits
  <2> HIDE DEF rail
  <2> QED BY <1>1, <2>1, <2>2, Replies
<1>5. CASE Known(f) /\ flows[f].winner = "unknown" /\ flows[f].err = "flow_expired"
  <2>1. AnswerNaming(c, "flow_expired", rail)
    BY <1>5 DEF manualCallbackConsumed
  <2>2. now >= flows[f].expires
    BY <1>2, <1>5 DEF FlowSound
  <2>3. Fits("flow_expired", rail, flows[f], rows[f], slot = f \/ f \in released, now)
    BY <2>2 DEF Fits
  <2> HIDE DEF rail
  <2> QED BY <1>1, <2>1, <2>3, Replies
<1>6. CASE ~ Known(f) \/ (flows[f].winner = "unknown" /\ flows[f].err # "flow_expired")
  <2>1. AnswerNaming(c, "unexplained", rail)
    BY <1>6 DEF manualCallbackConsumed
  <2>2. Known(f) => flows[f].err = "cancelled"
    BY <1>2, <1>3, <1>6 DEF FlowSound
  <2>3. Fits("unexplained", rail, flows[f], rows[f], slot = f \/ f \in released, now)
    BY <2>2 DEF Fits, Known
  <2> HIDE DEF rail
  <2> QED BY <1>1, <2>1, <2>3, Replies
<1> QED BY <1>4, <1>5, <1>6

LEMMA StepLost ==
  ASSUME IInv, NEW c \in Handlers, writeLoopbackLostResult(c) PROVE IInv' /\ AnswersTruthful'
<1> DEFINE f == task[c].flow
<1>1. task[c].pc = "lost" /\ UNCHANGED <<coordinator, outside>>
  BY DEF writeLoopbackLostResult
<1>2. FlowSound(flows[f], rows[f], heard[f], grant[f], now)
  BY <1>1, Busy
<1>3. \/ flows[f].status = "success" /\ AnswerNaming(c, "page_lost", "unknown")
      \/ flows[f].status = "error" /\ AnswerNaming(c, "page_cancel", "unknown")
      \/ AnswerNaming(c, "page_502", "unknown")
  BY DEF writeLoopbackLostResult, Answer, IsTerminal, Terminal
<1>4. CASE flows[f].status = "success" /\ AnswerNaming(c, "page_lost", "unknown")
  <2>1. Fits("page_lost", "unknown", flows[f], rows[f], slot = f \/ f \in released, now)
    BY <1>2, <1>4 DEF FlowSound, Fits
  <2> QED BY <1>1, <1>4, <2>1, Replies
<1>5. CASE flows[f].status = "error" /\ AnswerNaming(c, "page_cancel", "unknown")
  <2>1. Fits("page_cancel", "unknown", flows[f], rows[f], slot = f \/ f \in released, now)
    BY <1>2, <1>5 DEF FlowSound, Fits
  <2> QED BY <1>1, <1>5, <2>1, Replies
<1>6. CASE AnswerNaming(c, "page_502", "unknown")
  BY <1>1, <1>6, Replies DEF Others
<1> QED BY <1>3, <1>4, <1>5, <1>6

LEMMA StepOauthCancel ==
  ASSUME IInv, NEW c \in Handlers, NEW f \in Born, OauthCancel(c, f)
  PROVE  IInv' /\ AnswersTruthful'
<1>1. UNCHANGED <<coordinator, outside>>
  BY DEF OauthCancel
<1>2. f \in Flows /\ flows[f].status # "unborn" /\ f # 0
  BY NoFlowZero DEF Born
<1>3. CASE slot # f
  <2>1. PICK answer \in {"idle", "mismatch"} : AnswerAtOnce(answer, f)
    BY <1>3 DEF OauthCancel
  <2>2. flows[f].status \in Terminal
    BY <1>2, <1>3, OverOrCurrent
  <2>3. Fits(answer, "unknown", flows[f], rows[f], slot = f \/ f \in released, now)
    BY <2>2 DEF Fits
  <2> QED BY <1>1, <2>1, <2>3, Says
<1>4. CASE slot = f
  <2>1. Begin(c, "cancel", 0, f, "cancel")
    BY <1>2, <1>4 DEF OauthCancel
  <2>2. TaskSound([call |-> "cancel", pc |-> "cancel", state |-> 0, flow |-> f], flows[f])
    BY <1>2 DEF TaskSound, Places
  <2> QED BY <1>1, <1>2, <2>1, <2>2, Begins
<1> QED BY <1>3, <1>4

LEMMA StepCancelWithContext ==
  ASSUME IInv, NEW c \in Handlers, CancelWithContext(c) PROVE IInv' /\ AnswersTruthful'
<1> DEFINE f == task[c].flow
           new == Failed(f, "cancelled")
<1>1. task[c].pc = "cancel" /\ UNCHANGED outside
  BY DEF CancelWithContext
<1>2. /\ f \in Flows /\ flows[f].status # "unborn" /\ TaskSound(task[c], flows[f])
      /\ FlowSound(flows[f], rows[f], heard[f], grant[f], now)
  BY <1>1, Busy
<1>3. CASE slot # f
  <2>1. AnswerNaming(c, "idle", "unknown") /\ UNCHANGED coordinator
    BY <1>3 DEF CancelWithContext, Answer
  <2>2. flows[f].status \in Terminal
    BY <1>2, <1>3, OverOrCurrent
  <2>3. Fits("idle", "unknown", flows[f], rows[f], slot = f \/ f \in released, now)
    BY <2>2 DEF Fits
  <2> QED BY <1>1, <2>1, <2>3, Replies
<1>4. CASE slot = f /\ flows[f].consumed
  <2>1. Goto(c, "wait") /\ UNCHANGED coordinator
    BY <1>4 DEF CancelWithContext
  <2>2. "wait" \in Places[task[c].call]
    BY <1>1, <1>2 DEF TaskSound, Places
  <2> QED BY <1>1, <2>1, <2>2, GoesOn
<1>5. CASE slot = f /\ ~ flows[f].consumed
  <2>1. Finish(f, new) /\ AnswerNaming(c, "idle", "unknown")
    BY <1>5 DEF CancelWithContext, Answer
  <2>2. flows[f].winner = "unknown" /\ DOMAIN flows[f] = FlowFields
    BY <1>2, <1>5, UnwonIsCurrent DEF FlowSound
  <2>3. /\ DOMAIN new = FlowFields /\ new.status = "error" /\ new.consumed = TRUE
        /\ new.method = flows[f].method /\ new.expires = flows[f].expires
        /\ new.due = flows[f].due /\ new.polling = flows[f].polling
        /\ new.interval = flows[f].interval
        /\ new.listener = flows[f].listener /\ new.err = "cancelled" /\ new.winner = "unknown"
    BY <2>2 DEF Failed, FlowFields
  <2> HIDE DEF new, f
  <2>4. /\ FlowsInv' /\ SlotInv' /\ flows'[f] = new
        /\ \A g \in Flows : Follows(flows[g], flows'[g]) /\ Awaits(flows[g], flows'[g])
    BY <1>1, <1>2, <1>5, <2>1, <2>3, FailedSound
  <2>5. TaskInv'
    BY <2>1, <2>4, KnownFlows, AnswerMoves
  <2>6. Fits("idle", "unknown", flows'[f], rows'[f], slot' = f \/ f \in released', now')
    BY <2>3, <2>4 DEF Fits, Terminal
  <2>7. said' = Said("idle", f, "unknown")
    BY <2>1 DEF AnswerNaming, f
  <2> QED BY <2>4, <2>5, <2>6, <2>7, Answering DEF IInv
<1> QED BY <1>3, <1>4, <1>5

LEMMA StepCancelWaits ==
  ASSUME IInv, NEW c \in Handlers, CancelWaits(c) PROVE IInv' /\ AnswersTruthful'
<1> DEFINE f == task[c].flow
<1>1. UNCHANGED <<coordinator, outside>>
  BY DEF CancelWaits
<1>2. CASE flows[f].status \in Terminal
  <2>1. AnswerNaming(c, "idle", "unknown")
    BY <1>2 DEF CancelWaits, IsTerminal, Answer
  <2>2. Fits("idle", "unknown", flows[f], rows[f], slot = f \/ f \in released, now)
    BY <1>2 DEF Fits
  <2> QED BY <1>1, <2>1, <2>2, Replies
<1>3. CASE flows[f].status \notin Terminal
  <2>1. AnswerNaming(c, "internal", "unknown")
    BY <1>3 DEF CancelWaits, IsTerminal, Answer
  <2> QED BY <1>1, <2>1, Replies DEF Others
<1> QED BY <1>2, <1>3

-----------------------------------------------------------------------------
(* The device poller, the reaper, the user and time *)

\* A flow changes without an outcome.
LEMMA Retouched ==
  ASSUME IInv, NEW f \in Flows, flows[f].status # "unborn", NEW new,
         flows' = [flows EXCEPT ![f] = new], UNCHANGED <<slot, released, latest, rows, grant, now>>,
         NoHandler, DOMAIN heard' = Flows, \A g \in Flows \ {f} : heard'[g] = heard[g],
         new.status = flows[f].status, new.method = flows[f].method,
         new.consumed = flows[f].consumed, new.winner = flows[f].winner,
         FlowSound(new, rows[f], heard'[f], grant[f], now)
  PROVE  IInv' /\ AnswersTruthful'
<1>1. /\ DOMAIN flows = Flows /\ DOMAIN rows = Flows /\ DOMAIN heard = Flows
      /\ DOMAIN grant = Flows /\ now \in Int
  BY DEF IInv, FlowsInv
<1>2. flows'[f] = new /\ DOMAIN flows' = Flows /\ \A g \in Flows \ {f} : flows'[g] = flows[g]
  BY <1>1
<1>3. FlowsInv'
  <2>1. Untouched(Flows \ {f}) /\ SameDomains
    BY <1>1, <1>2 DEF Untouched, SameDomains
  <2>2. FlowSound(flows'[f], rows'[f], heard'[f], grant'[f], now') /\ now <= now' /\ now' \in Int
    BY <1>1, <1>2
  <2>3. flows'[f].status # "unborn"
    BY <1>2
  <2> QED BY <2>1, <2>2, <2>3, FlowsStep
<1>4. SlotInv'
  <2>1. \A g \in Flows : flows'[g].status = flows[g].status
    BY <1>2
  <2> QED BY <2>1, SlotKept
<1>5. TaskInv'
  <2>1. Follows(flows[f], flows'[f]) /\ Awaits(flows[f], flows'[f])
    BY <1>2, Zenon DEF Follows, Awaits
  <2>2. \A g \in Flows : Follows(flows[g], flows'[g]) /\ Awaits(flows[g], flows'[g])
    BY <1>2, <2>1, OneFollows
  <2> QED BY <2>2, TasksSame DEF NoHandler
<1> QED BY <1>3, <1>4, <1>5, Silence DEF IInv, NoHandler

LEMMA StepListenerCloses ==
  ASSUME IInv, NEW f \in Flows, ListenerCloses(f) PROVE IInv' /\ AnswersTruthful'
<1> DEFINE l == IF flows[f].listener = "open" THEN "closing" ELSE "none"
           new == [flows[f] EXCEPT !.listener = l]
<1>1. /\ flows[f].listener # "none" /\ flows' = [flows EXCEPT ![f] = new] /\ NoHandler
      /\ UNCHANGED <<slot, released, latest, rows, grant, now, heard>>
  BY DEF ListenerCloses, outside
<1>2. flows[f].status # "unborn"
  BY <1>1 DEF IInv, FlowsInv, FlowInv, Unborn
<1>3. FlowSound(flows[f], rows[f], heard[f], grant[f], now) /\ DOMAIN heard = Flows
  BY <1>2, FlowStarted DEF IInv, FlowsInv
<1>4. flows[f].method = "browser" /\ DOMAIN flows[f] = FlowFields
  BY <1>1, <1>3 DEF FlowSound
<1>5. /\ DOMAIN new = FlowFields
      /\ \A x \in FlowFields \ {"listener"} : new[x] = flows[f][x]
  BY <1>4 DEF FlowFields
<1>6. /\ new.method = flows[f].method /\ new.status = flows[f].status
      /\ new.consumed = flows[f].consumed /\ new.polling = flows[f].polling
      /\ new.winner = flows[f].winner /\ new.expires = flows[f].expires
      /\ new.due = flows[f].due /\ new.interval = flows[f].interval /\ new.err = flows[f].err
  BY <1>5 DEF FlowFields
<1> HIDE DEF new
<1>7. FlowSound(new, rows[f], heard[f], grant[f], now)
  BY <1>3, <1>4, <1>5, <1>6 DEF FlowSound
<1> QED BY <1>1, <1>2, <1>3, <1>6, <1>7, Retouched

LEMMA StepPollFires ==
  ASSUME IInv, NEW f \in Flows, PollFires(f) PROVE IInv' /\ AnswersTruthful'
<1> DEFINE new == [flows[f] EXCEPT !.due = 0, !.polling = TRUE]
<1>1. /\ flows[f].due # 0 /\ ~ flows[f].consumed /\ flows' = [flows EXCEPT ![f] = new]
      /\ NoHandler /\ UNCHANGED <<slot, released, latest, rows, grant, now, heard>>
  BY DEF PollFires, outside
<1>2. flows[f].status # "unborn"
  BY <1>1 DEF IInv, FlowsInv, FlowInv, Unborn
<1>3. FlowSound(flows[f], rows[f], heard[f], grant[f], now) /\ DOMAIN heard = Flows
  BY <1>2, FlowStarted DEF IInv, FlowsInv
<1>4. flows[f].method = "device" /\ DOMAIN flows[f] = FlowFields /\ flows[f].consumed = FALSE
  BY <1>1, <1>2, <1>3, UnwonIsCurrent DEF FlowSound
<1>5. /\ DOMAIN new = FlowFields /\ new.due = 0 /\ new.polling = TRUE
      /\ new.method = flows[f].method /\ new.status = flows[f].status
      /\ new.consumed = flows[f].consumed /\ new.winner = flows[f].winner
      /\ new.expires = flows[f].expires /\ new.interval = flows[f].interval
      /\ new.err = flows[f].err /\ new.listener = flows[f].listener
  BY <1>4 DEF FlowFields
<1> HIDE DEF new
<1>6. FlowSound(new, rows[f], heard[f], grant[f], now)
  <2>1. new.due \in Int /\ new.consumed = FALSE
    BY <1>4, <1>5
  <2> QED BY <1>3, <1>4, <1>5, <2>1 DEF FlowSound
<1> QED BY <1>1, <1>2, <1>3, <1>5, <1>6, Retouched

\* The wait before the next poll is a whole number.
LEMMA NextIntervalType ==
  ASSUME NEW i \in Int, NEW r PROVE nextInterval(i, r) \in Int
BY DEF nextInterval, SlowedDown, defaultDevicePollInterval, maxDevicePollInterval

\* What PollAnswered(f) does with the answers it was given.
Outcome(f, a, stored, t) ==
  LET r == PollDeviceCode(a, t)
      next == nextInterval(flows[f].interval, r) IN
  IF KeptPolling(r)
  THEN /\ flows' = [flows EXCEPT ![f].polling = FALSE, ![f].interval = next,
                                 ![f].due = now + next]
       /\ heard' = [heard EXCEPT ![f].at = now,
                      ![f].floor = IF r.code = "slow_down" /\ @ < maxDevicePollInterval
                                   THEN @ + 1 ELSE @]
       /\ UNCHANGED <<slot, released, latest, rows>>
  ELSE /\ heard' = IF a \in WaitAnswers THEN heard ELSE Heard(f, r)
       /\ IF flows[f].consumed
          THEN /\ flows' = [flows EXCEPT ![f].polling = FALSE]
               /\ UNCHANGED <<slot, released, latest, rows>>
          ELSE Complete(f, Persisted(r, stored))

LEMMA StepPollAnswered ==
  ASSUME IInv, NEW f \in Flows, PollAnswered(f) PROVE IInv' /\ AnswersTruthful'
<1>1. flows[f].polling /\ NoHandler /\ UNCHANGED <<now, grant>>
  BY DEF PollAnswered
<1>2. flows[f].status # "unborn"
  BY <1>1 DEF IInv, FlowsInv, FlowInv, Unborn
<1>3. FlowSound(flows[f], rows[f], heard[f], grant[f], now)
  BY <1>2, FlowStarted
<1>4. /\ flows[f].method = "device" /\ DOMAIN flows[f] = FlowFields
      /\ DOMAIN heard = Flows /\ DOMAIN heard[f] = HeardFields
      /\ now \in Int /\ flows[f].interval \in Int /\ grant[f] \in {"waiting", "approved", "denied"}
      /\ DOMAIN flows = Flows
  BY <1>1, <1>3 DEF FlowSound, IInv, FlowsInv
<1>5. PICK a \in PollAnswers(f), stored \in BOOLEAN :
        \E t \in IF Granted(a) THEN TokenAnswers ELSE {NoTokens} : Outcome(f, a, stored, t)
  BY Zenon DEF PollAnswered, Outcome
<1>6. PICK t \in IF Granted(a) THEN TokenAnswers ELSE {NoTokens} : Outcome(f, a, stored, t)
  BY <1>5, Zenon
<1> DEFINE r == PollDeviceCode(a, t)
           next == nextInterval(flows[f].interval, r)
<1>7. CASE KeptPolling(r)
  <2> DEFINE new == [flows[f] EXCEPT !.polling = FALSE, !.interval = next, !.due = now + next]
             floor == IF r.code = "slow_down" /\ heard[f].floor < maxDevicePollInterval
                      THEN heard[f].floor + 1 ELSE heard[f].floor
  <2>1. /\ flows' = [flows EXCEPT ![f] = new] /\ UNCHANGED <<slot, released, latest, rows>>
        /\ heard' = [heard EXCEPT ![f] = [heard[f] EXCEPT !.at = now, !.floor = floor]]
    BY <1>4, <1>6, <1>7 DEF Outcome
  <2>2. next \in Int
    BY <1>4, NextIntervalType
  <2> HIDE DEF next, floor, r
  <2>3. /\ DOMAIN new = FlowFields /\ new.due = now + next /\ new.polling = FALSE
        /\ new.method = flows[f].method /\ new.status = flows[f].status
        /\ new.consumed = flows[f].consumed /\ new.winner = flows[f].winner
        /\ new.expires = flows[f].expires /\ new.interval = next
        /\ new.err = flows[f].err /\ new.listener = flows[f].listener
    BY <1>4 DEF FlowFields
  <2>4. /\ DOMAIN heard' = Flows /\ \A g \in Flows \ {f} : heard'[g] = heard[g]
        /\ DOMAIN heard'[f] = HeardFields
        /\ heard'[f].decided = heard[f].decided /\ heard'[f].tokens = heard[f].tokens
        /\ heard'[f].lapsed = heard[f].lapsed
    BY <1>4, <2>1 DEF HeardFields
  <2> HIDE DEF new
  <2>5. FlowSound(new, rows[f], heard'[f], grant[f], now)
    <3>1. new.due \in Int
      BY <1>4, <2>2, <2>3
    <3> QED BY <1>3, <1>4, <2>2, <2>3, <2>4, <3>1 DEF FlowSound
  <2> QED BY <1>1, <1>2, <2>1, <2>3, <2>4, <2>5, Retouched
<1>8. CASE ~ KeptPolling(r) /\ flows[f].consumed
  <2> DEFINE new == [flows[f] EXCEPT !.polling = FALSE]
  <2>1. /\ flows' = [flows EXCEPT ![f] = new] /\ UNCHANGED <<slot, released, latest, rows>>
        /\ heard' = Heard(f, r)
    BY <1>4, <1>6, <1>8, PollOutcome DEF Outcome
  <2>2. /\ DOMAIN new = FlowFields /\ new.due = flows[f].due /\ new.polling = FALSE
        /\ new.method = flows[f].method /\ new.status = flows[f].status
        /\ new.consumed = flows[f].consumed /\ new.winner = flows[f].winner
        /\ new.expires = flows[f].expires /\ new.interval = flows[f].interval
        /\ new.err = flows[f].err /\ new.listener = flows[f].listener
    BY <1>4 DEF FlowFields
  <2> HIDE DEF new, r
  <2>3. /\ DOMAIN heard' = Flows /\ \A g \in Flows \ {f} : heard'[g] = heard[g]
        /\ DOMAIN heard'[f] = HeardFields /\ heard'[f].decided = TRUE
        /\ heard'[f].lapsed = (heard[f].lapsed \/ r.code = "expired_token")
    BY <1>4, <2>1 DEF Heard, HeardFields
  <2>4. flows[f].err \in {"cancelled", "expired_token"} /\ flows[f].status = "error"
    BY <1>1, <1>3, <1>4, <1>8, NoCodeIsNone DEF FlowSound
  <2>5. /\ heard'[f].lapsed \in BOOLEAN
        /\ heard[f].lapsed = TRUE => heard'[f].lapsed = TRUE
    BY <2>3, Zenon
  <2>6. FlowSound(new, rows[f], heard'[f], grant[f], now)
    BY <1>3, <1>4, <2>2, <2>3, <2>4, <2>5 DEF FlowSound
  <2> QED BY <1>1, <1>2, <2>1, <2>2, <2>3, <2>6, Retouched
<1>9. CASE ~ KeptPolling(r) /\ ~ flows[f].consumed
  <2>1. heard' = Heard(f, r) /\ Complete(f, Persisted(r, stored))
    BY <1>4, <1>6, <1>9, PollOutcome DEF Outcome
  <2>2. /\ r.code # NoCode
        /\ r.code \in Named => r.code = "access_denied" /\ grant[f] = "denied"
    BY <1>4, <1>9, PollOutcome, PollCodes
  <2>3. flows[f].status = "pending" /\ flows[f].consumed = FALSE
    BY <1>2, <1>9, UnwonIsCurrent
  <2> HIDE DEF r
  <2>4. /\ FlowsInv' /\ SlotInv' /\ \A g \in Flows : Follows(flows[g], flows'[g])
        /\ \A g \in Flows \ {f} : flows'[g] = flows[g]
    BY <1>1, <1>4, <2>1, <2>2, <2>3, Completed
  <2>5. Awaits(flows[f], flows'[f])
    BY <2>3 DEF Awaits
  <2>6. \A g \in Flows : Follows(flows[g], flows'[g]) /\ Awaits(flows[g], flows'[g])
    BY <2>4, <2>5, OneFollows
  <2>7. TaskInv'
    BY <1>1, <2>6, TasksSame DEF NoHandler
  <2> QED BY <1>1, <2>4, <2>7, Silence DEF IInv, NoHandler
<1> QED BY <1>7, <1>8, <1>9

LEMMA StepReaperFires ==
  ASSUME IInv, NEW f \in Flows, ReaperFires(f) PROVE IInv' /\ AnswersTruthful'
<1> DEFINE err == IF flows[f].method = "device" THEN "expired_token" ELSE "flow_expired"
           new == Failed(f, err)
<1>1. /\ flows[f].status = "pending" /\ ~ flows[f].consumed /\ now >= flows[f].expires
      /\ Finish(f, new) /\ NoHandler /\ UNCHANGED outside
  BY DEF ReaperFires
<1>2. DOMAIN flows[f] = FlowFields /\ flows[f].winner = "unknown"
  BY <1>1, FlowStarted, UnwonIsCurrent DEF FlowSound
<1>3. /\ DOMAIN new = FlowFields /\ new.status = "error" /\ new.consumed = TRUE
      /\ new.method = flows[f].method /\ new.expires = flows[f].expires
      /\ new.due = flows[f].due /\ new.polling = flows[f].polling
      /\ new.interval = flows[f].interval
      /\ new.listener = flows[f].listener /\ new.err = err /\ new.winner = "unknown"
  BY <1>2 DEF Failed, FlowFields
<1> HIDE DEF new
<1>4. /\ FlowsInv' /\ SlotInv'
      /\ \A g \in Flows : Follows(flows[g], flows'[g]) /\ Awaits(flows[g], flows'[g])
  BY <1>1, <1>3, FailedSound
<1>5. TaskInv'
  BY <1>1, <1>4, TasksSame DEF NoHandler
<1> QED BY <1>1, <1>4, <1>5, Silence DEF IInv, NoHandler

LEMMA StepUserDecides ==
  ASSUME IInv, NEW f \in Flows, UserDecides(f) PROVE IInv' /\ AnswersTruthful'
<1>1. PICK g \in {"approved", "denied"} : grant' = [grant EXCEPT ![f] = g]
  BY DEF UserDecides
<1>2. /\ flows[f].method = "device" /\ grant[f] = "waiting" /\ NoHandler
      /\ UNCHANGED <<flows, slot, released, latest, now, rows, heard>>
  BY DEF UserDecides, coordinator
<1>3. flows[f].status # "unborn"
  BY <1>2 DEF IInv, FlowsInv, FlowInv, Unborn
<1>4. FlowSound(flows[f], rows[f], heard[f], grant[f], now)
  BY <1>3, FlowStarted
<1>5. /\ DOMAIN flows = Flows /\ DOMAIN rows = Flows /\ DOMAIN heard = Flows
      /\ DOMAIN grant = Flows /\ now \in Int
  BY DEF IInv, FlowsInv
<1>6. FlowSound(flows[f], rows[f], heard[f], g, now)
  <2>1. flows[f].err # "access_denied"
    BY <1>2, <1>4 DEF FlowSound
  <2> QED BY <1>4, <2>1 DEF FlowSound
<1>7. FlowsInv'
  <2>1. Untouched(Flows \ {f}) /\ SameDomains
    BY <1>1, <1>2, <1>5 DEF Untouched, SameDomains
  <2>2. grant'[f] = g
    BY <1>1, <1>5
  <2>3. FlowSound(flows'[f], rows'[f], heard'[f], grant'[f], now') /\ now <= now' /\ now' \in Int
    BY <1>2, <1>5, <1>6, <2>2
  <2> QED BY <1>2, <1>3, <2>1, <2>3, FlowsStep
<1>8. SlotInv' /\ TaskInv'
  BY <1>2, SlotKept, SameFlows, TasksSame DEF NoHandler
<1> QED BY <1>2, <1>7, <1>8, Silence DEF IInv, NoHandler

LEMMA StepTimePasses == ASSUME IInv, TimePasses PROVE IInv' /\ AnswersTruthful'
<1>1. PICK t \in Deadlines : t > now /\ now' = t
  BY DEF TimePasses
<1>2. UNCHANGED <<flows, slot, released, latest, grant, rows, heard>> /\ NoHandler
  BY DEF TimePasses, coordinator
<1>3. PICK f \in Born : t \in {flows[f].due, flows[f].expires, flows[f].expires + 1}
  BY DEF Deadlines
<1>4. flows[f].due \in Int /\ flows[f].expires \in Int /\ now \in Int
  BY FlowStarted DEF Born, FlowSound, IInv, FlowsInv
<1>5. now' \in Int /\ now <= now'
  BY <1>1, <1>3, <1>4
<1>6. FlowsInv' /\ SlotInv' /\ TaskInv'
  BY <1>2, <1>5, FlowsSame, SlotKept, SameFlows, TasksSame DEF NoHandler
<1> QED BY <1>2, <1>6, Silence DEF IInv, NoHandler

-----------------------------------------------------------------------------
LEMMA NextIInv == IInv /\ AnswersTruthful /\ [Next]_vars => IInv' /\ AnswersTruthful'
<1> SUFFICES ASSUME IInv, AnswersTruthful, [Next]_vars PROVE IInv' /\ AnswersTruthful'
  OBVIOUS
<1>1. CASE UNCHANGED vars
  <2>1. UNCHANGED <<coordinator, outside, task>> /\ UNCHANGED <<said, flows, rows, slot, released, now>>
    BY <1>1 DEF vars, coordinator, outside
  <2> QED BY <2>1, Unmoved DEF AnswersTruthful, IsTerminal, Known
<1>2. ASSUME NEW c \in Handlers, HandlerStep(c) PROVE IInv' /\ AnswersTruthful'
  BY <1>2, StepStartRefused, StepBrowserStart, StepDeviceStart, StepManualCallback, StepLoopback,
     StepConsumeCode, StepExchangeCode, StepCancelFromRail, StepConsumed, StepLost,
     StepOauthCancel, StepCancelWithContext, StepCancelWaits DEF HandlerStep
<1>3. ASSUME NEW f \in Flows, FlowStep(f) PROVE IInv' /\ AnswersTruthful'
  BY <1>3, StepListenerCloses, StepPollFires, StepPollAnswered, StepReaperFires, StepUserDecides
     DEF FlowStep
<1> QED BY <1>1, <1>2, <1>3, StepTimePasses DEF Next

LEMMA AlwaysIInv == Spec => [](IInv /\ AnswersTruthful)
BY InitIInv, NextIInv, PTL DEF Spec

LEMMA SoundEnds ==
  ASSUME NEW flow, NEW row, NEW h, NEW g, NEW t, FlowSound(flow, row, h, g, t)
  PROVE  /\ row <= 1
         /\ flow.status = "success" => row = 1 /\ h.tokens
         /\ flow.status = "error" => row = 0
         /\ flow.err = "flow_expired" => t >= flow.expires
         /\ flow.err = "expired_token" => t >= flow.expires \/ h.lapsed
         /\ h.lapsed /\ flow.status \in Terminal => flow.err \in {"expired_token", "cancelled"}
         /\ flow.err = "access_denied" =>
              IF flow.method = "device" THEN g = "denied" ELSE flow.winner # "unknown"
         /\ flow.err \notin Ends => h.decided
         /\ h.tokens /\ flow.status \in Terminal /\ row = 0 =>
              \/ flow.err \in {"invalid_response", "oauth_store_failed"}
              \/ flow.method = "device" /\ flow.err \in {"cancelled", "expired_token"}
<1>1. row \in {0, 1}
  BY DEF FlowSound
<1>2. flow.status = "pending" => h.tokens = FALSE
  BY DEF FlowSound
<1>3. /\ row <= 1
      /\ flow.status = "success" => row = 1 /\ h.tokens
      /\ flow.status = "error" => row = 0
  BY <1>1 DEF FlowSound
<1>4. h.tokens /\ flow.status \in Terminal /\ row = 0 =>
        \/ flow.err \in {"invalid_response", "oauth_store_failed"}
        \/ flow.method = "device" /\ flow.err \in {"cancelled", "expired_token"}
  <2> SUFFICES ASSUME h.tokens, flow.status \in Terminal, row = 0
               PROVE  \/ flow.err \in {"invalid_response", "oauth_store_failed"}
                      \/ flow.method = "device" /\ flow.err \in {"cancelled", "expired_token"}
    OBVIOUS
  <2>1. flow.status = "error"
    BY DEF FlowSound, Terminal
  <2> QED BY <2>1 DEF FlowSound
<1>5. h.lapsed /\ flow.status \in Terminal => flow.err \in {"expired_token", "cancelled"}
  <2> SUFFICES ASSUME h.lapsed, flow.status \in Terminal
               PROVE  flow.err \in {"expired_token", "cancelled"}
    OBVIOUS
  <2>1. flow.status = "error"
    BY DEF FlowSound, Terminal
  <2>2. h.lapsed = TRUE
    BY <2>1, Zenon DEF FlowSound
  <2> QED BY <2>1, <2>2, Zenon DEF FlowSound
<1> QED BY <1>3, <1>4, <1>5, Zenon DEF FlowSound

\* A bound account has its tokens and exactly one row, and a flow that failed failed for
\* the reason it reports, for any number of flows and of concurrent requests and for any
\* provider that meets ProviderAssumption, one that calls the device code expired before its
\* time included: the outcome Coordinator publishes is never
\* overwritten by a late poll, a late callback, the reaper or a cancel.
THEOREM AlwaysEndsForCause == Spec => []EndsForCause
<1>1. IInv => EndsForCause
  <2> SUFFICES ASSUME IInv, NEW f \in Born
               PROVE  LET flow == flows[f] IN
                      /\ rows[f] <= 1
                      /\ flow.status = "success" => rows[f] = 1 /\ heard[f].tokens
                      /\ flow.status = "error" => rows[f] = 0
                      /\ flow.err = "flow_expired" => now >= flow.expires
                      /\ flow.err = "expired_token" => now >= flow.expires \/ heard[f].lapsed
                      /\ heard[f].lapsed /\ IsTerminal(f) =>
                           flow.err \in {"expired_token", "cancelled"}
                      /\ flow.err = "access_denied" =>
                           IF flow.method = "device" THEN grant[f] = "denied"
                                                     ELSE flow.winner # "unknown"
                      /\ flow.err \notin {NoCode, "cancelled", "flow_expired", "expired_token",
                                          "access_denied"} => heard[f].decided
                      /\ heard[f].tokens /\ IsTerminal(f) /\ rows[f] = 0 =>
                           \/ flow.err \in {"invalid_response", "oauth_store_failed"}
                           \/ flow.method = "device" /\ flow.err \in {"cancelled", "expired_token"}
    BY DEF EndsForCause
  <2>1. FlowSound(flows[f], rows[f], heard[f], grant[f], now)
    BY FlowStarted DEF Born
  <2> QED BY <2>1, SoundEnds DEF Ends, IsTerminal
<1> QED BY <1>1, AlwaysIInv, PTL

\* Whatever a handler of the admin API or the loopback page answers is true of the flow it
\* names, although the handler read the coordinator and called it in separate steps, for
\* any number of flows and of concurrent requests.
THEOREM AlwaysAnswersTruthful == Spec => []AnswersTruthful
BY AlwaysIInv, PTL

-----------------------------------------------------------------------------
(* The pace of the polls *)

\* No poll of f begins and none of its times moves.
SamePace(f) ==
  /\ flows'[f].method = flows[f].method /\ flows'[f].interval = flows[f].interval
  /\ flows'[f].due = flows[f].due /\ (flows'[f].polling => flows[f].polling)
  /\ heard'[f].at = heard[f].at /\ heard'[f].floor = heard[f].floor

Pace(flow, h) ==
  flow.method = "device" =>
    /\ flow.interval \in Nat \ {0} /\ h.at \in Int /\ h.floor \in Nat
    /\ h.floor <= flow.interval /\ h.floor <= maxDevicePollInterval
    /\ flow.due # 0 => flow.due = h.at + flow.interval

InTime == \A f \in Flows : flows'[f].polling /\ ~ flows[f].polling
                             => now >= heard[f].at + heard[f].floor

LEMMA PaceOf == PaceInv <=> \A f \in Flows : Pace(flows[f], heard[f])
BY DEF PaceInv, Pace

\* All but flow f keep their pace, and f has a sound one.
LEMMA OnePace ==
  ASSUME PaceInv, NEW f \in Flows, \A g \in Flows \ {f} : SamePace(g),
         Pace(flows'[f], heard'[f]),
         flows'[f].polling /\ ~ flows[f].polling => now >= heard[f].at + heard[f].floor
  PROVE  PaceInv' /\ InTime
<1>1. ASSUME NEW g \in Flows \ {f} PROVE Pace(flows'[g], heard'[g])
  <2>1. Pace(flows[g], heard[g]) /\ SamePace(g)
    BY PaceOf
  <2> QED BY <2>1 DEF Pace, SamePace
<1>2. \A g \in Flows : Pace(flows'[g], heard'[g])
  BY <1>1
<1>3. PaceInv'
  BY <1>2 DEF PaceInv, Pace
<1>4. InTime
  BY DEF InTime, SamePace
<1> QED BY <1>3, <1>4

LEMMA AllPace == ASSUME PaceInv, \A g \in Flows : SamePace(g) PROVE PaceInv' /\ InTime
<1>1. ASSUME NEW g \in Flows PROVE Pace(flows'[g], heard'[g])
  <2>1. Pace(flows[g], heard[g]) /\ SamePace(g)
    BY PaceOf
  <2> QED BY <2>1 DEF Pace, SamePace
<1>2. PaceInv'
  BY <1>1 DEF PaceInv, Pace
<1> QED BY <1>2 DEF InTime, SamePace

LEMMA StillPace == ASSUME PaceInv, UNCHANGED <<flows, heard>> PROVE PaceInv' /\ InTime
<1>1. \A g \in Flows : SamePace(g)
  BY DEF SamePace
<1> QED BY <1>1, AllPace

LEMMA Records ==
  ASSUME IInv
  PROVE  /\ DOMAIN flows = Flows /\ DOMAIN heard = Flows
         /\ \A f \in Flows : /\ DOMAIN flows[f] = FlowFields
                             /\ DOMAIN heard[f] = HeardFields
<1> SUFFICES ASSUME NEW f \in Flows
             PROVE  /\ DOMAIN flows[f] = FlowFields
                    /\ DOMAIN heard[f] = HeardFields
  BY DEF IInv, FlowsInv
<1>1. CASE flows[f].status = "unborn"
  <2>1. flows[f] = Unborn /\ heard[f] = Unheard
    BY <1>1 DEF IInv, FlowsInv, FlowInv
  <2> QED BY <2>1 DEF Unborn, Unheard, FlowFields, HeardFields
<1>2. CASE flows[f].status # "unborn"
  BY <1>2, FlowStarted DEF FlowSound
<1> QED BY <1>1, <1>2

\* One flow changes, and neither starts nor polls.
LEMMA FlowPace ==
  ASSUME IInv, PaceInv, NEW f \in Flows, NEW new, flows' = [flows EXCEPT ![f] = new],
         new.method = flows[f].method, new.interval = flows[f].interval, new.due = flows[f].due,
         new.polling => flows[f].polling,
         \A g \in Flows : heard'[g].at = heard[g].at /\ heard'[g].floor = heard[g].floor
  PROVE  PaceInv' /\ InTime
<1>1. flows'[f] = new /\ \A g \in Flows \ {f} : flows'[g] = flows[g]
  BY Records
<1>2. \A g \in Flows : SamePace(g)
  BY <1>1 DEF SamePace
<1> QED BY <1>2, AllPace

LEMMA HeardPace ==
  ASSUME IInv, NEW f \in Flows, NEW r, heard' = Heard(f, r)
  PROVE  \A g \in Flows : heard'[g].at = heard[g].at /\ heard'[g].floor = heard[g].floor
<1>1. heard' = [heard EXCEPT ![f] = [heard[f] EXCEPT !.decided = TRUE, !.tokens = @ \/ r.code = "ok",
                                                    !.lapsed = @ \/ r.code = "expired_token"]]
  BY DEF Heard
<1>2. DOMAIN heard = Flows /\ DOMAIN heard[f] = HeardFields
  BY Records
<1>3. \A g \in Flows \ {f} : heard'[g] = heard[g]
  BY <1>1, <1>2
<1>4. heard'[f].at = heard[f].at /\ heard'[f].floor = heard[f].floor
  BY <1>1, <1>2
<1> QED BY <1>3, <1>4

LEMMA FailedPace ==
  ASSUME IInv, PaceInv, NEW f \in Flows, NEW err, UNCHANGED heard,
         \/ Finish(f, Failed(f, err))
         \/ \E w : Finish(f, [Failed(f, err) EXCEPT !.winner = w])
  PROVE  PaceInv' /\ InTime
<1>1. DOMAIN flows[f] = FlowFields
  BY Records
<1>2. CASE Finish(f, Failed(f, err))
  <2> DEFINE new == Failed(f, err)
  <2>1. /\ new.method = flows[f].method /\ new.interval = flows[f].interval
        /\ new.due = flows[f].due /\ new.polling = flows[f].polling
    BY <1>1 DEF Failed, FlowFields
  <2>2. flows' = [flows EXCEPT ![f] = new]
    BY <1>2 DEF Finish
  <2> HIDE DEF new
  <2> QED BY <2>1, <2>2, FlowPace
<1>3. ASSUME NEW w, Finish(f, [Failed(f, err) EXCEPT !.winner = w]) PROVE PaceInv' /\ InTime
  <2> DEFINE new == [Failed(f, err) EXCEPT !.winner = w]
  <2>1. /\ new.method = flows[f].method /\ new.interval = flows[f].interval
        /\ new.due = flows[f].due /\ new.polling = flows[f].polling
    BY <1>1 DEF Failed, FlowFields
  <2>2. flows' = [flows EXCEPT ![f] = new]
    BY <1>3 DEF Finish
  <2> HIDE DEF new
  <2> QED BY <2>1, <2>2, FlowPace
<1> QED BY <1>2, <1>3

LEMMA CompletedPace ==
  ASSUME IInv, PaceInv, NEW f \in Flows, NEW failure, Complete(f, failure),
         \A g \in Flows : heard'[g].at = heard[g].at /\ heard'[g].floor = heard[g].floor
  PROVE  PaceInv' /\ InTime
<1> DEFINE new == [(IF failure = NoCode THEN Succeeded(f) ELSE Failed(f, failure)) EXCEPT
                     !.polling = FALSE]
<1>1. DOMAIN flows[f] = FlowFields
  BY Records
<1>2. /\ new.method = flows[f].method /\ new.interval = flows[f].interval
      /\ new.due = flows[f].due /\ new.polling = FALSE
  <2>1. CASE failure = NoCode
    BY <1>1, <2>1 DEF Succeeded, FlowFields
  <2>2. CASE failure # NoCode
    BY <1>1, <2>2 DEF Failed, FlowFields
  <2> QED BY <2>1, <2>2
<1>3. flows' = [flows EXCEPT ![f] = new]
  BY DEF Complete, Finish
<1> HIDE DEF new
<1> QED BY <1>2, <1>3, FlowPace

\* The new flow of a start has its own pace.
LEMMA StartedPace ==
  ASSUME IInv, PaceInv, NEW f \in Flows, NEW flow, Occupy(f, flow), flow.polling = FALSE,
         Pace(flow, heard'[f]), \A g \in Flows \ {f} : heard'[g] = heard[g]
  PROVE  PaceInv' /\ InTime
<1>1. flows'[f] = flow /\ \A g \in Flows \ {f} : flows'[g] = flows[g]
  BY Records DEF Occupy
<1>2. \A g \in Flows \ {f} : SamePace(g)
  BY <1>1 DEF SamePace
<1>3. Pace(flows'[f], heard'[f]) /\ flows'[f].polling = FALSE
  BY <1>1
<1> QED BY <1>2, <1>3, OnePace

LEMMA BrowserStartPace ==
  ASSUME IInv, PaceInv, NEW c \in Handlers, OauthBrowserStart(c) PROVE PaceInv' /\ InTime
<1> DEFINE f == Cardinality(Born) + 1
           New(l) == [Unborn EXCEPT !.method = "browser", !.status = "pending", !.listener = l,
                                    !.expires = now + BrowserTTL]
<1>1. PICK l \in Listeners : f \in Flows /\ Occupy(f, New(l))
  BY DEF OauthBrowserStart
<1>2. UNCHANGED heard
  BY DEF OauthBrowserStart, outside
<1>3. New(l).method = "browser" /\ New(l).polling = FALSE
  BY DEF Unborn
<1> HIDE DEF New, f
<1>4. Pace(New(l), heard'[f])
  BY <1>3 DEF Pace
<1> QED BY <1>1, <1>2, <1>3, <1>4, StartedPace

LEMMA DeviceStartPace ==
  ASSUME IInv, PaceInv, \A a \in DeviceAnswers : a.interval <= maxDevicePollInterval,
         NEW c \in Handlers, OauthDeviceStart(c)
  PROVE  PaceInv' /\ InTime
<1> DEFINE f == Cardinality(Born) + 1
           New(r) == [Unborn EXCEPT !.method = "device", !.status = "pending",
                                    !.expires = now + r.ttl, !.interval = r.interval,
                                    !.due = now + r.interval]
<1>1. PICK a \in DeviceAnswers :
        /\ f \in DeviceFlows
        /\ IF RequestDeviceCode(a).code = "ok"
           THEN /\ Occupy(f, New(RequestDeviceCode(a)))
                /\ heard' = [heard EXCEPT ![f].at = now, ![f].floor = RequestDeviceCode(a).interval]
           ELSE UNCHANGED <<coordinator, heard>>
  BY DEF OauthDeviceStart
<1> DEFINE r == RequestDeviceCode(a)
<1>2. f \in Flows
  BY <1>1, FlowsAssumption
<1>3. CASE r.code # "ok"
  BY <1>1, <1>3, StillPace DEF coordinator
<1>4. CASE r.code = "ok"
  <2>1. /\ Occupy(f, New(r))
        /\ heard' = [heard EXCEPT ![f] = [heard[f] EXCEPT !.at = now, !.floor = r.interval]]
    BY <1>1, <1>4
  <2>2. /\ DOMAIN heard = Flows /\ DOMAIN heard[f] = HeardFields
        /\ now \in Int /\ r.interval \in Nat \ {0} /\ r.interval <= maxDevicePollInterval
    BY <1>2, <1>4, Records, DeviceCode DEF IInv, FlowsInv
  <2> HIDE DEF r
  <2>3. /\ New(r).method = "device" /\ New(r).polling = FALSE /\ New(r).interval = r.interval
        /\ New(r).due = now + r.interval
    BY DEF Unborn
  <2>4. /\ heard'[f].at = now /\ heard'[f].floor = r.interval
        /\ \A g \in Flows \ {f} : heard'[g] = heard[g]
    BY <1>2, <2>1, <2>2
  <2> HIDE DEF New, f
  <2>5. Pace(New(r), heard'[f])
    BY <2>2, <2>3, <2>4 DEF Pace
  <2> QED BY <1>2, <2>1, <2>3, <2>4, <2>5, StartedPace
<1> QED BY <1>3, <1>4

LEMMA ConsumeCodePace ==
  ASSUME IInv, PaceInv, NEW c \in Handlers, ConsumeCode(c) PROVE PaceInv' /\ InTime
<1> DEFINE f == task[c].flow
           new == [flows[f] EXCEPT !.consumed = TRUE, !.winner = Rail(c)]
<1>1. task[c].pc = "consume" /\ UNCHANGED heard
  BY DEF ConsumeCode, outside
<1>2. f \in Flows /\ DOMAIN flows[f] = FlowFields
  BY <1>1, Busy, Records
<1>3. UNCHANGED flows \/ flows' = [flows EXCEPT ![f] = new]
  BY DEF ConsumeCode
<1>4. /\ new.method = flows[f].method /\ new.interval = flows[f].interval
      /\ new.due = flows[f].due /\ new.polling = flows[f].polling
  BY <1>2 DEF FlowFields
<1>5. CASE UNCHANGED flows
  BY <1>1, <1>5, StillPace
<1>6. CASE flows' = [flows EXCEPT ![f] = new]
  <2> HIDE DEF new, f
  <2> QED BY <1>1, <1>2, <1>4, <1>6, FlowPace
<1> QED BY <1>3, <1>5, <1>6

LEMMA HandlerPace ==
  ASSUME IInv, PaceInv, \A a \in DeviceAnswers : a.interval <= maxDevicePollInterval,
         NEW c \in Handlers, HandlerStep(c)
  PROVE  PaceInv' /\ InTime
<1>1. CASE \/ StartRefused(c) \/ manualCallbackConsumed(c) \/ writeLoopbackLostResult(c)
           \/ CancelWaits(c)
  <2>1. UNCHANGED <<flows, heard>>
    BY <1>1 DEF StartRefused, manualCallbackConsumed, writeLoopbackLostResult, CancelWaits,
                coordinator, outside
  <2> QED BY <2>1, StillPace
<1>2. ASSUME NEW url \in URLs \cup {[kind |-> "elsewhere", state |-> 0]},
             OauthBrowserManualCallback(c, url)
      PROVE  PaceInv' /\ InTime
  <2>1. UNCHANGED <<flows, heard>>
    BY <1>2 DEF OauthBrowserManualCallback, coordinator, outside
  <2> QED BY <2>1, StillPace
<1>3. ASSUME NEW f \in Born, NEW url \in URLs, Loopback(c, f, url) PROVE PaceInv' /\ InTime
  <2>1. UNCHANGED <<flows, heard>>
    BY <1>3 DEF Loopback, coordinator, outside
  <2> QED BY <2>1, StillPace
<1>4. ASSUME NEW f \in Born, OauthCancel(c, f) PROVE PaceInv' /\ InTime
  <2>1. UNCHANGED <<flows, heard>>
    BY <1>4 DEF OauthCancel, coordinator, outside
  <2> QED BY <2>1, StillPace
<1>5. CASE ExchangeCode(c)
  <2>1. task[c].flow \in Flows
    BY <1>5, Busy DEF ExchangeCode
  <2>2. \E failure, r : Complete(task[c].flow, failure) /\ heard' = Heard(task[c].flow, r)
    BY <1>5, Zenon DEF ExchangeCode
  <2> QED BY <2>1, <2>2, HeardPace, CompletedPace
<1>6. CASE cancelFromRail(c)
  <2>1. task[c].flow \in Flows /\ UNCHANGED heard
    BY <1>6, Busy DEF cancelFromRail, outside
  <2>2. CASE RailError(task[c].flow, task[c].flow) = NoCode
    BY <1>6, <2>1, <2>2, FailedPace DEF cancelFromRail
  <2>3. CASE RailError(task[c].flow, task[c].flow) # NoCode
    BY <1>6, <2>1, <2>3, StillPace DEF cancelFromRail, coordinator
  <2> QED BY <2>2, <2>3
<1>7. CASE CancelWithContext(c)
  <2>1. task[c].flow \in Flows /\ UNCHANGED heard
    BY <1>7, Busy DEF CancelWithContext, outside
  <2>2. UNCHANGED flows \/ Finish(task[c].flow, Failed(task[c].flow, "cancelled"))
    BY <1>7 DEF CancelWithContext, coordinator
  <2> QED BY <2>1, <2>2, StillPace, FailedPace
<1> QED BY <1>1, <1>2, <1>3, <1>4, <1>5, <1>6, <1>7, BrowserStartPace, DeviceStartPace,
           ConsumeCodePace DEF HandlerStep

LEMMA PollFiresPace ==
  ASSUME IInv, PaceInv, NEW f \in Flows, PollFires(f) PROVE PaceInv' /\ InTime
<1> DEFINE new == [flows[f] EXCEPT !.due = 0, !.polling = TRUE]
<1>1. /\ flows[f].due # 0 /\ now >= flows[f].due /\ flows' = [flows EXCEPT ![f] = new]
      /\ UNCHANGED heard
  BY DEF PollFires, outside
<1>2. flows[f].status # "unborn"
  BY <1>1 DEF IInv, FlowsInv, FlowInv, Unborn
<1>3. flows[f].method = "device" /\ now \in Int
  BY <1>1, <1>2, FlowStarted DEF FlowSound, IInv, FlowsInv
<1>4. DOMAIN flows = Flows /\ DOMAIN flows[f] = FlowFields
  BY Records
<1>5. /\ flows'[f] = new /\ \A g \in Flows \ {f} : flows'[g] = flows[g]
      /\ new.due = 0 /\ new.method = flows[f].method /\ new.interval = flows[f].interval
  BY <1>1, <1>4 DEF FlowFields
<1> HIDE DEF new
<1>6. Pace(flows[f], heard[f])
  BY PaceOf
<1>7. Pace(flows'[f], heard'[f]) /\ now >= heard[f].at + heard[f].floor
  BY <1>1, <1>3, <1>5, <1>6 DEF Pace
<1>8. \A g \in Flows \ {f} : SamePace(g)
  BY <1>1, <1>5 DEF SamePace
<1> QED BY <1>7, <1>8, OnePace

\* slow_down adds a unit at least, up to the maximum.
LEMMA SlowsDown ==
  ASSUME NEW i \in Nat \ {0}, NEW floor \in Nat, NEW r, floor <= i, floor <= maxDevicePollInterval
  PROVE  LET low == IF r.code = "slow_down" /\ floor < maxDevicePollInterval THEN floor + 1 ELSE floor
         IN  /\ nextInterval(i, r) \in Nat \ {0} /\ low \in Nat
             /\ low <= nextInterval(i, r) /\ low <= maxDevicePollInterval
BY DEF nextInterval, SlowedDown, defaultDevicePollInterval, maxDevicePollInterval

LEMMA PollAnsweredPace ==
  ASSUME IInv, PaceInv, NEW f \in Flows, PollAnswered(f) PROVE PaceInv' /\ InTime
<1>1. flows[f].polling
  BY DEF PollAnswered
<1>2. flows[f].status # "unborn"
  BY <1>1 DEF IInv, FlowsInv, FlowInv, Unborn
<1>3. flows[f].method = "device" /\ now \in Int
  BY <1>1, <1>2, FlowStarted DEF FlowSound, IInv, FlowsInv
<1>4. /\ DOMAIN flows = Flows /\ DOMAIN flows[f] = FlowFields /\ DOMAIN heard = Flows
      /\ DOMAIN heard[f] = HeardFields
  BY Records
<1>5. PICK a \in PollAnswers(f), stored \in BOOLEAN :
        \E t \in IF Granted(a) THEN TokenAnswers ELSE {NoTokens} : Outcome(f, a, stored, t)
  BY Zenon DEF PollAnswered, Outcome
<1>6. PICK t \in IF Granted(a) THEN TokenAnswers ELSE {NoTokens} : Outcome(f, a, stored, t)
  BY <1>5, Zenon
<1> DEFINE r == PollDeviceCode(a, t)
           next == nextInterval(flows[f].interval, r)
           floor == IF r.code = "slow_down" /\ heard[f].floor < maxDevicePollInterval
                    THEN heard[f].floor + 1 ELSE heard[f].floor
<1>7. CASE KeptPolling(r)
  <2> DEFINE new == [flows[f] EXCEPT !.polling = FALSE, !.interval = next, !.due = now + next]
  <2>1. /\ flows' = [flows EXCEPT ![f] = new]
        /\ heard' = [heard EXCEPT ![f] = [heard[f] EXCEPT !.at = now, !.floor = floor]]
    BY <1>4, <1>6, <1>7 DEF Outcome
  <2>2. Pace(flows[f], heard[f])
    BY PaceOf
  <2>3. /\ next \in Nat \ {0} /\ floor \in Nat /\ floor <= next /\ floor <= maxDevicePollInterval
    BY <1>3, <2>2, SlowsDown DEF Pace
  <2> HIDE DEF next, floor, r
  <2>4. /\ new.due = now + next /\ new.polling = FALSE /\ new.interval = next
        /\ flows'[f] = new /\ \A g \in Flows \ {f} : flows'[g] = flows[g]
    BY <1>4, <2>1 DEF FlowFields
  <2>5. /\ heard'[f].at = now /\ heard'[f].floor = floor
        /\ \A g \in Flows \ {f} : heard'[g] = heard[g]
    BY <1>4, <2>1
  <2> HIDE DEF new
  <2>6. Pace(flows'[f], heard'[f]) /\ flows'[f].polling = FALSE
    BY <1>3, <2>3, <2>4, <2>5 DEF Pace
  <2>7. \A g \in Flows \ {f} : SamePace(g)
    BY <2>4, <2>5 DEF SamePace
  <2> QED BY <2>6, <2>7, OnePace
<1>8. CASE ~ KeptPolling(r)
  <2>1. heard' = heard \/ heard' = Heard(f, r)
    BY <1>6, <1>8 DEF Outcome
  <2> HIDE DEF r
  <2>2. \A g \in Flows : heard'[g].at = heard[g].at /\ heard'[g].floor = heard[g].floor
    BY <2>1, HeardPace
  <2>3. CASE flows[f].consumed
    <3> DEFINE new == [flows[f] EXCEPT !.polling = FALSE]
    <3>1. flows' = [flows EXCEPT ![f] = new]
      BY <1>6, <1>8, <2>3 DEF Outcome, r
    <3>2. /\ new.method = flows[f].method /\ new.interval = flows[f].interval
          /\ new.due = flows[f].due /\ new.polling = FALSE
      BY <1>4 DEF FlowFields
    <3> HIDE DEF new
    <3> QED BY <2>2, <3>1, <3>2, FlowPace
  <2>4. CASE ~ flows[f].consumed
    <3>1. Complete(f, Persisted(r, stored))
      BY <1>6, <1>8, <2>4 DEF Outcome, r
    <3> QED BY <2>2, <3>1, CompletedPace
  <2> QED BY <2>3, <2>4
<1> QED BY <1>7, <1>8

LEMMA FlowStepPace ==
  ASSUME IInv, PaceInv, NEW f \in Flows, FlowStep(f) PROVE PaceInv' /\ InTime
<1>1. CASE ListenerCloses(f)
  <2> DEFINE l == IF flows[f].listener = "open" THEN "closing" ELSE "none"
             new == [flows[f] EXCEPT !.listener = l]
  <2>1. flows' = [flows EXCEPT ![f] = new] /\ UNCHANGED heard
    BY <1>1 DEF ListenerCloses, outside
  <2>2. DOMAIN flows[f] = FlowFields
    BY Records
  <2>3. /\ new.method = flows[f].method /\ new.interval = flows[f].interval
        /\ new.due = flows[f].due /\ new.polling = flows[f].polling
    BY <2>2 DEF FlowFields
  <2> HIDE DEF new
  <2> QED BY <2>1, <2>3, FlowPace
<1>2. CASE ReaperFires(f)
  <2>1. UNCHANGED heard /\ \E err : Finish(f, Failed(f, err))
    BY <1>2 DEF ReaperFires, outside
  <2> QED BY <2>1, FailedPace
<1>3. CASE UserDecides(f)
  BY <1>3, StillPace DEF UserDecides, coordinator
<1> QED BY <1>1, <1>2, <1>3, PollFiresPace, PollAnsweredPace DEF FlowStep

LEMMA NextPace ==
  ASSUME IInv, PaceInv, \A a \in DeviceAnswers : a.interval <= maxDevicePollInterval, [Next]_vars
  PROVE  PaceInv' /\ InTime
<1>1. CASE UNCHANGED vars
  BY <1>1, StillPace DEF vars
<1>2. CASE TimePasses
  BY <1>2, StillPace DEF TimePasses, coordinator
<1> QED BY <1>1, <1>2, HandlerPace, FlowStepPace DEF Next

\* scheduleDevicePoll never polls the provider sooner than it asked, however polls, cancels
\* and expiries interleave and for any number of flows, while the interval the provider
\* gives with a device code is at most maxDevicePollInterval: nextDevicePollInterval lowers
\* a longer one to that maximum when it is told to slow down.
THEOREM AlwaysPaced ==
  ASSUME \A a \in DeviceAnswers : a.interval <= maxDevicePollInterval
  PROVE  Spec => PollsPaced
<1>1. Init => PaceInv
  BY DEF Init, PaceInv, Unborn
<1>2. IInv /\ PaceInv /\ [Next]_vars => PaceInv'
  BY NextPace
<1>3. IInv /\ PaceInv /\ [Next]_vars =>
        [\A f \in Flows : flows'[f].polling /\ ~flows[f].polling
                             => now >= heard[f].at + heard[f].floor]_vars
  BY NextPace DEF InTime
<1> QED BY <1>1, <1>2, <1>3, AlwaysIInv, PTL DEF Spec, PollsPaced
=============================================================================
