---------------------------- MODULE AccountLogin ----------------------------
(***************************************************************************)
(* Binding an account over HTTP: the admin handlers of the OAuth flows,    *)
(* the loopback callback page, the device poller and the provider, with    *)
(* answers that are late, lost, unreadable or refusals.  A handler reads   *)
(* the coordinator and calls it in separate steps.  A call of the          *)
(* coordinator is one step here, two when the provider is asked in it:     *)
(* OAuthFlow has the interleavings inside.                                 *)
(***************************************************************************)
EXTENDS ProviderAnswers, FiniteSets

CONSTANTS Flows,         \* flow ids 1 .. n, in the order of their starts
          Handlers,      \* concurrent HTTP requests
          DeviceAnswers, \* answers to RequestDeviceCode
          WaitAnswers,   \* answers to a poll while the user has not decided
          FaultAnswers,  \* answers to a poll of a provider that fails
          TokenAnswers,  \* answers to the exchange of a code
          BrowserTTL,    \* browserFlowTTL
          DeviceFlows,   \* bound: the flows the operator may start as device flows
          MaxCalls       \* bound: requests that get past their first step

ASSUME FlowsAssumption ==
  /\ IsFiniteSet(Flows) /\ Flows = 1 .. Cardinality(Flows)
  /\ DeviceFlows \subseteq Flows /\ BrowserTTL \in Nat /\ MaxCalls \in Nat

\* External: what the provider keeps to.  Before the user has decided it answers a poll
\* that came through with pending or slow_down, or refuses it with a bare 403 or 404; its
\* failures do not bear the names of a denial by the user and of the router's own ends.
\* "ok" stands for a success here and is no error.
ASSUME ProviderAssumption ==
  /\ \A a \in DeviceAnswers : a.error # "ok"
  /\ \A a \in WaitAnswers :
       /\ a.http # 0 /\ a.readable
       /\ \/ classifyPendingDevicePoll(a) # NoCode
          \/ a.http \in {403, 404} /\ semanticDevicePollCode(a) = NoCode
  /\ \A a \in FaultAnswers \cup TokenAnswers :
       a.error \notin {"access_denied", "cancelled", "flow_expired"}
  /\ \A a \in FaultAnswers :
       a.status \notin {"access_denied", "cancelled", "flow_expired"}

VARIABLES flows,    \* the flow records
          slot,     \* the current flow, 0 if there is none
          released, \* flows that ended and can still be looked up
          latest,   \* latestReleasedFlowID, 0 if none
          now,
          task,     \* what each handler does
          said,     \* what the last step answered, if it did
          calls,    \* requests that got past their first step
          grant,    \* what the user decided at the provider
          rows,     \* accounts inserted, per flow
          heard     \* history: what the provider and the operator told

vars == <<flows, slot, released, latest, now, task, said, calls, grant, rows, heard>>

Terminal == {"success", "error"}

Unborn == [method |-> "none", status |-> "unborn", consumed |-> FALSE, winner |-> "unknown",
           err |-> NoCode, expires |-> 0, interval |-> 0, due |-> 0, polling |-> FALSE,
           listener |-> "none"]

NoTask == [call |-> "none", pc |-> "idle", state |-> 0, flow |-> 0]

\* An answer, the flow it is about and the rail it names.  The answers that no property
\* is about (Others) are one value.
Others == {"started", "in_progress", "invalid_provider", "unavailable", "upstream_error",
           "invalid_url", "internal", "page_400", "page_422", "page_502"}
Said(answer, f, rail) ==
  IF answer \in Others \/ f = 0 THEN [answer |-> "other", flow |-> 0, rail |-> "unknown"]
                                ELSE [answer |-> answer, flow |-> f, rail |-> rail]
Silent == [answer |-> "none", flow |-> 0, rail |-> "unknown"]

\* Of each flow: when a poll was last answered, the least wait asked for since the
\* start, whether an answer of substance came (not a wait), tokens, and expired_token.
Unheard == [at |-> 0, floor |-> 0, decided |-> FALSE, tokens |-> FALSE, lapsed |-> FALSE]

Init ==
  /\ flows = [f \in Flows |-> Unborn]
  /\ slot = 0 /\ released = {} /\ latest = 0 /\ now = 0
  /\ task = [c \in Handlers |-> NoTask] /\ said = Silent /\ calls = 0
  /\ grant = [f \in Flows |-> "waiting"]
  /\ rows = [f \in Flows |-> 0]
  /\ heard = [f \in Flows |-> Unheard]

Born == {f \in Flows : flows[f].status # "unborn"}
IsTerminal(f) == flows[f].status \in Terminal
Known(f) == slot = f \/ f \in released
Expired(f) == now > flows[f].expires

Free(c) == task[c].pc = "idle"
Begin(c, call, state, f, pc) ==
  /\ task' = [task EXCEPT ![c] = [call |-> call, pc |-> pc, state |-> state, flow |-> f]]
  /\ said' = Silent
  /\ calls < MaxCalls /\ calls' = calls + 1
Goto(c, pc) == task' = [task EXCEPT ![c].pc = pc] /\ said' = Silent /\ UNCHANGED calls
AnswerNaming(c, answer, rail) ==
  /\ task' = [task EXCEPT ![c] = NoTask]
  /\ said' = Said(answer, task[c].flow, rail)
  /\ UNCHANGED calls
Answer(c, answer) == AnswerNaming(c, answer, "unknown")
AnswerAtOnce(answer, f) ==
  said' = Said(answer, f, "unknown") /\ UNCHANGED <<task, calls>>
NoHandler == said' = Silent /\ UNCHANGED <<task, calls>>

coordinator == <<flows, slot, released, latest>>
outside == <<now, grant, rows, heard>>

-----------------------------------------------------------------------------
(* The coordinator *)

\* TryStartFlow and cleanupReleasedFlowsOnStart: a new flow takes the slot, and of the
\* flows that ended only those whose listener is still open remain.
Occupy(f, flow) ==
  /\ flows' = [flows EXCEPT ![f] = flow]
  /\ slot' = f
  /\ released' = {g \in released : flows[g].listener # "none"}
  /\ latest' = IF latest \in released' THEN latest ELSE 0

\* A flow gets its outcome and ReleaseFlow gives up the slot.
Finish(f, flow) ==
  /\ flows' = [flows EXCEPT ![f] = flow]
  /\ IF slot = f THEN slot' = 0 /\ released' = released \cup {f} /\ latest' = f
                 ELSE UNCHANGED <<slot, released, latest>>

Failed(f, err) == [flows[f] EXCEPT !.status = "error", !.consumed = TRUE, !.err = err]
Succeeded(f) == [flows[f] EXCEPT !.status = "success", !.consumed = TRUE]

\* BrowserCallbackSnapshot(""): the current flow, else the one released last.
BrowserFlowLatestFirst ==
  LET f == IF latest # 0 THEN latest ELSE slot
  IN  IF f # 0 /\ flows[f].method = "browser" THEN f ELSE 0
BrowserFlow ==
  LET f == IF slot # 0 THEN slot ELSE latest
  IN  IF f # 0 /\ flows[f].method = "browser" THEN f ELSE 0

\* classifyConsumedFlow and rejectConsumedRail.
ConsumedError(f) ==
  IF flows[f].winner = "unknown" /\ flows[f].status # "success" /\ Expired(f)
  THEN "flow_expired" ELSE "already_consumed"

\* What ConsumeCode and cancelFromRail refuse; state is not looked at by the latter.
RailError(f, state) ==
  IF ~Known(f) THEN "no_flow"
  ELSE IF flows[f].consumed THEN IF state # f THEN "state_mismatch" ELSE ConsumedError(f)
  ELSE IF Expired(f) THEN "flow_expired"
  ELSE IF state # f THEN "state_mismatch" ELSE NoCode

\* persistConsumedFlow for tokens that arrived: the row, or why there is none.
Persisted(r, stored) ==
  IF r.code # "ok" THEN r.code
  ELSE IF ~Persistable(r.idToken) THEN "invalid_response"
  ELSE IF ~stored THEN "oauth_store_failed" ELSE NoCode

Complete(f, failure) ==
  /\ Finish(f, [(IF failure = NoCode THEN Succeeded(f) ELSE Failed(f, failure)) EXCEPT
                  !.polling = FALSE])
  /\ rows' = IF failure = NoCode THEN [rows EXCEPT ![f] = @ + 1] ELSE rows

Heard(f, r) == [heard EXCEPT ![f].decided = TRUE, ![f].tokens = @ \/ r.code = "ok",
                             ![f].lapsed = @ \/ r.code = "expired_token"]

-----------------------------------------------------------------------------
(* OauthBrowserStart and OauthDeviceStart *)

StartRefused(c) ==
  /\ Free(c)
  /\ \/ AnswerAtOnce("invalid_provider", 0)
     \/ slot # 0 /\ AnswerAtOnce("in_progress", slot)
  /\ UNCHANGED <<coordinator, outside>>

\* BindLoopback: the one port may be taken, by a flow that has not closed it or by
\* another program.
Listeners == {"none"} \cup {l \in {"open"} : \A f \in Born : flows[f].listener # "open"}

OauthBrowserStart(c) ==
  /\ Free(c) /\ slot = 0
  /\ \E listener \in Listeners : LET f == Cardinality(Born) + 1 IN
       /\ f \in Flows
       /\ Occupy(f, [Unborn EXCEPT !.method = "browser", !.status = "pending", !.listener = listener,
                                   !.expires = now + BrowserTTL])
       /\ AnswerAtOnce("started", f)
  /\ UNCHANGED outside

\* How a device code that was not given is answered.
oauthDeviceStartError(r) ==
  IF r.http = 404 \/ r.code = "device_auth_unavailable" THEN "unavailable" ELSE "upstream_error"

OauthDeviceStart(c) ==
  /\ Free(c) /\ slot = 0
  /\ \E a \in DeviceAnswers : LET f == Cardinality(Born) + 1
                                  r == RequestDeviceCode(a) IN
       /\ f \in DeviceFlows
       /\ IF r.code = "ok"
          THEN /\ Occupy(f, [Unborn EXCEPT !.method = "device", !.status = "pending",
                                           !.expires = now + r.ttl, !.interval = r.interval,
                                           !.due = now + r.interval])
               /\ heard' = [heard EXCEPT ![f].at = now, ![f].floor = r.interval]
               /\ AnswerAtOnce("started", f)
          ELSE /\ AnswerAtOnce(oauthDeviceStartError(r), 0)
               /\ UNCHANGED <<coordinator, heard>>
  /\ UNCHANGED <<now, grant, rows>>

-----------------------------------------------------------------------------
(* The two rails of a browser flow *)

\* A callback URL carries the state of a browser flow, or a foreign one (0).
URLs == [kind : {"code", "access_denied", "other_error", "empty"},
         state : {0} \cup {f \in Born : flows[f].method = "browser"}]

\* OauthBrowserManualCallback up to the call of the coordinator.
OauthBrowserManualCallback(c, url) ==
  LET f == BrowserFlow
      Continue(pc) == Begin(c, "paste", url.state, f, pc) IN
  /\ Free(c)
  /\ CASE url.kind \in {"empty", "elsewhere"} -> AnswerAtOnce("invalid_url", 0)
       [] url.kind \notin {"empty", "elsewhere"} /\ f = 0 -> AnswerAtOnce("no_flow", url.state)
       [] OTHER ->
            CASE url.state # f               -> AnswerAtOnce("state_mismatch", url.state)
              [] url.state = f /\ Expired(f) -> AnswerAtOnce("flow_expired", f)
              [] OTHER ->
                   CASE url.kind = "code"                      -> Continue("consume")
                     [] url.kind # "code" /\ flows[f].consumed -> Continue("consumed")
                     [] url.kind = "access_denied" /\ ~flows[f].consumed -> Continue("deny")
                     [] url.kind = "other_error" /\ ~flows[f].consumed ->
                          AnswerAtOnce("upstream_error", 0)
  /\ UNCHANGED <<coordinator, outside>>

\* callbackHandler, which belongs to one flow and lives as long as its listener.
Loopback(c, f, url) ==
  /\ Free(c) /\ flows[f].listener = "open"
  /\ CASE url.kind = "code"  -> Begin(c, "loopback", url.state, f, "consume")
       [] url.kind = "empty" -> AnswerAtOnce("page_400", 0)
       [] url.kind \in {"access_denied", "other_error"} /\ url.state # f ->
            AnswerAtOnce("page_400", 0)
       [] url.kind = "access_denied" /\ url.state = f ->
            Begin(c, "loopback", url.state, f, "deny")
       [] url.kind = "other_error" /\ url.state = f -> AnswerAtOnce("page_422", 0)
  /\ UNCHANGED <<coordinator, outside>>

Rail(c) == IF task[c].call = "paste" THEN "manual_paste" ELSE "loopback"

\* What a rail makes of an error of the coordinator.
PageOf(err) == IF err = "state_mismatch" THEN "page_400" ELSE "page_410"
Refused(c, err) ==
  CASE err = "already_consumed" -> Goto(c, IF task[c].call = "paste" THEN "consumed" ELSE "lost")
    [] OTHER                    -> Answer(c, IF task[c].call = "paste" THEN err ELSE PageOf(err))

\* ConsumeCode up to the exchange: the claim of the flow.
ConsumeCode(c) ==
  LET f == task[c].flow
      err == RailError(f, task[c].state) IN
  /\ task[c].pc = "consume"
  /\ IF err = NoCode
     THEN /\ flows' = [flows EXCEPT ![f].consumed = TRUE, ![f].winner = Rail(c)]
          /\ Goto(c, "exchange")
     ELSE Refused(c, err) /\ UNCHANGED flows
  /\ UNCHANGED <<slot, released, latest, outside>>

\* Its rest: the exchange, the row and the outcome.
ExchangeCode(c) ==
  LET f == task[c].flow IN
  /\ task[c].pc = "exchange"
  /\ \E t \in TokenAnswers, stored \in BOOLEAN :
       LET r == exchangeTokens(t)
           failure == Persisted(r, stored) IN
       /\ Complete(f, failure)
       /\ heard' = Heard(f, r)
       /\ Answer(c, CASE failure = NoCode ->
                           IF task[c].call = "paste" THEN "pasted" ELSE "page_success"
                      [] task[c].call = "loopback" /\ failure # NoCode           -> "page_502"
                      [] task[c].call = "paste" /\ failure = "invalid_grant" -> "invalid_grant"
                      [] task[c].call = "paste" /\ failure = "oauth_store_failed" ->
                           "store_failed"
                      [] OTHER                                               -> "upstream_error")
  /\ UNCHANGED <<now, grant>>

\* cancelFromRail: the provider's access_denied ends the flow for this rail.
cancelFromRail(c) ==
  LET f == task[c].flow
      err == RailError(f, f) IN
  /\ task[c].pc = "deny"
  /\ IF err = NoCode
     THEN /\ Finish(f, [Failed(f, "access_denied") EXCEPT !.winner = Rail(c)])
          /\ Answer(c, IF task[c].call = "paste" THEN "cancelled" ELSE "page_cancel")
     ELSE Refused(c, err) /\ UNCHANGED coordinator
  /\ UNCHANGED outside

\* A consumed flow is classified: the winner, expiry, or an error without a code.
manualCallbackConsumed(c) ==
  LET f == task[c].flow IN
  /\ task[c].pc = "consumed"
  /\ AnswerNaming(c,
       CASE Known(f) /\ flows[f].winner # "unknown" -> "already_consumed"
         [] Known(f) /\ flows[f].winner = "unknown"
                     /\ flows[f].err = "flow_expired" -> "flow_expired"
         [] OTHER                                     -> "unexplained",
       IF Known(f) THEN flows[f].winner ELSE "unknown")
  /\ UNCHANGED <<coordinator, outside>>

\* writeLoopbackLostResult: the page shows the outcome, or the browser left.
writeLoopbackLostResult(c) ==
  /\ task[c].pc = "lost"
  /\ \/ /\ IsTerminal(task[c].flow)
        /\ Answer(c, IF flows[task[c].flow].status = "success" THEN "page_lost" ELSE "page_cancel")
     \/ ~IsTerminal(task[c].flow) /\ Answer(c, "page_502")
  /\ UNCHANGED <<coordinator, outside>>

\* After a release the listener is shut down in the background: it accepts no more,
\* and later ListenerBound is cleared.
ListenerCloses(f) ==
  /\ slot # f /\ flows[f].listener # "none"
  /\ flows' = [flows EXCEPT ![f].listener = IF @ = "open" THEN "closing" ELSE "none"]
  /\ NoHandler
  /\ UNCHANGED <<slot, released, latest, outside>>

-----------------------------------------------------------------------------
(* OauthCancel *)

OauthCancel(c, f) ==
  /\ Free(c)
  /\ CASE slot = 0               -> AnswerAtOnce("idle", f)
       [] slot # 0 /\ slot # f   -> AnswerAtOnce("mismatch", f)
       [] slot # 0 /\ slot = f   -> Begin(c, "cancel", 0, f, "cancel")
  /\ UNCHANGED <<coordinator, outside>>

CancelWithContext(c) ==
  LET f == task[c].flow IN
  /\ task[c].pc = "cancel"
  /\ CASE slot # f                       -> Answer(c, "idle") /\ UNCHANGED coordinator
       [] slot = f /\ flows[f].consumed  -> Goto(c, "wait") /\ UNCHANGED coordinator
       [] slot = f /\ ~flows[f].consumed ->
            Finish(f, Failed(f, "cancelled")) /\ Answer(c, "idle")
  /\ UNCHANGED outside

\* waitForTerminalStatus: the winner's outcome, or the end of the caller's context.
CancelWaits(c) ==
  /\ task[c].pc = "wait"
  /\ IF IsTerminal(task[c].flow) THEN Answer(c, "idle") ELSE Answer(c, "internal")
  /\ UNCHANGED <<coordinator, outside>>

-----------------------------------------------------------------------------
(* The device poller, the reaper and the user *)

\* The timer of scheduleDevicePoll fires.
PollFires(f) ==
  /\ flows[f].due # 0 /\ now >= flows[f].due
  /\ ~flows[f].consumed /\ now < flows[f].expires
  /\ flows' = [flows EXCEPT ![f].due = 0, ![f].polling = TRUE]
  /\ NoHandler
  /\ UNCHANGED <<slot, released, latest, outside>>

\* External: what the provider answers to a poll, and to the exchange after it.  Whatever
\* the user did, it may fail, or count the device code as expired.
NoTokens == [http |-> 0, readable |-> FALSE, error |-> NoCode, complete |-> FALSE,
             idToken |-> NoIdToken]
Decision(code, error) ==
  [http |-> IF code THEN 200 ELSE 403, readable |-> TRUE, error |-> error, status |-> NoCode,
   code |-> code]
PollAnswers(f) ==
  FaultAnswers \cup {Decision(FALSE, "expired_token")}
  \cup CASE grant[f] = "waiting"  -> WaitAnswers
         [] grant[f] = "denied"   -> {Decision(FALSE, "access_denied")}
         [] grant[f] = "approved" -> {Decision(TRUE, NoCode)}

PollAnswered(f) ==
  /\ flows[f].polling
  /\ \E a \in PollAnswers(f), stored \in BOOLEAN :
     \E t \in IF Granted(a) THEN TokenAnswers ELSE {NoTokens} :
       LET r == PollDeviceCode(a, t)
           failure == Persisted(r, stored) IN
       IF KeptPolling(r)
       THEN LET next == nextInterval(flows[f].interval, r) IN
            /\ flows' = [flows EXCEPT ![f].polling = FALSE, ![f].interval = next,
                                      ![f].due = now + next]
            /\ heard' = [heard EXCEPT ![f].at = now,
                           ![f].floor = IF r.code = "slow_down" /\ @ < maxDevicePollInterval
                                        THEN @ + 1 ELSE @]
            /\ UNCHANGED <<slot, released, latest, rows>>
       ELSE /\ heard' = IF a \in WaitAnswers THEN heard ELSE Heard(f, r)
            /\ IF flows[f].consumed
               THEN /\ flows' = [flows EXCEPT ![f].polling = FALSE]
                    /\ UNCHANGED <<slot, released, latest, rows>>
               ELSE Complete(f, failure)
  /\ NoHandler
  /\ UNCHANGED <<now, grant>>

\* startExpiryReaper: the flow expires unless somebody has won it.
ReaperFires(f) ==
  /\ flows[f].status = "pending" /\ ~flows[f].consumed /\ now >= flows[f].expires
  /\ Finish(f, Failed(f, IF flows[f].method = "device" THEN "expired_token" ELSE "flow_expired"))
  /\ NoHandler
  /\ UNCHANGED outside

UserDecides(f) ==
  /\ flows[f].method = "device" /\ grant[f] = "waiting"
  /\ ~IsTerminal(f) \/ flows[f].polling
  /\ \E g \in {"approved", "denied"} : grant' = [grant EXCEPT ![f] = g]
  /\ NoHandler
  /\ UNCHANGED <<coordinator, now, rows, heard>>

\* Time moves to the next timer, or just past an expiry.
Deadlines == UNION {{flows[f].due, flows[f].expires, flows[f].expires + 1} :
                      f \in {g \in Born : ~IsTerminal(g)}}
TimePasses ==
  /\ \E t \in Deadlines : t > now /\ (\A u \in Deadlines : u > now => t <= u) /\ now' = t
  /\ NoHandler
  /\ UNCHANGED <<coordinator, grant, rows, heard>>

-----------------------------------------------------------------------------
HandlerStep(c) ==
  \/ StartRefused(c) \/ OauthBrowserStart(c) \/ OauthDeviceStart(c)
  \/ \E url \in URLs \cup {[kind |-> "elsewhere", state |-> 0]} : OauthBrowserManualCallback(c, url)
  \/ \E f \in Born, url \in URLs : Loopback(c, f, url)
  \/ ConsumeCode(c) \/ ExchangeCode(c) \/ cancelFromRail(c) \/ manualCallbackConsumed(c)
  \/ writeLoopbackLostResult(c)
  \/ \E f \in Born : OauthCancel(c, f)
  \/ CancelWithContext(c) \/ CancelWaits(c)

FlowStep(f) ==
  \/ ListenerCloses(f) \/ PollFires(f) \/ PollAnswered(f) \/ ReaperFires(f) \/ UserDecides(f)

Next == (\E c \in Handlers : HandlerStep(c)) \/ (\E f \in Flows : FlowStep(f)) \/ TimePasses

Spec == Init /\ [][Next]_vars

-----------------------------------------------------------------------------
(* Properties *)

\* A flow ends for its cause, whatever answers were lost, late or unreadable: a success
\* has tokens and one row; a device flow that was denied was denied by the user; an expired
\* one is past its time, or the provider said so (expired_token) while nobody had ended it;
\* and any other failure came with an answer other than "wait" (pending, slow_down, 403,
\* 404).  A poll that got no answer, an unreadable one or a 5xx is such an answer: the code
\* gives up there.
\* Tokens that arrived make a row unless they cannot or somebody else ended the flow.
EndsForCause ==
  \A f \in Born :
    LET flow == flows[f] IN
    /\ rows[f] <= 1
    /\ flow.status = "success" => rows[f] = 1 /\ heard[f].tokens
    /\ flow.status = "error" => rows[f] = 0
    /\ flow.err = "flow_expired" => now >= flow.expires
    /\ flow.err = "expired_token" => now >= flow.expires \/ heard[f].lapsed
    /\ heard[f].lapsed /\ IsTerminal(f) => flow.err \in {"expired_token", "cancelled"}
    /\ flow.err = "access_denied" =>
         IF flow.method = "device" THEN grant[f] = "denied" ELSE flow.winner # "unknown"
    /\ flow.err \notin {NoCode, "cancelled", "flow_expired", "expired_token", "access_denied"}
         => heard[f].decided
    /\ heard[f].tokens /\ IsTerminal(f) /\ rows[f] = 0 =>
         \/ flow.err \in {"invalid_response", "oauth_store_failed"}
         \/ flow.method = "device" /\ flow.err \in {"cancelled", "expired_token"}

\* The provider is never polled sooner after an answer than it asked: the interval of the
\* device code, five seconds if it gave none, and five more for every slow_down (RFC 8628,
\* section 3.5), up to maxDevicePollInterval.
PollsPaced ==
  [][\A f \in Flows : flows'[f].polling /\ ~flows[f].polling
                        => now >= heard[f].at + heard[f].floor]_vars

\* What a handler answered is true of the flow it names, however the flow moved on between
\* the handler's reads: a code of success has its row and its rail, the URL of a live flow
\* is never refused as foreign, stale or expired, a cancel is confirmed only when the flow
\* is over, and only a flow that a cancel ended, or that the next start dropped, is
\* answered without a code.
AnswersTruthful ==
  LET f == said.flow IN
  CASE said.answer = "pasted"           -> rows[f] = 1 /\ flows[f].winner = "manual_paste"
    [] said.answer = "already_consumed" -> said.rail # "unknown" /\ said.rail = flows[f].winner
    [] said.answer = "page_success"     -> rows[f] = 1 /\ flows[f].winner = "loopback"
    [] said.answer = "page_lost"        -> rows[f] = 1
    [] said.answer \in {"page_cancel", "cancelled", "invalid_grant", "store_failed"} ->
         flows[f].status = "error" /\ rows[f] = 0
    [] said.answer \in {"no_flow", "state_mismatch", "idle", "mismatch"} -> IsTerminal(f)
    [] said.answer = "flow_expired"     -> now >= flows[f].expires
    [] said.answer = "page_410"         -> now >= flows[f].expires \/ ~Known(f)
    [] said.answer = "unexplained"      -> flows[f].err = "cancelled" \/ ~Known(f)
    [] OTHER                            -> TRUE
=============================================================================
