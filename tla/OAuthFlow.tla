------------------------------ MODULE OAuthFlow ------------------------------
(***************************************************************************)
(* The OAuth onboarding coordinator of internal/oauth: one in-flight flow  *)
(* per router (flowPtr), ended by whoever wins Flow.Consumed - one of the  *)
(* two callback rails, an operator's cancel, the expiry reaper or the      *)
(* device poller - and reported once through GetFlow.                      *)
(*                                                                         *)
(* Every goroutine is an actor with a program counter: Callers are HTTP    *)
(* handlers (admin API, loopback callback, Shutdown), and every flow has   *)
(* a reaper and a poller timer.  A step is one atomic access to shared     *)
(* state: flowPtr, closed, Consumed, a critical section of Flow.mu or of   *)
(* releasedMu, a provider call or a store call.                            *)
(***************************************************************************)
EXTENDS Naturals, FiniteSets

CONSTANTS Flows,      \* flow ids: generateFlowID never repeats one
          Callers,    \* request goroutines
          NoFlow,     \* the nil *Flow
          Calls       \* the calls the environment makes, a subset of AllCalls

AllCalls == {"start_browser", "start_device", "callback", "access_denied",
             "cancel", "get_flow", "shutdown"}

ASSUME NoFlowAssumption == NoFlow \notin Flows
ASSUME CallsAssumption == Calls \subseteq AllCalls
ASSUME CallersAssumption ==
  Callers \cap ({"reaper", "poller"} \X Flows) = {}

VARIABLES
  flowPtr,        \* Coordinator.flowPtr
  closed,         \* Coordinator.closed
  startMu,        \* TRUE while a StartBrowser/StartDevice holds startMu
  releasedFlows,  \* keys of Coordinator.releasedFlows
  latestReleased, \* Coordinator.latestReleasedFlowID, NoFlow for ""
  method, status, consumed, consumedBy, terminalError, terminalReported,
  listenerBound,  \* the fields of the Flow structs
  mu,             \* the actor holding Flow.mu across steps, NoFlow for none
  expired,        \* flows whose ExpiresAt has passed
  pc, on, arg,    \* per actor: where it is, its flow, its rail or error code
  rows,           \* upstream_accounts rows inserted for a flow
  reports,        \* times GetFlow answered with a flow's terminal status
  newest          \* the flow started last (history)

coord == <<flowPtr, closed, startMu, releasedFlows, latestReleased>>
local == <<pc, on, arg>>
history == <<rows, reports, newest>>
race == <<consumed, consumedBy>>
outcome == <<status, terminalError>>
flow == <<method, race, outcome, terminalReported, listenerBound>>
vars == <<coord, flow, mu, expired, local, history>>

Reaper(f) == <<"reaper", f>>
Poller(f) == <<"poller", f>>
Timers == {"reaper", "poller"} \X Flows
Actors == Callers \cup Timers

\* A timer belongs to its flow, a handler to the flow of its call.
Home(a) == IF a \in Timers THEN a[2] ELSE NoFlow

Methods == {"browser", "device"}
Rails == {"loopback", "manual_paste"}
ErrorCodes == {"cancelled", "access_denied", "expired", "failed"}
Terminal == {"success", "error"}

\* The program counters.  Winning: a won Consumed and has not yet published
\* a terminal status.
Winning == {"exchange", "persist", "succeed", "dev_finish", "terminate"}
Releasing == {"rel_load", "rel_store", "rel_swap"}
Pcs == {"idle", "starting", "cleanup", "arm", "cas_consume", "cas_deny",
        "classify", "cas_cancel", "wait_terminal", "poll_released",
        "poll_status", "poll_pending", "poll_terminal", "shut_load",
        "shut_clear", "armed", "polling", "dev_fail"} \cup Winning \cup Releasing

Args == Methods \cup Rails \cup ErrorCodes \cup {"none", "shutdown"}

TypeOK ==
  /\ flowPtr \in Flows \cup {NoFlow}
  /\ closed \in BOOLEAN
  /\ startMu \in BOOLEAN
  /\ releasedFlows \subseteq Flows
  /\ latestReleased \in Flows \cup {NoFlow}
  /\ method \in [Flows -> Methods \cup {"none"}]
  /\ status \in [Flows -> {"unborn", "pending"} \cup Terminal]
  /\ consumed \in [Flows -> BOOLEAN]
  /\ consumedBy \in [Flows -> Rails \cup {"unknown"}]
  /\ terminalError \in [Flows -> ErrorCodes \cup {"none"}]
  /\ terminalReported \in [Flows -> BOOLEAN]
  /\ listenerBound \in [Flows -> BOOLEAN]
  /\ mu \in [Flows -> Actors \cup {NoFlow}]
  /\ expired \subseteq Flows
  /\ pc \in [Actors -> Pcs]
  /\ on \in [Actors -> Flows \cup {NoFlow}]
  /\ arg \in [Actors -> Args]
  /\ rows \in [Flows -> Nat]
  /\ reports \in [Flows -> 0 .. 2]
  /\ newest \in Flows \cup {NoFlow}

Init ==
  /\ flowPtr = NoFlow /\ closed = FALSE /\ startMu = FALSE
  /\ releasedFlows = {} /\ latestReleased = NoFlow
  /\ method = [f \in Flows |-> "none"]
  /\ status = [f \in Flows |-> "unborn"]
  /\ consumed = [f \in Flows |-> FALSE]
  /\ consumedBy = [f \in Flows |-> "unknown"]
  /\ terminalError = [f \in Flows |-> "none"]
  /\ terminalReported = [f \in Flows |-> FALSE]
  /\ listenerBound = [f \in Flows |-> FALSE]
  /\ mu = [f \in Flows |-> NoFlow]
  /\ expired = {}
  /\ pc = [a \in Actors |-> "idle"]
  /\ on = [a \in Actors |-> Home(a)]
  /\ arg = [a \in Actors |-> "none"]
  /\ rows = [f \in Flows |-> 0]
  /\ reports = [f \in Flows |-> 0]
  /\ newest = NoFlow

-----------------------------------------------------------------------------
(* Control flow of one actor.                                              *)

\* An idle handler begins a call.  A call that is refused at once (coordinator
\* closed, flow in progress, flow not found or expired, state mismatch)
\* changes nothing and has no action.
Call(c, name, f, x, p) ==
  /\ name \in Calls /\ pc[c] = "idle"
  /\ pc' = [pc EXCEPT ![c] = p]
  /\ on' = [on EXCEPT ![c] = f]
  /\ arg' = [arg EXCEPT ![c] = x]

Goto(a, p) == pc' = [pc EXCEPT ![a] = p] /\ UNCHANGED <<on, arg>>

GotoWith(a, p, x) ==
  /\ pc' = [pc EXCEPT ![a] = p]
  /\ arg' = [arg EXCEPT ![a] = x]
  /\ UNCHANGED on

\* The handler returns, or the timer is through.
Return(a) ==
  /\ pc' = [pc EXCEPT ![a] = "idle"]
  /\ on' = [on EXCEPT ![a] = Home(a)]
  /\ arg' = [arg EXCEPT ![a] = "none"]

Born(f) == status[f] # "unborn"
MuFree(f) == mu[f] = NoFlow
IsTerminal(f) == status[f] \in Terminal

\* A start has answered: only then does anyone know f's authorize URL, and
\* with it the state a callback must carry.
Announced(f) ==
  Born(f) /\ \A c \in Callers : on[c] = f => pc[c] \notin {"cleanup", "arm"}

\* Where an actor goes when its ReleaseFlow returns, and Flow.mu with it.
AfterRelease(a) == IF arg[a] = "shutdown" THEN "shut_clear" ELSE "idle"

Unlock(a) ==
  /\ mu' = [f \in Flows |-> IF mu[f] = a THEN NoFlow ELSE mu[f]]
  /\ on' = [on EXCEPT ![a] = Home(a)]
  /\ arg' = [arg EXCEPT ![a] = "none"]

-----------------------------------------------------------------------------
(* Defective variants of actions below: what the properties must catch.    *)

\* The winner publishes its rail only with the outcome.
ConsumeWonRailLater(c) ==
  /\ pc[c] = "cas_consume" /\ MuFree(on[c])
  /\ ~consumed[on[c]]
  /\ consumed' = [consumed EXCEPT ![on[c]] = TRUE]
  /\ Goto(c, "exchange")
  /\ UNCHANGED <<coord, method, consumedBy, outcome, terminalReported,
                 listenerBound, mu, expired, history>>

ConsumeWonNoCas(c) ==
  /\ pc[c] = "cas_consume" /\ MuFree(on[c])
  /\ consumed' = [consumed EXCEPT ![on[c]] = TRUE]
  /\ consumedBy' = [consumedBy EXCEPT ![on[c]] = arg[c]]
  /\ Goto(c, "exchange")
  /\ UNCHANGED <<coord, method, outcome, terminalReported, listenerBound,
                 mu, expired, history>>

ExchangeCodeNoFailFlow(c) ==
  /\ pc[c] = "exchange"
  /\ Goto(c, "persist") \/ Return(c)
  /\ UNCHANGED <<coord, flow, mu, expired, history>>

TerminateNoRelease(a) ==
  /\ pc[a] = "terminate" /\ MuFree(on[a])
  /\ status' = [status EXCEPT ![on[a]] = "error"]
  /\ terminalError' = [terminalError EXCEPT ![on[a]] = arg[a]]
  /\ Return(a)
  /\ UNCHANGED <<coord, method, race, terminalReported, listenerBound,
                 mu, expired, history>>

CancelCasUnguarded(c) ==
  /\ pc[c] = "cas_cancel"
  /\ consumed' = [consumed EXCEPT ![on[c]] = TRUE]
  /\ Goto(c, "terminate")
  /\ UNCHANGED <<coord, method, consumedBy, outcome, terminalReported,
                 listenerBound, mu, expired, history>>

CancelCasReleaseFirst(c) ==
  /\ pc[c] = "cas_cancel"
  /\ consumed' = [consumed EXCEPT ![on[c]] = TRUE]
  /\ Goto(c, IF consumed[on[c]] THEN "wait_terminal" ELSE "rel_load")
  /\ UNCHANGED <<coord, method, consumedBy, outcome, terminalReported,
                 listenerBound, mu, expired, history>>

ReaperFiresNoCas(f) ==
  /\ pc[Reaper(f)] = "armed" /\ f \in expired /\ ~closed
  /\ consumed' = [consumed EXCEPT ![f] = TRUE]
  /\ GotoWith(Reaper(f), "terminate", "expired")
  /\ UNCHANGED <<coord, method, consumedBy, outcome, terminalReported,
                 listenerBound, mu, expired, history>>

ReleaseLoadNoStore(a) ==
  /\ pc[a] = "rel_load"
  /\ IF flowPtr # on[a]
     THEN pc' = [pc EXCEPT ![a] = AfterRelease(a)] /\ Unlock(a)
     ELSE Goto(a, "rel_swap") /\ UNCHANGED mu
  /\ UNCHANGED <<coord, flow, expired, history>>

-----------------------------------------------------------------------------
(* StartBrowser and StartDevice.                                           *)

StartCall(m) == IF m = "browser" THEN "start_browser" ELSE "start_device"

\* startMu is taken, then closed and flowPtr are checked; the rest runs under
\* the lock.
StartCheck(c, m) ==
  /\ ~startMu /\ ~closed /\ flowPtr = NoFlow
  /\ Call(c, StartCall(m), NoFlow, m, "starting")
  /\ startMu' = TRUE
  /\ UNCHANGED <<flowPtr, closed, releasedFlows, latestReleased,
                 flow, mu, expired, history>>

\* RequestDeviceCode, the random source or the authorize URL failed.
StartFail(c) ==
  /\ pc[c] = "starting"
  /\ startMu' = FALSE
  /\ Return(c)
  /\ UNCHANGED <<flowPtr, closed, releasedFlows, latestReleased,
                 flow, mu, expired, history>>

\* TryStartFlow's CompareAndSwap(nil, flow).  Only a holder of startMu makes
\* flowPtr non-nil, so after StartCheck it cannot fail.
StartSwap(c, f, bound) ==
  /\ pc[c] = "starting" /\ ~Born(f) /\ flowPtr = NoFlow
  /\ bound => arg[c] = "browser"
  /\ flowPtr' = f
  /\ method' = [method EXCEPT ![f] = arg[c]]
  /\ status' = [status EXCEPT ![f] = "pending"]
  /\ listenerBound' = [listenerBound EXCEPT ![f] = bound]
  /\ newest' = f
  /\ pc' = [pc EXCEPT ![c] = "cleanup"]
  /\ on' = [on EXCEPT ![c] = f]
  /\ arg' = [arg EXCEPT ![c] = "none"]
  /\ UNCHANGED <<closed, startMu, releasedFlows, latestReleased, race,
                 terminalError, terminalReported, mu, expired, rows, reports>>

\* cleanupReleasedFlowsOnStart keeps only flows whose listener is still up.
cleanupReleasedFlowsOnStart(c) ==
  /\ pc[c] = "cleanup"
  /\ LET kept == {f \in releasedFlows : listenerBound[f]}
     IN  /\ releasedFlows' = kept
         /\ latestReleased' = IF latestReleased \in kept THEN latestReleased
                                                         ELSE NoFlow
  /\ Goto(c, "arm")
  /\ UNCHANGED <<flowPtr, closed, startMu, flow, mu, expired, history>>

\* setProviderRedirectURI (it cannot fail: openAIProvider has SetRedirectURI),
\* startExpiryReaper, startDevicePoller, then startMu is released.
StartArm(c) ==
  /\ pc[c] = "arm"
  /\ LET f == on[c] IN
       pc' = [pc EXCEPT ![c] = "idle",
                        ![Reaper(f)] = "armed",
                        ![Poller(f)] =
                          IF method[f] = "device" THEN "armed" ELSE @]
  /\ on' = [on EXCEPT ![c] = NoFlow]
  /\ startMu' = FALSE
  /\ UNCHANGED <<flowPtr, closed, releasedFlows, latestReleased,
                 flow, mu, expired, arg, history>>

-----------------------------------------------------------------------------
(* The two callback rails: ConsumeCode and cancelFromRail.                 *)

\* lookupFlow: the current flow or one still in releasedFlows.
Found(f) == ~closed /\ (flowPtr = f \/ f \in releasedFlows)

\* A callback that carries f's state reaches the router on a rail: the loopback
\* listener must be up, and a paste names a browser flow.
Reaches(f, rail) ==
  /\ method[f] = "browser" /\ Announced(f)
  /\ rail = "loopback" => listenerBound[f]

RailCall(c, name, f, rail, cas) ==
  /\ Reaches(f, rail) /\ Found(f)
  /\ \/ consumed[f] /\ Call(c, name, f, rail, "classify")
     \/ /\ ~consumed[f] /\ f \notin expired
        /\ Call(c, name, f, rail, cas)
  /\ UNCHANGED <<coord, flow, mu, expired, history>>

ConsumeCode(c, f, rail) == RailCall(c, "callback", f, rail, "cas_consume")

cancelFromRail(c, f, rail) ==
  RailCall(c, "access_denied", f, rail, "cas_deny")

\* rejectConsumedRail: a loser is told already_consumed once the winner's
\* rail or an error status is published, else readWinnerRail's error.
Rejected(f) ==
  IF consumedBy[f] # "unknown" \/ status[f] = "error"
  THEN "already_consumed" ELSE "internal"

ClassifyAnswer(f) ==
  IF \/ consumedBy[f] # "unknown"
     \/ status[f] = "success"
     \/ f \notin expired
  THEN Rejected(f) ELSE "expired"

\* What a handler that finds its flow consumed is about to be told.
LoserAnswer(c) == IF pc[c] = "classify" THEN ClassifyAnswer(on[c])
                                        ELSE Rejected(on[c])

classifyConsumedFlow(c) ==
  /\ pc[c] = "classify" /\ MuFree(on[c])
  /\ Return(c)
  /\ UNCHANGED <<coord, flow, mu, expired, history>>

\* The Consumed CAS of a rail, under Flow.mu.  The code also checks that the
\* winner finds ConsumedBy unset: OutcomeInv says it always does.
RailLost(c) ==
  /\ pc[c] \in {"cas_consume", "cas_deny"} /\ MuFree(on[c])
  /\ consumed[on[c]]
  /\ Return(c)
  /\ UNCHANGED <<coord, flow, mu, expired, history>>

ConsumeWon(c) ==
  /\ pc[c] = "cas_consume" /\ MuFree(on[c])
  /\ ~consumed[on[c]]
  /\ consumed' = [consumed EXCEPT ![on[c]] = TRUE]
  /\ consumedBy' = [consumedBy EXCEPT ![on[c]] = arg[c]]
  /\ Goto(c, "exchange")
  /\ UNCHANGED <<coord, method, outcome, terminalReported, listenerBound,
                 mu, expired, history>>

DenyWon(c) ==
  /\ pc[c] = "cas_deny" /\ MuFree(on[c])
  /\ ~consumed[on[c]]
  /\ consumed' = [consumed EXCEPT ![on[c]] = TRUE]
  /\ consumedBy' = [consumedBy EXCEPT ![on[c]] = arg[c]]
  /\ status' = [status EXCEPT ![on[c]] = "error"]
  /\ terminalError' = [terminalError EXCEPT ![on[c]] = "access_denied"]
  /\ Goto(c, "rel_load")
  /\ UNCHANGED <<coord, method, terminalReported, listenerBound,
                 mu, expired, history>>

\* provider.ExchangeCode and ExtractClaims.
ExchangeCode(c) ==
  /\ pc[c] = "exchange"
  /\ \/ Goto(c, "persist")
     \/ GotoWith(c, "terminate", "failed")
  /\ UNCHANGED <<coord, flow, mu, expired, history>>

\* persistConsumedFlow: one row, or a validation or store failure.
persistConsumedFlow(a) ==
  /\ pc[a] = "persist"
  /\ \/ /\ rows' = [rows EXCEPT ![on[a]] = @ + 1]
        /\ Goto(a, "succeed")
     \/ /\ GotoWith(a, "terminate", "failed")
        /\ rows' = rows
  /\ UNCHANGED <<coord, flow, mu, expired, reports, newest>>

\* Status and terminalAccount are published.  ConsumeCode keeps Flow.mu
\* until its ReleaseFlow is over, finishDeviceSuccess does not.
Succeed(a) ==
  /\ pc[a] = "succeed" /\ MuFree(on[a])
  /\ status' = [status EXCEPT ![on[a]] = "success"]
  /\ mu' = IF a \in Callers THEN [mu EXCEPT ![on[a]] = a] ELSE mu
  /\ Goto(a, "rel_load")
  /\ UNCHANGED <<coord, method, race, terminalError, terminalReported,
                 listenerBound, expired, history>>

\* The winner publishes an error: failFlow, cancel, the reaper and
\* finishDeviceFailure all set Status and terminalError under Flow.mu and
\* signal.  arg is the error code.
Terminate(a) ==
  /\ pc[a] = "terminate" /\ MuFree(on[a])
  /\ status' = [status EXCEPT ![on[a]] = "error"]
  /\ terminalError' = [terminalError EXCEPT ![on[a]] = arg[a]]
  /\ Goto(a, "rel_load")
  /\ UNCHANGED <<coord, method, race, terminalReported, listenerBound,
                 mu, expired, history>>

-----------------------------------------------------------------------------
(* CancelWithContext.                                                      *)

cancel(c, f) ==
  /\ flowPtr = f /\ Call(c, "cancel", f, "cancelled", "cas_cancel")
  /\ UNCHANGED <<coord, flow, mu, expired, history>>

\* The CAS is taken without Flow.mu.
CancelCas(c) ==
  /\ pc[c] = "cas_cancel"
  /\ IF consumed[on[c]]
     THEN Goto(c, "wait_terminal") /\ UNCHANGED consumed
     ELSE /\ consumed' = [consumed EXCEPT ![on[c]] = TRUE]
          /\ Goto(c, "terminate")
  /\ UNCHANGED <<coord, method, consumedBy, outcome, terminalReported,
                 listenerBound, mu, expired, history>>

\* waitForTerminalStatus: the winner's signal, or the request's context ends.
waitForTerminalStatus(c) ==
  /\ pc[c] = "wait_terminal" /\ MuFree(on[c])
  /\ IsTerminal(on[c]) /\ Return(c)
  /\ UNCHANGED <<coord, flow, mu, expired, history>>

WaitContextEnds(c) ==
  /\ pc[c] = "wait_terminal"
  /\ Return(c)
  /\ UNCHANGED <<coord, flow, mu, expired, history>>

-----------------------------------------------------------------------------
(* The timers: expiry reaper and device poller.                            *)

ExpiresAtPasses(f) ==
  /\ Born(f) /\ f \notin expired
  /\ expired' = expired \cup {f}
  /\ UNCHANGED <<coord, flow, mu, local, history>>

\* startExpiryReaper's callback up to its CAS.
ReaperFires(f) ==
  /\ pc[Reaper(f)] = "armed" /\ f \in expired
  /\ IF closed \/ consumed[f]
     THEN Goto(Reaper(f), "idle") /\ UNCHANGED consumed
     ELSE /\ consumed' = [consumed EXCEPT ![f] = TRUE]
          /\ GotoWith(Reaper(f), "terminate", "expired")
  /\ UNCHANGED <<coord, method, consumedBy, outcome, terminalReported,
                 listenerBound, mu, expired, history>>

PollerFires(f) ==
  /\ pc[Poller(f)] = "armed"
  /\ Goto(Poller(f), IF closed \/ consumed[f] \/ f \in expired
                     THEN "idle" ELSE "polling")
  /\ UNCHANGED <<coord, flow, mu, expired, history>>

\* provider.PollDeviceCode answers: pending, slow_down and HTTP 403/404
\* reschedule, any other error goes to finishDeviceFailure.
PollPending(f) ==
  /\ pc[Poller(f)] = "polling"
  /\ Goto(Poller(f), "armed")
  /\ UNCHANGED <<coord, flow, mu, expired, history>>

PollFailed(f) ==
  /\ pc[Poller(f)] = "polling"
  /\ \E code \in {"access_denied", "expired", "failed"} :
       GotoWith(Poller(f), "dev_fail", code)
  /\ UNCHANGED <<coord, flow, mu, expired, history>>

PollTokens(f) ==
  /\ pc[Poller(f)] = "polling"
  /\ IF consumed[f]
     THEN Goto(Poller(f), "idle") /\ UNCHANGED consumed
     ELSE /\ consumed' = [consumed EXCEPT ![f] = TRUE]
          /\ Goto(Poller(f), "dev_finish")
  /\ UNCHANGED <<coord, method, consumedBy, outcome, terminalReported,
                 listenerBound, mu, expired, history>>

\* finishDeviceSuccess after Shutdown releases the flow and leaves it pending.
finishDeviceSuccess(f) ==
  /\ pc[Poller(f)] = "dev_finish"
  /\ IF closed THEN Goto(Poller(f), "rel_load")
     ELSE \/ Goto(Poller(f), "persist")
          \/ GotoWith(Poller(f), "terminate", "failed")
  /\ UNCHANGED <<coord, flow, mu, expired, history>>

finishDeviceFailure(f) ==
  /\ pc[Poller(f)] = "dev_fail"
  /\ \/ closed /\ Goto(Poller(f), "rel_load") /\ UNCHANGED consumed
     \/ /\ ~closed /\ consumed[f]
        /\ Goto(Poller(f), "idle") /\ UNCHANGED consumed
     \/ /\ ~closed /\ ~consumed[f]
        /\ consumed' = [consumed EXCEPT ![f] = TRUE]
        /\ Goto(Poller(f), "terminate")
  /\ UNCHANGED <<coord, method, consumedBy, outcome, terminalReported,
                 listenerBound, mu, expired, history>>

-----------------------------------------------------------------------------
(* ReleaseFlow and Shutdown.                                               *)

\* flowPtr and closed are read.
ReleaseLoad(a) ==
  /\ pc[a] = "rel_load"
  /\ IF flowPtr # on[a]
     THEN pc' = [pc EXCEPT ![a] = AfterRelease(a)] /\ Unlock(a)
     ELSE Goto(a, IF closed THEN "rel_swap" ELSE "rel_store") /\ UNCHANGED mu
  /\ UNCHANGED <<coord, flow, expired, history>>

storeReleasedFlow(a) ==
  /\ pc[a] = "rel_store"
  /\ releasedFlows' = releasedFlows \cup {on[a]}
  /\ latestReleased' = on[a]
  /\ Goto(a, "rel_swap")
  /\ UNCHANGED <<flowPtr, closed, startMu, flow, mu, expired, history>>

\* CompareAndSwap(current, nil); the winner of it stops the timers that have
\* not fired.
ReleaseSwap(a) ==
  /\ pc[a] = "rel_swap"
  /\ LET f == on[a] IN
       IF flowPtr = f
       THEN /\ flowPtr' = NoFlow
            /\ pc' = [b \in Actors |->
                        CASE b = a -> AfterRelease(a)
                          [] b # a /\ b \in {Reaper(f), Poller(f)}
                                   /\ pc[b] = "armed" -> "idle"
                          [] OTHER -> pc[b]]
       ELSE pc' = [pc EXCEPT ![a] = AfterRelease(a)] /\ UNCHANGED flowPtr
  /\ Unlock(a)
  /\ UNCHANGED <<closed, startMu, releasedFlows, latestReleased,
                 flow, expired, history>>

\* The goroutine ReleaseFlow leaves behind closes the loopback server.
ListenerCloses(f) ==
  /\ listenerBound[f] /\ Born(f) /\ flowPtr # f /\ MuFree(f)
  /\ listenerBound' = [listenerBound EXCEPT ![f] = FALSE]
  /\ UNCHANGED <<coord, method, race, outcome, terminalReported, mu, expired,
                 local, history>>

Shutdown(c) ==
  /\ Call(c, "shutdown", NoFlow, "shutdown", "shut_load")
  /\ ~closed /\ closed' = TRUE
  /\ UNCHANGED <<flowPtr, startMu, releasedFlows, latestReleased,
                 flow, mu, expired, history>>

ShutdownLoad(c) ==
  /\ pc[c] = "shut_load"
  /\ pc' = [pc EXCEPT ![c] = IF flowPtr = NoFlow THEN "shut_clear"
                                                 ELSE "rel_load"]
  /\ on' = [on EXCEPT ![c] = flowPtr]
  /\ UNCHANGED <<arg, coord, flow, mu, expired, history>>

ShutdownClear(c) ==
  /\ pc[c] = "shut_clear"
  /\ releasedFlows' = {} /\ latestReleased' = NoFlow
  /\ Return(c)
  /\ UNCHANGED <<flowPtr, closed, startMu, flow, mu, expired, history>>

-----------------------------------------------------------------------------
(* GetFlow.                                                                *)

\* The current flow, else the one released last.
GetFlow(c) ==
  /\ IF flowPtr # NoFlow
     THEN Call(c, "get_flow", flowPtr, "none", "poll_status")
     ELSE Call(c, "get_flow", NoFlow, "none", "poll_released")
  /\ UNCHANGED <<coord, flow, mu, expired, history>>

latestReleasedFlow(c) ==
  /\ pc[c] = "poll_released"
  /\ IF latestReleased = NoFlow THEN Return(c)
     ELSE /\ pc' = [pc EXCEPT ![c] = "poll_terminal"]
          /\ on' = [on EXCEPT ![c] = latestReleased]
          /\ UNCHANGED arg
  /\ UNCHANGED <<coord, flow, mu, expired, history>>

\* snapshotCurrentFlow reads Status, unlocks, and locks again.
snapshotCurrentFlow(c) ==
  /\ pc[c] = "poll_status" /\ MuFree(on[c])
  /\ Goto(c, IF IsTerminal(on[c]) THEN "poll_terminal" ELSE "poll_pending")
  /\ UNCHANGED <<coord, flow, mu, expired, history>>

\* A caller is answered with the flow's status; reports counts the terminal
\* answers (two are enough to tell).
Reported(f) ==
  reports' = IF IsTerminal(f) /\ reports[f] < 2
             THEN [reports EXCEPT ![f] = @ + 1] ELSE reports

snapshotLocked(c) ==
  /\ pc[c] = "poll_pending" /\ MuFree(on[c])
  /\ Reported(on[c])
  /\ Return(c)
  /\ UNCHANGED <<coord, flow, mu, expired, rows, newest>>

snapshotTerminalFlowForPoll(c) ==
  /\ pc[c] = "poll_terminal" /\ MuFree(on[c])
  /\ LET f == on[c] IN
       IF IsTerminal(f) /\ terminalReported[f]
       THEN Return(c) /\ UNCHANGED <<terminalReported, reports>>
       ELSE /\ Reported(f)
            /\ Return(c)
            /\ terminalReported' =
                 [terminalReported EXCEPT ![f] = IsTerminal(f)]
  /\ UNCHANGED <<coord, method, race, outcome, listenerBound, mu, expired,
                 rows, newest>>

-----------------------------------------------------------------------------
StartStep(c) ==
  \/ \E m \in Methods : StartCheck(c, m)
  \/ StartFail(c)
  \/ \E f \in Flows, bound \in BOOLEAN : StartSwap(c, f, bound)
  \/ cleanupReleasedFlowsOnStart(c)
  \/ StartArm(c)

RailStep(c) ==
  \/ \E f \in Flows, rail \in Rails :
       ConsumeCode(c, f, rail) \/ cancelFromRail(c, f, rail)
  \/ classifyConsumedFlow(c) \/ RailLost(c)
  \/ ConsumeWon(c) \/ DenyWon(c) \/ ExchangeCode(c)

CancelStep(c) ==
  \/ \E f \in Flows : cancel(c, f)
  \/ CancelCas(c) \/ waitForTerminalStatus(c) \/ WaitContextEnds(c)

PollStep(c) ==
  \/ GetFlow(c) \/ latestReleasedFlow(c) \/ snapshotCurrentFlow(c)
  \/ snapshotLocked(c) \/ snapshotTerminalFlowForPoll(c)

ShutdownStep(c) == Shutdown(c) \/ ShutdownLoad(c) \/ ShutdownClear(c)

TimerStep(f) ==
  \/ ReaperFires(f) \/ PollerFires(f) \/ PollPending(f) \/ PollFailed(f)
  \/ PollTokens(f) \/ finishDeviceSuccess(f) \/ finishDeviceFailure(f)

FinishStep(a) ==
  \/ persistConsumedFlow(a) \/ Succeed(a) \/ Terminate(a)
  \/ ReleaseLoad(a) \/ storeReleasedFlow(a) \/ ReleaseSwap(a)

Next ==
  \/ \E c \in Callers : \/ StartStep(c) \/ RailStep(c) \/ CancelStep(c)
                        \/ PollStep(c) \/ ShutdownStep(c)
  \/ \E f \in Flows : ExpiresAtPasses(f) \/ TimerStep(f) \/ ListenerCloses(f)
  \/ \E a \in Actors : FinishStep(a)

Spec == Init /\ [][Next]_vars

-----------------------------------------------------------------------------
(* The inductive invariant behind the properties (OAuthFlowProofs).        *)

\* The program counters of an actor that holds a pointer to a flow.
Holding == Pcs \ {"idle", "starting", "poll_released", "shut_load",
                  "shut_clear"}

\* Who can be where: a pointer is to a started flow, timers stay with their
\* flow, only device flows are polled, and arg fits the program counter.
ControlInv ==
  /\ flowPtr # NoFlow => Born(flowPtr)
  /\ latestReleased # NoFlow => Born(latestReleased)
  /\ \A f \in releasedFlows : Born(f)
  /\ \A a \in Timers : /\ on[a] = a[2] /\ arg[a] # "shutdown"
                       /\ pc[a] \in Holding \cup {"idle"}
  /\ \A a \in Actors :
       /\ pc[a] \in Holding => on[a] \in Flows /\ Born(on[a])
       /\ pc[a] = "starting" => arg[a] \in Methods
       /\ pc[a] \in {"cas_consume", "cas_deny"} => arg[a] \in Rails
       /\ pc[a] \in {"cas_cancel", "dev_fail", "terminate"}
            => arg[a] \in ErrorCodes
       /\ pc[a] = "dev_finish" => a \in Timers
  /\ \A f \in Flows :
       pc[Poller(f)] # "idle" => method[f] = "device"
  /\ \A f \in Flows :
       pc[Reaper(f)] \in {"idle", "armed", "terminate"} \cup Releasing

\* The Consumed CAS has one winner: at most one actor is between its CAS and
\* the flow's terminal status, and meanwhile the flow is consumed and pending.
WinnerInv ==
  /\ \A a, b \in Actors :
       pc[a] \in Winning /\ pc[b] \in Winning /\ on[a] = on[b] => a = b
  /\ \A a \in Actors :
       pc[a] \in Winning =>
         /\ consumed[on[a]] /\ status[on[a]] = "pending"
         /\ rows[on[a]] = IF pc[a] = "succeed" THEN 1 ELSE 0
         /\ pc[a] \in {"exchange", "persist", "succeed"} /\ a \in Callers
              => consumedBy[on[a]] # "unknown"

\* What is published before and after the CAS.
OutcomeInv ==
  \A f \in Flows :
    /\ rows[f] <= 1
    /\ ~consumed[f] =>
         /\ consumedBy[f] = "unknown" /\ rows[f] = 0
         /\ status[f] \in {"unborn", "pending"}
    /\ status[f] = "unborn" => ~consumed[f]
    /\ status[f] \notin Terminal =>
         terminalError[f] = "none"

\* Outside Shutdown, ReleaseFlow is only reached with a terminal status.
ReleaseInv ==
  ~closed => \A a \in Actors : /\ pc[a] # "shut_load"
                               /\ pc[a] \in Releasing => IsTerminal(on[a])

-----------------------------------------------------------------------------
(* Fairness: a goroutine that runs keeps running - provider calls return    *)
(* within the HTTP client's 10s timeout and Flow.mu is never held for long  *)
(* - time passes, and a timer that is due fires.  No new call is promised. *)

HandlerProgress(c) ==
  \/ StartFail(c)
  \/ \E f \in Flows, bound \in BOOLEAN : StartSwap(c, f, bound)
  \/ cleanupReleasedFlowsOnStart(c) \/ StartArm(c)
  \/ classifyConsumedFlow(c) \/ RailLost(c)
  \/ ConsumeWon(c) \/ DenyWon(c) \/ ExchangeCode(c)
  \/ CancelCas(c) \/ waitForTerminalStatus(c)
  \/ latestReleasedFlow(c) \/ snapshotCurrentFlow(c)
  \/ snapshotLocked(c) \/ snapshotTerminalFlowForPoll(c)
  \/ ShutdownLoad(c) \/ ShutdownClear(c)

Fairness ==
  /\ \A c \in Callers : WF_vars(HandlerProgress(c))
  /\ \A a \in Actors : WF_vars(FinishStep(a))
  /\ \A f \in Flows : /\ WF_vars(ExpiresAtPasses(f))
                       /\ WF_vars(ReaperFires(f))
                       /\ WF_vars(\/ PollerFires(f) \/ PollPending(f)
                                  \/ PollFailed(f) \/ PollTokens(f))
                       /\ WF_vars(finishDeviceSuccess(f))
                       /\ WF_vars(finishDeviceFailure(f))

FairSpec == Spec /\ Fairness

-----------------------------------------------------------------------------
(* Properties.                                                             *)

\* Whatever rails, cancels, timers and shutdowns race for it, a flow creates
\* at most one account row (the Consumed CAS of ConsumeCode, cancel, the
\* reaper and the poller).
OneRowPerFlow == \A f \in Flows : rows[f] <= 1

\* A flow reported as a success has its row, its account and, in a browser
\* flow, the rail that won; a flow reported as an error - cancelled, denied,
\* expired or failed - has an error payload and never left a row behind
\* (FlowSnapshot.Validate, persistConsumedFlow, failFlow).
OutcomeTruthful ==
  \A f \in Flows :
    /\ status[f] = "success" =>
         /\ rows[f] = 1 /\ terminalError[f] = "none"
         /\ method[f] = "browser" => consumedBy[f] # "unknown"
    /\ status[f] = "error" =>
         rows[f] = 0 /\ terminalError[f] # "none"

\* A rail that loses to the other rail, or comes after the end of the flow, is
\* told already_consumed (or expired): readWinnerRail fails only in the window
\* in which a cancel or the reaper has won Consumed, which they do without
\* Flow.mu, and has not published its status yet.
LoserToldWhy ==
  \A c \in Callers :
    ( /\ \/ pc[c] = "classify"
         \/ pc[c] \in {"cas_consume", "cas_deny"} /\ consumed[on[c]]
      /\ MuFree(on[c]) /\ LoserAnswer(c) = "internal" )
      => \E a \in Actors : /\ on[a] = on[c] /\ pc[a] = "terminate"
                            /\ arg[a] \in {"cancelled", "expired"}

\* Once a flow has a terminal status no actor still at work on it - a losing
\* rail, a late timer, a cancel - changes its outcome or inserts a row.
TerminalIsFinal ==
  [][\A f \in Flows : IsTerminal(f) =>
       /\ status'[f] = status[f]
       /\ terminalError'[f] = terminalError[f]
       /\ consumedBy'[f] = consumedBy[f]
       /\ rows'[f] = rows[f]]_vars

\* Only Shutdown abandons a flow: otherwise flowPtr is not given up before
\* the flow's outcome is published (ReleaseFlow comes after Status).
SlotHeldUntilTerminal ==
  \A f \in Flows : Born(f) /\ flowPtr # f /\ ~closed => IsTerminal(f)

\* The invariant the proofs are by induction on: who is where in the code
\* (ControlInv) and who holds Consumed (WinnerInv) agree with what has been
\* published (OutcomeInv) and given up (ReleaseInv), whoever races.
IInv == /\ TypeOK /\ ControlInv /\ WinnerInv /\ OutcomeInv
        /\ OutcomeTruthful /\ ReleaseInv /\ SlotHeldUntilTerminal

\* What GetFlow shows of a flow: its status, or the error it ended with.
Life == [f \in Flows |-> IF status[f] = "error" THEN terminalError[f]
                                               ELSE status[f]]

Register == INSTANCE FlowRegister WITH
  slot <- flowPtr, life <- Life, open <- ~closed

\* The flows and flowPtr behave like one slot in which each flow lives once: it
\* gets at most one row and one outcome that fits it, while it has the slot, and
\* no start, late release or racing winner disturbs another one (TryStartFlow,
\* the Consumed CAS, ReleaseFlow).
FlowsTakeTurns == Register!Spec

\* GetFlow finds f's outcome: f is current or the flow released last.
Findable(f) == flowPtr = f \/ (latestReleased = f /\ f \in releasedFlows)

\* Until it is reported or the next flow starts, an outcome the operator did
\* not ask for (success, denial, expiry, failure) can be found by GetFlow:
\* ReleaseFlow stores the flow before it empties the slot.
OutcomeKept ==
  \A f \in Flows :
    newest = f /\ IsTerminal(f) /\ reports[f] = 0 /\ ~closed
      => terminalError[f] = "cancelled" \/ Findable(f)

\* The same for every outcome, an operator's cancel included.
EveryOutcomeKept ==
  \A f \in Flows :
    newest = f /\ IsTerminal(f) /\ reports[f] = 0 /\ ~closed => Findable(f)

\* Every flow gives up the slot: a rail ends it, or the reaper does when
\* ExpiresAt passes.  After Shutdown the reaper returns at once, so a start
\* that had passed its closed check may keep the slot until the process ends.
SlotFreed == \A f \in Flows : flowPtr = f ~> (flowPtr # f \/ closed)

\* A CancelWithContext that lost the CAS is answered (waitForTerminalStatus:
\* the winner always signals) unless Shutdown abandons the flow: then the
\* winner may return without a status and only the caller's context ends it.
CancelAnswered ==
  \A c \in Callers : pc[c] = "wait_terminal" ~> (pc[c] = "idle" \/ closed)
=============================================================================
