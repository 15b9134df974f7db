--------------------------- MODULE OAuthFlowProofs ---------------------------
(***************************************************************************)
(* Proofs about OAuthFlow for any number of flows and handlers.            *)
(*                                                                         *)
(* The safety properties follow from one inductive invariant, IInv.  Most  *)
(* steps are quiet: one actor moves and nothing the invariant talks about  *)
(* changes but its program counter.  Quiet describes such a step and       *)
(* QuietStep covers them all; the steps that win the Consumed CAS by       *)
(* Claim; the others (start, insert, publish, release) one by one.         *)
(***************************************************************************)
EXTENDS OAuthFlow, TLAPS

\* Handlers and the timers of the flows are all different.
LEMMA ActorFacts ==
  /\ \A c \in Callers : c \in Actors /\ c \notin Timers
  /\ \A a \in Timers : a \in Actors /\ a \notin Callers /\ a[2] \in Flows
  /\ \A f \in Flows : /\ Reaper(f) \in Timers /\ Reaper(f)[2] = f
                      /\ Poller(f) \in Timers /\ Poller(f)[2] = f
  /\ \A f, g \in Flows : /\ Reaper(f) # Poller(g)
                         /\ Reaper(f) = Reaper(g) => f = g
                         /\ Poller(f) = Poller(g) => f = g
  /\ \A a \in Timers : \E f \in Flows : a = Reaper(f) \/ a = Poller(f)
BY CallersAssumption DEF Actors, Timers, Reaper, Poller

LEMMA HomeFacts ==
  /\ \A c \in Callers : Home(c) = NoFlow
  /\ \A a \in Timers : Home(a) = a[2]
  /\ \A a \in Actors : Home(a) \in Flows \cup {NoFlow}
BY ActorFacts DEF Home, Actors

\* The invariant holds initially.
LEMMA InitIInv == Init => IInv
<1> SUFFICES ASSUME Init PROVE IInv
  OBVIOUS
<1>1. \A a \in Actors : pc[a] = "idle" /\ on[a] = Home(a) /\ arg[a] = "none"
  BY DEF Init
<1>2. TypeOK
  <2>1. /\ pc \in [Actors -> Pcs] /\ arg \in [Actors -> Args]
        /\ on \in [Actors -> Flows \cup {NoFlow}]
    BY HomeFacts DEF Init, Pcs, Args
  <2>2. mu \in [Flows -> Actors \cup {NoFlow}]
    BY DEF Init
  <2>3. reports \in [Flows -> 0 .. 2] /\ rows \in [Flows -> Nat]
    BY DEF Init
  <2>4. /\ status \in [Flows -> {"unborn", "pending"} \cup Terminal]
        /\ consumed \in [Flows -> BOOLEAN]
        /\ terminalReported \in [Flows -> BOOLEAN]
        /\ listenerBound \in [Flows -> BOOLEAN]
    BY DEF Init, Terminal
  <2> QED BY <2>1, <2>2, <2>3, <2>4 DEF Init, TypeOK
<1>3. ControlInv
  BY <1>1, ActorFacts, HomeFacts DEF Init, ControlInv, Holding
<1>4. WinnerInv
  BY <1>1 DEF WinnerInv, Winning
<1>5. OutcomeInv /\ OutcomeTruthful
  BY DEF Init, OutcomeInv, OutcomeTruthful, Terminal
<1>6. ReleaseInv /\ SlotHeldUntilTerminal
  BY <1>1 DEF Init, ReleaseInv, SlotHeldUntilTerminal, Releasing, Born
<1> QED BY <1>2, <1>3, <1>4, <1>5, <1>6 DEF IInv

-----------------------------------------------------------------------------
(* Quiet steps.                                                            *)

Moves(a, p, g, x) ==
  /\ pc' = [pc EXCEPT ![a] = p]
  /\ on' = [on EXCEPT ![a] = g]
  /\ arg' = [arg EXCEPT ![a] = x]

\* a may go to p with flow g and argument x.
MayMove(a, p, g, x) ==
  /\ p \in Pcs /\ g \in Flows \cup {NoFlow} /\ x \in Args
  /\ p \in Holding => g \in Flows /\ Born(g)
  /\ p = "starting" => x \in Methods
  /\ p \in {"cas_consume", "cas_deny"} => x \in Rails
  /\ p \in {"cas_cancel", "dev_fail", "terminate"} => x \in ErrorCodes
  /\ p # "dev_finish"
  /\ a \in Timers => /\ g = a[2] /\ x # "shutdown"
                      /\ p \in Holding \cup {"idle"}
  /\ \A f \in Flows : a = Poller(f) => p = "idle" \/ method[f] = "device"
  /\ \A f \in Flows :
       a = Reaper(f) => p \in {"idle", "armed", "terminate"} \cup Releasing
  /\ p \in Winning =>
       /\ pc[a] \in Winning \ {"succeed"} /\ p # "succeed" /\ g = on[a]
       /\ p \in {"exchange", "persist"} /\ a \in Callers
            => pc[a] \in {"exchange", "persist"}
  /\ p \in Releasing /\ ~closed' => pc[a] \in Releasing /\ g = on[a]
  /\ p = "shut_load" => closed'

Bookkeeping ==
  /\ UNCHANGED <<flowPtr, method, race, outcome, rows, newest>>
  /\ closed' \in BOOLEAN /\ (closed => closed')
  /\ startMu' \in BOOLEAN
  /\ releasedFlows' \subseteq Flows /\ \A f \in releasedFlows' : Born(f)
  /\ latestReleased' \in Flows \cup {NoFlow}
  /\ latestReleased' # NoFlow => Born(latestReleased')
  /\ mu' \in [Flows -> Actors \cup {NoFlow}]
  /\ expired' \subseteq Flows
  /\ terminalReported' \in [Flows -> BOOLEAN]
  /\ listenerBound' \in [Flows -> BOOLEAN]
  /\ reports' \in [Flows -> 0 .. 2]

Quiet(a, p, g, x) == Moves(a, p, g, x) /\ MayMove(a, p, g, x) /\ Bookkeeping

LEMMA QuietStep ==
  ASSUME IInv, NEW a \in Actors, NEW p, NEW g, NEW x, Quiet(a, p, g, x)
  PROVE  IInv'
<1>1. Moves(a, p, g, x) /\ MayMove(a, p, g, x) /\ Bookkeeping
  BY DEF Quiet
<1>2. TypeOK'
  BY <1>1 DEF IInv, TypeOK, Moves, MayMove, Bookkeeping, race, outcome
<1>3. ControlInv'
  BY <1>1, ActorFacts
  DEF IInv, TypeOK, ControlInv, Moves, MayMove, Bookkeeping, race, outcome,
      Born, Holding
<1>4. WinnerInv'
  BY <1>1 DEF IInv, TypeOK, WinnerInv, Moves, MayMove, Bookkeeping, race,
              outcome, Winning
<1>5. OutcomeInv' /\ OutcomeTruthful'
  BY <1>1 DEF IInv, OutcomeInv, OutcomeTruthful, Bookkeeping, race, outcome
<1>6. ReleaseInv'
  <2> SUFFICES ASSUME ~closed', NEW b \in Actors
               PROVE  /\ pc'[b] # "shut_load"
                      /\ pc'[b] \in Releasing => IsTerminal(on[b])'
    BY DEF ReleaseInv
  <2>1. /\ pc[b] # "shut_load"
        /\ pc[b] \in Releasing => IsTerminal(on[b])
    <3>1. ReleaseInv /\ (closed => closed')
      BY <1>1 DEF IInv, Bookkeeping
    <3> QED BY <3>1, Zenon DEF ReleaseInv
  <2>2. p # "shut_load" /\ (p \in Releasing => pc[a] \in Releasing /\ g = on[a])
    BY <1>1 DEF MayMove
  <2>3. /\ pc'[b] = IF b = a THEN p ELSE pc[b]
        /\ on'[b] = IF b = a THEN g ELSE on[b]
        /\ status' = status
    BY <1>1 DEF IInv, TypeOK, Moves, Bookkeeping, outcome
  <2> QED BY <2>1, <2>2, <2>3 DEF IsTerminal
<1>7. SlotHeldUntilTerminal'
  BY <1>1 DEF IInv, SlotHeldUntilTerminal, Born, IsTerminal, Bookkeeping, outcome
<1> QED BY <1>2, <1>3, <1>4, <1>5, <1>6, <1>7 DEF IInv

-----------------------------------------------------------------------------
(* Steps that win Flow.Consumed without publishing a rail: cancel, the     *)
(* reaper and the device poller.                                           *)

Claims(a, p, x) ==
  /\ Moves(a, p, on[a], x)
  /\ on[a] \in Flows /\ Born(on[a]) /\ ~consumed[on[a]]
  /\ p \in {"dev_finish", "terminate"} /\ x \in Args
  /\ p = "dev_finish" => a \in Timers
  /\ p = "terminate" => x \in ErrorCodes
  /\ a \in Timers => x # "shutdown"
  /\ \A f \in Flows : a = Poller(f) => method[f] = "device"
  /\ \A f \in Flows : a = Reaper(f) => p = "terminate"
  /\ consumed' = [consumed EXCEPT ![on[a]] = TRUE]
  /\ UNCHANGED <<coord, method, consumedBy, outcome, terminalReported,
                 listenerBound, mu, expired, history>>

LEMMA ClaimStep ==
  ASSUME IInv, NEW a \in Actors, NEW p, NEW x, Claims(a, p, x)
  PROVE  IInv'
<1>1. TypeOK'
  BY DEF IInv, TypeOK, Claims, Moves, coord, outcome, history, Pcs, Winning
<1>2. ControlInv'
  <2>1. {"dev_finish", "terminate"} \subseteq Holding
    BY DEF Holding, Pcs, Winning
  <2>2. /\ pc' = [pc EXCEPT ![a] = p] /\ on' = [on EXCEPT ![a] = on[a]]
        /\ arg' = [arg EXCEPT ![a] = x]
        /\ UNCHANGED <<flowPtr, latestReleased, releasedFlows, method, status>>
    BY DEF Claims, Moves, coord, outcome
  <2>3. /\ on[a] \in Flows /\ Born(on[a])
        /\ p \in {"dev_finish", "terminate"}
        /\ p = "dev_finish" => a \in Timers
        /\ p = "terminate" => x \in ErrorCodes
        /\ a \in Timers => x # "shutdown"
        /\ \A f \in Flows : a = Poller(f) => method[f] = "device"
        /\ \A f \in Flows : a = Reaper(f) => p = "terminate"
    BY DEF Claims
  <2> QED BY <2>1, <2>2, <2>3, ActorFacts DEF IInv, TypeOK, ControlInv, Born
<1>3. status[on[a]] = "pending" /\ rows[on[a]] = 0
  BY DEF IInv, OutcomeInv, Claims, Born
<1>4. WinnerInv'
  BY <1>3 DEF IInv, TypeOK, WinnerInv, Claims, Moves, outcome, history,
              Winning
<1>5. OutcomeInv' /\ OutcomeTruthful'
  BY <1>3 DEF IInv, TypeOK, OutcomeInv, OutcomeTruthful, Claims, outcome,
              history
<1>6. ReleaseInv' /\ SlotHeldUntilTerminal'
  BY DEF IInv, TypeOK, ReleaseInv, SlotHeldUntilTerminal, Born, IsTerminal,
         Claims, Moves, coord, outcome, Releasing
<1> QED BY <1>1, <1>2, <1>4, <1>5, <1>6 DEF IInv

-----------------------------------------------------------------------------
(* The steps that publish.                                                 *)

LEMMA StartSwapStep ==
  ASSUME IInv, NEW c \in Callers, NEW f \in Flows, NEW bound \in BOOLEAN,
         StartSwap(c, f, bound)
  PROVE  IInv'
<1>1. c \in Actors /\ arg[c] \in Methods /\ status[f] = "unborn" /\ ~consumed[f]
  BY ActorFacts DEF IInv, StartSwap, ControlInv, OutcomeInv, Born
<1>2. /\ pc' = [pc EXCEPT ![c] = "cleanup"] /\ on' = [on EXCEPT ![c] = f]
      /\ arg' = [arg EXCEPT ![c] = "none"]
      /\ status' = [status EXCEPT ![f] = "pending"]
      /\ method' = [method EXCEPT ![f] = arg[c]]
      /\ flowPtr = NoFlow /\ flowPtr' = f
      /\ UNCHANGED <<closed, releasedFlows, latestReleased, consumed,
                     consumedBy, terminalError, rows>>
  BY DEF StartSwap, race
<1>3. TypeOK'
  BY <1>1, <1>2 DEF IInv, TypeOK, StartSwap, race, Pcs, Args, Methods
<1>4. \A a \in Actors : pc[a] \in Holding => on[a] # f
  BY <1>1 DEF IInv, ControlInv, Born
<1>5. ControlInv'
  <2>1. \A g \in Flows : pc[Poller(g)] # "idle" => g # f
    BY <1>1, ActorFacts DEF IInv, ControlInv, Born
  <2> QED BY <1>1, <1>2, <1>4, <2>1, ActorFacts
          DEF IInv, TypeOK, ControlInv, Born, Holding
<1>6. WinnerInv'
  BY <1>1, <1>2, <1>4 DEF IInv, TypeOK, WinnerInv, Winning, Holding, Pcs
<1>7. OutcomeInv'
  BY <1>1, <1>2 DEF IInv, TypeOK, OutcomeInv, Terminal
<1>9. OutcomeTruthful'
  BY <1>1, <1>2 DEF IInv, TypeOK, OutcomeTruthful
<1>8. ReleaseInv'
  <2>1. Releasing \subseteq Holding /\ "cleanup" \notin Releasing
    BY DEF Releasing, Holding, Pcs
  <2> QED BY <1>1, <1>2, <1>4, <2>1
          DEF IInv, TypeOK, ReleaseInv, IsTerminal, ControlInv
<1>10. SlotHeldUntilTerminal'
  BY <1>1, <1>2, NoFlowAssumption
  DEF IInv, TypeOK, SlotHeldUntilTerminal, Born, IsTerminal
<1> QED BY <1>3, <1>5, <1>6, <1>7, <1>8, <1>9, <1>10 DEF IInv

LEMMA ConsumeWonStep ==
  ASSUME IInv, NEW c \in Callers, ConsumeWon(c)
  PROVE  IInv'
<1>1. /\ c \in Actors /\ on[c] \in Flows /\ arg[c] \in Rails
      /\ ~consumed[on[c]] /\ Born(on[c])
  BY ActorFacts DEF IInv, ConsumeWon, ControlInv, Holding, Pcs
<1>2. /\ consumed' = [consumed EXCEPT ![on[c]] = TRUE]
      /\ consumedBy' = [consumedBy EXCEPT ![on[c]] = arg[c]]
      /\ pc' = [pc EXCEPT ![c] = "exchange"]
      /\ UNCHANGED <<on, arg, coord, method, outcome, terminalReported,
                     listenerBound, mu, expired, history>>
  BY DEF ConsumeWon, Goto
<1>3. status[on[c]] = "pending" /\ rows[on[c]] = 0
  BY <1>1 DEF IInv, OutcomeInv, Born
<1>4. TypeOK'
  BY <1>1, <1>2 DEF IInv, TypeOK, coord, outcome, history, Pcs, Winning
<1>5. ControlInv'
  BY <1>1, <1>2, ActorFacts
  DEF IInv, TypeOK, ControlInv, Born, Holding, coord, outcome
<1>6. WinnerInv'
  BY <1>1, <1>2, <1>3 DEF IInv, TypeOK, WinnerInv, Winning, Rails, outcome,
                          history
<1>7. OutcomeInv' /\ OutcomeTruthful'
  BY <1>1, <1>2, <1>3 DEF IInv, TypeOK, OutcomeInv, OutcomeTruthful, outcome,
                          history
<1>8. ReleaseInv' /\ SlotHeldUntilTerminal'
  BY <1>1, <1>2 DEF IInv, TypeOK, ReleaseInv, SlotHeldUntilTerminal, Born,
                    IsTerminal, coord, outcome, Releasing
<1> QED BY <1>4, <1>5, <1>6, <1>7, <1>8 DEF IInv

LEMMA DenyWonStep ==
  ASSUME IInv, NEW c \in Callers, DenyWon(c)
  PROVE  IInv'
<1>1. /\ c \in Actors /\ on[c] \in Flows /\ arg[c] \in Rails
      /\ ~consumed[on[c]] /\ Born(on[c])
  BY ActorFacts DEF IInv, DenyWon, ControlInv, Holding, Pcs
<1>2. /\ consumed' = [consumed EXCEPT ![on[c]] = TRUE]
      /\ consumedBy' = [consumedBy EXCEPT ![on[c]] = arg[c]]
      /\ status' = [status EXCEPT ![on[c]] = "error"]
      /\ terminalError' = [terminalError EXCEPT ![on[c]] = "access_denied"]
      /\ pc' = [pc EXCEPT ![c] = "rel_load"]
      /\ UNCHANGED <<on, arg, coord, method, terminalReported,
                     listenerBound, mu, expired, history>>
  BY DEF DenyWon, Goto
<1>3. /\ status[on[c]] = "pending" /\ rows[on[c]] = 0
      /\ \A a \in Actors : pc[a] \in Winning => on[a] # on[c]
  BY <1>1 DEF IInv, OutcomeInv, WinnerInv, Born
<1>4. TypeOK'
  BY <1>1, <1>2 DEF IInv, TypeOK, coord, history, Pcs, Releasing, Terminal,
                    ErrorCodes
<1>5. ControlInv'
  BY <1>1, <1>2, ActorFacts
  DEF IInv, TypeOK, ControlInv, Born, Holding, coord
<1>6. WinnerInv'
  BY <1>1, <1>2, <1>3 DEF IInv, TypeOK, WinnerInv, Winning, history
<1>7. OutcomeInv' /\ OutcomeTruthful'
  BY <1>1, <1>2, <1>3 DEF IInv, TypeOK, OutcomeInv, OutcomeTruthful,
                          Terminal, history
<1>8. ReleaseInv' /\ SlotHeldUntilTerminal'
  BY <1>1, <1>2 DEF IInv, TypeOK, ReleaseInv, SlotHeldUntilTerminal, Born,
                    IsTerminal, coord, Releasing, Terminal
<1> QED BY <1>4, <1>5, <1>6, <1>7, <1>8 DEF IInv

\* StartArm moves three actors: the handler and the flow's two timers.
LEMMA StartArmStep ==
  ASSUME IInv, NEW c \in Callers, StartArm(c)
  PROVE  IInv'
<1> DEFINE f == on[c]
<1>1. /\ c \in Actors /\ c \notin Timers /\ f \in Flows /\ Born(f)
      /\ Reaper(f) \in Actors /\ Poller(f) \in Actors
      /\ Reaper(f) # c /\ Poller(f) # c /\ Reaper(f) # Poller(f)
  BY ActorFacts DEF IInv, StartArm, ControlInv, Holding, Pcs
<1>2. /\ \A a \in Actors :
           pc'[a] = IF a = c THEN "idle"
                    ELSE IF a = Reaper(f) \/ (a = Poller(f) /\ method[f] = "device")
                         THEN "armed" ELSE pc[a]
      /\ pc' \in [Actors -> Pcs]
      /\ on' = [on EXCEPT ![c] = NoFlow]
      /\ startMu' = FALSE
      /\ UNCHANGED <<flowPtr, closed, releasedFlows, latestReleased,
                     flow, mu, expired, arg, history>>
  <2>1. pc' = [pc EXCEPT ![c] = "idle", ![Reaper(f)] = "armed",
                         ![Poller(f)] = IF method[f] = "device"
                                        THEN "armed" ELSE @]
    BY DEF StartArm
  <2>2. pc \in [Actors -> Pcs] /\ "idle" \in Pcs /\ "armed" \in Pcs
    BY DEF IInv, TypeOK, Pcs
  <2>3. pc' \in [Actors -> Pcs]
    BY <1>1, <2>1, <2>2
  <2>4. \A a \in Actors :
           pc'[a] = IF a = c THEN "idle"
                    ELSE IF a = Reaper(f) \/ (a = Poller(f) /\ method[f] = "device")
                         THEN "armed" ELSE pc[a]
    BY <1>1, <2>1, <2>2
  <2> QED BY <2>3, <2>4 DEF StartArm
<1> HIDE DEF f
<1>3. "armed" \in Holding /\ "armed" \notin Winning \cup Releasing
      /\ "idle" \notin Holding \cup Winning \cup Releasing
  BY DEF Holding, Pcs, Winning, Releasing
<1>4. TypeOK'
  BY <1>1, <1>2 DEF IInv, TypeOK, flow, race, outcome, history
<1>5. ControlInv'
  <2>1. \A a \in Timers : on'[a] = a[2] /\ arg'[a] # "shutdown"
                          /\ pc'[a] \in Holding \cup {"idle"}
    BY <1>1, <1>2, <1>3, ActorFacts DEF IInv, ControlInv, TypeOK
  <2>2. \A g \in Flows : pc'[Poller(g)] # "idle" => method'[g] = "device"
    BY <1>1, <1>2, ActorFacts DEF IInv, ControlInv, flow
  <2>3. \A g \in Flows :
          pc'[Reaper(g)] \in {"idle", "armed", "terminate"} \cup Releasing
    BY <1>1, <1>2, ActorFacts DEF IInv, ControlInv
  <2>4. ASSUME NEW a \in Actors, pc'[a] \in Holding
        PROVE  on'[a] \in Flows /\ Born(on'[a])
    <3>1. a # c
      BY <1>1, <1>2, <1>3, <2>4
    <3>2. CASE a \in {Reaper(f), Poller(f)}
      BY <1>1, <1>2, <3>1, <3>2, ActorFacts DEF IInv, ControlInv, TypeOK
    <3>3. CASE a \notin {Reaper(f), Poller(f)}
      BY <1>1, <1>2, <2>4, <3>1, <3>3 DEF IInv, ControlInv, TypeOK
    <3> QED BY <3>2, <3>3
  <2>5. \A g : Born(g)' <=> status[g] # "unborn"
    BY <1>2 DEF Born, flow, outcome
  <2>6. \A a \in Actors :
       /\ pc'[a] \in Holding => on'[a] \in Flows /\ status[on'[a]] # "unborn"
       /\ pc'[a] = "starting" => arg'[a] \in Methods
       /\ pc'[a] \in {"cas_consume", "cas_deny"} => arg'[a] \in Rails
       /\ pc'[a] \in {"cas_cancel", "dev_fail", "terminate"}
            => arg'[a] \in ErrorCodes
       /\ pc'[a] = "dev_finish" => a \in Timers
    BY <1>1, <1>2, <2>4 DEF IInv, ControlInv, Born
  <2> QED BY <1>2, <2>1, <2>2, <2>3, <2>6
          DEF IInv, ControlInv, Born, flow, outcome
<1>6. WinnerInv'
  <2>1. \A a \in Actors : pc'[a] \in Winning => pc'[a] = pc[a] /\ on'[a] = on[a]
    BY <1>1, <1>2, <1>3 DEF IInv, TypeOK
  <2> QED BY <1>2, <2>1 DEF IInv, WinnerInv, flow, race, outcome, history
<1>7. OutcomeInv' /\ OutcomeTruthful'
  BY <1>2 DEF IInv, OutcomeInv, OutcomeTruthful, flow, race, outcome, history
<1>8. ReleaseInv'
  <2>1. \A a \in Actors : pc'[a] \in Releasing => pc'[a] = pc[a] /\ on'[a] = on[a]
    BY <1>1, <1>2, <1>3 DEF IInv, TypeOK
  <2> QED BY <1>2, <2>1 DEF IInv, ReleaseInv, IsTerminal, flow, outcome
<1>9. SlotHeldUntilTerminal'
  BY <1>2 DEF IInv, SlotHeldUntilTerminal, Born, IsTerminal, flow, outcome
<1> QED BY <1>4, <1>5, <1>6, <1>7, <1>8, <1>9 DEF IInv

\* The insert: no other actor can be at "persist" for the same flow.
LEMMA InsertStep ==
  ASSUME IInv, NEW a \in Actors, pc[a] = "persist",
         rows' = [rows EXCEPT ![on[a]] = @ + 1], Goto(a, "succeed"),
         UNCHANGED <<coord, flow, mu, expired, reports, newest>>
  PROVE  IInv'
<1>1. /\ on[a] \in Flows /\ Born(on[a]) /\ consumed[on[a]]
      /\ status[on[a]] = "pending" /\ rows[on[a]] = 0
      /\ a \in Callers => consumedBy[on[a]] # "unknown"
      /\ \A b \in Actors : pc[b] \in Winning /\ on[b] = on[a] => b = a
      /\ \A f \in Flows : a # Reaper(f)
  BY ActorFacts DEF IInv, ControlInv, WinnerInv, Holding, Pcs, Winning, Releasing
<1>2. /\ pc' = [pc EXCEPT ![a] = "succeed"] /\ on' = on /\ arg' = arg
      /\ UNCHANGED <<flowPtr, closed, releasedFlows, latestReleased, method,
                     consumed, consumedBy, status, terminalError>>
  BY DEF Goto, coord, flow, race, outcome
<1>3. rows' = [rows EXCEPT ![on[a]] = 1]
  BY <1>1
<1>4. TypeOK'
  <2>0. rows \in [Flows -> Nat]
    BY DEF IInv, TypeOK
  <2>1. rows' \in [Flows -> Nat]
    BY <2>0, <1>1
  <2>2. pc' \in [Actors -> Pcs]
    BY <1>2 DEF IInv, TypeOK, Pcs, Winning
  <2> QED BY <1>2, <2>1, <2>2 DEF IInv, TypeOK, coord, flow, race, outcome
<1>5. "succeed" \in Holding /\ "succeed" \in Winning /\ "succeed" \notin Releasing
  BY DEF Holding, Pcs, Winning, Releasing
<1>6. ControlInv'
  BY <1>1, <1>2, <1>5, ActorFacts DEF IInv, TypeOK, ControlInv, Born
<1>7. WinnerInv'
  BY <1>1, <1>2, <1>3, <1>5 DEF IInv, TypeOK, WinnerInv, Winning
<1>8. OutcomeInv' /\ OutcomeTruthful'
  BY <1>1, <1>2, <1>3 DEF IInv, TypeOK, OutcomeInv, OutcomeTruthful
<1>9. ReleaseInv' /\ SlotHeldUntilTerminal'
  BY <1>2, <1>5 DEF IInv, TypeOK, ReleaseInv, SlotHeldUntilTerminal, Born,
                    IsTerminal
<1> QED BY <1>4, <1>6, <1>7, <1>8, <1>9 DEF IInv

LEMMA SucceedStep ==
  ASSUME IInv, NEW a \in Actors, Succeed(a)
  PROVE  IInv'
<1>1. /\ on[a] \in Flows /\ Born(on[a]) /\ consumed[on[a]]
      /\ status[on[a]] = "pending" /\ rows[on[a]] = 1
      /\ a \in Callers => consumedBy[on[a]] # "unknown"
      /\ \A b \in Actors : pc[b] \in Winning /\ on[b] = on[a] => b = a
      /\ terminalError[on[a]] = "none"
  BY DEF IInv, ControlInv, WinnerInv, OutcomeInv, Succeed, Holding, Pcs,
         Winning, Terminal
<1>2. /\ pc' = [pc EXCEPT ![a] = "rel_load"] /\ on' = on /\ arg' = arg
      /\ status' = [status EXCEPT ![on[a]] = "success"]
      /\ UNCHANGED <<flowPtr, closed, releasedFlows, latestReleased, method,
                     consumed, consumedBy, terminalError, rows>>
  BY DEF Succeed, Goto, coord, race, history
<1>3. method[on[a]] = "browser" => a \in Callers
  <2>1. CASE a \in Callers
    BY <2>1
  <2>2. CASE a \in Timers
    <3>1. PICK f \in Flows : a = Reaper(f) \/ a = Poller(f)
      BY <2>2, ActorFacts
    <3>2. a # Reaper(f)
      BY DEF IInv, ControlInv, Succeed, Releasing
    <3>3. method[f] = "device" /\ on[a] = f
      BY <3>1, <3>2, <2>2, ActorFacts DEF IInv, ControlInv, Succeed
    <3> QED BY <3>3
  <2> QED BY <2>1, <2>2 DEF Actors
<1>4. TypeOK'
  <2>1. mu' \in [Flows -> Actors \cup {NoFlow}]
    BY ActorFacts DEF IInv, TypeOK, Succeed
  <2>2. pc' \in [Actors -> Pcs]
    BY <1>2 DEF IInv, TypeOK, Pcs, Releasing
  <2>3. status' \in [Flows -> {"unborn", "pending"} \cup Terminal]
    BY <1>2 DEF IInv, TypeOK, Terminal
  <2> QED BY <1>2, <2>1, <2>2, <2>3 DEF IInv, TypeOK, Succeed, coord, race, history
<1>5. /\ "rel_load" \in Holding /\ "rel_load" \notin Winning
      /\ "rel_load" \in Releasing
  BY DEF Holding, Pcs, Winning, Releasing
<1>6. ControlInv'
  <2>1. \A g \in Flows : Born(g) => Born(g)'
    BY <1>2 DEF IInv, TypeOK, Born
  <2>2. \A b \in Actors : pc'[b] = IF b = a THEN "rel_load" ELSE pc[b]
    BY <1>2 DEF IInv, TypeOK
  <2>3. \A b \in Actors :
          pc'[b] \in Holding => on'[b] \in Flows /\ status'[on'[b]] # "unborn"
    BY <1>1, <1>2, <2>1, <2>2 DEF IInv, ControlInv, Born
  <2>4. /\ \A g \in Flows : pc'[Poller(g)] # "idle" => method'[g] = "device"
        /\ \A g \in Flows :
             pc'[Reaper(g)] \in {"idle", "armed", "terminate"} \cup Releasing
        /\ \A b \in Timers : on'[b] = b[2] /\ arg'[b] # "shutdown"
                             /\ pc'[b] \in Holding \cup {"idle"}
    BY <1>2, <1>5, <2>2, ActorFacts DEF IInv, ControlInv, Succeed
  <2> QED BY <1>2, <2>1, <2>2, <2>3, <2>4 DEF IInv, TypeOK, ControlInv, Born
<1>7. WinnerInv'
  BY <1>1, <1>2, <1>5 DEF IInv, TypeOK, WinnerInv
<1>8. OutcomeInv'
  BY <1>1, <1>2 DEF IInv, TypeOK, OutcomeInv, Terminal
<1>9. OutcomeTruthful'
  BY <1>1, <1>2, <1>3 DEF IInv, TypeOK, OutcomeTruthful
<1>10. ReleaseInv' /\ SlotHeldUntilTerminal'
  BY <1>1, <1>2 DEF IInv, TypeOK, ReleaseInv, SlotHeldUntilTerminal, Born,
                    IsTerminal, Terminal
<1> QED BY <1>4, <1>6, <1>7, <1>8, <1>9, <1>10 DEF IInv

LEMMA TerminateStep ==
  ASSUME IInv, NEW a \in Actors, Terminate(a)
  PROVE  IInv'
<1>1. /\ on[a] \in Flows /\ Born(on[a]) /\ consumed[on[a]]
      /\ status[on[a]] = "pending" /\ rows[on[a]] = 0
      /\ \A b \in Actors : pc[b] \in Winning /\ on[b] = on[a] => b = a
      /\ arg[a] \in ErrorCodes
  BY DEF IInv, ControlInv, WinnerInv, Terminate, Holding, Pcs, Winning
<1>2. /\ pc' = [pc EXCEPT ![a] = "rel_load"] /\ on' = on /\ arg' = arg
      /\ status' = [status EXCEPT ![on[a]] = "error"]
      /\ terminalError' = [terminalError EXCEPT ![on[a]] = arg[a]]
      /\ UNCHANGED <<flowPtr, closed, releasedFlows, latestReleased, method,
                     consumed, consumedBy, rows>>
  BY DEF Terminate, Goto, coord, race, history
<1>3. TypeOK'
  BY <1>1, <1>2 DEF IInv, TypeOK, Terminate, coord, race, history, Pcs,
                    Releasing, Terminal
<1>5. /\ "rel_load" \in Holding /\ "rel_load" \notin Winning
      /\ "rel_load" \in Releasing
  BY DEF Holding, Pcs, Winning, Releasing
<1>6. ControlInv'
  <2>1. \A g \in Flows : Born(g) => Born(g)'
    BY <1>2 DEF IInv, TypeOK, Born
  <2>2. \A b \in Actors : pc'[b] = IF b = a THEN "rel_load" ELSE pc[b]
    BY <1>2 DEF IInv, TypeOK
  <2>3. \A b \in Actors :
          pc'[b] \in Holding => on'[b] \in Flows /\ status'[on'[b]] # "unborn"
    BY <1>1, <1>2, <2>1, <2>2 DEF IInv, ControlInv, Born
  <2>4. /\ \A g \in Flows : pc'[Poller(g)] # "idle" => method'[g] = "device"
        /\ \A g \in Flows :
             pc'[Reaper(g)] \in {"idle", "armed", "terminate"} \cup Releasing
        /\ \A b \in Timers : on'[b] = b[2] /\ arg'[b] # "shutdown"
                             /\ pc'[b] \in Holding \cup {"idle"}
    BY <1>2, <1>5, <2>2, ActorFacts DEF IInv, ControlInv, Terminate
  <2> QED BY <1>2, <2>1, <2>2, <2>3, <2>4 DEF IInv, TypeOK, ControlInv, Born
<1>7. WinnerInv'
  BY <1>1, <1>2, <1>5 DEF IInv, TypeOK, WinnerInv
<1>8. OutcomeInv'
  BY <1>1, <1>2 DEF IInv, TypeOK, OutcomeInv, Terminal
<1>9. OutcomeTruthful'
  BY <1>1, <1>2 DEF IInv, TypeOK, OutcomeTruthful, ErrorCodes
<1>10. ReleaseInv' /\ SlotHeldUntilTerminal'
  BY <1>1, <1>2 DEF IInv, TypeOK, ReleaseInv, SlotHeldUntilTerminal, Born,
                    IsTerminal, Terminal
<1> QED BY <1>3, <1>6, <1>7, <1>8, <1>9, <1>10 DEF IInv

\* ReleaseFlow's last step empties the slot and stops the unfired timers.
LEMMA ReleaseSwapStep ==
  ASSUME IInv, NEW a \in Actors, ReleaseSwap(a)
  PROVE  IInv'
<1>1. /\ on[a] \in Flows /\ Born(on[a])
      /\ ~closed => IsTerminal(on[a])
      /\ a \in Timers => AfterRelease(a) = "idle" /\ Home(a) = a[2]
      /\ AfterRelease(a) \in {"idle", "shut_clear"}
      /\ Home(a) \in Flows \cup {NoFlow}
  BY HomeFacts DEF IInv, ControlInv, ReleaseInv, ReleaseSwap, Holding, Pcs,
                   Releasing, AfterRelease
<1>2. /\ \A b \in Actors : /\ b = a => pc'[b] = AfterRelease(a)
                           /\ b # a => pc'[b] \in {"idle", pc[b]}
                           /\ on'[b] = IF b = a THEN Home(a) ELSE on[b]
                           /\ arg'[b] = IF b = a THEN "none" ELSE arg[b]
      /\ on' \in [Actors -> Flows \cup {NoFlow}]
      /\ arg' \in [Actors -> Args]
  <2>1. \A b \in Actors : /\ b = a => pc'[b] = AfterRelease(a)
                          /\ b # a => pc'[b] \in {"idle", pc[b]}
    BY DEF IInv, TypeOK, ReleaseSwap
  <2>2. /\ on' = [on EXCEPT ![a] = Home(a)] /\ arg' = [arg EXCEPT ![a] = "none"]
        /\ "none" \in Args
    BY DEF ReleaseSwap, Unlock, Args
  <2> QED BY <1>1, <2>1, <2>2 DEF IInv, TypeOK
<1>3. DOMAIN pc' = Actors /\ pc' = [b \in Actors |-> pc'[b]]
  BY DEF IInv, TypeOK, ReleaseSwap
<1>4. /\ flowPtr' \in {NoFlow, flowPtr}
      /\ flowPtr' # flowPtr => flowPtr = on[a]
      /\ mu' = [f \in Flows |-> IF mu[f] = a THEN NoFlow ELSE mu[f]]
      /\ UNCHANGED <<closed, startMu, releasedFlows, latestReleased,
                     method, consumed, consumedBy, status, terminalError,
                     terminalReported, listenerBound, expired, history>>
  BY DEF ReleaseSwap, Unlock, flow, race, outcome
<1>5. TypeOK'
  <2>1. mu' \in [Flows -> Actors \cup {NoFlow}]
    BY <1>4 DEF IInv, TypeOK
  <2>2. \A b \in Actors : pc'[b] \in Pcs
    BY <1>1, <1>2 DEF IInv, TypeOK, Pcs
  <2>3. pc' \in [Actors -> Pcs]
    BY <1>3, <2>2
  <2> QED BY <1>2, <1>4, <2>1, <2>3 DEF IInv, TypeOK, history
<1>6. {"idle", "shut_clear"} \cap (Holding \cup Winning \cup Releasing) = {}
  BY DEF Holding, Winning, Releasing
<1>7. ControlInv'
  <2>1. \A b \in Timers : on'[b] = b[2] /\ arg'[b] # "shutdown"
                          /\ pc'[b] \in Holding \cup {"idle"}
    BY <1>1, <1>2, ActorFacts DEF IInv, ControlInv
  <2>2. \A g \in Flows : pc'[Poller(g)] # "idle" => method'[g] = "device"
    BY <1>1, <1>2, <1>4, ActorFacts DEF IInv, ControlInv
  <2>3. \A g \in Flows :
          pc'[Reaper(g)] \in {"idle", "armed", "terminate"} \cup Releasing
    BY <1>1, <1>2, ActorFacts DEF IInv, ControlInv
  <2>4. \A b \in Actors :
       /\ pc'[b] \in Holding => on'[b] \in Flows /\ status[on'[b]] # "unborn"
       /\ pc'[b] = "starting" => arg'[b] \in Methods
       /\ pc'[b] \in {"cas_consume", "cas_deny"} => arg'[b] \in Rails
       /\ pc'[b] \in {"cas_cancel", "dev_fail", "terminate"}
            => arg'[b] \in ErrorCodes
       /\ pc'[b] = "dev_finish" => b \in Timers
    BY <1>1, <1>2, <1>6 DEF IInv, ControlInv, Born
  <2> QED BY <1>4, <2>1, <2>2, <2>3, <2>4 DEF IInv, ControlInv, Born
<1>8. WinnerInv'
  <2>1. \A b \in Actors : pc'[b] \in Winning => pc'[b] = pc[b] /\ on'[b] = on[b]
    BY <1>1, <1>2, <1>6
  <2> QED BY <1>4, <2>1 DEF IInv, WinnerInv, history
<1>9. OutcomeInv' /\ OutcomeTruthful'
  BY <1>4 DEF IInv, OutcomeInv, OutcomeTruthful, history
<1>10. ReleaseInv'
  <2>1. \A b \in Actors : pc'[b] \in Releasing => pc'[b] = pc[b] /\ on'[b] = on[b]
    BY <1>1, <1>2, <1>6
  <2>2. \A b \in Actors : pc'[b] = "shut_load" => pc[b] = "shut_load"
    BY <1>1, <1>2
  <2> QED BY <1>4, <2>1, <2>2 DEF IInv, ReleaseInv, IsTerminal
<1>11. SlotHeldUntilTerminal'
  BY <1>1, <1>4 DEF IInv, SlotHeldUntilTerminal, Born, IsTerminal
<1> QED BY <1>5, <1>7, <1>8, <1>9, <1>10, <1>11 DEF IInv

-----------------------------------------------------------------------------
(* The quiet steps, by the shape of their control flow.                    *)

LEMMA NothingElse ==
  ASSUME IInv, UNCHANGED <<coord, flow, mu, expired, history>>
  PROVE  Bookkeeping
BY DEF IInv, TypeOK, ControlInv, Bookkeeping, coord, flow, race, outcome, history

\* A handler returns or a timer is through.
LEMMA ReturnStep ==
  ASSUME IInv, NEW a \in Actors, Return(a), Bookkeeping
  PROVE  IInv'
<1>1. Moves(a, "idle", Home(a), "none")
  BY DEF Moves, Return
<1>2. MayMove(a, "idle", Home(a), "none")
  BY HomeFacts, ActorFacts DEF MayMove, Pcs, Args, Holding, Winning, Releasing
<1> QED BY <1>1, <1>2, QuietStep DEF Quiet

\* A handler begins a call that does not race for Consumed at once.
LEMMA CallStep ==
  ASSUME IInv, NEW c \in Callers, NEW name, NEW g \in Flows \cup {NoFlow},
         NEW x \in Args, NEW p \in Pcs \ (Winning \cup Releasing),
         Call(c, name, g, x, p), Bookkeeping,
         p \in Holding => g \in Flows /\ Born(g),
         p = "starting" => x \in Methods,
         p \in {"cas_consume", "cas_deny"} => x \in Rails,
         p \in {"cas_cancel", "dev_fail"} => x \in ErrorCodes,
         p = "shut_load" => closed'
  PROVE  IInv'
<1>1. Moves(c, p, g, x)
  BY DEF Moves, Call
<1>2. MayMove(c, p, g, x)
  BY ActorFacts DEF MayMove, Winning
<1> QED BY <1>1, <1>2, ActorFacts, QuietStep DEF Quiet

\* A running actor goes on to p, with the same flow.
LEMMA GotoStep ==
  ASSUME IInv, NEW a \in Actors, NEW p \in Holding \cup {"idle"},
         NEW x \in Args, GotoWith(a, p, x), Bookkeeping,
         pc[a] \in Holding, a \in Timers => x # "shutdown",
         p \in {"cas_consume", "cas_deny"} => x \in Rails,
         p \in {"cas_cancel", "dev_fail", "terminate"} => x \in ErrorCodes,
         p # "dev_finish",
         \A f \in Flows :
           a = Reaper(f) => p \in {"idle", "armed", "terminate"} \cup Releasing,
         p \in Winning =>
           /\ pc[a] \in Winning \ {"succeed"} /\ p # "succeed"
           /\ p \in {"exchange", "persist"} /\ a \in Callers
                => pc[a] \in {"exchange", "persist"},
         p \in Releasing /\ ~closed' => pc[a] \in Releasing
  PROVE  IInv'
<1>1. on[a] \in Flows /\ Born(on[a])
  BY DEF IInv, ControlInv
<1>2. Moves(a, p, on[a], x)
  BY DEF Moves, GotoWith, IInv, TypeOK
<1>3. p \in Pcs /\ p # "starting" /\ p # "shut_load"
  BY DEF Holding, Pcs
<1>4. \A f \in Flows : a = Poller(f) => p = "idle" \/ method[f] = "device"
  BY DEF IInv, ControlInv, Holding
<1>5. a \in Timers => on[a] = a[2]
  BY DEF IInv, ControlInv
<1>6. MayMove(a, p, on[a], x)
  BY <1>1, <1>3, <1>4, <1>5 DEF MayMove
<1> QED BY <1>2, <1>6, QuietStep DEF Quiet

LEMMA GotoIsGotoWith ==
  ASSUME IInv, NEW a \in Actors, NEW p, Goto(a, p)
  PROVE  GotoWith(a, p, arg[a]) /\ arg[a] \in Args
BY DEF IInv, TypeOK, Goto, GotoWith

-----------------------------------------------------------------------------
(* One lemma per group of actions.                                         *)

\* Facts about the program counters and arguments used below.
LEMMA PcFacts ==
  /\ {"cleanup", "arm", "cas_consume", "cas_deny", "classify", "cas_cancel",
      "wait_terminal", "poll_status", "poll_pending", "poll_terminal",
      "armed", "polling", "dev_fail"} \cup Winning \cup Releasing \subseteq Holding
  /\ Holding \subseteq Pcs
  /\ {"idle", "starting", "poll_released", "shut_load", "shut_clear"}
       \subseteq Pcs \ Holding
  /\ Winning \cap Releasing = {}
  /\ {"idle", "starting", "cleanup", "arm", "cas_consume", "cas_deny", "classify",
      "cas_cancel", "wait_terminal", "poll_released", "poll_status",
      "poll_pending", "poll_terminal", "shut_load", "shut_clear", "armed",
      "polling", "dev_fail"} \subseteq Pcs \ (Winning \cup Releasing)
  /\ Methods \cup Rails \cup ErrorCodes \cup {"none", "shutdown"} \subseteq Args
  /\ "shutdown" \notin ErrorCodes
BY DEF Holding, Pcs, Winning, Releasing, Args, ErrorCodes

LEMMA StartStepInv ==
  ASSUME IInv, NEW c \in Callers, StartStep(c)
  PROVE  IInv'
<1>1. ASSUME NEW m \in Methods, StartCheck(c, m) PROVE IInv'
  <2>1. Bookkeeping
    BY <1>1 DEF StartCheck, IInv, TypeOK, ControlInv, Bookkeeping, flow, race,
                outcome, history
  <2>2. Call(c, StartCall(m), NoFlow, m, "starting")
    BY <1>1 DEF StartCheck
  <2> QED BY <2>1, <2>2, PcFacts, CallStep
<1>2. ASSUME StartFail(c) PROVE IInv'
  <2>1. Bookkeeping
    BY <1>2 DEF StartFail, IInv, TypeOK, ControlInv, Bookkeeping, flow, race,
                outcome, history
  <2> QED BY <1>2, <2>1, ActorFacts, ReturnStep DEF StartFail
<1>3. ASSUME cleanupReleasedFlowsOnStart(c) PROVE IInv'
  <2>1. Bookkeeping
    BY <1>3 DEF cleanupReleasedFlowsOnStart, IInv, TypeOK, ControlInv,
                Bookkeeping, flow, race, outcome, history
  <2>2. pc[c] = "cleanup" /\ Goto(c, "arm")
    BY <1>3 DEF cleanupReleasedFlowsOnStart
  <2> QED BY <2>1, <2>2, ActorFacts, PcFacts, GotoIsGotoWith, GotoStep
<1> QED BY <1>1, <1>2, <1>3, StartSwapStep, StartArmStep DEF StartStep

LEMMA RailStepInv ==
  ASSUME IInv, NEW c \in Callers, RailStep(c)
  PROVE  IInv'
<1>0. c \in Actors /\ c \notin Timers /\ \A f \in Flows : c # Reaper(f)
  BY ActorFacts
<1>1. ASSUME NEW f \in Flows, NEW rail \in Rails, NEW name,
             NEW cas \in {"cas_consume", "cas_deny"},
             RailCall(c, name, f, rail, cas)
      PROVE  IInv'
  <2>1. Bookkeeping /\ Born(f)
    BY <1>1, NothingElse DEF RailCall, Reaches, Announced
  <2>2. PICK p \in {"classify", cas} : Call(c, name, f, rail, p)
    BY <1>1 DEF RailCall
  <2> QED BY <2>1, <2>2, PcFacts, CallStep
<1>2. ASSUME classifyConsumedFlow(c) \/ RailLost(c) PROVE IInv'
  BY <1>0, <1>2, NothingElse, ReturnStep DEF classifyConsumedFlow, RailLost
<1>3. ASSUME ExchangeCode(c) PROVE IInv'
  <2>1. Bookkeeping /\ pc[c] = "exchange"
    BY <1>3, NothingElse DEF ExchangeCode
  <2>2. PICK p \in {"persist", "terminate"}, x \in Args :
          GotoWith(c, p, x) /\ (p = "terminate" => x \in ErrorCodes)
    BY <1>0, <1>3, GotoIsGotoWith, PcFacts DEF ExchangeCode, ErrorCodes
  <2>3. {"persist", "terminate", "exchange"} \subseteq Winning
    BY DEF Winning
  <2> QED BY <1>0, <2>1, <2>2, <2>3, PcFacts, GotoStep
<1> QED BY <1>1, <1>2, <1>3, ConsumeWonStep, DenyWonStep
        DEF RailStep, ConsumeCode, cancelFromRail

LEMMA CancelStepInv ==
  ASSUME IInv, NEW c \in Callers, CancelStep(c)
  PROVE  IInv'
<1>0. c \in Actors /\ c \notin Timers
      /\ \A f \in Flows : c # Reaper(f) /\ c # Poller(f)
  BY ActorFacts
<1>1. ASSUME NEW f \in Flows, cancel(c, f) PROVE IInv'
  <2>1. Bookkeeping /\ Born(f)
    BY <1>1, NothingElse, NoFlowAssumption DEF cancel, IInv, ControlInv
  <2>2. "cancelled" \in ErrorCodes
    BY DEF ErrorCodes
  <2> QED BY <1>1, <2>1, <2>2, PcFacts, CallStep DEF cancel
<1>2. ASSUME CancelCas(c), consumed[on[c]] PROVE IInv'
  <2>1. Bookkeeping /\ pc[c] = "cas_cancel" /\ Goto(c, "wait_terminal")
    BY <1>2, NothingElse DEF CancelCas, flow, race
  <2> QED BY <1>0, <2>1, PcFacts, GotoIsGotoWith, GotoStep
<1>3. ASSUME CancelCas(c), ~consumed[on[c]] PROVE IInv'
  <2>1. /\ on[c] \in Flows /\ Born(on[c]) /\ arg[c] \in ErrorCodes
    BY <1>0, <1>3, PcFacts DEF CancelCas, IInv, ControlInv
  <2>2. Claims(c, "terminate", arg[c])
    BY <1>0, <1>3, <2>1, PcFacts
    DEF CancelCas, Claims, Moves, Goto, IInv, TypeOK
  <2> QED BY <1>0, <2>2, ClaimStep
<1>4. ASSUME waitForTerminalStatus(c) \/ WaitContextEnds(c) PROVE IInv'
  BY <1>0, <1>4, NothingElse, ReturnStep
  DEF waitForTerminalStatus, WaitContextEnds
<1> QED BY <1>1, <1>2, <1>3, <1>4 DEF CancelStep

LEMMA PollStepInv ==
  ASSUME IInv, NEW c \in Callers, PollStep(c)
  PROVE  IInv'
<1>0. c \in Actors /\ c \notin Timers /\ \A f \in Flows : c # Reaper(f)
  BY ActorFacts
<1>1. ASSUME GetFlow(c) PROVE IInv'
  <2>1. Bookkeeping
    BY <1>1, NothingElse DEF GetFlow
  <2>2. CASE flowPtr # NoFlow
    <3>1. flowPtr \in Flows /\ Born(flowPtr)
      BY <2>2 DEF IInv, TypeOK, ControlInv
    <3>2. Call(c, "get_flow", flowPtr, "none", "poll_status")
      BY <1>1, <2>2 DEF GetFlow
    <3> QED BY <2>1, <3>1, <3>2, PcFacts, CallStep
  <2>3. CASE flowPtr = NoFlow
    <3>1. Call(c, "get_flow", NoFlow, "none", "poll_released")
      BY <1>1, <2>3 DEF GetFlow
    <3> QED BY <2>1, <3>1, PcFacts, CallStep
  <2> QED BY <2>2, <2>3
<1>2. ASSUME latestReleasedFlow(c) PROVE IInv'
  <2>1. Bookkeeping
    BY <1>2, NothingElse DEF latestReleasedFlow
  <2>2. CASE latestReleased = NoFlow
    BY <1>0, <1>2, <2>1, <2>2, ReturnStep DEF latestReleasedFlow
  <2>3. CASE latestReleased # NoFlow
    <3>1. latestReleased \in Flows /\ Born(latestReleased) /\ arg[c] \in Args
      BY <1>0, <2>3 DEF IInv, TypeOK, ControlInv
    <3>2. Moves(c, "poll_terminal", latestReleased, arg[c])
      BY <1>0, <1>2, <2>3 DEF latestReleasedFlow, Moves, IInv, TypeOK
    <3>3. MayMove(c, "poll_terminal", latestReleased, arg[c])
      BY <1>0, <3>1, PcFacts, ActorFacts DEF MayMove
    <3> QED BY <1>0, <2>1, <3>2, <3>3, QuietStep DEF Quiet
  <2> QED BY <2>2, <2>3
<1>3. ASSUME snapshotCurrentFlow(c) PROVE IInv'
  <2>1. Bookkeeping /\ pc[c] = "poll_status"
    BY <1>3, NothingElse DEF snapshotCurrentFlow
  <2>2. PICK p \in {"poll_terminal", "poll_pending"} : Goto(c, p)
    BY <1>3 DEF snapshotCurrentFlow
  <2> QED BY <1>0, <2>1, <2>2, PcFacts, GotoIsGotoWith, GotoStep
<1>4. ASSUME NEW f \in Flows, Reported(f) PROVE reports' \in [Flows -> 0 .. 2]
  BY <1>4 DEF Reported, IInv, TypeOK
<1>5. ASSUME snapshotLocked(c) PROVE IInv'
  <2>1. on[c] \in Flows
    BY <1>0, <1>5, PcFacts DEF snapshotLocked, IInv, ControlInv
  <2>2. reports' \in [Flows -> 0 .. 2]
    BY <1>4, <1>5, <2>1 DEF snapshotLocked
  <2>3. Bookkeeping
    BY <1>5, <2>2 DEF snapshotLocked, IInv, TypeOK, ControlInv, Bookkeeping,
                      coord, flow, race, outcome
  <2> QED BY <1>0, <1>5, <2>3, ReturnStep DEF snapshotLocked
<1>6. ASSUME snapshotTerminalFlowForPoll(c) PROVE IInv'
  <2>1. on[c] \in Flows
    BY <1>0, <1>6, PcFacts DEF snapshotTerminalFlowForPoll, IInv, ControlInv
  <2>2. reports' \in [Flows -> 0 .. 2] /\ Return(c)
    BY <1>4, <1>6, <2>1 DEF snapshotTerminalFlowForPoll, IInv, TypeOK
  <2>3. terminalReported' \in [Flows -> BOOLEAN]
    <3>1. \/ terminalReported' = terminalReported
          \/ terminalReported' =
               [terminalReported EXCEPT ![on[c]] = IsTerminal(on[c])]
      BY <1>6 DEF snapshotTerminalFlowForPoll
    <3>2. IsTerminal(on[c]) \in BOOLEAN
      BY DEF IsTerminal
    <3>3. terminalReported \in [Flows -> BOOLEAN]
      BY DEF IInv, TypeOK
    <3> QED BY <3>1, <3>2, <3>3, Zenon
  <2>4. Bookkeeping
    BY <1>6, <2>2, <2>3 DEF snapshotTerminalFlowForPoll, IInv, TypeOK,
                      ControlInv, Bookkeeping, coord, race, outcome
  <2> QED BY <1>0, <2>2, <2>4, ReturnStep
<1> QED BY <1>1, <1>2, <1>3, <1>5, <1>6 DEF PollStep

LEMMA ShutdownStepInv ==
  ASSUME IInv, NEW c \in Callers, ShutdownStep(c)
  PROVE  IInv'
<1>0. c \in Actors /\ c \notin Timers
      /\ \A f \in Flows : c # Reaper(f) /\ c # Poller(f)
  BY ActorFacts
<1>1. ASSUME Shutdown(c) PROVE IInv'
  <2>1. Bookkeeping
    BY <1>1 DEF Shutdown, IInv, TypeOK, ControlInv, Bookkeeping, flow, race,
                outcome, history
  <2> QED BY <1>1, <2>1, PcFacts, CallStep DEF Shutdown
<1>2. ASSUME ShutdownLoad(c), flowPtr = NoFlow PROVE IInv'
  <2>1. Bookkeeping
    BY <1>2, NothingElse DEF ShutdownLoad
  <2>2. Moves(c, "shut_clear", flowPtr, arg[c]) /\ arg[c] \in Args
    BY <1>0, <1>2 DEF ShutdownLoad, Moves, IInv, TypeOK
  <2>3. MayMove(c, "shut_clear", flowPtr, arg[c])
    BY <1>0, <1>2, <2>2, PcFacts DEF MayMove
  <2> QED BY <1>0, <2>1, <2>2, <2>3, QuietStep DEF Quiet
<1>3. ASSUME ShutdownLoad(c), flowPtr # NoFlow PROVE IInv'
  <2>1. Bookkeeping
    BY <1>3, NothingElse DEF ShutdownLoad
  <2>2. Moves(c, "rel_load", flowPtr, arg[c]) /\ arg[c] \in Args
    BY <1>0, <1>3 DEF ShutdownLoad, Moves, IInv, TypeOK
  <2>3. flowPtr \in Flows /\ Born(flowPtr)
    BY <1>3 DEF IInv, TypeOK, ControlInv
  <2>4. closed'
    <3>1. closed
      <4>1. ReleaseInv /\ pc[c] = "shut_load"
        BY <1>3 DEF ShutdownLoad, IInv
      <4> QED BY <1>0, <4>1, Zenon DEF ReleaseInv
    <3> QED BY <2>1, <3>1 DEF Bookkeeping
  <2>5. "rel_load" \in Releasing
    BY DEF Releasing
  <2>6. MayMove(c, "rel_load", flowPtr, arg[c])
    BY <1>0, <2>2, <2>3, <2>4, <2>5, PcFacts DEF MayMove
  <2> QED BY <1>0, <2>1, <2>2, <2>6, QuietStep DEF Quiet
<1>4. ASSUME ShutdownClear(c) PROVE IInv'
  <2>1. Bookkeeping
    BY <1>4 DEF ShutdownClear, IInv, TypeOK, ControlInv, Bookkeeping, flow,
                race, outcome, history
  <2> QED BY <1>0, <1>4, <2>1, ReturnStep DEF ShutdownClear
<1> QED BY <1>1, <1>2, <1>3, <1>4 DEF ShutdownStep

LEMMA TimerStepInv ==
  ASSUME IInv, NEW f \in Flows, TimerStep(f)
  PROVE  IInv'
<1> DEFINE r == Reaper(f)
           p == Poller(f)
<1>0. /\ r \in Actors /\ r \in Timers /\ r[2] = f /\ on[r] = f
      /\ p \in Actors /\ p \in Timers /\ p[2] = f /\ on[p] = f
      /\ r \notin Callers /\ p \notin Callers
      /\ \A g \in Flows : /\ r # Poller(g) /\ p # Reaper(g)
                          /\ r = Reaper(g) => g = f
                          /\ p = Poller(g) => g = f
      /\ arg[r] # "shutdown" /\ arg[p] # "shutdown"
      /\ arg[r] \in Args /\ arg[p] \in Args
  BY ActorFacts DEF IInv, TypeOK, ControlInv
<1>1. ASSUME NEW x \in {"idle", "armed", "polling"}, pc[p] \in Holding,
             Goto(p, x), Bookkeeping
      PROVE  IInv'
  BY <1>0, <1>1, PcFacts, GotoIsGotoWith, GotoStep
<1> HIDE DEF r, p
<1>2. ASSUME ReaperFires(f) PROVE IInv'
  <2>1. pc[r] = "armed" /\ Born(f)
    BY <1>0, <1>2, PcFacts DEF ReaperFires, r, IInv, ControlInv
  <2>2. CASE closed \/ consumed[f]
    <3>1. Bookkeeping /\ Goto(r, "idle")
      BY <1>2, <2>2, NothingElse DEF ReaperFires, flow, race, r
    <3> QED BY <1>0, <2>1, <3>1, PcFacts, GotoIsGotoWith, GotoStep
  <2>3. CASE ~(closed \/ consumed[f])
    <3>1. Moves(r, "terminate", on[r], "expired") /\ "expired" \in ErrorCodes
      BY <1>0, <1>2, <2>3 DEF ReaperFires, r, GotoWith, Moves, IInv, TypeOK,
                              ErrorCodes
    <3>2. Claims(r, "terminate", "expired")
      BY <1>0, <1>2, <2>1, <2>3, <3>1, PcFacts DEF ReaperFires, Claims
    <3> QED BY <1>0, <3>2, ClaimStep
  <2> QED BY <2>2, <2>3
<1>3. ASSUME PollerFires(f) PROVE IInv'
  <2>1. pc[p] \in Holding /\ Bookkeeping
    BY <1>3, NothingElse, PcFacts DEF PollerFires, p
  <2>2. PICK x \in {"idle", "polling"} : Goto(p, x)
    BY <1>3 DEF PollerFires, p
  <2> QED BY <1>1, <2>1, <2>2
<1>4. ASSUME PollPending(f) PROVE IInv'
  <2>1. pc[p] \in Holding /\ Bookkeeping /\ Goto(p, "armed")
    BY <1>4, NothingElse, PcFacts DEF PollPending, p
  <2> QED BY <1>1, <2>1
<1>5. ASSUME PollFailed(f) PROVE IInv'
  <2>1. pc[p] = "polling" /\ Bookkeeping
    BY <1>5, NothingElse DEF PollFailed, p
  <2>2. PICK x \in {"access_denied", "expired", "failed"} :
          GotoWith(p, "dev_fail", x)
    BY <1>5 DEF PollFailed, p
  <2>3. x \in ErrorCodes
    BY DEF ErrorCodes
  <2> QED BY <1>0, <2>1, <2>2, <2>3, PcFacts, GotoStep
<1>6. ASSUME PollTokens(f) PROVE IInv'
  <2>1. pc[p] = "polling" /\ Born(f) /\ method[f] = "device"
    BY <1>0, <1>6, PcFacts DEF PollTokens, p, IInv, ControlInv
  <2>2. CASE consumed[f]
    <3>1. Bookkeeping /\ Goto(p, "idle")
      BY <1>6, <2>2, NothingElse DEF PollTokens, flow, race, p
    <3> QED BY <1>1, <2>1, <3>1, PcFacts
  <2>3. CASE ~consumed[f]
    <3>1. Moves(p, "dev_finish", on[p], arg[p])
      BY <1>0, <1>6, <2>3 DEF PollTokens, p, Goto, Moves, IInv, TypeOK
    <3>2. Claims(p, "dev_finish", arg[p])
      BY <1>0, <1>6, <2>1, <2>3, <3>1 DEF PollTokens, Claims
    <3> QED BY <1>0, <3>2, ClaimStep
  <2> QED BY <2>2, <2>3
<1>7. ASSUME finishDeviceSuccess(f) PROVE IInv'
  <2>1. pc[p] = "dev_finish" /\ Bookkeeping
    BY <1>7, NothingElse DEF finishDeviceSuccess, p
  <2>2. {"dev_finish", "persist", "terminate"} \subseteq Winning
    BY DEF Winning
  <2>3. CASE closed
    <3>1. Goto(p, "rel_load")
      BY <1>7, <2>3 DEF finishDeviceSuccess, p
    <3>2. closed' /\ "rel_load" \in Releasing
      BY <2>1, <2>3 DEF Bookkeeping, Releasing
    <3> QED BY <1>0, <2>1, <3>1, <3>2, <2>2, PcFacts, GotoIsGotoWith, GotoStep
  <2>4. CASE ~closed
    <3>1. PICK y \in {"persist", "terminate"}, x \in Args :
            /\ GotoWith(p, y, x) /\ x # "shutdown"
            /\ y = "terminate" => x \in ErrorCodes
      BY <1>0, <1>7, <2>4, GotoIsGotoWith, PcFacts
      DEF finishDeviceSuccess, p, ErrorCodes
    <3> QED BY <1>0, <2>1, <2>2, <3>1, PcFacts, GotoStep
  <2> QED BY <2>3, <2>4
<1>8. ASSUME finishDeviceFailure(f) PROVE IInv'
  <2>1. /\ pc[p] = "dev_fail" /\ Born(f) /\ method[f] = "device"
        /\ arg[p] \in ErrorCodes
    BY <1>0, <1>8, PcFacts DEF finishDeviceFailure, p, IInv, ControlInv
  <2>2. CASE closed /\ Goto(p, "rel_load") /\ UNCHANGED consumed
    <3>1. Bookkeeping
      BY <1>8, <2>2, NothingElse DEF finishDeviceFailure, flow, race
    <3>2. closed' /\ "rel_load" \in Releasing
      BY <2>2, <3>1 DEF Bookkeeping, Releasing
    <3> QED BY <1>0, <2>1, <2>2, <3>1, <3>2, PcFacts, GotoIsGotoWith, GotoStep
  <2>3. CASE Goto(p, "idle") /\ UNCHANGED consumed
    <3>1. Bookkeeping
      BY <1>8, <2>3, NothingElse DEF finishDeviceFailure, flow, race
    <3> QED BY <1>1, <2>1, <2>3, <3>1, PcFacts
  <2>4. CASE /\ ~consumed[f] /\ Goto(p, "terminate")
             /\ consumed' = [consumed EXCEPT ![f] = TRUE]
    <3>1. Moves(p, "terminate", on[p], arg[p])
      BY <1>0, <2>4 DEF Goto, Moves, IInv, TypeOK
    <3>2. Claims(p, "terminate", arg[p])
      BY <1>0, <1>8, <2>1, <2>4, <3>1 DEF finishDeviceFailure, Claims
    <3> QED BY <1>0, <3>2, ClaimStep
  <2> QED BY <1>8, <2>2, <2>3, <2>4 DEF finishDeviceFailure, p
<1> QED BY <1>2, <1>3, <1>4, <1>5, <1>6, <1>7, <1>8 DEF TimerStep

LEMMA FinishStepInv ==
  ASSUME IInv, NEW a \in Actors, FinishStep(a)
  PROVE  IInv'
<1>0. /\ a \in Timers => on[a] = a[2] /\ arg[a] # "shutdown"
      /\ arg[a] \in Args
      /\ {"rel_load", "rel_store", "rel_swap"} = Releasing
  BY DEF IInv, TypeOK, ControlInv, Releasing
<1>1. ASSUME persistConsumedFlow(a) PROVE IInv'
  <2>1. CASE rows' = [rows EXCEPT ![on[a]] = @ + 1] /\ Goto(a, "succeed")
    BY <1>1, <2>1, InsertStep DEF persistConsumedFlow
  <2>2. CASE GotoWith(a, "terminate", "failed") /\ rows' = rows
    <3>1. pc[a] = "persist" /\ Bookkeeping
      BY <1>1, <2>2, NothingElse DEF persistConsumedFlow, history
    <3>2. "failed" \in ErrorCodes /\ {"persist", "terminate"} \subseteq Winning
      BY DEF ErrorCodes, Winning
    <3> QED BY <2>2, <3>1, <3>2, PcFacts, GotoStep
  <2> QED BY <1>1, <2>1, <2>2 DEF persistConsumedFlow
<1>2. ASSUME ReleaseLoad(a), flowPtr # on[a] PROVE IInv'
  <2>1. Moves(a, AfterRelease(a), Home(a), "none")
    BY <1>2 DEF ReleaseLoad, Unlock, Moves
  <2>2. MayMove(a, AfterRelease(a), Home(a), "none")
    BY <1>0, HomeFacts, ActorFacts, PcFacts DEF MayMove, AfterRelease
  <2>3. mu' \in [Flows -> Actors \cup {NoFlow}]
    BY <1>2 DEF ReleaseLoad, Unlock, IInv, TypeOK
  <2>4. Bookkeeping
    BY <1>2, <2>3 DEF ReleaseLoad, IInv, TypeOK, ControlInv, Bookkeeping,
                      coord, flow, race, outcome, history
  <2> QED BY <2>1, <2>2, <2>4, QuietStep DEF Quiet
<1>3. ASSUME ReleaseLoad(a), flowPtr = on[a] PROVE IInv'
  <2>1. pc[a] \in Releasing /\ Bookkeeping
    BY <1>0, <1>3, NothingElse DEF ReleaseLoad
  <2>2. PICK p \in {"rel_store", "rel_swap"} : Goto(a, p)
    BY <1>3 DEF ReleaseLoad
  <2> QED BY <1>0, <2>1, <2>2, PcFacts, GotoIsGotoWith, GotoStep
<1>4. ASSUME storeReleasedFlow(a) PROVE IInv'
  <2>1. pc[a] \in Releasing /\ on[a] \in Flows /\ Born(on[a])
    BY <1>0, <1>4, PcFacts DEF storeReleasedFlow, IInv, ControlInv
  <2>2. Bookkeeping
    BY <1>4, <2>1 DEF storeReleasedFlow, IInv, TypeOK, ControlInv, Bookkeeping,
                      flow, race, outcome, history
  <2>3. Goto(a, "rel_swap")
    BY <1>4 DEF storeReleasedFlow
  <2> QED BY <1>0, <2>1, <2>2, <2>3, PcFacts, GotoIsGotoWith, GotoStep
<1> QED BY <1>1, <1>2, <1>3, <1>4, SucceedStep, TerminateStep, ReleaseSwapStep
        DEF FinishStep

\* Steps of the environment: time passes, a loopback listener goes away.
LEMMA ClockStepInv ==
  ASSUME IInv, NEW f \in Flows, ExpiresAtPasses(f) \/ ListenerCloses(f)
  PROVE  IInv'
<1>1. UNCHANGED <<coord, method, race, outcome, local, history>>
  BY DEF ExpiresAtPasses, ListenerCloses, flow
<1>2. TypeOK'
  BY <1>1 DEF IInv, TypeOK, ExpiresAtPasses, ListenerCloses, coord, flow, race,
              outcome, local, history
<1>3. ControlInv' /\ ReleaseInv' /\ SlotHeldUntilTerminal'
  BY <1>1 DEF IInv, ControlInv, ReleaseInv, SlotHeldUntilTerminal, Born,
              IsTerminal, coord, outcome, local
<1>4. WinnerInv' /\ OutcomeInv' /\ OutcomeTruthful'
  BY <1>1 DEF IInv, WinnerInv, OutcomeInv, OutcomeTruthful, race, outcome,
              local, history
<1> QED BY <1>2, <1>3, <1>4 DEF IInv

LEMMA NextIInv == IInv /\ [Next]_vars => IInv'
<1> SUFFICES ASSUME IInv, [Next]_vars PROVE IInv'
  OBVIOUS
<1>1. CASE UNCHANGED vars
  <2>1. UNCHANGED <<coord, flow, mu, expired, local, history>>
    BY <1>1 DEF vars
  <2>2. TypeOK'
    BY <2>1 DEF IInv, TypeOK, coord, flow, race, outcome, local, history
  <2>3. ControlInv' /\ ReleaseInv' /\ SlotHeldUntilTerminal'
    BY <2>1 DEF IInv, ControlInv, ReleaseInv, SlotHeldUntilTerminal, Born,
                IsTerminal, coord, flow, outcome, local
  <2>4. WinnerInv' /\ OutcomeInv' /\ OutcomeTruthful'
    BY <2>1 DEF IInv, WinnerInv, OutcomeInv, OutcomeTruthful, flow, race,
                outcome, local, history
  <2> QED BY <2>2, <2>3, <2>4 DEF IInv
<1>2. CASE Next
  BY <1>2, StartStepInv, RailStepInv, CancelStepInv, PollStepInv,
     ShutdownStepInv, TimerStepInv, FinishStepInv, ClockStepInv DEF Next
<1> QED BY <1>1, <1>2

-----------------------------------------------------------------------------
(* The theorems.                                                           *)

\* The invariant holds in every reachable state, for any sets of flows,
\* handlers and calls.
THEOREM Inductive == Spec => []IInv
BY InitIInv, NextIInv, PTL DEF Spec

\* Every variable stays in its type.
THEOREM TypeCorrect == Spec => []TypeOK
<1>1. IInv => TypeOK
  BY DEF IInv
<1> QED BY <1>1, Inductive, PTL

\* However many callback rails, cancels, reapers and pollers race for a
\* flow, at most one account row is inserted for it.
THEOREM OneRow == Spec => []OneRowPerFlow
<1>1. IInv => OneRowPerFlow
  BY DEF IInv, OutcomeInv, OneRowPerFlow
<1> QED BY <1>1, Inductive, PTL

\* A published success has its row and its winner, a published error has
\* its code and no row.
THEOREM Truthful == Spec => []OutcomeTruthful
<1>1. IInv => OutcomeTruthful
  BY DEF IInv
<1> QED BY <1>1, Inductive, PTL

\* Until Shutdown, no flow loses the slot before its outcome is published.
THEOREM SlotHeld == Spec => []SlotHeldUntilTerminal
<1>1. IInv => SlotHeldUntilTerminal
  BY DEF IInv
<1> QED BY <1>1, Inductive, PTL

\* What TerminalIsFinal says of one step.
Final == \A f \in Flows : IsTerminal(f) =>
           /\ status'[f] = status[f]
           /\ terminalError'[f] = terminalError[f]
           /\ consumedBy'[f] = consumedBy[f]
           /\ rows'[f] = rows[f]

\* A step that does not touch the outcome, or touches that of one flow
\* which is not terminal yet, is final.
LEMMA FinalStep == IInv /\ Next => Final
<1> SUFFICES ASSUME IInv, Next PROVE Final
  OBVIOUS
<1> DEFINE Same == UNCHANGED <<status, terminalError, consumedBy, rows>>
<1>1. ASSUME NEW g \in Flows, ~IsTerminal(g),
             \A f \in Flows : f # g =>
               /\ status'[f] = status[f]
               /\ terminalError'[f] = terminalError[f]
               /\ consumedBy'[f] = consumedBy[f]
               /\ rows'[f] = rows[f]
      PROVE  Final
  BY <1>1 DEF Final
<1>2. ASSUME Same PROVE Final
  BY <1>2 DEF Final
<1>3. ASSUME NEW c \in Callers, StartStep(c) PROVE Final
  <2>1. CASE \E f \in Flows, bound \in BOOLEAN : StartSwap(c, f, bound)
    <3>1. PICK f \in Flows, bound \in BOOLEAN : StartSwap(c, f, bound)
      BY <2>1
    <3> QED BY <1>1, <3>1 DEF StartSwap, Born, IsTerminal, Terminal, race, IInv,
                             TypeOK
  <2>2. CASE ~\E f \in Flows, bound \in BOOLEAN : StartSwap(c, f, bound)
    <3>1. Same
      BY <1>3, <2>2 DEF StartStep, StartCheck, StartFail,
         cleanupReleasedFlowsOnStart, StartArm, flow, race, outcome, history
    <3> QED BY <1>2, <3>1
  <2> QED BY <2>1, <2>2
<1>4. ASSUME NEW c \in Callers, RailStep(c) PROVE Final
  <2>1. CASE ConsumeWon(c) \/ DenyWon(c)
    <3>1. on[c] \in Flows
      BY <2>1, ActorFacts, PcFacts DEF ConsumeWon, DenyWon, IInv, ControlInv
    <3>2. ~IsTerminal(on[c])
      BY <2>1, <3>1 DEF ConsumeWon, DenyWon, IInv, OutcomeInv, IsTerminal,
                        Terminal
    <3>3. CASE ConsumeWon(c)
      BY <1>1, <3>1, <3>2, <3>3 DEF ConsumeWon, outcome, history, IInv, TypeOK
    <3>4. CASE DenyWon(c)
      BY <1>1, <3>1, <3>2, <3>4 DEF DenyWon, history, IInv, TypeOK
    <3> QED BY <2>1, <3>3, <3>4
  <2>2. CASE ~(ConsumeWon(c) \/ DenyWon(c))
    <3>1. Same
      BY <1>4, <2>2 DEF RailStep, ConsumeCode, cancelFromRail, RailCall,
         classifyConsumedFlow, RailLost, ExchangeCode, flow, race, outcome,
         history
    <3> QED BY <1>2, <3>1
  <2> QED BY <2>1, <2>2
<1>5. ASSUME NEW c \in Callers, CancelStep(c) \/ ShutdownStep(c) PROVE Final
  <2>1. Same
    BY <1>5 DEF CancelStep, cancel, CancelCas, waitForTerminalStatus,
       WaitContextEnds, ShutdownStep, Shutdown, ShutdownLoad, ShutdownClear,
       flow, race, outcome, history
  <2> QED BY <1>2, <2>1
<1>6. ASSUME NEW c \in Callers, PollStep(c) PROVE Final
  <2>1. Same
    BY <1>6 DEF PollStep, GetFlow, latestReleasedFlow, snapshotCurrentFlow,
       snapshotLocked, snapshotTerminalFlowForPoll, flow, race, outcome, history
  <2> QED BY <1>2, <2>1
<1>7. ASSUME NEW f \in Flows,
             ExpiresAtPasses(f) \/ TimerStep(f) \/ ListenerCloses(f)
      PROVE  Final
  <2>1. Same
    BY <1>7 DEF ExpiresAtPasses, ListenerCloses, TimerStep, ReaperFires,
       PollerFires, PollPending, PollFailed, PollTokens, finishDeviceSuccess,
       finishDeviceFailure, flow, race, outcome, history
  <2> QED BY <1>2, <2>1
<1>8. ASSUME NEW a \in Actors, FinishStep(a) PROVE Final
  <2>1. CASE pc[a] \in Winning
    <3>1. on[a] \in Flows /\ ~IsTerminal(on[a])
      BY <2>1, PcFacts DEF IInv, ControlInv, WinnerInv, IsTerminal, Terminal
    <3>2. CASE persistConsumedFlow(a)
      BY <1>1, <3>1, <3>2 DEF persistConsumedFlow, flow, race, outcome, IInv, TypeOK
    <3>3. CASE Succeed(a)
      BY <1>1, <3>1, <3>3 DEF Succeed, race, history, IInv, TypeOK
    <3>4. CASE Terminate(a)
      BY <1>1, <3>1, <3>4 DEF Terminate, race, history, IInv, TypeOK
    <3>5. ~(ReleaseLoad(a) \/ storeReleasedFlow(a) \/ ReleaseSwap(a))
      BY <2>1 DEF ReleaseLoad, storeReleasedFlow, ReleaseSwap, Winning
    <3> QED BY <1>8, <3>2, <3>3, <3>4, <3>5 DEF FinishStep
  <2>2. CASE pc[a] \notin Winning
    <3>1. Same
      BY <1>8, <2>2 DEF FinishStep, persistConsumedFlow, Succeed, Terminate,
         Winning, ReleaseLoad, storeReleasedFlow, ReleaseSwap, flow, race,
         outcome, history
    <3> QED BY <1>2, <3>1
  <2> QED BY <2>1, <2>2
<1> QED BY <1>3, <1>4, <1>5, <1>6, <1>7, <1>8 DEF Next

\* Once published, a flow's outcome never changes, and no row is added.
THEOREM OutcomeFinal == Spec => TerminalIsFinal
<1>1. IInv /\ [Next]_vars => [Final]_vars
  BY FinalStep
<1>2. TerminalIsFinal <=> [][Final]_vars
  BY DEF TerminalIsFinal, Final
<1> QED BY <1>1, <1>2, Inductive, PTL DEF Spec

-----------------------------------------------------------------------------
(* OAuthFlow implements FlowRegister.                                      *)

\* The step leaves the register alone.
Unseen == UNCHANGED <<flowPtr, Life, rows, ~closed>>

LEMMA UnseenStep ==
  ASSUME UNCHANGED <<flowPtr, outcome, rows, closed>>
  PROVE  Unseen
BY DEF Unseen, Life, outcome

\* A pending flow is in progress for the register: while the router is up it has
\* the slot.
LEMMA PendingInProgress ==
  ASSUME IInv, NEW f \in Flows, status[f] = "pending"
  PROVE  Register!InProgress(f)
BY DEF IInv, SlotHeldUntilTerminal, Born, IsTerminal, Terminal, Life,
       Register!InProgress

\* A published error, by whomever, is a Fail of the register: the flow was pending
\* and had no row.
LEMMA ErrorFails ==
  ASSUME IInv, NEW f \in Flows, NEW code \in ErrorCodes,
         status[f] = "pending", rows[f] = 0,
         status' = [status EXCEPT ![f] = "error"],
         terminalError' = [terminalError EXCEPT ![f] = code],
         UNCHANGED <<flowPtr, rows, closed>>
  PROVE  Register!Fail(f, code)
<1>1. Register!InProgress(f)
  BY PendingInProgress
<1>2. Life' = [Life EXCEPT ![f] = code]
  BY DEF IInv, TypeOK, Life
<1> QED BY <1>1, <1>2 DEF Register!Fail

\* What an actor between its CAS and the outcome holds is pending.
LEMMA WinnerPending ==
  ASSUME IInv, NEW a \in Actors, pc[a] \in Winning
  PROVE  /\ on[a] \in Flows /\ status[on[a]] = "pending"
         /\ rows[on[a]] = IF pc[a] = "succeed" THEN 1 ELSE 0
         /\ pc[a] = "terminate" => arg[a] \in ErrorCodes
BY PcFacts DEF IInv, ControlInv, WinnerInv

LEMMA FinishRefines ==
  ASSUME IInv, NEW a \in Actors, FinishStep(a)
  PROVE  Register!Next \/ Unseen
<1>1. CASE persistConsumedFlow(a)
  <2>1. /\ on[a] \in Flows /\ status[on[a]] = "pending" /\ rows[on[a]] = 0
        /\ UNCHANGED <<flowPtr, outcome, closed>>
    BY <1>1, WinnerPending DEF persistConsumedFlow, Winning, coord, flow
  <2>2. rows' = rows \/ rows' = [rows EXCEPT ![on[a]] = 1]
    BY <1>1, <2>1 DEF persistConsumedFlow, IInv, TypeOK
  <2>3. ASSUME rows' = [rows EXCEPT ![on[a]] = 1] PROVE Register!Store(on[a])
    BY <2>1, <2>3, PendingInProgress DEF Register!Store, Life, outcome
  <2> QED BY <2>1, <2>2, <2>3, UnseenStep DEF Register!Next
<1>2. CASE Succeed(a)
  <2>1. /\ on[a] \in Flows /\ status[on[a]] = "pending" /\ rows[on[a]] = 1
        /\ status' = [status EXCEPT ![on[a]] = "success"]
        /\ UNCHANGED <<flowPtr, terminalError, rows, closed>>
    BY <1>2, WinnerPending DEF Succeed, Winning, coord, history
  <2>2. Life' = [Life EXCEPT ![on[a]] = "success"]
    BY <2>1 DEF IInv, TypeOK, Life
  <2>3. Register!Succeed(on[a])
    BY <2>1, <2>2, PendingInProgress DEF Register!Succeed
  <2> QED BY <2>1, <2>3 DEF Register!Next
<1>3. CASE Terminate(a)
  <2>1. /\ on[a] \in Flows /\ status[on[a]] = "pending" /\ rows[on[a]] = 0
        /\ arg[a] \in ErrorCodes
        /\ status' = [status EXCEPT ![on[a]] = "error"]
        /\ terminalError' = [terminalError EXCEPT ![on[a]] = arg[a]]
        /\ UNCHANGED <<flowPtr, rows, closed>>
    BY <1>3, WinnerPending DEF Terminate, Winning, coord, history
  <2>2. Register!Fail(on[a], arg[a])
    BY <2>1, ErrorFails
  <2> QED BY <2>1, <2>2 DEF Register!Next
<1>4. CASE ReleaseLoad(a) \/ storeReleasedFlow(a)
  <2>1. UNCHANGED <<flowPtr, outcome, rows, closed>>
    BY <1>4 DEF ReleaseLoad, storeReleasedFlow, coord, flow, history
  <2> QED BY <2>1, UnseenStep
<1>5. CASE ReleaseSwap(a)
  <2>1. UNCHANGED <<outcome, rows, closed>>
    BY <1>5 DEF ReleaseSwap, flow, history
  <2>2. CASE flowPtr = on[a]
    <3>1. on[a] \in Flows /\ (~closed => IsTerminal(on[a])) /\ flowPtr' = NoFlow
      BY <1>5, <2>2, PcFacts DEF ReleaseSwap, Releasing, IInv, ControlInv, ReleaseInv
    <3>2. IsTerminal(on[a]) => Register!Ended(on[a])
      BY <3>1 DEF IsTerminal, Terminal, Life, IInv, OutcomeTruthful, TypeOK,
                  Register!Ended
    <3>3. Register!Release(on[a])
      BY <2>1, <2>2, <3>1, <3>2 DEF Register!Release, Life, outcome
    <3> QED BY <3>1, <3>3 DEF Register!Next
  <2>3. CASE flowPtr # on[a]
    BY <1>5, <2>1, <2>3, UnseenStep DEF ReleaseSwap
  <2> QED BY <2>2, <2>3
<1> QED BY <1>1, <1>2, <1>3, <1>4, <1>5 DEF FinishStep

LEMMA NextRefines == IInv /\ Next => Register!Next \/ Unseen
<1> SUFFICES ASSUME IInv, Next PROVE Register!Next \/ Unseen
  OBVIOUS
<1> DEFINE Same == UNCHANGED <<flowPtr, outcome, rows, closed>>
<1>1. Same => Unseen
  BY UnseenStep
<1> HIDE DEF Same
<1>2. ASSUME NEW c \in Callers, StartStep(c) PROVE Register!Next \/ Unseen
  <2>1. CASE \E f \in Flows, bound \in BOOLEAN : StartSwap(c, f, bound)
    <3>1. PICK f \in Flows, bound \in BOOLEAN : StartSwap(c, f, bound)
      BY <2>1
    <3>2. /\ flowPtr = NoFlow /\ flowPtr' = f /\ status[f] = "unborn"
          /\ status' = [status EXCEPT ![f] = "pending"]
          /\ UNCHANGED <<terminalError, rows, closed>>
      BY <3>1 DEF StartSwap, Born
    <3>3. Life[f] = "unborn" /\ Life' = [Life EXCEPT ![f] = "pending"]
      BY <3>2 DEF IInv, TypeOK, Life
    <3>4. Register!Start(f)
      BY <3>2, <3>3 DEF Register!Start
    <3> QED BY <3>4 DEF Register!Next
  <2>2. CASE ~\E f \in Flows, bound \in BOOLEAN : StartSwap(c, f, bound)
    <3>1. Same
      BY <1>2, <2>2 DEF Same, StartStep, StartCheck, StartFail,
         cleanupReleasedFlowsOnStart, StartArm, coord, flow, outcome, history
    <3> QED BY <1>1, <3>1
  <2> QED BY <2>1, <2>2
<1>3. ASSUME NEW c \in Callers, RailStep(c) PROVE Register!Next \/ Unseen
  <2>1. CASE DenyWon(c)
    <3>1. /\ on[c] \in Flows /\ ~consumed[on[c]] /\ Born(on[c])
          /\ "access_denied" \in ErrorCodes
      BY <2>1, ActorFacts, PcFacts DEF DenyWon, IInv, ControlInv, ErrorCodes
    <3>2. status[on[c]] = "pending" /\ rows[on[c]] = 0
      BY <3>1 DEF IInv, OutcomeInv, Born
    <3>3. Register!Fail(on[c], "access_denied")
      BY <2>1, <3>1, <3>2, ErrorFails DEF DenyWon, coord, history
    <3> QED BY <3>1, <3>3 DEF Register!Next
  <2>2. CASE ~DenyWon(c)
    <3>1. Same
      BY <1>3, <2>2 DEF Same, RailStep, ConsumeCode, cancelFromRail, RailCall,
         classifyConsumedFlow, RailLost, ConsumeWon, ExchangeCode, coord, flow,
         outcome, history
    <3> QED BY <1>1, <3>1
  <2> QED BY <2>1, <2>2
<1>4. ASSUME NEW c \in Callers, CancelStep(c) \/ PollStep(c)
      PROVE  Register!Next \/ Unseen
  <2>1. CASE CancelStep(c)
    BY <1>1, <2>1 DEF Same, CancelStep, cancel, CancelCas, waitForTerminalStatus,
       WaitContextEnds, coord, flow, outcome, history
  <2>2. CASE PollStep(c)
    BY <1>1, <2>2 DEF Same, PollStep, GetFlow, latestReleasedFlow,
       snapshotCurrentFlow, snapshotLocked, snapshotTerminalFlowForPoll, coord,
       flow, outcome, history
  <2> QED BY <1>4, <2>1, <2>2
<1>5. ASSUME NEW c \in Callers, ShutdownStep(c) PROVE Register!Next \/ Unseen
  <2>1. CASE Shutdown(c)
    <3>1. Register!Shutdown
      BY <2>1 DEF Shutdown, Register!Shutdown, Life, flow, outcome, history
    <3> QED BY <3>1 DEF Register!Next
  <2>2. CASE ShutdownLoad(c) \/ ShutdownClear(c)
    BY <1>1, <2>2 DEF Same, ShutdownLoad, ShutdownClear, coord, flow, history
  <2> QED BY <1>5, <2>1, <2>2 DEF ShutdownStep
<1>6. ASSUME NEW f \in Flows,
             ExpiresAtPasses(f) \/ TimerStep(f) \/ ListenerCloses(f)
      PROVE  Register!Next \/ Unseen
  <2>1. Same
    BY <1>6 DEF Same, ExpiresAtPasses, ListenerCloses, TimerStep, ReaperFires,
       PollerFires, PollPending, PollFailed, PollTokens, finishDeviceSuccess,
       finishDeviceFailure, coord, flow, outcome, history
  <2> QED BY <1>1, <2>1
<1> QED BY <1>2, <1>3, <1>4, <1>5, <1>6, FinishRefines DEF Next

\* Whatever rails, cancels, timers and Shutdown do to them, the flows take turns in
\* one slot, each with one start and at most one outcome that agrees with its row:
\* OAuthFlow implements FlowRegister.
THEOREM FlowsAreRegister == Spec => FlowsTakeTurns
<1>1. Init => Register!Init
  BY DEF Init, Register!Init, Life
<1>2. IInv /\ [Next]_vars => [Register!Next]_<<flowPtr, Life, rows, ~closed>>
  <2>1. UNCHANGED vars => Unseen
    BY UnseenStep DEF vars, coord, flow, history
  <2> QED BY <2>1, NextRefines DEF Unseen
<1> QED BY <1>1, <1>2, Inductive, PTL DEF Spec, FlowsTakeTurns, Register!Spec

-----------------------------------------------------------------------------
(* What a losing rail is told.                                             *)

\* f was consumed and nothing says by whom.
Unexplained(f) == /\ method[f] = "browser" /\ consumed[f]
                  /\ consumedBy[f] = "unknown" /\ status[f] = "pending"

\* The cancel or the reaper that won f is about to publish its error.
Closing(a, f) == /\ on[a] = f /\ pc[a] = "terminate"
                 /\ arg[a] \in {"cancelled", "expired"}

Claiming == {"classify", "cas_consume", "cas_deny", "cas_cancel"}

\* Rails come for browser flows only, a flow that is classified was consumed,
\* and an unexplained flow is in the window of a cancel or of the reaper.
LoserInv ==
  /\ \A a \in Actors : pc[a] = "cas_cancel" => arg[a] = "cancelled"
  /\ \A a \in Actors :
       pc[a] \in Claiming \ {"cas_cancel"} =>
         /\ method[on[a]] = "browser"
         /\ pc[a] = "classify" => consumed[on[a]]
  /\ \A f \in Flows : Unexplained(f) => \E a \in Actors : Closing(a, f)

-----------------------------------------------------------------------------
(* Where an outcome can be found.                                          *)

Starting == {"starting", "cleanup", "arm"}

\* startMu admits one start.  Until it has armed the timers and answered, the
\* flow is the newest one and only an operator's cancel can have ended it.
StartInv ==
  /\ \A a \in Actors : pc[a] \in Starting => a \in Callers /\ startMu
  /\ \A a, b \in Actors : pc[a] \in Starting /\ pc[b] \in Starting => a = b
  /\ \A a \in Actors : pc[a] \in {"cleanup", "arm"} =>
       /\ newest = on[a]
       /\ pc[Reaper(on[a])] = "idle" /\ pc[Poller(on[a])] = "idle"
       /\ IsTerminal(on[a]) => terminalError[on[a]] = "cancelled"
       /\ \A b \in Actors :
            on[b] = on[a] /\ pc[b] \in Winning \cup {"cas_consume", "cas_deny"}
              => pc[b] = "terminate" /\ arg[b] = "cancelled"

\* Before Shutdown one actor releases a flow: its winner.  It holds the slot
\* until its swap, and has stored the flow by then (a cancel during the start
\* may find the stored flow cleaned up).
ReleaserInv ==
  ~closed =>
    /\ \A a \in Actors : arg[a] # "shutdown" /\ pc[a] # "shut_clear"
    /\ \A a, b \in Actors :
         pc[a] \in Releasing /\ pc[b] \in Releasing /\ on[a] = on[b] => a = b
    /\ \A a \in Actors :
         pc[a] \in {"rel_store", "rel_swap"} => flowPtr = on[a]
    /\ \A a \in Actors :
         pc[a] = "rel_swap" => \/ terminalError[on[a]] = "cancelled"
                               \/ latestReleased = on[a] /\ on[a] \in releasedFlows

KeptInv ==
  /\ StartInv /\ ReleaserInv
  /\ flowPtr # NoFlow => newest = flowPtr
  /\ OutcomeKept

KInv == LoserInv /\ KeptInv

\* One actor goes on, not out of "terminate" and not to a place the invariant
\* watches, and no shared state it talks about changes.  After Shutdown any
\* actor may release.
PlainMove(a) ==
  /\ \A b \in Actors \ {a} : pc'[b] = pc[b] /\ on'[b] = on[b] /\ arg'[b] = arg[b]
  /\ pc[a] # "terminate" /\ pc[a] \notin Starting
  /\ pc'[a] \notin Claiming \cup Starting
  /\ pc'[a] \in Releasing \cup {"shut_clear"} => closed'
  /\ pc'[a] \in Winning => pc[a] \in Winning /\ on'[a] = on[a]
  /\ a \in Timers => pc[a] # "idle"
  /\ arg'[a] = "shutdown" => arg[a] = "shutdown" \/ closed'
  /\ UNCHANGED <<flowPtr, startMu, method, race, outcome, newest>>
  /\ closed => closed'
  /\ closed' \/ UNCHANGED <<releasedFlows, latestReleased>>
  /\ \A f \in Flows : reports'[f] = 0 => reports[f] = 0

LEMMA PlainStep ==
  ASSUME IInv, KInv, NEW a \in Actors, PlainMove(a)
  PROVE  KInv'
<1>0. LoserInv /\ StartInv /\ ReleaserInv /\ OutcomeKept
      /\ (flowPtr # NoFlow => newest = flowPtr)
  BY DEF KInv, KeptInv
<1>1. UNCHANGED <<flowPtr, startMu, method, consumed, consumedBy, status,
                  terminalError, newest>>
  BY DEF PlainMove, race, outcome
<1>2. LoserInv'
  BY <1>0, <1>1 DEF PlainMove, LoserInv, Unexplained, Closing, Claiming
<1>3. StartInv'
  <2>1. \A f \in Flows : Reaper(f) \in Actors /\ Poller(f) \in Actors
                         /\ Reaper(f) \in Timers /\ Poller(f) \in Timers
    BY ActorFacts
  <2>2. \A b \in Actors : pc'[b] \in Starting => b # a /\ pc[b] = pc'[b] /\ on'[b] = on[b]
    BY DEF PlainMove
  <2>3. \A b \in Actors : pc[b] \in {"cleanup", "arm"} => on[b] \in Flows
    BY PcFacts DEF IInv, ControlInv
  <2>4. \A f \in Flows : /\ pc[Reaper(f)] = "idle" => pc'[Reaper(f)] = "idle"
                         /\ pc[Poller(f)] = "idle" => pc'[Poller(f)] = "idle"
    BY <2>1 DEF PlainMove
  <2>5. {"cleanup", "arm"} \subseteq Starting
    BY DEF Starting
  <2>6. \A b \in Actors : b # a => pc'[b] = pc[b] /\ on'[b] = on[b] /\ arg'[b] = arg[b]
    BY DEF PlainMove
  <2>7. /\ pc[a] # "terminate"
        /\ pc'[a] \in Winning \cup {"cas_consume", "cas_deny"}
             => pc[a] \in Winning /\ on'[a] = on[a]
    BY DEF PlainMove, Claiming
  <2> QED BY <1>0, <1>1, <2>2, <2>3, <2>4, <2>5, <2>6, <2>7 DEF StartInv, IsTerminal
<1>4. ReleaserInv'
  BY <1>0, <1>1 DEF PlainMove, ReleaserInv, Releasing
<1>5. OutcomeKept'
  BY <1>0, <1>1 DEF PlainMove, OutcomeKept, Findable, IsTerminal
<1> QED BY <1>0, <1>1, <1>2, <1>3, <1>4, <1>5 DEF KInv, KeptInv

\* The steps that publish an outcome: DenyWon, Succeed, Terminate.
Publishes(a) ==
  /\ \A b \in Actors : pc'[b] = IF b = a THEN "rel_load" ELSE pc[b]
  /\ UNCHANGED <<on, arg, coord, method, history>>
  /\ pc[a] \in Winning \cup {"cas_deny"}
  /\ status'[on[a]] \in Terminal
  /\ pc[a] = "terminate" => terminalError'[on[a]] = arg[a]
  /\ consumed[on[a]] => consumed'[on[a]]
  /\ \A g \in Flows \ {on[a]} :
       /\ status'[g] = status[g] /\ terminalError'[g] = terminalError[g]
       /\ consumed'[g] = consumed[g] /\ consumedBy'[g] = consumedBy[g]

LEMMA PublishStep ==
  ASSUME IInv, KInv, NEW a \in Actors, Publishes(a),
         on[a] \in Flows, Born(on[a]), ~IsTerminal(on[a])
  PROVE  KInv'
<1>0. LoserInv /\ StartInv /\ ReleaserInv /\ OutcomeKept
      /\ (flowPtr # NoFlow => newest = flowPtr)
  BY DEF KInv, KeptInv
<1>1. /\ UNCHANGED <<flowPtr, closed, startMu, releasedFlows, latestReleased>>
      /\ UNCHANGED <<on, arg, method, reports, newest>>
  BY DEF Publishes, coord, history
<1>2. LoserInv'
  <2>1. \A f \in Flows : Unexplained(f)' => f # on[a] /\ Unexplained(f)
    BY <1>1 DEF Publishes, Unexplained, Terminal
  <2>2. \A f \in Flows \ {on[a]}, b \in Actors : Closing(b, f) => Closing(b, f)'
    BY <1>1 DEF Publishes, Closing
  <2>3. \A f \in Flows : Unexplained(f)' => \E b \in Actors : Closing(b, f)'
    BY <1>0, <2>1, <2>2 DEF LoserInv
  <2>4. \A b \in Actors : pc'[b] \in Claiming =>
          pc'[b] = pc[b] /\ on[b] \in Flows /\ (consumed[on[b]] => consumed'[on[b]])
    BY PcFacts DEF Publishes, Claiming, IInv, ControlInv
  <2> QED BY <1>0, <1>1, <2>3, <2>4 DEF LoserInv, Claiming
<1>3. StartInv'
  <2>1. \A b \in Actors : pc'[b] \in Starting => b # a /\ pc[b] = pc'[b]
    BY DEF Publishes, Starting
  <2>2. \A b \in Actors : pc[b] \in {"cleanup", "arm"} => on[b] \in Flows
    BY PcFacts DEF IInv, ControlInv
  <2>3. \A f \in Flows : /\ pc[Reaper(f)] = "idle" => pc'[Reaper(f)] = "idle"
                         /\ pc[Poller(f)] = "idle" => pc'[Poller(f)] = "idle"
    BY ActorFacts DEF Publishes, Winning
  <2>4. {"cleanup", "arm"} \subseteq Starting /\ "rel_load" \notin Winning
    BY DEF Starting, Winning
  <2>5. ASSUME NEW b \in Actors, pc'[b] \in {"cleanup", "arm"}, IsTerminal(on[b])'
        PROVE  terminalError'[on[b]] = "cancelled"
    <3>1. pc[b] \in {"cleanup", "arm"} /\ on[b] \in Flows
      BY <2>1, <2>2, <2>4, <2>5
    <3>2. CASE on[b] # on[a]
      BY <1>0, <1>1, <2>5, <3>1, <3>2 DEF StartInv, Publishes, IsTerminal
    <3>3. CASE on[b] = on[a]
      BY <1>0, <1>1, <3>1, <3>3 DEF StartInv, Publishes
    <3> QED BY <3>2, <3>3
  <2>6. \A b \in Actors : b # a => pc'[b] = pc[b]
    BY DEF Publishes
  <2>7. pc'[a] = "rel_load"
    BY DEF Publishes
  <2> QED BY <1>0, <1>1, <2>1, <2>2, <2>3, <2>4, <2>5, <2>6, <2>7 DEF StartInv
<1>4. ReleaserInv'
  <2>1. ASSUME ~closed, NEW b \in Actors, pc[b] \in Releasing PROVE on[b] # on[a]
    BY <2>1 DEF IInv, ReleaseInv
  <2>2. \A b \in Actors : pc'[b] = IF b = a THEN "rel_load" ELSE pc[b]
    BY DEF Publishes
  <2>3. \A b \in Actors : pc[b] \in Releasing => on[b] \in Flows
    BY PcFacts DEF IInv, ControlInv
  <2>4. \A b \in Actors : ~closed /\ pc[b] = "rel_swap" =>
          terminalError'[on[b]] = terminalError[on[b]]
    BY <2>1, <2>3 DEF Publishes, Releasing
  <2> QED BY <1>0, <1>1, <2>1, <2>2, <2>4 DEF ReleaserInv, Releasing
<1>5. OutcomeKept'
  <2> SUFFICES ASSUME NEW f \in Flows, newest = f, IsTerminal(f)', reports[f] = 0,
                      ~closed, terminalError'[f] # "cancelled"
               PROVE  Findable(f)'
    BY <1>1 DEF OutcomeKept
  <2>1. CASE f # on[a]
    BY <1>0, <1>1, <2>1 DEF OutcomeKept, Findable, Publishes, IsTerminal
  <2>2. CASE f = on[a]
    BY <1>1, <2>2 DEF Findable, IInv, SlotHeldUntilTerminal
  <2> QED BY <2>1, <2>2
<1> QED BY <1>0, <1>1, <1>2, <1>3, <1>4, <1>5 DEF KInv, KeptInv

\* The steps that win Consumed without publishing a rail.
LEMMA ClaimKeeps ==
  ASSUME IInv, KInv, NEW a \in Actors, NEW p, NEW x, Claims(a, p, x),
         \/ /\ a \in Callers /\ pc[a] = "cas_cancel"
            /\ p = "terminate" /\ x = "cancelled"
         \/ /\ a \in Timers /\ pc[a] \in {"armed", "polling", "dev_fail"}
            /\ method[on[a]] = "device" \/ (p = "terminate" /\ x = "expired")
  PROVE  KInv'
<1>0. LoserInv /\ StartInv /\ ReleaserInv /\ OutcomeKept
      /\ (flowPtr # NoFlow => newest = flowPtr)
  BY DEF KInv, KeptInv
<1>1. /\ UNCHANGED <<flowPtr, closed, startMu, releasedFlows, latestReleased>>
      /\ UNCHANGED <<on, method, consumedBy, status, terminalError, reports, newest>>
      /\ consumed' = [consumed EXCEPT ![on[a]] = TRUE]
      /\ on[a] \in Flows /\ p \in {"dev_finish", "terminate"}
      /\ pc'[a] = p /\ arg'[a] = x
      /\ \A b \in Actors \ {a} : pc'[b] = pc[b] /\ arg'[b] = arg[b]
  <2>1. pc \in [Actors -> Pcs] /\ on \in [Actors -> Flows \cup {NoFlow}]
        /\ arg \in [Actors -> Args]
    BY DEF IInv, TypeOK
  <2>2. /\ pc' = [pc EXCEPT ![a] = p] /\ on' = [on EXCEPT ![a] = on[a]]
        /\ arg' = [arg EXCEPT ![a] = x]
    BY DEF Claims, Moves
  <2>3. on' = on
    BY <2>1, <2>2
  <2>4. /\ UNCHANGED <<flowPtr, closed, startMu, releasedFlows, latestReleased>>
        /\ UNCHANGED <<method, consumedBy, status, terminalError, reports, newest>>
        /\ consumed' = [consumed EXCEPT ![on[a]] = TRUE]
        /\ on[a] \in Flows /\ p \in {"dev_finish", "terminate"}
    BY DEF Claims, coord, outcome, history
  <2> QED BY <2>1, <2>2, <2>3, <2>4
<1>2. LoserInv'
  <2>1. \A f \in Flows, b \in Actors : Closing(b, f) => Closing(b, f)'
    BY <1>1 DEF Closing
  <2>2. \A f \in Flows \ {on[a]} : Unexplained(f)' => Unexplained(f)
    BY <1>1 DEF Unexplained, IInv, TypeOK
  <2>3. Unexplained(on[a])' => Closing(a, on[a])'
    BY <1>1 DEF Unexplained, Closing
  <2>4. \A f \in Flows : Unexplained(f)' => \E b \in Actors : Closing(b, f)'
    BY <1>0, <1>1, <2>1, <2>2, <2>3 DEF LoserInv
  <2>5. \A b \in Actors : pc'[b] \in Claiming => b # a /\ on[b] \in Flows
    BY <1>1, PcFacts DEF Claiming, IInv, ControlInv
  <2>6. \A f \in Flows : consumed[f] => consumed'[f]
    BY <1>1 DEF IInv, TypeOK
  <2> QED BY <1>0, <1>1, <2>4, <2>5, <2>6 DEF LoserInv, Claiming
<1>3. StartInv'
  <2>1. \A b \in Actors : pc'[b] \in Starting => b # a /\ pc[b] = pc'[b]
    BY <1>1 DEF Starting
  <2>2. \A b \in Actors : pc[b] \in {"cleanup", "arm"} => on[b] \in Flows
    BY PcFacts DEF IInv, ControlInv
  <2>3. \A f \in Flows : /\ pc[Reaper(f)] = "idle" => pc'[Reaper(f)] = "idle"
                         /\ pc[Poller(f)] = "idle" => pc'[Poller(f)] = "idle"
    BY <1>1, ActorFacts
  <2>4. ASSUME NEW b \in Actors, pc[b] \in {"cleanup", "arm"}, on[b] = on[a]
        PROVE  p = "terminate" /\ x = "cancelled"
    <3>1. a \in Timers => on[a] = a[2] /\ (a = Reaper(on[a]) \/ a = Poller(on[a]))
      BY ActorFacts DEF IInv, ControlInv
    <3> QED BY <1>0, <2>4, <3>1 DEF StartInv
  <2>5. {"cleanup", "arm"} \subseteq Starting
    BY DEF Starting
  <2> QED BY <1>0, <1>1, <2>1, <2>2, <2>3, <2>4, <2>5 DEF StartInv, IsTerminal
<1>4. ReleaserInv'
  <2>1. x # "shutdown"
    BY DEF Claims
  <2> QED BY <1>0, <1>1, <2>1 DEF ReleaserInv, Releasing
<1>5. OutcomeKept'
  BY <1>0, <1>1 DEF OutcomeKept, Findable, IsTerminal
<1> QED BY <1>0, <1>1, <1>2, <1>3, <1>4, <1>5 DEF KInv, KeptInv

-----------------------------------------------------------------------------
(* One lemma per group of actions, again.                                  *)

\* A move of one actor that leaves everything else alone.
LEMMA PlainGoto ==
  ASSUME IInv, KInv, NEW a \in Actors, NEW p, NEW x, GotoWith(a, p, x),
         UNCHANGED <<coord, flow, reports, newest>>,
         pc[a] # "terminate", pc[a] \notin Starting, a \in Timers => pc[a] # "idle",
         p \notin Claiming \cup Starting \cup {"shut_clear"},
         p \in Releasing => closed, p \in Winning => pc[a] \in Winning,
         x = "shutdown" => arg[a] = "shutdown"
  PROVE  KInv'
<1>1. /\ pc'[a] = p /\ arg'[a] = x /\ on' = on
      /\ \A b \in Actors \ {a} : pc'[b] = pc[b] /\ arg'[b] = arg[b]
  BY DEF GotoWith, IInv, TypeOK
<1>2. UNCHANGED <<flowPtr, closed, startMu, releasedFlows, latestReleased, method,
                  race, outcome, newest, reports>>
  BY DEF coord, flow
<1>3. PlainMove(a)
  BY <1>1, <1>2 DEF PlainMove
<1> QED BY <1>3, PlainStep

LEMMA PlainReturn ==
  ASSUME IInv, KInv, NEW a \in Callers, Return(a),
         UNCHANGED <<coord, flow, reports, newest>>,
         pc[a] # "terminate", pc[a] \notin Starting
  PROVE  KInv'
<1>0. a \in Actors /\ a \notin Timers
  BY ActorFacts
<1>1. /\ pc'[a] = "idle" /\ arg'[a] = "none"
      /\ \A b \in Actors \ {a} : pc'[b] = pc[b] /\ arg'[b] = arg[b] /\ on'[b] = on[b]
  BY <1>0 DEF Return, IInv, TypeOK
<1>2. UNCHANGED <<flowPtr, closed, startMu, releasedFlows, latestReleased, method,
                  race, outcome, newest, reports>>
  BY DEF coord, flow
<1>3. "idle" \notin Claiming \cup Starting \cup Releasing \cup {"shut_clear"} \cup Winning
  BY DEF Claiming, Starting, Releasing, Winning
<1>4. PlainMove(a)
  BY <1>0, <1>1, <1>2, <1>3 DEF PlainMove
<1> QED BY <1>0, <1>4, PlainStep

LEMMA PollKeeps ==
  ASSUME IInv, KInv, NEW c \in Callers, PollStep(c)
  PROVE  KInv'
<1>1. c \in Actors /\ c \notin Timers
  BY ActorFacts
<1>2. PlainMove(c)
  <2>1. UNCHANGED <<flowPtr, closed, startMu, releasedFlows, latestReleased, method,
                    race, outcome, newest>>
    BY DEF PollStep, GetFlow, latestReleasedFlow, snapshotCurrentFlow,
       snapshotLocked, snapshotTerminalFlowForPoll, coord, flow, history
  <2>2. \A f \in Flows : reports'[f] = 0 => reports[f] = 0
    BY DEF PollStep, GetFlow, latestReleasedFlow, snapshotCurrentFlow,
       snapshotLocked, snapshotTerminalFlowForPoll, Reported, history, IInv, TypeOK
  <2>3. \A b \in Actors \ {c} : pc'[b] = pc[b] /\ on'[b] = on[b] /\ arg'[b] = arg[b]
    BY DEF PollStep, GetFlow, latestReleasedFlow, snapshotCurrentFlow,
       snapshotLocked, snapshotTerminalFlowForPoll, Call, Goto, Return, IInv, TypeOK
  <2>4. /\ pc[c] \in {"idle", "poll_released", "poll_status", "poll_pending",
                      "poll_terminal"}
        /\ pc'[c] \in {"idle", "poll_released", "poll_status", "poll_pending",
                       "poll_terminal"}
        /\ arg'[c] = "shutdown" => arg[c] = "shutdown"
    BY <1>1 DEF PollStep, GetFlow, latestReleasedFlow, snapshotCurrentFlow,
       snapshotLocked, snapshotTerminalFlowForPoll, Call, Goto, Return, IInv, TypeOK
  <2> QED BY <1>1, <2>1, <2>2, <2>3, <2>4
          DEF PlainMove, Claiming, Starting, Releasing, Winning
<1> QED BY <1>1, <1>2, PlainStep

LEMMA ShutdownKeeps ==
  ASSUME IInv, KInv, NEW c \in Callers, ShutdownStep(c)
  PROVE  KInv'
<1>1. c \in Actors /\ c \notin Timers
  BY ActorFacts
<1>2. closed' /\ pc[c] \in {"idle", "shut_load", "shut_clear"}
      /\ pc'[c] \in {"idle", "shut_load", "shut_clear", "rel_load"}
  <2>1. closed' = TRUE \/ (pc[c] \in {"shut_load", "shut_clear"} /\ closed' = closed)
    BY DEF ShutdownStep, Shutdown, ShutdownLoad, ShutdownClear, coord
  <2>2. pc[c] \in {"shut_load", "shut_clear"} => closed
    <3>1. ReleaseInv /\ ReleaserInv
      BY DEF IInv, KInv, KeptInv
    <3> QED BY <1>1, <3>1, Zenon DEF ReleaseInv, ReleaserInv
  <2>3. /\ pc[c] \in {"idle", "shut_load", "shut_clear"}
        /\ pc'[c] \in {"idle", "shut_load", "shut_clear", "rel_load"}
    BY <1>1 DEF ShutdownStep, Shutdown, ShutdownLoad, ShutdownClear, Call, Return,
                IInv, TypeOK
  <2> QED BY <2>1, <2>2, <2>3
<1>3. \A b \in Actors \ {c} : pc'[b] = pc[b] /\ on'[b] = on[b] /\ arg'[b] = arg[b]
  BY <1>1 DEF ShutdownStep, Shutdown, ShutdownLoad, ShutdownClear, Call, Return,
              IInv, TypeOK
<1>4. UNCHANGED <<flowPtr, startMu, method, race, outcome, newest, reports>>
  BY DEF ShutdownStep, Shutdown, ShutdownLoad, ShutdownClear, coord, flow, history
<1>5. PlainMove(c)
  BY <1>1, <1>2, <1>3, <1>4
  DEF PlainMove, Claiming, Starting, Releasing, Winning
<1> QED BY <1>1, <1>5, PlainStep

\* Time passes, a loopback listener goes away.
LEMMA ClockKeeps ==
  ASSUME KInv, NEW f \in Flows, ExpiresAtPasses(f) \/ ListenerCloses(f)
  PROVE  KInv'
<1>1. UNCHANGED <<flowPtr, closed, startMu, releasedFlows, latestReleased, method,
                  consumed, consumedBy, status, terminalError, pc, on, arg, reports,
                  newest>>
  BY DEF ExpiresAtPasses, ListenerCloses, coord, flow, race, outcome, local, history
<1>2. LoserInv'
  BY <1>1 DEF KInv, LoserInv, Unexplained, Closing
<1>3. StartInv' /\ ReleaserInv'
  BY <1>1 DEF KInv, KeptInv, StartInv, ReleaserInv, IsTerminal
<1>4. OutcomeKept'
  BY <1>1 DEF KInv, KeptInv, OutcomeKept, Findable, IsTerminal
<1> QED BY <1>1, <1>2, <1>3, <1>4 DEF KInv, KeptInv

LEMMA RailKeeps ==
  ASSUME IInv, KInv, NEW c \in Callers, RailStep(c)
  PROVE  KInv'
<1>0. /\ c \in Actors /\ c \notin Timers
      /\ LoserInv /\ StartInv /\ ReleaserInv /\ OutcomeKept
      /\ (flowPtr # NoFlow => newest = flowPtr)
  BY ActorFacts DEF KInv, KeptInv
<1>1. ASSUME NEW f \in Flows, NEW rail \in Rails, NEW name,
             NEW cas \in {"cas_consume", "cas_deny"},
             RailCall(c, name, f, rail, cas)
      PROVE  KInv'
  <2>1. /\ UNCHANGED <<flowPtr, closed, startMu, releasedFlows, latestReleased>>
        /\ UNCHANGED <<method, consumed, consumedBy, status, terminalError, reports,
                       newest>>
        /\ pc[c] = "idle" /\ pc'[c] \in {"classify", cas} /\ on'[c] = f
        /\ arg'[c] = rail /\ (pc'[c] = "classify" => consumed[f])
        /\ \A b \in Actors \ {c} : pc'[b] = pc[b] /\ on'[b] = on[b] /\ arg'[b] = arg[b]
    BY <1>0, <1>1 DEF RailCall, Call, coord, flow, race, outcome, history, IInv, TypeOK
  <2>2. method[f] = "browser" /\ Announced(f)
    BY <1>1 DEF RailCall, Reaches
  <2>3. LoserInv'
    <3>1. \A g \in Flows, b \in Actors : Closing(b, g) => Closing(b, g)'
      BY <2>1 DEF Closing
    <3>2. \A g \in Flows : Unexplained(g)' => \E b \in Actors : Closing(b, g)'
      BY <1>0, <2>1, <3>1 DEF LoserInv, Unexplained
    <3> QED BY <1>0, <2>1, <2>2, <3>2 DEF LoserInv, Claiming
  <2>4. StartInv'
    <3>1. \A b \in Actors : pc'[b] \in Starting => b # c /\ pc[b] = pc'[b] /\ on'[b] = on[b]
      BY <2>1 DEF Starting
    <3>2. \A b \in Actors : pc[b] \in {"cleanup", "arm"} => on[b] \in Flows /\ on[b] # f
      BY <1>0, <2>2, PcFacts DEF IInv, ControlInv, Announced, StartInv, Starting
    <3>3. \A g \in Flows : /\ pc'[Reaper(g)] = pc[Reaper(g)]
                           /\ pc'[Poller(g)] = pc[Poller(g)]
      BY <1>0, <2>1, ActorFacts
    <3>4. {"cleanup", "arm"} \subseteq Starting
      BY DEF Starting
    <3> QED BY <1>0, <2>1, <3>1, <3>2, <3>3, <3>4 DEF StartInv, IsTerminal
  <2>5. ReleaserInv'
    <3>1. rail # "shutdown"
      BY DEF Rails
    <3> QED BY <1>0, <2>1, <3>1 DEF ReleaserInv, Releasing
  <2>6. OutcomeKept'
    BY <1>0, <2>1 DEF OutcomeKept, Findable, IsTerminal
  <2> QED BY <1>0, <2>1, <2>3, <2>4, <2>5, <2>6 DEF KInv, KeptInv
<1>2. ASSUME classifyConsumedFlow(c) \/ RailLost(c) PROVE KInv'
  BY <1>2, PlainReturn DEF classifyConsumedFlow, RailLost, history, Starting
<1>3. ASSUME ExchangeCode(c) PROVE KInv'
  <2>1. PICK p \in {"persist", "terminate"}, x \in {"failed", arg[c]} : GotoWith(c, p, x)
    BY <1>0, <1>3, GotoIsGotoWith DEF ExchangeCode
  <2>2. pc[c] = "exchange" /\ UNCHANGED <<coord, flow, reports, newest>>
    BY <1>3 DEF ExchangeCode, history
  <2> QED BY <1>0, <2>1, <2>2, PlainGoto DEF Claiming, Starting, Winning, Releasing
<1>4. ASSUME ConsumeWon(c) PROVE KInv'
  <2>1. /\ UNCHANGED <<flowPtr, closed, startMu, releasedFlows, latestReleased>>
        /\ UNCHANGED <<on, arg, method, status, terminalError, reports, newest>>
        /\ pc[c] = "cas_consume" /\ pc'[c] = "exchange"
        /\ consumed' = [consumed EXCEPT ![on[c]] = TRUE]
        /\ consumedBy' = [consumedBy EXCEPT ![on[c]] = arg[c]]
        /\ \A b \in Actors \ {c} : pc'[b] = pc[b]
    BY <1>0, <1>4 DEF ConsumeWon, Goto, coord, outcome, history, IInv, TypeOK
  <2>2. on[c] \in Flows /\ arg[c] \in Rails
    BY <1>0, <2>1, PcFacts DEF IInv, ControlInv
  <2>3. LoserInv'
    <3>1. \A g \in Flows, b \in Actors : Closing(b, g) => Closing(b, g)'
      BY <2>1 DEF Closing
    <3>2. \A g \in Flows : Unexplained(g)' => Unexplained(g)
      BY <2>1, <2>2 DEF Unexplained, Rails, IInv, TypeOK
    <3>3. \A g \in Flows : Unexplained(g)' => \E b \in Actors : Closing(b, g)'
      BY <1>0, <2>1, <3>1, <3>2 DEF LoserInv
    <3>4. \A b \in Actors : pc'[b] \in Claiming => b # c /\ on[b] \in Flows
      BY <2>1, PcFacts DEF Claiming, IInv, ControlInv
    <3>5. \A g \in Flows : consumed[g] => consumed'[g]
      BY <2>1 DEF IInv, TypeOK
    <3> QED BY <1>0, <2>1, <3>3, <3>4, <3>5 DEF LoserInv, Claiming
  <2>4. StartInv'
    <3>1. \A b \in Actors : pc'[b] \in Starting => b # c /\ pc[b] = pc'[b]
      BY <2>1 DEF Starting
    <3>2. \A g \in Flows : /\ pc'[Reaper(g)] = pc[Reaper(g)]
                           /\ pc'[Poller(g)] = pc[Poller(g)]
      BY <1>0, <2>1, ActorFacts
    <3>3. {"cleanup", "arm"} \subseteq Starting
      BY DEF Starting
    <3>4. \A b \in Actors : pc[b] \in {"cleanup", "arm"} => on[b] \in Flows
      BY PcFacts DEF IInv, ControlInv
    <3> QED BY <1>0, <2>1, <3>1, <3>2, <3>3, <3>4 DEF StartInv, IsTerminal
  <2>5. ReleaserInv' /\ OutcomeKept'
    BY <1>0, <2>1 DEF ReleaserInv, Releasing, OutcomeKept, Findable, IsTerminal
  <2> QED BY <1>0, <2>1, <2>3, <2>4, <2>5 DEF KInv, KeptInv
<1>5. ASSUME DenyWon(c) PROVE KInv'
  <2>1. on[c] \in Flows /\ Born(on[c]) /\ ~IsTerminal(on[c])
    BY <1>0, <1>5, PcFacts DEF DenyWon, IInv, ControlInv, OutcomeInv, IsTerminal,
                               Terminal, Born
  <2>2. Publishes(c)
    <3>1. /\ \A b \in Actors : pc'[b] = IF b = c THEN "rel_load" ELSE pc[b]
          /\ pc[c] = "cas_deny" /\ UNCHANGED <<on, arg, coord, method, history>>
      BY <1>0, <1>5 DEF DenyWon, Goto, IInv, TypeOK
    <3>2. /\ status'[on[c]] \in Terminal
          /\ consumed[on[c]] => consumed'[on[c]]
          /\ \A g \in Flows \ {on[c]} :
               /\ status'[g] = status[g] /\ terminalError'[g] = terminalError[g]
               /\ consumed'[g] = consumed[g] /\ consumedBy'[g] = consumedBy[g]
      BY <1>5, <2>1 DEF DenyWon, IInv, TypeOK, Terminal
    <3> QED BY <3>1, <3>2 DEF Publishes
  <2> QED BY <1>0, <2>1, <2>2, PublishStep
<1> QED BY <1>1, <1>2, <1>3, <1>4, <1>5 DEF RailStep, ConsumeCode, cancelFromRail

LEMMA CancelKeeps ==
  ASSUME IInv, KInv, NEW c \in Callers, CancelStep(c)
  PROVE  KInv'
<1>0. /\ c \in Actors /\ c \notin Timers
      /\ LoserInv /\ StartInv /\ ReleaserInv /\ OutcomeKept
      /\ (flowPtr # NoFlow => newest = flowPtr)
  BY ActorFacts DEF KInv, KeptInv
<1>1. ASSUME NEW f \in Flows, cancel(c, f) PROVE KInv'
  <2>1. /\ UNCHANGED <<flowPtr, closed, startMu, releasedFlows, latestReleased>>
        /\ UNCHANGED <<method, consumed, consumedBy, status, terminalError, reports,
                       newest>>
        /\ pc[c] = "idle" /\ pc'[c] = "cas_cancel" /\ arg'[c] = "cancelled"
        /\ \A b \in Actors \ {c} : pc'[b] = pc[b] /\ on'[b] = on[b] /\ arg'[b] = arg[b]
    BY <1>0, <1>1 DEF cancel, Call, coord, flow, race, outcome, history, IInv, TypeOK
  <2>2. LoserInv'
    <3>1. \A g \in Flows, b \in Actors : Closing(b, g) => Closing(b, g)'
      BY <2>1 DEF Closing
    <3>2. \A g \in Flows : Unexplained(g)' => \E b \in Actors : Closing(b, g)'
      BY <1>0, <2>1, <3>1 DEF LoserInv, Unexplained
    <3> QED BY <1>0, <2>1, <3>2 DEF LoserInv, Claiming
  <2>3. StartInv'
    <3>1. \A b \in Actors : pc'[b] \in Starting => b # c /\ pc[b] = pc'[b] /\ on'[b] = on[b]
      BY <2>1 DEF Starting
    <3>2. \A b \in Actors : pc[b] \in {"cleanup", "arm"} => on[b] \in Flows
      BY PcFacts DEF IInv, ControlInv
    <3>3. \A g \in Flows : /\ pc'[Reaper(g)] = pc[Reaper(g)]
                           /\ pc'[Poller(g)] = pc[Poller(g)]
      BY <1>0, <2>1, ActorFacts
    <3>4. {"cleanup", "arm"} \subseteq Starting /\ "cas_cancel" \notin Winning
      BY DEF Starting, Winning
    <3> QED BY <1>0, <2>1, <3>1, <3>2, <3>3, <3>4 DEF StartInv, IsTerminal
  <2>4. ReleaserInv' /\ OutcomeKept'
    BY <1>0, <2>1 DEF ReleaserInv, Releasing, OutcomeKept, Findable, IsTerminal
  <2> QED BY <1>0, <2>1, <2>2, <2>3, <2>4 DEF KInv, KeptInv
<1>2. ASSUME CancelCas(c), consumed[on[c]] PROVE KInv'
  <2>1. /\ GotoWith(c, "wait_terminal", arg[c]) /\ pc[c] = "cas_cancel"
        /\ UNCHANGED <<coord, flow, reports, newest>>
    BY <1>0, <1>2, GotoIsGotoWith DEF CancelCas, flow, race, history
  <2> QED BY <1>0, <2>1, PlainGoto DEF Claiming, Starting, Winning, Releasing
<1>3. ASSUME CancelCas(c), ~consumed[on[c]] PROVE KInv'
  <2>1. /\ on[c] \in Flows /\ Born(on[c]) /\ arg[c] = "cancelled"
        /\ pc[c] = "cas_cancel" /\ "cancelled" \in ErrorCodes
    BY <1>0, <1>3, PcFacts DEF CancelCas, IInv, ControlInv, LoserInv, ErrorCodes
  <2>2. Claims(c, "terminate", "cancelled")
    BY <1>0, <1>3, <2>1, PcFacts, ActorFacts
    DEF CancelCas, Claims, Moves, Goto, IInv, TypeOK
  <2> QED BY <1>0, <2>1, <2>2, ClaimKeeps
<1>4. ASSUME waitForTerminalStatus(c) \/ WaitContextEnds(c) PROVE KInv'
  BY <1>4, PlainReturn DEF waitForTerminalStatus, WaitContextEnds, history, Starting
<1> QED BY <1>1, <1>2, <1>3, <1>4 DEF CancelStep

LEMMA StartKeeps ==
  ASSUME IInv, KInv, NEW c \in Callers, StartStep(c)
  PROVE  KInv'
<1>0. /\ c \in Actors /\ c \notin Timers
      /\ LoserInv /\ StartInv /\ ReleaserInv /\ OutcomeKept
      /\ (flowPtr # NoFlow => newest = flowPtr)
  BY ActorFacts DEF KInv, KeptInv
<1>a. /\ {"cleanup", "arm"} \subseteq Starting /\ "starting" \in Starting
      /\ Starting \cap (Claiming \cup Winning \cup Releasing \cup
                        {"idle", "terminate", "shut_clear", "armed"}) = {}
      /\ "armed" \notin Claiming \cup Winning \cup Releasing
      /\ "idle" \notin Claiming \cup Winning \cup Releasing
      /\ {"rel_store", "rel_swap"} \subseteq Releasing
      /\ {"cas_consume", "cas_deny", "classify", "cas_cancel"} = Claiming
      /\ "terminate" \in Winning
  BY DEF Starting, Claiming, Winning, Releasing
\* A start leaves every other actor's control state alone, but for the timers
\* it arms.
<1>1. ASSUME /\ \A b \in Actors \ {c} :
                  pc'[b] = pc[b] /\ on'[b] = on[b] /\ arg'[b] = arg[b],
             pc[c] \in Starting \cup {"idle"}, pc'[c] \in Starting \cup {"idle"},
             UNCHANGED <<method, race, status>>
      PROVE  LoserInv'
  <2>1. \A g \in Flows, b \in Actors : Closing(b, g) => Closing(b, g)'
    BY <1>1, <1>a DEF Closing
  <2>2. \A g \in Flows : Unexplained(g)' => \E b \in Actors : Closing(b, g)'
    BY <1>0, <1>1, <2>1 DEF LoserInv, Unexplained, race
  <2> QED BY <1>0, <1>1, <1>a, <2>2 DEF LoserInv, race
<1>2. ASSUME NEW m \in Methods, StartCheck(c, m) PROVE KInv'
  <2>1. /\ UNCHANGED <<flowPtr, closed, releasedFlows, latestReleased>>
        /\ UNCHANGED <<method, race, status, terminalError, reports, newest>>
        /\ pc[c] = "idle" /\ pc'[c] = "starting" /\ arg'[c] = m
        /\ ~startMu /\ startMu'
        /\ \A b \in Actors \ {c} : pc'[b] = pc[b] /\ on'[b] = on[b] /\ arg'[b] = arg[b]
    BY <1>0, <1>2 DEF StartCheck, Call, flow, outcome, history, IInv, TypeOK
  <2>2. LoserInv'
    BY <1>1, <1>a, <2>1
  <2>3. StartInv'
    BY <1>0, <1>a, <2>1 DEF StartInv
  <2>4. ReleaserInv' /\ OutcomeKept'
    BY <1>0, <1>a, <2>1 DEF ReleaserInv, OutcomeKept, Findable, IsTerminal, Methods
  <2> QED BY <1>0, <2>1, <2>2, <2>3, <2>4 DEF KInv, KeptInv
<1>3. ASSUME StartFail(c) PROVE KInv'
  <2>1. /\ UNCHANGED <<flowPtr, closed, releasedFlows, latestReleased>>
        /\ UNCHANGED <<method, race, status, terminalError, reports, newest>>
        /\ pc[c] = "starting" /\ pc'[c] = "idle" /\ arg'[c] = "none"
        /\ \A b \in Actors \ {c} : pc'[b] = pc[b] /\ on'[b] = on[b] /\ arg'[b] = arg[b]
    BY <1>0, <1>3 DEF StartFail, Return, flow, outcome, history, IInv, TypeOK
  <2>2. LoserInv'
    BY <1>1, <1>a, <2>1
  <2>3. StartInv'
    BY <1>0, <1>a, <2>1 DEF StartInv
  <2>4. ReleaserInv' /\ OutcomeKept'
    BY <1>0, <1>a, <2>1 DEF ReleaserInv, OutcomeKept, Findable, IsTerminal
  <2> QED BY <1>0, <2>1, <2>2, <2>3, <2>4 DEF KInv, KeptInv
<1>4. ASSUME NEW f \in Flows, NEW bound \in BOOLEAN, StartSwap(c, f, bound) PROVE KInv'
  <2>1. /\ UNCHANGED <<closed, startMu, releasedFlows, latestReleased>>
        /\ UNCHANGED <<consumed, consumedBy, terminalError, reports>>
        /\ pc[c] = "starting" /\ pc'[c] = "cleanup" /\ arg'[c] = "none" /\ on'[c] = f
        /\ \A b \in Actors \ {c} : pc'[b] = pc[b] /\ on'[b] = on[b] /\ arg'[b] = arg[b]
        /\ flowPtr = NoFlow /\ flowPtr' = f /\ newest' = f
        /\ status[f] = "unborn" /\ status' = [status EXCEPT ![f] = "pending"]
        /\ \A g \in Flows \ {f} : method'[g] = method[g]
    BY <1>0, <1>4 DEF StartSwap, Born, race, IInv, TypeOK
  <2>2. ~consumed[f] /\ status'[f] = "pending"
        /\ \A g \in Flows \ {f} : status'[g] = status[g]
    BY <2>1 DEF IInv, OutcomeInv, TypeOK
  <2>3. \A b \in Actors : pc[b] \in Holding => on[b] \in Flows /\ on[b] # f
    BY <2>1 DEF IInv, ControlInv, Born
  <2>4. LoserInv'
    <3>1. \A g \in Flows, b \in Actors : Closing(b, g) => Closing(b, g)'
      BY <2>1 DEF Closing
    <3>2. \A g \in Flows : Unexplained(g)' => g # f /\ Unexplained(g)
      BY <2>1, <2>2 DEF Unexplained
    <3>3. \A g \in Flows : Unexplained(g)' => \E b \in Actors : Closing(b, g)'
      BY <1>0, <3>1, <3>2 DEF LoserInv
    <3>4. \A b \in Actors : pc'[b] \in Claiming =>
            b # c /\ pc'[b] = pc[b] /\ on[b] \in Flows \ {f}
      BY <1>a, <2>1, <2>3, PcFacts
    <3> QED BY <1>0, <1>a, <2>1, <3>3, <3>4 DEF LoserInv
  <2>5. StartInv'
    <3>1. pc[Reaper(f)] = "idle" /\ pc[Poller(f)] = "idle"
          /\ Reaper(f) \in Actors \ {c} /\ Poller(f) \in Actors \ {c}
      BY <1>0, <2>3, ActorFacts DEF IInv, ControlInv
    <3>2. \A b \in Actors : pc'[b] \in Starting => b = c
      BY <1>0, <1>a, <2>1 DEF StartInv
    <3>3. startMu
      BY <1>0, <1>a, <2>1 DEF StartInv
    <3>4. \A b \in Actors : on'[b] = f /\ pc'[b] \in Winning \cup {"cas_consume", "cas_deny"}
            => FALSE
      BY <1>a, <2>1, <2>3, PcFacts
    <3>5. ~IsTerminal(f)'
      BY <2>2 DEF IsTerminal, Terminal
    <3> QED BY <1>0, <2>1, <3>1, <3>2, <3>3, <3>4, <3>5, <1>a DEF StartInv
  <2>6. ReleaserInv'
    <3>1. ASSUME ~closed, NEW b \in Actors PROVE pc[b] \notin {"rel_store", "rel_swap"}
      BY <1>0, <1>a, <2>1, <2>3, <3>1, PcFacts, NoFlowAssumption DEF ReleaserInv
    <3> QED BY <1>0, <1>a, <2>1, <3>1 DEF ReleaserInv
  <2>7. OutcomeKept'
    BY <2>1, <2>2 DEF OutcomeKept, IsTerminal, Terminal
  <2> QED BY <2>1, <2>4, <2>5, <2>6, <2>7 DEF KInv, KeptInv
<1>5. ASSUME cleanupReleasedFlowsOnStart(c) PROVE KInv'
  <2>1. /\ UNCHANGED <<flowPtr, closed, startMu, on, arg>>
        /\ UNCHANGED <<method, race, status, terminalError, reports, newest>>
        /\ pc[c] = "cleanup" /\ pc'[c] = "arm"
        /\ \A b \in Actors \ {c} : pc'[b] = pc[b]
    BY <1>0, <1>5 DEF cleanupReleasedFlowsOnStart, Goto, flow, outcome, history,
                      IInv, TypeOK
  <2>2. LoserInv'
    BY <1>1, <1>a, <2>1
  <2>3. StartInv'
    <3>1. \A g \in Flows : /\ pc'[Reaper(g)] = pc[Reaper(g)]
                           /\ pc'[Poller(g)] = pc[Poller(g)]
      BY <1>0, <2>1, ActorFacts
    <3>2. \A b \in Actors : pc[b] \in {"cleanup", "arm"} => on[b] \in Flows
      BY PcFacts DEF IInv, ControlInv
    <3>3. \A b \in Actors : /\ pc'[b] \in Starting <=> pc[b] \in Starting
                            /\ pc'[b] \in {"cleanup", "arm"} <=> pc[b] \in {"cleanup", "arm"}
      BY <1>a, <2>1
    <3>4. \A b \in Actors : pc'[b] \in Winning \cup {"cas_consume", "cas_deny"} =>
            pc'[b] = pc[b]
      BY <1>a, <2>1
    <3> QED BY <1>0, <2>1, <3>1, <3>2, <3>3, <3>4 DEF StartInv, IsTerminal
  <2>4. newest = on[c] /\ (IsTerminal(newest) => terminalError[newest] = "cancelled")
    BY <1>0, <2>1 DEF StartInv
  <2>5. ReleaserInv'
    <3>1. ASSUME ~closed, NEW b \in Actors, pc[b] = "rel_swap"
          PROVE  terminalError[on[b]] = "cancelled"
      <4>1. on[b] = flowPtr /\ on[b] \in Flows /\ IsTerminal(on[b])
        BY <1>0, <1>a, <3>1, PcFacts DEF ReleaserInv, IInv, ControlInv, ReleaseInv
      <4>2. newest = on[b]
        BY <1>0, <4>1, NoFlowAssumption
      <4> QED BY <2>4, <4>1, <4>2
    <3> QED BY <1>0, <1>a, <2>1, <3>1 DEF ReleaserInv
  <2>6. OutcomeKept'
    BY <2>1, <2>4 DEF OutcomeKept, IsTerminal
  <2> QED BY <1>0, <2>1, <2>2, <2>3, <2>5, <2>6 DEF KInv, KeptInv
<1>6. ASSUME StartArm(c) PROVE KInv'
  <2> DEFINE r == Reaper(on[c])
             p == Poller(on[c])
  <2>1. /\ UNCHANGED <<flowPtr, closed, releasedFlows, latestReleased, arg>>
        /\ UNCHANGED <<method, race, status, terminalError, reports, newest>>
        /\ pc[c] = "arm" /\ on[c] \in Flows
    BY <1>0, <1>6, PcFacts DEF StartArm, flow, outcome, history, IInv, ControlInv
  <2>2. /\ r \in Actors \ {c} /\ p \in Actors \ {c} /\ r # p
        /\ pc[r] = "idle" /\ pc[p] = "idle"
    BY <1>0, <2>1, ActorFacts DEF StartInv
  <2>3. /\ pc'[c] = "idle" /\ pc'[r] = "armed" /\ pc'[p] \in {"idle", "armed"}
        /\ \A b \in Actors \ {c, r, p} : pc'[b] = pc[b]
        /\ \A b \in Actors \ {c} : on'[b] = on[b]
    BY <1>0, <1>6, <2>2 DEF StartArm, IInv, TypeOK
  <2> HIDE DEF r, p
  <2>4. \A b \in Actors : pc'[b] \notin {"idle", "armed"} =>
          pc'[b] = pc[b] /\ on'[b] = on[b]
    BY <2>2, <2>3
  <2>5. \A b \in Actors : pc[b] \notin {"idle", "arm"} =>
          pc'[b] = pc[b] /\ on'[b] = on[b]
    BY <2>1, <2>2, <2>3
  <2>6. LoserInv'
    <3>1. \A g \in Flows, b \in Actors : Closing(b, g) => Closing(b, g)'
      BY <2>1, <2>5 DEF Closing
    <3>2. \A g \in Flows : Unexplained(g)' => \E b \in Actors : Closing(b, g)'
      BY <1>0, <2>1, <3>1 DEF LoserInv, Unexplained, race
    <3>3. \A b \in Actors : pc'[b] \in Claiming => pc'[b] = pc[b] /\ on'[b] = on[b]
      BY <1>a, <2>4
    <3> QED BY <1>0, <1>a, <2>1, <3>2, <3>3 DEF LoserInv, race
  <2>7. \A b \in Actors : pc'[b] \notin Starting
    BY <1>0, <1>a, <2>1, <2>3, <2>4 DEF StartInv
  <2>8. StartInv'
    BY <1>a, <2>7 DEF StartInv
  <2>9. ReleaserInv'
    <3>1. \A b \in Actors : pc'[b] \in Releasing \cup {"shut_clear"} =>
            pc'[b] = pc[b] /\ on'[b] = on[b]
      BY <1>a, <2>4
    <3> QED BY <1>0, <1>a, <2>1, <3>1 DEF ReleaserInv
  <2>10. OutcomeKept'
    BY <1>0, <2>1 DEF OutcomeKept, Findable, IsTerminal
  <2> QED BY <1>0, <2>1, <2>6, <2>8, <2>9, <2>10 DEF KInv, KeptInv
<1> QED BY <1>2, <1>3, <1>4, <1>5, <1>6 DEF StartStep

LEMMA TimerKeeps ==
  ASSUME IInv, KInv, NEW f \in Flows, TimerStep(f)
  PROVE  KInv'
<1> DEFINE r == Reaper(f)
           p == Poller(f)
<1>0. /\ r \in Actors /\ r \in Timers /\ on[r] = f /\ r \notin Callers
      /\ p \in Actors /\ p \in Timers /\ on[p] = f /\ p \notin Callers
      /\ \A g \in Flows : /\ r # Poller(g) /\ p # Reaper(g)
                          /\ p = Poller(g) => g = f
      /\ arg[r] # "shutdown" /\ arg[p] # "shutdown"
      /\ arg[r] \in Args /\ arg[p] \in Args
  BY ActorFacts DEF IInv, TypeOK, ControlInv
<1> HIDE DEF r, p
<1>1. ASSUME NEW a \in {r, p}, NEW q \in {"idle", "armed", "polling", "dev_fail"},
             NEW x \in Args \ {"shutdown"}, GotoWith(a, q, x),
             pc[a] \in {"armed", "polling", "dev_fail", "dev_finish"},
             UNCHANGED <<coord, flow, history>>
      PROVE  KInv'
  BY <1>0, <1>1, PlainGoto DEF history, Claiming, Starting, Winning, Releasing
<1>2. ASSUME ReaperFires(f) PROVE KInv'
  <2>1. pc[r] = "armed" /\ Born(f)
    BY <1>0, <1>2, PcFacts DEF ReaperFires, r, IInv, ControlInv
  <2>2. CASE closed \/ consumed[f]
    <3>1. GotoWith(r, "idle", arg[r]) /\ UNCHANGED <<coord, flow, history>>
      BY <1>0, <1>2, <2>2, GotoIsGotoWith DEF ReaperFires, flow, race, r
    <3> QED BY <1>0, <1>1, <2>1, <3>1
  <2>3. CASE ~(closed \/ consumed[f])
    <3>1. Moves(r, "terminate", on[r], "expired") /\ "expired" \in ErrorCodes
      BY <1>0, <1>2, <2>3 DEF ReaperFires, r, GotoWith, Moves, IInv, TypeOK,
                              ErrorCodes
    <3>2. Claims(r, "terminate", "expired")
      BY <1>0, <1>2, <2>1, <2>3, <3>1, PcFacts DEF ReaperFires, Claims
    <3> QED BY <1>0, <2>1, <3>2, ClaimKeeps
  <2> QED BY <2>2, <2>3
<1>3. ASSUME PollerFires(f) \/ PollPending(f) \/ PollFailed(f) PROVE KInv'
  <2>1. pc[p] \in {"armed", "polling"} /\ UNCHANGED <<coord, flow, history>>
    BY <1>3 DEF PollerFires, PollPending, PollFailed, p
  <2>2. PICK q \in {"idle", "armed", "polling", "dev_fail"}, x \in Args \ {"shutdown"} :
          GotoWith(p, q, x)
    <3>1. CASE PollerFires(f) \/ PollPending(f)
      BY <1>0, <3>1, GotoIsGotoWith DEF PollerFires, PollPending, p
    <3>2. CASE PollFailed(f)
      BY <3>2 DEF PollFailed, p, Args, ErrorCodes
    <3> QED BY <1>3, <3>1, <3>2
  <2> QED BY <1>1, <2>1, <2>2
<1>4. ASSUME PollTokens(f) PROVE KInv'
  <2>1. pc[p] = "polling" /\ Born(f) /\ method[f] = "device"
    BY <1>0, <1>4, PcFacts DEF PollTokens, p, IInv, ControlInv
  <2>2. CASE consumed[f]
    <3>1. GotoWith(p, "idle", arg[p]) /\ UNCHANGED <<coord, flow, history>>
      BY <1>0, <1>4, <2>2, GotoIsGotoWith DEF PollTokens, flow, race, p
    <3> QED BY <1>0, <1>1, <2>1, <3>1
  <2>3. CASE ~consumed[f]
    <3>1. Moves(p, "dev_finish", on[p], arg[p])
      BY <1>0, <1>4, <2>3 DEF PollTokens, p, Goto, Moves, IInv, TypeOK
    <3>2. Claims(p, "dev_finish", arg[p])
      BY <1>0, <1>4, <2>1, <2>3, <3>1 DEF PollTokens, Claims
    <3> QED BY <1>0, <2>1, <3>2, ClaimKeeps
  <2> QED BY <2>2, <2>3
<1>5. ASSUME finishDeviceSuccess(f) PROVE KInv'
  <2>1. pc[p] = "dev_finish" /\ UNCHANGED <<coord, flow, reports, newest>>
    BY <1>5 DEF finishDeviceSuccess, p, history
  <2>2. PICK q \in {"rel_load", "persist", "terminate"}, x \in Args \ {"shutdown"} :
          GotoWith(p, q, x) /\ (q = "rel_load" => closed)
    BY <1>0, <1>5, GotoIsGotoWith DEF finishDeviceSuccess, p, Args, ErrorCodes
  <2> QED BY <1>0, <2>1, <2>2, PlainGoto DEF Claiming, Starting, Winning, Releasing
<1>6. ASSUME finishDeviceFailure(f) PROVE KInv'
  <2>1. /\ pc[p] = "dev_fail" /\ Born(f) /\ method[f] = "device"
        /\ arg[p] \in ErrorCodes
    BY <1>0, <1>6, PcFacts DEF finishDeviceFailure, p, IInv, ControlInv
  <2>2. CASE closed /\ Goto(p, "rel_load") /\ UNCHANGED consumed
    <3>1. GotoWith(p, "rel_load", arg[p]) /\ UNCHANGED <<coord, flow, reports, newest>>
      BY <1>0, <1>6, <2>2, GotoIsGotoWith DEF finishDeviceFailure, flow, race, history
    <3> QED BY <1>0, <2>1, <2>2, <3>1, PlainGoto
            DEF Claiming, Starting, Winning, Releasing
  <2>3. CASE Goto(p, "idle") /\ UNCHANGED consumed
    <3>1. GotoWith(p, "idle", arg[p]) /\ UNCHANGED <<coord, flow, history>>
      BY <1>0, <1>6, <2>3, GotoIsGotoWith DEF finishDeviceFailure, flow, race
    <3> QED BY <1>0, <1>1, <2>1, <3>1
  <2>4. CASE /\ ~consumed[f] /\ Goto(p, "terminate")
             /\ consumed' = [consumed EXCEPT ![f] = TRUE]
    <3>1. Moves(p, "terminate", on[p], arg[p])
      BY <1>0, <2>4 DEF Goto, Moves, IInv, TypeOK
    <3>2. Claims(p, "terminate", arg[p])
      BY <1>0, <1>6, <2>1, <2>4, <3>1 DEF finishDeviceFailure, Claims
    <3> QED BY <1>0, <2>1, <3>2, ClaimKeeps
  <2> QED BY <1>6, <2>2, <2>3, <2>4 DEF finishDeviceFailure, p
<1> QED BY <1>2, <1>3, <1>4, <1>5, <1>6 DEF TimerStep

\* The end of a winner's work: publish, then release.
LEMMA FinishKeeps ==
  ASSUME IInv, KInv, NEW a \in Actors, FinishStep(a)
  PROVE  KInv'
<1>0. LoserInv /\ StartInv /\ ReleaserInv /\ OutcomeKept
      /\ (flowPtr # NoFlow => newest = flowPtr)
  BY DEF KInv, KeptInv
<1>1. ASSUME persistConsumedFlow(a) PROVE KInv'
  <2>1. PICK p \in {"succeed", "terminate"}, x \in {"failed", arg[a]} : GotoWith(a, p, x)
    BY <1>1, GotoIsGotoWith DEF persistConsumedFlow
  <2>2. pc[a] = "persist" /\ UNCHANGED <<coord, flow, reports, newest>>
    BY <1>1 DEF persistConsumedFlow
  <2> QED BY <2>1, <2>2, PlainGoto DEF Claiming, Starting, Winning, Releasing
<1>2. ASSUME Succeed(a) \/ Terminate(a) PROVE KInv'
  <2>1. pc[a] \in {"succeed", "terminate"} /\ {"succeed", "terminate"} \subseteq Winning
    BY <1>2 DEF Succeed, Terminate, Winning
  <2>2. on[a] \in Flows /\ Born(on[a]) /\ ~IsTerminal(on[a])
    BY <2>1, PcFacts DEF IInv, ControlInv, WinnerInv, IsTerminal, Terminal, Born
  <2>3. Publishes(a)
    <3>1. \A b \in Actors : pc'[b] = IF b = a THEN "rel_load" ELSE pc[b]
      BY <1>2 DEF Succeed, Terminate, Goto, IInv, TypeOK
    <3>2. UNCHANGED <<on, arg, coord, method, race, history>>
      BY <1>2 DEF Succeed, Terminate, Goto
    <3>3. /\ status'[on[a]] \in Terminal
          /\ pc[a] = "terminate" => terminalError'[on[a]] = arg[a]
          /\ \A g \in Flows \ {on[a]} :
               status'[g] = status[g] /\ terminalError'[g] = terminalError[g]
      BY <1>2, <2>2 DEF Succeed, Terminate, IInv, TypeOK, Terminal
    <3> QED BY <2>1, <3>1, <3>2, <3>3 DEF Publishes, race
  <2> QED BY <2>2, <2>3, PublishStep
<1>3. ASSUME ReleaseLoad(a), flowPtr # on[a] PROVE KInv'
  <2>1. /\ UNCHANGED <<flowPtr, closed, startMu, releasedFlows, latestReleased, method,
                       race, outcome, newest, reports>>
        /\ pc[a] = "rel_load" /\ pc'[a] = AfterRelease(a) /\ arg'[a] = "none"
        /\ \A b \in Actors \ {a} : pc'[b] = pc[b] /\ on'[b] = on[b] /\ arg'[b] = arg[b]
    BY <1>3 DEF ReleaseLoad, Unlock, coord, flow, history, IInv, TypeOK
  <2>2. AfterRelease(a) = "idle" \/ (AfterRelease(a) = "shut_clear" /\ closed)
    <3>1. arg[a] = "shutdown" => closed
      BY <1>0, Zenon DEF ReleaserInv
    <3> QED BY <3>1 DEF AfterRelease
  <2>3. PlainMove(a)
    BY <2>1, <2>2 DEF PlainMove, Claiming, Starting, Releasing, Winning
  <2> QED BY <2>3, PlainStep
<1>4. ASSUME ReleaseLoad(a), flowPtr = on[a], closed PROVE KInv'
  <2>1. GotoWith(a, "rel_swap", arg[a]) /\ pc[a] = "rel_load"
        /\ UNCHANGED <<coord, flow, reports, newest>>
    BY <1>4, GotoIsGotoWith DEF ReleaseLoad, history
  <2> QED BY <1>4, <2>1, PlainGoto DEF Claiming, Starting, Winning, Releasing
\* From here on: a is the one that releases the current flow, before Shutdown.
<1>5. ASSUME UNCHANGED <<on, arg, closed, flowPtr, startMu, method, race, outcome,
                         newest, reports>>,
             pc[a] \in {"rel_load", "rel_store"}, pc'[a] \in {"rel_store", "rel_swap"},
             \A b \in Actors \ {a} : pc'[b] = pc[b]
      PROVE  LoserInv' /\ StartInv'
  <2>1. \A g \in Flows, b \in Actors : Closing(b, g) => Closing(b, g)'
    BY <1>5 DEF Closing
  <2>2. \A g \in Flows : Unexplained(g)' => \E b \in Actors : Closing(b, g)'
    BY <1>0, <1>5, <2>1 DEF LoserInv, Unexplained, race, outcome
  <2>3. \A b \in Actors : pc'[b] \in Claiming \cup Starting => b # a /\ pc'[b] = pc[b]
    BY <1>5 DEF Claiming, Starting
  <2>4. LoserInv'
    BY <1>0, <1>5, <2>2, <2>3 DEF LoserInv, race, Claiming
  <2>5. \A b \in Actors : pc[b] \in {"cleanup", "arm"} => on[b] \in Flows
    BY PcFacts DEF IInv, ControlInv
  <2>6. \A g \in Flows : /\ pc[Reaper(g)] = "idle" => pc'[Reaper(g)] = "idle"
                         /\ pc[Poller(g)] = "idle" => pc'[Poller(g)] = "idle"
    BY <1>5, ActorFacts
  <2>7. \A b \in Actors : pc'[b] \in Winning \cup {"cas_consume", "cas_deny"} =>
          pc'[b] = pc[b]
    BY <1>5 DEF Winning
  <2>8. {"cleanup", "arm"} \subseteq Starting
    BY DEF Starting
  <2>9. StartInv'
    BY <1>0, <1>5, <2>3, <2>5, <2>6, <2>7, <2>8 DEF StartInv, IsTerminal, outcome
  <2> QED BY <2>4, <2>9
<1>6. ASSUME ReleaseLoad(a), flowPtr = on[a], ~closed PROVE KInv'
  <2>1. /\ UNCHANGED <<on, arg, closed, flowPtr, startMu, method, race, outcome, newest,
                       reports>>
        /\ UNCHANGED <<releasedFlows, latestReleased>>
        /\ pc[a] = "rel_load" /\ pc'[a] = "rel_store"
        /\ \A b \in Actors \ {a} : pc'[b] = pc[b]
    BY <1>6 DEF ReleaseLoad, Goto, coord, flow, history, IInv, TypeOK
  <2>2. LoserInv' /\ StartInv'
    BY <1>5, <2>1
  <2>3. ReleaserInv'
    BY <1>0, <1>6, <2>1 DEF ReleaserInv, Releasing, outcome
  <2>4. OutcomeKept'
    BY <1>0, <2>1 DEF OutcomeKept, Findable, IsTerminal, outcome
  <2> QED BY <1>0, <2>1, <2>2, <2>3, <2>4 DEF KInv, KeptInv
<1>7. ASSUME storeReleasedFlow(a) PROVE KInv'
  <2>1. /\ UNCHANGED <<on, arg, closed, flowPtr, startMu, method, race, outcome, newest,
                       reports>>
        /\ pc[a] = "rel_store" /\ pc'[a] = "rel_swap"
        /\ \A b \in Actors \ {a} : pc'[b] = pc[b]
        /\ latestReleased' = on[a] /\ on[a] \in releasedFlows'
    BY <1>7 DEF storeReleasedFlow, Goto, flow, history, IInv, TypeOK
  <2>2. LoserInv' /\ StartInv'
    BY <1>5, <2>1
  <2>3. on[a] \in Flows /\ (~closed => flowPtr = on[a] /\ newest = on[a])
    BY <1>0, <2>1, PcFacts, NoFlowAssumption DEF ReleaserInv, IInv, ControlInv, Releasing
  <2>4. ReleaserInv'
    BY <1>0, <2>1, <2>3 DEF ReleaserInv, Releasing, outcome
  <2>5. OutcomeKept'
    BY <2>1, <2>3 DEF OutcomeKept, Findable
  <2> QED BY <1>0, <2>1, <2>2, <2>4, <2>5 DEF KInv, KeptInv
<1>8. ASSUME ReleaseSwap(a) PROVE KInv'
  <2>1. /\ UNCHANGED <<closed, startMu, releasedFlows, latestReleased, method, race,
                       outcome, newest, reports>>
        /\ pc[a] = "rel_swap" /\ pc'[a] = AfterRelease(a) /\ arg'[a] = "none"
        /\ \A b \in Actors \ {a} : /\ pc'[b] \in {"idle", pc[b]}
                                   /\ pc[b] # "armed" => pc'[b] = pc[b]
                                   /\ on'[b] = on[b] /\ arg'[b] = arg[b]
    BY <1>8 DEF ReleaseSwap, Unlock, flow, history, IInv, TypeOK
  <2>2. flowPtr' = IF flowPtr = on[a] THEN NoFlow ELSE flowPtr
    BY <1>8 DEF ReleaseSwap
  <2>3. AfterRelease(a) = "idle" \/ (AfterRelease(a) = "shut_clear" /\ closed)
    <3>1. arg[a] = "shutdown" => closed
      BY <1>0, Zenon DEF ReleaserInv
    <3> QED BY <3>1 DEF AfterRelease
  <2>4. \A b \in Actors : pc'[b] \notin {"idle", "shut_clear"} =>
          b # a /\ pc'[b] = pc[b] /\ on'[b] = on[b] /\ arg'[b] = arg[b]
    BY <2>1, <2>3
  <2>5. LoserInv'
    <3>1. \A g \in Flows, b \in Actors : Closing(b, g) => Closing(b, g)'
      BY <2>1 DEF Closing
    <3>2. \A g \in Flows : Unexplained(g)' => \E b \in Actors : Closing(b, g)'
      BY <1>0, <2>1, <3>1 DEF LoserInv, Unexplained, race, outcome
    <3> QED BY <1>0, <2>1, <2>4, <3>2 DEF LoserInv, Claiming, race
  <2>6. StartInv'
    <3>1. \A b \in Actors : pc[b] \in {"cleanup", "arm"} => on[b] \in Flows
      BY PcFacts DEF IInv, ControlInv
    <3>2. \A g \in Flows : /\ pc[Reaper(g)] = "idle" => pc'[Reaper(g)] = "idle"
                           /\ pc[Poller(g)] = "idle" => pc'[Poller(g)] = "idle"
      BY <2>1, ActorFacts
    <3>3. {"cleanup", "arm"} \subseteq Starting
          /\ {"idle", "shut_clear"} \cap (Starting \cup Winning) = {}
      BY DEF Starting, Winning
    <3>4. \A b \in Actors :
            pc'[b] \in Starting \cup Winning \cup {"cas_consume", "cas_deny"} =>
              b # a /\ pc'[b] = pc[b] /\ on'[b] = on[b] /\ arg'[b] = arg[b]
      BY <2>4, <3>3
    <3> QED BY <1>0, <2>1, <3>1, <3>2, <3>3, <3>4 DEF StartInv, IsTerminal, outcome
  <2>7. ReleaserInv'
    <3>1. \A b \in Actors \ {a} : ~closed /\ pc[b] \in {"rel_store", "rel_swap"} =>
            on[b] # on[a] /\ flowPtr # on[a]
      BY <1>0, <2>1 DEF ReleaserInv, Releasing
    <3>2. \A b \in Actors : pc'[b] \in Releasing =>
            b # a /\ pc'[b] = pc[b] /\ on'[b] = on[b]
      BY <2>4 DEF Releasing
    <3>3. ~closed => \A b \in Actors : arg'[b] # "shutdown" /\ pc'[b] # "shut_clear"
      BY <1>0, <2>1, <2>3 DEF ReleaserInv
    <3> QED BY <1>0, <2>1, <2>2, <3>1, <3>2, <3>3 DEF ReleaserInv, Releasing, outcome
  <2>8. OutcomeKept'
    BY <1>0, <2>1, <2>2 DEF OutcomeKept, Findable, IsTerminal, ReleaserInv, outcome
  <2> QED BY <1>0, <2>1, <2>2, <2>5, <2>6, <2>7, <2>8 DEF KInv, KeptInv
<1> QED BY <1>1, <1>2, <1>3, <1>4, <1>6, <1>7, <1>8 DEF FinishStep

LEMMA NextKInv == IInv /\ KInv /\ [Next]_vars => KInv'
<1> SUFFICES ASSUME IInv, KInv, [Next]_vars PROVE KInv'
  OBVIOUS
<1>1. CASE UNCHANGED vars
  <2>1. UNCHANGED <<flowPtr, closed, startMu, releasedFlows, latestReleased, method,
                    consumed, consumedBy, status, terminalError, pc, on, arg, reports,
                    newest>>
    BY <1>1 DEF vars, coord, flow, race, outcome, local, history
  <2>2. LoserInv'
    BY <2>1 DEF KInv, LoserInv, Unexplained, Closing
  <2>3. StartInv' /\ ReleaserInv'
    BY <2>1 DEF KInv, KeptInv, StartInv, ReleaserInv, IsTerminal
  <2>4. OutcomeKept'
    BY <2>1 DEF KInv, KeptInv, OutcomeKept, Findable, IsTerminal
  <2> QED BY <2>1, <2>2, <2>3, <2>4 DEF KInv, KeptInv
<1>2. CASE Next
  BY <1>2, StartKeeps, RailKeeps, CancelKeeps, PollKeeps, ShutdownKeeps, TimerKeeps,
     FinishKeeps, ClockKeeps DEF Next
<1> QED BY <1>1, <1>2

LEMMA InitKInv == Init => KInv
<1> SUFFICES ASSUME Init PROVE KInv
  OBVIOUS
<1>1. \A a \in Actors : pc[a] = "idle" /\ arg[a] = "none"
  BY DEF Init
<1>2. LoserInv
  BY <1>1 DEF Init, LoserInv, Claiming, Unexplained
<1>3. StartInv /\ ReleaserInv
  BY <1>1 DEF StartInv, ReleaserInv, Starting, Releasing
<1>4. OutcomeKept /\ flowPtr = NoFlow
  BY DEF Init, OutcomeKept, IsTerminal, Terminal
<1> QED BY <1>2, <1>3, <1>4 DEF KInv, KeptInv

LEMMA AlwaysKInv == Spec => []KInv
BY Inductive, InitKInv, NextKInv, PTL DEF Spec

\* A rail that loses to the other rail, or comes after the end of the flow, is told
\* so: the internal error of readWinnerRail is left for the window in which a
\* cancel or the reaper, which take Consumed without Flow.mu, has won and not
\* yet published.
THEOREM LoserToldRight == Spec => []LoserToldWhy
<1>1. IInv /\ KInv => LoserToldWhy
  <2> SUFFICES ASSUME IInv, KInv, NEW c \in Callers,
                      \/ pc[c] = "classify"
                      \/ pc[c] \in {"cas_consume", "cas_deny"} /\ consumed[on[c]],
                      LoserAnswer(c) = "internal"
               PROVE  \E a \in Actors : /\ on[a] = on[c] /\ pc[a] = "terminate"
                                        /\ arg[a] \in {"cancelled", "expired"}
    BY DEF LoserToldWhy
  <2>1. c \in Actors /\ on[c] \in Flows /\ Born(on[c])
    BY ActorFacts, PcFacts DEF IInv, ControlInv
  <2>2. method[on[c]] = "browser" /\ consumed[on[c]]
    BY <2>1 DEF KInv, LoserInv, Claiming
  <2>3. Rejected(on[c]) = "internal"
    BY DEF LoserAnswer, ClassifyAnswer
  <2>4. consumedBy[on[c]] = "unknown" /\ status[on[c]] # "error"
    BY <2>3 DEF Rejected
  <2>5. status[on[c]] = "pending"
    BY <2>1, <2>2, <2>4 DEF IInv, TypeOK, OutcomeTruthful, Born, Terminal
  <2>6. Unexplained(on[c])
    BY <2>2, <2>4, <2>5 DEF Unexplained
  <2> QED BY <2>1, <2>6 DEF KInv, LoserInv, Closing
<1> QED BY <1>1, Inductive, AlwaysKInv, PTL

\* Until it is reported or the next flow starts, an outcome the operator did not
\* ask for can be found by GetFlow, however ReleaseFlow, the next start's
\* cleanup and the timers interleave.
THEOREM OutcomeFindable == Spec => []OutcomeKept
<1>1. KInv => OutcomeKept
  BY DEF KInv, KeptInv
<1> QED BY <1>1, AlwaysKInv, PTL

=============================================================================
