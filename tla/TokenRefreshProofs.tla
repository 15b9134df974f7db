-------------------------- MODULE TokenRefreshProofs --------------------------
(***************************************************************************)
(* Proofs about TokenRefresh, for any callers, operators and bounds, when  *)
(* tokens live for at least two seconds: then a token set is never stale   *)
(* in the second it was stored, so last_refresh tells token sets apart     *)
(* although SQLite keeps it in whole seconds.                              *)
(***************************************************************************)
EXTENDS TokenRefresh, TLAPS

IInv == TypeOK /\ FlightInv /\ StampInv /\ FreshInv /\ AnswerPersisted

\* The answer and the wakeup that a finished flight leaves behind.
LEMMA FinishEffect ==
  ASSUME NEW c \in Callers, NEW kind, NEW g, TypeOK, Finish(c, kind, g)
  PROVE  /\ leader' = NoCaller /\ fresh' = fresh
         /\ snap' = snap /\ retried' = retried /\ picked' = picked
         /\ \A d \in Callers :
              \/ /\ d \in Members(c) /\ pc'[d] = "idle"
                 /\ answer'[d] = [kind |-> kind, gen |-> g]
              \/ d \notin Members(c) /\ pc'[d] = pc[d] /\ answer'[d] = answer[d]
         /\ DOMAIN pc' = Callers /\ DOMAIN answer' = Callers
         /\ pc' \in [Callers -> Pcs]
         /\ kind \in Kinds /\ g \in Generations =>
              answer' \in [Callers -> [kind : Kinds, gen : Generations]]
  BY DEF Finish, TypeOK, Pcs, InFlight, Kinds

LEMMA ConflictEffect ==
  ASSUME NEW c \in Callers, TypeOK, Conflict(c)
  PROVE  /\ leader' = NoCaller /\ fresh' = fresh
         /\ snap' = snap /\ retried' = retried /\ picked' = picked
         /\ \A d \in Callers :
              \/ /\ d \in Members(c) /\ pc'[d] = "idle"
                 /\ answer'[d] = [kind |-> "error", gen |-> 1]
              \/ /\ d \in Members(c) /\ pc'[d] = "reload"
                 /\ answer'[d] = answer[d]
              \/ d \notin Members(c) /\ pc'[d] = pc[d] /\ answer'[d] = answer[d]
         /\ pc' \in [Callers -> Pcs]
         /\ answer' \in [Callers -> [kind : Kinds, gen : Generations]]
  <1>1. 1 \in Generations
    BY BoundsAssumption DEF Generations
  <1>. QED  BY <1>1 DEF Conflict, TypeOK, Pcs, InFlight, Kinds

\* A flight that ends without touching the row keeps the invariant, whatever
\* it answers: an error, a fallback to the leader's copy, or a conflict.
LEMMA EndOfFlight ==
  ASSUME IInv, NEW c \in Callers, pc[c] \in InFlight,
         Fail(c) \/ Finish(c, "fallback", snap[c].gen) \/ Conflict(c),
         row' = row, now' = now, AdminTypeOK', rejected' = rejected,
         issued' \in Generations, issued <= issued'
  PROVE  IInv'
  <1>0. TypeOK /\ 1 \in Generations
    BY BoundsAssumption DEF Generations, IInv
  <1>1. leader = c
    BY DEF IInv, FlightInv
  <1>2. /\ leader' = NoCaller /\ fresh' = fresh
        /\ snap' = snap /\ retried' = retried /\ picked' = picked
        /\ pc' \in [Callers -> Pcs]
        /\ answer' \in [Callers -> [kind : Kinds, gen : Generations]]
        /\ \A d \in Callers :
             \/ /\ d \in Members(c) /\ pc'[d] \in {"idle", "reload"}
                /\ \/ answer'[d] = [kind |-> "error", gen |-> 1]
                   \/ answer'[d] = [kind |-> "fallback", gen |-> snap[c].gen]
                   \/ answer'[d] = answer[d]
             \/ d \notin Members(c) /\ pc'[d] = pc[d] /\ answer'[d] = answer[d]
    <2>1. CASE Conflict(c)
      BY <2>1, <1>0, ConflictEffect
    <2>2. CASE Fail(c)
      BY <2>2, <1>0, FinishEffect DEF Fail, Kinds
    <2>3. CASE Finish(c, "fallback", snap[c].gen)
      BY <2>3, <1>0, FinishEffect DEF Kinds, TypeOK, Copies
    <2>. QED  BY <2>1, <2>2, <2>3
  <1>3. TypeOK'
    BY <1>0, <1>2 DEF TypeOK, row
  <1>4. \A d \in Callers : pc'[d] \notin InFlight /\ pc'[d] # "joined"
    BY <1>1, <1>2 DEF IInv, FlightInv, Members, InFlight
  <1>5. FlightInv'
    BY <1>2, <1>4, NoCallerAssumption DEF FlightInv
  <1>6. \A d \in Callers : pc'[d] # "idle" => pc[d] # "idle"
    BY <1>2 DEF Members, InFlight
  <1>7. StampInv'
    BY <1>2, <1>6 DEF IInv, StampInv, row
  <1>8. FreshInv'
    BY <1>4 DEF IInv, FreshInv, InFlight, row, TypeOK, Generations
  <1>9. snap[c].gen <= gen
    BY DEF IInv, StampInv, InFlight
  <1>10. AnswerPersisted'
    BY <1>2, <1>9 DEF IInv, AnswerPersisted, row
  <1>. QED  BY <1>3, <1>5, <1>7, <1>8, <1>10 DEF IInv

\* The saved tokens become the row's: everyone else's copy is now older, in
\* generation and in stamp.
LEMMA SaveKeeps ==
  ASSUME Life >= 2, IInv, NEW c \in Callers, SaveUpdate(c)
  PROVE  IInv'
  <1>0. TypeOK
    BY DEF IInv
  <1>1. CASE Fail(c) /\ UNCHANGED row
    BY <1>1, EndOfFlight DEF SaveUpdate, InFlight, provider, adminVars, IInv,
       TypeOK, AdminTypeOK, Generations
  <1>2. CASE Goto(c, "save_miss") /\ UNCHANGED <<row, flight>>
    BY <1>2 DEF SaveUpdate, Goto, IInv, TypeOK, AdminTypeOK, FlightInv, StampInv,
       FreshInv, AnswerPersisted, InFlight, Pcs, row, flight, provider,
       adminVars
  <1>3. CASE /\ status # "deleted" /\ Current(snap[c])
             /\ gen' = fresh.gen /\ lastRefresh' = fresh.at
             /\ Finish(c, "token", fresh.gen)
    <2>0. /\ pc[c] = "save_update" /\ now' = now
          /\ issued' = issued /\ rejected' = rejected
          /\ status' = status /\ adminPc' = adminPc
          /\ everDeleted' = everDeleted
      BY DEF SaveUpdate, provider, adminVars
    <2>1. /\ leader' = NoCaller /\ fresh' = fresh
          /\ snap' = snap /\ retried' = retried /\ picked' = picked
          /\ pc' \in [Callers -> Pcs]
          /\ answer' \in [Callers -> [kind : Kinds, gen : Generations]]
          /\ \A d \in Callers :
               \/ /\ d \in Members(c) /\ pc'[d] = "idle"
                  /\ answer'[d] = [kind |-> "token", gen |-> fresh.gen]
               \/ d \notin Members(c) /\ pc'[d] = pc[d] /\ answer'[d] = answer[d]
      BY <1>0, <1>3, FinishEffect DEF TypeOK, Copies, Kinds
    <2>2. TypeOK'
      BY <1>0, <1>3, <2>0, <2>1 DEF TypeOK, AdminTypeOK, Copies
    <2>3. \A d \in Callers : pc'[d] \notin InFlight /\ pc'[d] # "joined"
      BY <2>0, <2>1 DEF IInv, FlightInv, Members, InFlight
    <2>4. FlightInv'
      BY <2>1, <2>3, NoCallerAssumption DEF FlightInv
    <2>5. /\ gen = snap[c].gen /\ lastRefresh = snap[c].at
          /\ gen' = gen + 1 /\ gen' = issued
          /\ lastRefresh < lastRefresh' /\ lastRefresh' <= now
      BY <1>3, <2>0 DEF IInv, StampInv, FreshInv, Current, TypeOK, Copies
    <2>6. \A d \in Callers : pc[d] # "idle" => picked[d] <= gen /\ snap[d].gen <= gen
      BY DEF IInv, StampInv, TypeOK, Copies, Generations
    <2>7. StampInv'
      <3>1. ASSUME NEW d \in Callers, pc'[d] # "idle"
            PROVE  /\ snap[d].gen <= gen' /\ snap[d].at < lastRefresh'
                   /\ picked[d] <= snap[d].gen
        <4>1. pc[d] # "idle"
          BY <2>1, <3>1
        <4>2. /\ snap[d].gen <= gen /\ snap[d].at <= lastRefresh
              /\ picked[d] <= snap[d].gen
          BY <4>1 DEF IInv, StampInv
        <4>3. /\ snap[d].gen \in Int /\ snap[d].at \in Int
              /\ gen \in Int /\ lastRefresh \in Int /\ lastRefresh' \in Int
          BY <1>0, <1>3 DEF TypeOK, Copies, Generations
        <4>. QED  BY <2>5, <4>2, <4>3
      <3>2. \A d \in Callers : snap[d].at \in Int /\ lastRefresh' \in Int
        BY <1>0, <1>3 DEF TypeOK, Copies
      <3>. QED  BY <2>0, <2>1, <2>5, <3>1, <3>2 DEF StampInv
    <2>8. FreshInv'
      BY <2>0, <2>3, <2>5 DEF FreshInv, InFlight, IInv, TypeOK, Generations
    <2>9. AnswerPersisted'
      BY <1>0, <1>3, <2>0, <2>1, <2>5, <2>6
      DEF IInv, AnswerPersisted, Members, TypeOK, Generations
    <2>. QED  BY <2>2, <2>4, <2>7, <2>8, <2>9 DEF IInv
  <1>. QED  BY <1>1, <1>2, <1>3 DEF SaveUpdate

LEMMA Preserved ==
  ASSUME Life >= 2, IInv, Next
  PROVE  IInv'
  <1>0. TypeOK /\ 1 \in Generations
    BY BoundsAssumption DEF Generations, IInv
  <1>1. ASSUME NEW c \in Callers, Pick(c)
        PROVE  IInv'
    BY <1>0, <1>1 DEF Pick, Stored, NoAnswer, IInv, TypeOK, AdminTypeOK,
       FlightInv, StampInv, FreshInv, AnswerPersisted, InFlight, Pcs, Copies,
       Kinds, Generations, row, flight, provider, adminVars
  <1>2. ASSUME NEW c \in Callers, StillFresh(c)
        PROVE  IInv'
    BY <1>0, <1>2 DEF StillFresh, Return, IInv, TypeOK, AdminTypeOK,
       FlightInv, StampInv, FreshInv, AnswerPersisted, InFlight, Pcs, Copies,
       Kinds, row, flight, provider, adminVars
  <1>3. ASSUME NEW c \in Callers, Lead(c)
        PROVE  IInv'
    <2>1. TypeOK' /\ StampInv' /\ AnswerPersisted'
      BY <1>0, <1>3 DEF Lead, Goto, IInv, TypeOK, AdminTypeOK, StampInv,
         AnswerPersisted, InFlight, Pcs, row, provider, adminVars
    <2>2. FlightInv'
      BY <1>0, <1>3, NoCallerAssumption DEF Lead, Goto, IInv, TypeOK,
         FlightInv, InFlight
    <2>3. FreshInv'
      BY <1>0, <1>3 DEF Lead, Goto, MayBeStale, IInv, TypeOK, FreshInv,
         InFlight, row, provider
    <2>. QED  BY <2>1, <2>2, <2>3 DEF IInv
  <1>4. ASSUME NEW c \in Callers, Join(c)
        PROVE  IInv'
    BY <1>0, <1>4 DEF Join, Goto, IInv, TypeOK, AdminTypeOK,
       FlightInv, StampInv, FreshInv, AnswerPersisted, InFlight, Pcs,
       row, flight, provider, adminVars
  <1>5. ASSUME NEW c \in Callers, RefreshRotated(c)
        PROVE  IInv'
    <2>0. /\ pc[c] = "refresh" /\ leader = c /\ snap[c].gen = issued
          /\ issued' = issued + 1 /\ issued < MaxIssued
          /\ fresh' = [gen |-> issued + 1, at |-> now]
          /\ pc' = [pc EXCEPT ![c] = "save_check"]
          /\ UNCHANGED <<snap, retried, picked, answer, leader, rejected, now,
                         gen, lastRefresh, status, adminPc, everDeleted>>
      BY <1>5 DEF RefreshRotated, Goto, row, adminVars, IInv, FlightInv, InFlight
    <2>1. TypeOK'
      BY <1>0, <2>0, BoundsAssumption
      DEF TypeOK, AdminTypeOK, Pcs, InFlight, Copies, Generations
    <2>2. FlightInv' /\ StampInv' /\ AnswerPersisted'
      BY <1>0, <2>0
      DEF IInv, FlightInv, StampInv, AnswerPersisted, InFlight, TypeOK
    <2>3. snap[c].at < now
      BY <1>0, <2>0, LifeAssumption DEF IInv, FreshInv, InFlight, TypeOK, Copies
    <2>4. FreshInv'
      BY <1>0, <2>0, <2>3
      DEF IInv, FlightInv, FreshInv, InFlight, TypeOK, Copies, Generations
    <2>. QED  BY <2>1, <2>2, <2>4 DEF IInv
  <1>6. ASSUME NEW c \in Callers, RefreshTransient(c)
        PROVE  IInv'
    BY <1>0, <1>6, EndOfFlight, BoundsAssumption DEF RefreshTransient, InFlight,
       TypeOK, AdminTypeOK, adminVars, Generations
  <1>7. ASSUME NEW c \in Callers, RefreshRejected(c)
        PROVE  IInv'
    BY <1>0, <1>7 DEF RefreshRejected, Goto, IInv, TypeOK, AdminTypeOK,
       FlightInv, StampInv, FreshInv, AnswerPersisted, InFlight, Pcs, Copies,
       row, flight, adminVars
  <1>8. ASSUME NEW c \in Callers, SaveCheck(c)
        PROVE  IInv'
    <2>1. CASE Fail(c)
      BY <1>0, <1>8, <2>1, EndOfFlight DEF SaveCheck, InFlight, provider,
         TypeOK, AdminTypeOK, adminVars, Generations
    <2>2. CASE Goto(c, "save_update") /\ UNCHANGED flight
      BY <1>0, <1>8, <2>2 DEF SaveCheck, Goto, IInv, TypeOK, AdminTypeOK,
         FlightInv, StampInv, FreshInv, AnswerPersisted, InFlight, Pcs,
         row, flight, provider, adminVars
    <2>. QED  BY <1>8, <2>1, <2>2 DEF SaveCheck
  <1>9. ASSUME NEW c \in Callers, SaveUpdate(c)
        PROVE  IInv'
    BY <1>9, SaveKeeps
  <1>10. ASSUME NEW c \in Callers, SaveMiss(c)
         PROVE  IInv'
    BY <1>0, <1>10, EndOfFlight DEF SaveMiss, InFlight, provider,
       TypeOK, AdminTypeOK, adminVars, Generations
  <1>11. ASSUME NEW c \in Callers, UpdateStatusIfCurrent(c)
         PROVE  IInv'
    BY <1>0, <1>11, EndOfFlight DEF UpdateStatusIfCurrent, SetStatus, InFlight,
       provider, TypeOK, AdminTypeOK, Statuses, Generations
  <1>12. ASSUME NEW c \in Callers, Reload(c)
         PROVE  IInv'
    <2>0. /\ picked[c] \in Int /\ snap[c].gen \in Int /\ gen \in Int
          /\ picked[c] <= gen
      BY <1>0, <1>12 DEF Reload, IInv, StampInv, TypeOK, Copies, Generations
    <2>1. TypeOK'
      <3>1. Stored \in Copies
        BY <1>0 DEF Stored, Copies, TypeOK
      <3>2. [kind |-> "error", gen |-> 1] \in [kind : Kinds, gen : Generations]
        BY <1>0 DEF Kinds
      <3>3. /\ pc' \in [Callers -> Pcs] /\ snap' \in [Callers -> Copies]
            /\ retried' \in [Callers -> BOOLEAN]
            /\ answer' \in [Callers -> [kind : Kinds, gen : Generations]]
            /\ picked' = picked
        <4>1. CASE pc' = [pc EXCEPT ![c] = "decide"] /\ UNCHANGED <<picked, answer>>
                   /\ snap' = [snap EXCEPT ![c] = Stored]
                   /\ retried' = [retried EXCEPT ![c] = TRUE]
          BY <1>0, <3>1, <4>1 DEF TypeOK, Pcs
        <4>2. CASE Return(c, "error", 1)
          BY <1>0, <3>2, <4>2 DEF Return, TypeOK, Pcs
        <4>. QED  BY <1>12, <4>1, <4>2 DEF Reload
      <3>. QED
        BY <1>0, <1>12, <3>3 DEF Reload, TypeOK, AdminTypeOK,
           row, flight, provider, adminVars
    <2>2. FlightInv' /\ FreshInv' /\ AnswerPersisted'
      BY <1>0, <1>12 DEF Reload, Return, IInv, TypeOK, FlightInv, FreshInv,
         AnswerPersisted, InFlight, row, flight, provider
    <2>3. StampInv'
      BY <1>0, <1>12, <2>0 DEF Reload, Return, Stored, IInv, TypeOK, StampInv,
         Copies, Generations, row
    <2>. QED  BY <2>1, <2>2, <2>3 DEF IInv
  <1>13. CASE AdminNext /\ UNCHANGED <<row, now, provider, flight, caller>>
    <2>1. AdminTypeOK'
      BY <1>0, <1>13 DEF AdminNext, Enable, Disable, Delete, Check, UpdateStatus,
         SetStatus, Target, TypeOK, AdminTypeOK, Statuses, Operations
    <2>. QED
      BY <1>0, <1>13, <2>1 DEF IInv, TypeOK, FlightInv, StampInv, FreshInv,
         AnswerPersisted, row, provider, flight, caller
  <1>14. CASE Tick
    <2>1. TypeOK' /\ FlightInv' /\ AnswerPersisted'
      BY <1>0, <1>14, BoundsAssumption DEF Tick, IInv, TypeOK, AdminTypeOK,
         FlightInv, AnswerPersisted, row, provider, flight, caller, adminVars
    <2>2. StampInv'
      BY <1>0, <1>14 DEF Tick, IInv, StampInv, TypeOK, row, caller
    <2>3. FreshInv'
      <3>1. /\ gen' = gen /\ issued' = issued /\ rejected' = rejected
            /\ fresh' = fresh /\ pc' = pc /\ snap' = snap /\ now' = now + 1
        BY <1>14 DEF Tick, row, provider, flight, caller
      <3>2. \A c \in Callers : snap[c].at \in Int
        BY <1>0 DEF TypeOK, Copies
      <3>3. now \in Int /\ fresh.at \in Int
        BY <1>0 DEF TypeOK, Copies
      <3>. QED  BY <3>1, <3>2, <3>3, LifeAssumption DEF IInv, FreshInv
    <2>. QED  BY <2>1, <2>2, <2>3 DEF IInv
  <1>. QED
    BY <1>1, <1>2, <1>3, <1>4, <1>5, <1>6, <1>7, <1>8, <1>9, <1>10, <1>11,
       <1>12, <1>13, <1>14 DEF Next, Step

LEMMA Initial == Init => IInv
  <1>1. 1 \in Generations /\ 0 \in 0 .. MaxTime
    BY BoundsAssumption DEF Generations
  <1>2. Init => AdminTypeOK
    BY DEF Init, AdminInit, AdminTypeOK, Statuses
  <1>3. Init => TypeOK
    <2>1. /\ [gen |-> 1, at |-> 0] \in Copies
          /\ NoAnswer \in [kind : Kinds, gen : Generations]
      BY <1>1 DEF Copies, NoAnswer, Kinds
    <2>. QED  BY <1>1, <1>2, <2>1 DEF Init, TypeOK, Pcs
  <1>4. Init => FlightInv /\ AnswerPersisted
    BY NoCallerAssumption DEF Init, FlightInv, AnswerPersisted, InFlight, NoAnswer
  <1>5. Init => StampInv /\ FreshInv
    BY DEF Init, StampInv, FreshInv, InFlight
  <1>. QED  BY <1>3, <1>4, <1>5 DEF IInv

\* The optimistic lock's invariant: one flight at a time, last_refresh tells
\* token sets apart, and the flight carries the newest tokens issued.
THEOREM Inductive ==
  ASSUME Life >= 2
  PROVE  Spec => []IInv
  <1>1. IInv /\ UNCHANGED vars => IInv'
    BY DEF IInv, TypeOK, AdminTypeOK, FlightInv, StampInv, FreshInv,
       AnswerPersisted, vars, row, provider, flight, caller, adminVars
  <1>. QED  BY Initial, Preserved, <1>1, PTL DEF Spec

\* Every variable stays in its type.
THEOREM TypeCorrect == ASSUME Life >= 2 PROVE Spec => []TypeOK
  BY Inductive, PTL DEF IInv

\* No caller is ever given a token that was not persisted, nor, unless it is
\* marked as fallback, one older than the row it picked.
THEOREM Persisted == ASSUME Life >= 2 PROVE Spec => []AnswerPersisted
  BY Inductive, PTL DEF IInv

\* No flight, however late, stores older tokens over newer ones.
THEOREM Forward == ASSUME Life >= 2 PROVE Spec => NoRollback
  <1>1. ASSUME IInv, Next, row' # row
        PROVE  gen' > gen /\ gen' = issued /\ lastRefresh' > lastRefresh
    <2>1. PICK c \in Callers : SaveUpdate(c) /\ row' # row
      BY <1>1 DEF Next, Step, Pick, StillFresh, Lead, Join, RefreshRotated,
         RefreshTransient, RefreshRejected, SaveCheck, SaveMiss,
         UpdateStatusIfCurrent, Reload, Tick
    <2>2. /\ pc[c] = "save_update" /\ Current(snap[c])
          /\ gen' = fresh.gen /\ lastRefresh' = fresh.at
      BY <2>1 DEF SaveUpdate
    <2>. QED
      BY <1>1, <2>2 DEF IInv, StampInv, FreshInv, Current, TypeOK, Copies,
         Generations
  <1>. QED  BY Inductive, <1>1, PTL DEF Spec, NoRollback, vars

\* The refresher disables an account only for the tokens that are stored.
THEOREM Justified == ASSUME Life >= 2 PROVE Spec => DisabledOnlyIfRejected
  <1>1. ASSUME IInv, Next, status' # status, adminPc' = adminPc
        PROVE  status' = "disabled" /\ gen \in rejected
    <2>0. TypeOK
      BY <1>1 DEF IInv
    <2>1. ~AdminNext
      BY <1>1, <2>0 DEF AdminNext, Enable, Disable, Delete, Check, UpdateStatus,
         TypeOK, AdminTypeOK, Operations
    <2>2. PICK c \in Callers : UpdateStatusIfCurrent(c)
      BY <1>1, <2>1 DEF Next, Step, Pick, StillFresh, Lead, Join, RefreshRotated,
         RefreshTransient, RefreshRejected, SaveCheck, SaveUpdate, SaveMiss,
         Reload, Tick, adminVars
    <2>3. pc[c] = "disable" /\ Current(snap[c]) /\ status' = "disabled"
      BY <1>1, <2>2 DEF UpdateStatusIfCurrent, SetStatus
    <2>. QED
      BY <1>1, <2>3 DEF IInv, StampInv, FreshInv, Current
  <1>. QED  BY Inductive, <1>1, PTL DEF Spec, DisabledOnlyIfRejected, vars
=============================================================================
