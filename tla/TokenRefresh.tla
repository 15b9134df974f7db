----------------------------- MODULE TokenRefresh -----------------------------
(***************************************************************************)
(* The access token of one OAuth account: Coordinator.RefreshIfStale, its  *)
(* singleflight, the optimistic UPDATEs of store.AccountRepo, and the      *)
(* operators who enable, disable and delete the row meanwhile.             *)
(*                                                                         *)
(* A token set is its generation: the provider answers a refresh token of  *)
(* generation g with generation g + 1 and accepts g no more.  Time is in   *)
(* whole seconds, the precision in which SQLite keeps last_refresh.        *)
(***************************************************************************)
EXTENDS AccountLifecycle, Integers

CONSTANTS Callers,    \* requests and usage-refresher passes
          NoCaller,
          Life,       \* expires_in of every token set, in seconds
          MaxTime,    \* bound of the clock
          MaxIssued   \* bound of the provider's generations

ASSUME LifeAssumption == Life \in Nat
ASSUME BoundsAssumption == MaxTime \in Nat /\ MaxIssued \in Nat \ {0}
ASSUME NoCallerAssumption == NoCaller \notin Callers

VARIABLES
  gen, lastRefresh,  \* the row's token set and its last_refresh column
  now,               \* the clock
  issued,            \* the newest generation the provider has handed out
  rejected,          \* generations it has answered with a permanent error
  leader,            \* the caller whose function singleflight runs
  fresh,             \* the leader's new tokens and its refreshedAt
  pc, snap, retried, \* per caller: where it is, its copy of the row, attempt
  picked,            \* the generation its pick read (history)
  answer             \* what RefreshIfStale returned to it last

row == <<gen, lastRefresh>>
provider == <<issued, rejected>>
flight == <<leader, fresh>>
caller == <<pc, snap, retried, picked, answer>>
vars == <<adminVars, row, now, provider, flight, caller>>

Generations == 1 .. MaxIssued
Copies == [gen : Generations, at : 0 .. MaxTime]
InFlight == {"refresh", "save_check", "save_update", "save_miss", "disable"}
Pcs == {"idle", "decide", "joined", "reload"} \cup InFlight
NoAnswer == [kind |-> "none", gen |-> 1]
Kinds == {"none", "token", "fallback", "error"}

TypeOK ==
  /\ AdminTypeOK
  /\ gen \in Generations /\ lastRefresh \in 0 .. MaxTime
  /\ now \in 0 .. MaxTime
  /\ issued \in Generations /\ rejected \subseteq Generations
  /\ leader \in Callers \cup {NoCaller}
  /\ fresh \in Copies
  /\ pc \in [Callers -> Pcs]
  /\ snap \in [Callers -> Copies]
  /\ retried \in [Callers -> BOOLEAN]
  /\ picked \in [Callers -> Generations]
  /\ answer \in [Callers -> [kind : Kinds, gen : Generations]]

\* An account as persistConsumedFlow leaves it.
Init ==
  /\ AdminInit
  /\ gen = 1 /\ lastRefresh = 0 /\ now = 0
  /\ issued = 1 /\ rejected = {}
  /\ leader = NoCaller /\ fresh = [gen |-> 1, at |-> 0]
  /\ pc = [c \in Callers |-> "idle"]
  /\ snap = [c \in Callers |-> [gen |-> 1, at |-> 0]]
  /\ retried = [c \in Callers |-> FALSE]
  /\ picked = [c \in Callers |-> 1]
  /\ answer = [c \in Callers |-> NoAnswer]

-----------------------------------------------------------------------------
Goto(c, p) ==
  /\ pc' = [pc EXCEPT ![c] = p]
  /\ UNCHANGED <<snap, retried, picked, answer>>

Return(c, kind, g) ==
  /\ pc' = [pc EXCEPT ![c] = "idle"]
  /\ answer' = [answer EXCEPT ![c] = [kind |-> kind, gen |-> g]]
  /\ UNCHANGED <<snap, retried, picked>>

Stored == [gen |-> gen, at |-> lastRefresh]

\* clock.Now().After(last_refresh + expires_in/2), where Now is somewhere in
\* the second now: both may hold in one second.
MayBeStale(s) == 2 * (now - s.at) + 2 > Life
MayBeFresh(s) == 2 * (now - s.at) <= Life

\* The row still has the last_refresh of the copy.
Current(s) == lastRefresh = s.at

\* singleflight: the function returns and everyone waiting gets its result.
\* A conflict sends those on their first attempt to reload the row.
Members(c) == {c} \cup {d \in Callers : pc[d] = "joined"}

Finish(c, kind, g) ==
  /\ leader' = NoCaller
  /\ pc' = [d \in Callers |-> IF d \in Members(c) THEN "idle" ELSE pc[d]]
  /\ answer' = [d \in Callers |-> IF d \in Members(c)
                                  THEN [kind |-> kind, gen |-> g]
                                  ELSE answer[d]]
  /\ UNCHANGED <<fresh, snap, retried, picked>>

FailLeaderOnly(c) ==   \* a defective variant of Fail
  /\ leader' = NoCaller
  /\ Return(c, "error", 1)
  /\ UNCHANGED fresh

Fail(c) == Finish(c, "error", 1)

Conflict(c) ==
  LET again == {d \in Members(c) : ~retried[d]} IN
  /\ leader' = NoCaller
  /\ pc' = [d \in Callers |-> IF d \in again THEN "reload"
                              ELSE IF d \in Members(c) THEN "idle" ELSE pc[d]]
  /\ answer' = [d \in Callers |-> IF d \in Members(c) \ again
                                  THEN [kind |-> "error", gen |-> 1]
                                  ELSE answer[d]]
  /\ UNCHANGED <<fresh, snap, retried, picked>>

-----------------------------------------------------------------------------
(* Defective variants of actions below: what the properties must catch.    *)

UpdateStatusIfCurrentAnyStamp(c) ==
  /\ pc[c] = "disable"
  /\ \/ status = "active" /\ SetStatus("disabled") /\ Fail(c)
     \/ status # "active" /\ Conflict(c) /\ UNCHANGED <<status, everDeleted>>
     \/ Fail(c) /\ UNCHANGED <<status, everDeleted>>
  /\ UNCHANGED <<adminPc, row, now, provider>>

SaveCheckAnswersFirst(c) ==
  /\ pc[c] = "save_check"
  /\ status # "deleted" /\ Finish(c, "token", fresh.gen)
  /\ UNCHANGED <<adminVars, row, now, provider>>

RefreshRotatedStaleStamp(c) ==
  /\ pc[c] = "refresh"
  /\ snap[c].gen = issued /\ issued < MaxIssued
  /\ issued' = issued + 1
  /\ fresh' = [gen |-> issued + 1, at |-> snap[c].at]
  /\ Goto(c, "save_check")
  /\ UNCHANGED <<adminVars, row, now, rejected, leader>>

-----------------------------------------------------------------------------
(* RefreshIfStale.                                                         *)

\* AccountSelector.pick, SelectByIDEligible or UsageRefresher.refreshAll reads
\* the active row and calls RefreshIfStale with its copy.
Pick(c) ==
  /\ pc[c] = "idle" /\ status = "active"
  /\ pc' = [pc EXCEPT ![c] = "decide"]
  /\ snap' = [snap EXCEPT ![c] = Stored]
  /\ retried' = [retried EXCEPT ![c] = FALSE]
  /\ picked' = [picked EXCEPT ![c] = gen]
  /\ answer' = [answer EXCEPT ![c] = NoAnswer]
  /\ UNCHANGED <<adminVars, row, now, provider, flight>>

\* refreshIfStaleOnce: the copy's own token is fresh enough.
StillFresh(c) ==
  /\ pc[c] = "decide" /\ MayBeFresh(snap[c])
  /\ Return(c, "token", snap[c].gen)
  /\ UNCHANGED <<adminVars, row, now, provider, flight>>

\* sf.Do with the account id as key: run the function, or wait for it.
Lead(c) ==
  /\ pc[c] = "decide" /\ MayBeStale(snap[c]) /\ leader = NoCaller
  /\ leader' = c
  /\ Goto(c, "refresh")
  /\ UNCHANGED <<adminVars, row, now, provider, fresh>>

Join(c) ==
  /\ pc[c] = "decide" /\ MayBeStale(snap[c]) /\ leader # NoCaller
  /\ Goto(c, "joined")
  /\ UNCHANGED <<adminVars, row, now, provider, flight>>

\* provider.Refresh with the copy's refresh token: new tokens, and their
\* refreshedAt.
RefreshRotated(c) ==
  /\ pc[c] = "refresh"
  /\ snap[c].gen = issued /\ issued < MaxIssued
  /\ issued' = issued + 1
  /\ fresh' = [gen |-> issued + 1, at |-> now]
  /\ Goto(c, "save_check")
  /\ UNCHANGED <<adminVars, row, now, rejected, leader>>

\* refreshTransientFallbackResult: timeout, the first caller's context ended,
\* a 5xx, an unusable answer - the provider may have rotated the token.
RefreshTransient(c) ==
  /\ pc[c] = "refresh"
  /\ \/ issued' = issued
     \/ snap[c].gen = issued /\ issued < MaxIssued /\ issued' = issued + 1
  /\ Finish(c, "fallback", snap[c].gen)
  /\ UNCHANGED <<adminVars, row, now, rejected>>

\* invalid_grant, account_deactivated or invalid_client.
RefreshRejected(c) ==
  /\ pc[c] = "refresh"
  /\ rejected' = rejected \cup {snap[c].gen}
  /\ Goto(c, "disable")
  /\ UNCHANGED <<adminVars, row, now, issued, flight>>

\* UpdateCredentials, first its SELECT, then the conditional UPDATE, and when
\* that changed nothing credentialUpdateMissReason.  Each may fail.
SaveCheck(c) ==
  /\ pc[c] = "save_check"
  /\ \/ status # "deleted" /\ Goto(c, "save_update") /\ UNCHANGED flight
     \/ Fail(c)
  /\ UNCHANGED <<adminVars, row, now, provider>>

SaveUpdate(c) ==
  /\ pc[c] = "save_update"
  /\ \/ /\ status # "deleted" /\ Current(snap[c])
        /\ gen' = fresh.gen /\ lastRefresh' = fresh.at
        /\ Finish(c, "token", fresh.gen)
     \/ /\ status = "deleted" \/ ~Current(snap[c])
        /\ Goto(c, "save_miss") /\ UNCHANGED <<row, flight>>
     \/ Fail(c) /\ UNCHANGED row
  /\ UNCHANGED <<adminVars, now, provider>>

SaveMiss(c) ==
  /\ pc[c] = "save_miss"
  /\ \/ status # "deleted" /\ Conflict(c)
     \/ Fail(c)
  /\ UNCHANGED <<adminVars, row, now, provider>>

\* handleRefreshFailure: UpdateStatusIfCurrent on the copy's last_refresh.
UpdateStatusIfCurrent(c) ==
  /\ pc[c] = "disable"
  /\ \/ /\ status = "active" /\ Current(snap[c])
        /\ SetStatus("disabled") /\ Fail(c)
     \/ /\ status # "active" \/ ~Current(snap[c])
        /\ Conflict(c) /\ UNCHANGED <<status, everDeleted>>
     \/ Fail(c) /\ UNCHANGED <<status, everDeleted>>
  /\ UNCHANGED <<adminPc, row, now, provider>>

\* reloadRefreshConflictAccount: one more attempt with the row as it is now.
Reload(c) ==
  /\ pc[c] = "reload"
  /\ \/ /\ status = "active"
        /\ pc' = [pc EXCEPT ![c] = "decide"]
        /\ snap' = [snap EXCEPT ![c] = Stored]
        /\ retried' = [retried EXCEPT ![c] = TRUE]
        /\ UNCHANGED <<picked, answer>>
     \/ Return(c, "error", 1)
  /\ UNCHANGED <<adminVars, row, now, provider, flight>>

Tick ==
  /\ now < MaxTime
  /\ now' = now + 1
  /\ UNCHANGED <<adminVars, row, provider, flight, caller>>

Step(c) ==
  \/ StillFresh(c) \/ Lead(c) \/ Join(c)
  \/ RefreshRotated(c) \/ RefreshTransient(c) \/ RefreshRejected(c)
  \/ SaveCheck(c) \/ SaveUpdate(c) \/ SaveMiss(c)
  \/ UpdateStatusIfCurrent(c) \/ Reload(c)

Next ==
  \/ \E c \in Callers : Pick(c) \/ Step(c)
  \/ AdminNext /\ UNCHANGED <<row, now, provider, flight, caller>>
  \/ Tick

Spec == Init /\ [][Next]_vars

\* A request goroutine keeps running: the provider's HTTP client and the
\* store answer or time out.
FairSpec == Spec /\ \A c \in Callers : WF_vars(Step(c))

-----------------------------------------------------------------------------
(* Invariants of the optimistic lock (TokenRefreshProofs).                 *)

\* One flight at a time: exactly the leader is inside the function, and
\* callers only wait while there is one.
FlightInv ==
  /\ \A c \in Callers : pc[c] \in InFlight <=> leader = c
  /\ \A c \in Callers : pc[c] = "joined" => leader # NoCaller

\* last_refresh identifies a token set: a copy whose stamp is the row's holds
\* the row's tokens, and an older one an older stamp.
StampInv ==
  /\ lastRefresh <= now
  /\ \A c \in Callers : pc[c] # "idle" =>
       /\ snap[c].gen <= gen /\ snap[c].at <= lastRefresh
       /\ snap[c].at = lastRefresh => snap[c].gen = gen
       /\ picked[c] <= snap[c].gen

\* Only the flight moves the row, and it carries what the provider issued.
FreshInv ==
  /\ gen <= issued
  /\ \A c \in Callers :
       /\ pc[c] \in InFlight =>
            2 * (now - snap[c].at) + 2 > Life
       /\ pc[c] \in {"save_check", "save_update", "save_miss"} =>
            /\ fresh.gen = issued /\ fresh.gen = snap[c].gen + 1
            /\ snap[c].at < fresh.at /\ fresh.at <= now
       /\ pc[c] = "disable" => snap[c].gen \in rejected

-----------------------------------------------------------------------------
(* Properties.                                                             *)

\* However late a flight is, it never puts an older token set over a newer
\* one: stored credentials only move to what the provider issued last, with a
\* later last_refresh (UpdateCredentials' ExpectedLastRefresh).
NoRollback ==
  [][row' # row => gen' > gen /\ gen' = issued /\ lastRefresh' > lastRefresh]_vars

\* A permanent refresh failure disables the account only when the provider
\* rejected the very tokens that are stored: a late failure cannot clobber a
\* concurrent credential update (UpdateStatusIfCurrent).
DisabledOnlyIfRejected ==
  [][status' # status /\ adminPc' = adminPc =>
       status' = "disabled" /\ gen \in rejected]_vars

\* Every token handed out had been persisted - never one whose UPDATE failed -
\* and one not marked as fallback is no older than the row the caller picked.
AnswerPersisted ==
  \A c \in Callers :
    /\ answer[c].kind \in {"token", "fallback"} => answer[c].gen <= gen
    /\ answer[c].kind = "token" => picked[c] <= answer[c].gen

\* Everyone who asked for a token is answered, whatever the flight it waits
\* for meets.
Answered == \A c \in Callers : pc[c] # "idle" ~> pc[c] = "idle"
=============================================================================
