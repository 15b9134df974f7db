---------------------------- MODULE AccountRouting ----------------------------
(***************************************************************************)
(* How the data plane finds the account for a request: ServeHTTP from the  *)
(* classification of the route to SelectEligible, against operators who    *)
(* create, enable, disable and delete accounts and edit their model lists, *)
(* and refreshes that replace those lists.  GatewayExchange goes on from   *)
(* the account picked.                                                     *)
(*                                                                         *)
(* A request slot serves one request after another.  Each database query   *)
(* of the handler is a step of its own.                                    *)
(***************************************************************************)
EXTENDS SessionRouter, GatewayRoutes, FiniteSets

CONSTANTS Requests,      \* handlers at work at once
          Kind,          \* an account's credential class and capabilities
          Stored,        \* the accounts stored when the router starts
          Models, NoModel,
          Rename,        \* the model rewrite rules of the settings
          Endpoints,     \* <<method, path>> pairs clients call
          NoSession, NoAccount,
          MaxEdits,      \* bound of operator and refresher steps
          CounterMod     \* the round-robin counter wraps here (2^64)

ASSUME RoutingAssumption ==
  /\ Kind \in [Accounts -> AccountKinds] /\ Stored \subseteq Accounts
  /\ Accounts \subseteq Nat /\ IsFiniteSet(Accounts)
  /\ NoAccount \notin Accounts /\ NoModel \notin Models /\ NoSession \notin Sessions
  /\ Rename \in [Models -> Models]
  /\ MaxEdits \in Nat /\ CounterMod \in Nat \ {0}

VARIABLES
  status, models,  \* upstream_accounts.status and the account_models rows
  edits,           \* operator and refresher steps so far
  counter,         \* AccountSelector.counter
  pc, req,         \* per slot: where the handler is, and its request
  eligible, rows,  \* buildModelEligibleSet so far, accounts seen with rows
  account,         \* the account picked
  verdict,         \* how the choice ended
  watch,           \* history: what accounts could do since the request came
  home             \* history: the last pick of each session

store == <<status, models, edits>>
locals == <<req, eligible, rows, account, verdict>>
vars == <<store, counter, pc, locals, watch, home>>

Statuses == {"absent", "active", "disabled", "deleted"}
Sources == {"none", "manual", "upstream"}
NoRequest == [op |-> "unsupported", model |-> NoModel, session |-> NoSession]
NoWatch == [able |-> {}, listed |-> {}, unrestricted |-> {}, ever |-> {}]
NoHome == [account |-> NoAccount, offered |-> {}]
Verdicts == {"none", "rejected", "internal_error", "models_listed", "picked",
             "model_not_supported", "no_available_account"}
Refused == {"model_not_supported", "no_available_account"}
Pcs == {"idle", "serve", "with_model", "with_rows", "not_deleted", "pick", "union",
        "done"}

TypeOK ==
  /\ status \in [Accounts -> Statuses]
  /\ models \in [Accounts -> [Models -> Sources]]
  /\ edits \in 0 .. MaxEdits /\ counter \in 0 .. CounterMod - 1
  /\ pc \in [Requests -> Pcs]
  /\ req \in [Requests -> [op : Ops \cup NoOps, model : Models \cup {NoModel},
                           session : Sessions \cup {NoSession}]]
  /\ eligible \in [Requests -> SUBSET Accounts]
  /\ rows \in [Requests -> SUBSET Accounts]
  /\ account \in [Requests -> Accounts \cup {NoAccount}]
  /\ verdict \in [Requests -> Verdicts]
  /\ watch \in [Requests -> [able : SUBSET Accounts, listed : SUBSET Accounts,
                             unrestricted : SUBSET Accounts, ever : SUBSET Accounts]]
  /\ home \in [Sessions -> [account : Accounts \cup {NoAccount},
                            offered : SUBSET Accounts]]

\* Rows as an earlier run of the router left them.
Init ==
  /\ status = [a \in Accounts |-> IF a \in Stored THEN "active" ELSE "absent"]
  /\ models = [a \in Accounts |-> [m \in Models |-> "none"]]
  /\ edits = 0 /\ counter = 0
  /\ pc = [q \in Requests |-> "idle"] /\ req = [q \in Requests |-> NoRequest]
  /\ eligible = [q \in Requests |-> {}] /\ rows = [q \in Requests |-> {}]
  /\ account = [q \in Requests |-> NoAccount]
  /\ verdict = [q \in Requests |-> "none"]
  /\ watch = [q \in Requests |-> NoWatch] /\ home = [s \in Sessions |-> NoHome]

-----------------------------------------------------------------------------
(* What an account can do for a request, by the tables as they are.        *)

\* rewriteModelForRoute: one rewrite, on /v1 paths, never for System One.
Effective(r) ==
  IF r.model = NoModel \/ r.op \in NativeOps \cup {"systemone.create"}
  THEN r.model ELSE Rename[r.model]

HasRows(a) == \E m \in Models : models[a][m] # "none"
Lists(a, r) == r.model # NoModel /\ models[a][Effective(r)] # "none"
Unrestricted(a, r) == r.model = NoModel \/ ~HasRows(a)
Usable(a, r) == status[a] = "active" /\ proxyAccountEligible(Kind[a], r.op)

\* History of a request: the accounts able to serve it all along, the ones
\* that listed its model or had no list all along, and the ones whose list
\* admitted it at some time.
Now(r) ==
  [able |-> {a \in Accounts : Usable(a, r) /\ (Lists(a, r) \/ Unrestricted(a, r))},
   listed |-> {a \in Accounts : Usable(a, r) /\ Lists(a, r)},
   unrestricted |-> {a \in Accounts : Usable(a, r) /\ Unrestricted(a, r)},
   ever |-> {a \in Accounts : Lists(a, r) \/ Unrestricted(a, r)}]

Since(w, n) ==
  [able |-> w.able \cap n.able, listed |-> w.listed \cap n.listed,
   unrestricted |-> w.unrestricted \cap n.unrestricted, ever |-> w.ever \cup n.ever]

Watching == {q \in Requests : pc[q] \notin {"idle", "done"}}
KeepWatch ==
  watch' = [q \in Requests |->
              IF q \in Watching THEN Since(watch[q], Now(req[q])') ELSE watch[q]]

-----------------------------------------------------------------------------
(* Operators and the model refresher.                                      *)

Edit ==
  /\ edits < MaxEdits /\ edits' = edits + 1
  /\ UNCHANGED <<counter, pc, locals, home>>
  /\ KeepWatch

\* AccountRepo.Create, an OAuth flow or an import: an active row, no models.
CreateAccount(a) ==
  /\ status[a] = "absent"
  /\ status' = [status EXCEPT ![a] = "active"] /\ UNCHANGED models
  /\ Edit

\* Enable, Disable and Delete write without a condition on the status they
\* checked, so any status may replace any other (see AccountLifecycle).
UpdateStatus(a, s) ==
  /\ status[a] \notin {"absent", s}
  /\ status' = [status EXCEPT ![a] = s] /\ UNCHANGED models
  /\ Edit

\* AddModel: a row of source manual unless there is one.
AddModel(a, m) ==
  /\ status[a] # "absent" /\ models[a][m] = "none"
  /\ models' = [models EXCEPT ![a][m] = "manual"] /\ UNCHANGED status
  /\ Edit

\* RemoveModel deletes the row whatever its source.
RemoveModel(a, m) ==
  /\ status[a] # "absent" /\ models[a][m] # "none"
  /\ models' = [models EXCEPT ![a][m] = "none"] /\ UNCHANGED status
  /\ Edit

\* A refresh, by TriggerAsync after creation or by an operator, whose fetch
\* answered with a non-empty list: one transaction replaces the upstream
\* rows and keeps the manual ones.
ReplaceUpstreamModels(a, list) ==
  /\ status[a] # "absent" /\ ~SystemOneOnly(Kind[a])
  /\ models' = [models EXCEPT ![a] = [m \in Models |->
                  IF models[a][m] = "manual" THEN "manual"
                  ELSE IF m \in list THEN "upstream" ELSE "none"]]
  /\ models' # models /\ UNCHANGED status
  /\ Edit

Environment ==
  \E a \in Accounts :
    \/ CreateAccount(a)
    \/ \E s \in {"active", "disabled", "deleted"} : UpdateStatus(a, s)
    \/ \E m \in Models : AddModel(a, m) \/ RemoveModel(a, m)
    \/ \E list \in (SUBSET Models) \ {{}} : ReplaceUpstreamModels(a, list)

-----------------------------------------------------------------------------
(* ServeHTTP up to the choice of an account.                               *)

Goto(q, p) == pc' = [pc EXCEPT ![q] = p]

\* writeError and recordProxyError, or the union: the choice is over.
Conclude(q, v) ==
  /\ verdict' = [verdict EXCEPT ![q] = v]
  /\ Goto(q, "done")

Arrive(q, e, m, s) ==
  LET op == classifyGatewayRoute(e[1], e[2]) IN
  /\ pc[q] = "idle" /\ Goto(q, "serve")
  /\ m # NoModel => e[1] = "POST" /\ op \notin NoOps \cup {"native.transcribe"}
  /\ op = "systemone.create" => m # NoModel
  /\ op \in NoOps \cup {"models.list"} => s = NoSession
  /\ req' = [req EXCEPT ![q] = [op |-> op, model |-> m, session |-> s]]
  /\ UNCHANGED <<store, counter, eligible, rows, account, verdict, home>>
  /\ watch' = [watch EXCEPT ![q] = Now(req[q])']

\* Blocked and unsupported routes; a bad handshake; System One headers and
\* body; a body that cannot be read or is too large.
Reject(q) ==
  /\ pc[q] = "serve" /\ req[q].op # "models.list"
  /\ Conclude(q, "rejected")
  /\ UNCHANGED <<store, counter, req, eligible, rows, account, watch, home>>

\* Mutant: no model is an empty filter instead of none.
AcceptEmptyFilter(q) ==
  /\ pc[q] = "serve" /\ req[q].op \notin NoOps
  /\ Goto(q, IF req[q].op = "models.list" THEN "union"
             ELSE IF req[q].model # NoModel THEN "with_model" ELSE "pick")
  /\ UNCHANGED <<store, counter, req, eligible, rows, account, verdict, watch, home>>

\* Without a model there is no filter: every account is eligible.
Accept(q) ==
  /\ pc[q] = "serve" /\ req[q].op \notin NoOps
  /\ Goto(q, IF req[q].op = "models.list" THEN "union"
             ELSE IF req[q].model # NoModel THEN "with_model" ELSE "pick")
  /\ eligible' = [eligible EXCEPT ![q] =
                    IF req[q].model = NoModel THEN Accounts ELSE {}]
  /\ UNCHANGED <<store, counter, req, rows, account, verdict, watch, home>>

\* Mutant: the model as the client wrote it, before the rewrite.
AccountsWithModelAsSent(q) ==
  /\ pc[q] = "with_model" /\ Goto(q, "with_rows")
  /\ eligible' = [eligible EXCEPT ![q] =
                    {a \in Accounts : models[a][req[q].model] # "none"}]
  /\ UNCHANGED <<store, counter, req, rows, account, verdict, watch, home>>

\* buildModelEligibleSet: the accounts that list the model ...
AccountsWithModel(q) ==
  /\ pc[q] = "with_model" /\ Goto(q, "with_rows")
  /\ eligible' = [eligible EXCEPT ![q] =
                    {a \in Accounts : models[a][Effective(req[q])] # "none"}]
  /\ UNCHANGED <<store, counter, req, rows, account, verdict, watch, home>>

\* ... and the two queries of AccountsWithoutModels.
DistinctAccountIDs(q) ==
  /\ pc[q] = "with_rows" /\ Goto(q, "not_deleted")
  /\ rows' = [rows EXCEPT ![q] = {a \in Accounts : HasRows(a)}]
  /\ UNCHANGED <<store, counter, req, eligible, account, verdict, watch, home>>

AccountsWithoutModels(q) ==
  /\ pc[q] = "not_deleted" /\ Goto(q, "pick")
  /\ eligible' = [eligible EXCEPT ![q] = @ \cup
       {a \in Accounts : status[a] \notin {"absent", "deleted"} /\ a \notin rows[q]}]
  /\ rows' = [rows EXCEPT ![q] = {}]
  /\ UNCHANGED <<store, counter, req, account, verdict, watch, home>>

\* Any of these queries fails.
QueryFails(q) ==
  /\ pc[q] \in {"with_model", "with_rows", "not_deleted", "pick", "union"}
  /\ Conclude(q, "internal_error")
  /\ UNCHANGED <<store, counter, req, eligible, rows, account, watch, home>>

\* serveModelsUnion: a list from the rows of the usable accounts.
serveModelsUnion(q) ==
  /\ pc[q] = "union"
  /\ Conclude(q, IF \E a \in Accounts : Usable(a, req[q])
                 THEN "models_listed" ELSE "no_available_account")
  /\ UNCHANGED <<store, counter, req, eligible, rows, account, watch, home>>

-----------------------------------------------------------------------------
(* AccountSelector.pick.                                                   *)

\* ListActive, filtered.
Offered(q) == {a \in eligible[q] : Usable(a, req[q])}

\* active[idx], the accounts in order of their ids.
Nth(S, idx) == CHOOSE a \in S : Cardinality({b \in S : b < a}) = idx

NoCapacity(q) ==
  /\ pc[q] = "pick" /\ Offered(q) = {}
  /\ Conclude(q, IF req[q].model # NoModel /\ req[q].op # "systemone.create"
                 THEN "model_not_supported" ELSE "no_available_account")
  /\ UNCHANGED <<store, counter, req, eligible, rows, account, watch, home>>

\* Mutant: the key's hash modulo the number of accounts.
RouteSessionModulo(q) ==
  LET s == req[q].session
      a == Nth(Offered(q), KeyHash[s] % Cardinality(Offered(q)))
  IN /\ pc[q] = "pick" /\ s # NoSession /\ Offered(q) # {}
     /\ account' = [account EXCEPT ![q] = a] /\ Conclude(q, "picked")
     /\ home' = [home EXCEPT ![s] = [account |-> a, offered |-> Offered(q)]]
     /\ UNCHANGED <<store, counter, req, eligible, rows, watch>>

RouteSession(q) ==
  LET s == req[q].session
      a == Route(s, Offered(q))
  IN /\ pc[q] = "pick" /\ s # NoSession /\ Offered(q) # {}
     /\ account' = [account EXCEPT ![q] = a] /\ Conclude(q, "picked")
     /\ home' = [home EXCEPT ![s] = [account |-> a, offered |-> Offered(q)]]
     /\ UNCHANGED <<store, counter, req, eligible, rows, watch>>

RoundRobin(q) ==
  /\ pc[q] = "pick" /\ req[q].session = NoSession /\ Offered(q) # {}
  /\ account' = [account EXCEPT ![q] =
                   Nth(Offered(q), counter % Cardinality(Offered(q)))]
  /\ counter' = (counter + 1) % CounterMod /\ Conclude(q, "picked")
  /\ UNCHANGED <<store, req, eligible, rows, watch, home>>

\* The slot takes its next request.
Finish(q) ==
  /\ pc[q] = "done" /\ Goto(q, "idle")
  /\ req' = [req EXCEPT ![q] = NoRequest]
  /\ eligible' = [eligible EXCEPT ![q] = {}] /\ rows' = [rows EXCEPT ![q] = {}]
  /\ account' = [account EXCEPT ![q] = NoAccount]
  /\ verdict' = [verdict EXCEPT ![q] = "none"]
  /\ watch' = [watch EXCEPT ![q] = NoWatch]
  /\ UNCHANGED <<store, counter, home>>

Handler(q) ==
  \/ \E e \in Endpoints, m \in Models \cup {NoModel}, s \in Sessions \cup {NoSession} :
       Arrive(q, e, m, s)
  \/ Reject(q) \/ Accept(q)
  \/ AccountsWithModel(q) \/ DistinctAccountIDs(q) \/ AccountsWithoutModels(q)
  \/ QueryFails(q) \/ serveModelsUnion(q)
  \/ NoCapacity(q) \/ RouteSession(q) \/ RoundRobin(q) \/ Finish(q)

Next == Environment \/ \E q \in Requests : Handler(q)

Spec == Init /\ [][Next]_vars

-----------------------------------------------------------------------------
(* What routing promises.                                                  *)

\* What the handler's locals say of the tables as they were: what watch
\* remembers is true of the tables, the filter so far holds every account
\* that listed the model all along and none that never admitted it, and a
\* verdict stands until the slot is reused; a session is where the ring of
\* the accounts last offered to it puts it.
WatchInv(q) ==
  pc[q] \notin {"idle", "done"} =>
    /\ watch[q].listed \subseteq Now(req[q]).listed
    /\ watch[q].unrestricted \subseteq Now(req[q]).unrestricted
    /\ Now(req[q]).ever \subseteq watch[q].ever

FilterInv(q) ==
  /\ pc[q] \in {"with_model", "with_rows"} => req[q].model # NoModel
  /\ pc[q] \in {"with_rows", "not_deleted", "pick"} =>
       eligible[q] \subseteq watch[q].ever /\ watch[q].listed \subseteq eligible[q]
  /\ pc[q] = "not_deleted" =>
       /\ Accounts \ rows[q] \subseteq watch[q].ever
       /\ watch[q].unrestricted \cap rows[q] = {}
  /\ pc[q] = "pick" => watch[q].unrestricted \subseteq eligible[q]
  /\ verdict[q] # "none" => pc[q] = "done"

HomeInv(s) ==
  home[s] # NoHome =>
    home[s].offered # {} /\ home[s].account = Route(s, home[s].offered)

RoutingInv ==
  /\ \A q \in Requests : WatchInv(q) /\ FilterInv(q)
  /\ \A s \in Sessions : HomeInv(s)

\* The account that serves a request listed the model sent upstream (the one
\* after the rewrite), or had no list, at some time since the request came,
\* however the lists changed between the queries of buildModelEligibleSet.
RightAccount ==
  \A q \in Requests : verdict[q] = "picked" => account[q] \in watch[q].ever

\* No request is refused for want of an account while some usable account
\* listed its model, or had no list, during the whole of the request.
NeverMissed ==
  \A q \in Requests :
    verdict[q] \in Refused => watch[q].listed = {} /\ watch[q].unrestricted = {}

\* A session moves only when it has to: between two picks with both accounts
\* on offer both times it stays with its account, whatever else was created,
\* enabled, disabled, deleted or relisted meanwhile.
StaysHome(s) ==
  /\ home[s] # NoHome
  /\ home[s].account \in home'[s].offered
  /\ home'[s].account \in home[s].offered
  => home'[s].account = home[s].account
Sticky == [][\A s \in Sessions : StaysHome(s)]_vars

\* buildModelEligibleSet "keeps a freshly created account routable even before
\* (or without) a successful upstream model refresh": no request is refused
\* while some account could have served it at every moment of the request.
\* Its queries are not one transaction: a refresh that lists the model between
\* them hides the account from both.
StrandedNever ==
  \A q \in Requests : verdict[q] \in Refused => watch[q].able = {}
=============================================================================
