----------------------------- MODULE RouterSetup -----------------------------
(***************************************************************************)
(* The life of a router process around its configuration: start, setup     *)
(* wizard, promotion to steady state, settings edits, crash, restart       *)
(* (internal/entrypoint, internal/app, internal/setup, internal/api/setup, *)
(* internal/api/adminapi/updater.go and settings.go).                      *)
(*                                                                         *)
(* Actors are the start-up code (Boot), HTTP requests of wizards and of    *)
(* settings editors, and one client that asks for a path.  pc says before  *)
(* which step of the code an actor is; wizards and editors hold the        *)
(* package-wide lock setup.Serialiser while they work.  System calls and   *)
(* database calls may fail and the process may die at any step, MaxFaults  *)
(* times together.                                                         *)
(***************************************************************************)
EXTENDS ConfigFile, SetupRequests, Naturals, FiniteSets

CONSTANTS Wizards,    \* commit requests
          Edits,      \* settings update requests
          Bodies,     \* what a wizard may send, with the database it names
          SettingsPatches,  \* what an editor may send
          Names,      \* account names
          Boot,
          Nobody,
          NoPid,
          MaxTries,   \* bound: requests of wizards and editors in all
          MaxFaults   \* bound: failing calls and crashes in all

ASSUME BoundsAssumption == MaxTries \in Nat /\ MaxFaults \in Nat

Requests == Wizards \cup Edits
Actors == Requests \cup {Boot}

ASSUME ActorsAssumption ==
  /\ Wizards \cap Edits = {} /\ Boot \notin Requests /\ Nobody \notin Actors
  /\ NoPid \notin Pids

Paths == {"setup", "setup_api", "health", "root", "admin_html", "admin_api",
          "data_plane", "other"}

VARIABLES
  env,      \* which of the two database variables are set; never changes
  host,     \* whether a restarted router gets the process number it had
  schema,   \* [DBs -> "empty" | "dirty" | "ready"]
  rows,     \* [DBs -> [Names -> Nat]]: accounts with that name
  pid,      \* the running process
  handler,  \* the installed root handler: "none", "pending" or "steady"
  latch,    \* Gate.done of each handler
  live,     \* the published configuration
  source,   \* the published provenance of the database fields
  proxy,    \* the outbound proxy slot
  openDB,   \* the database behind App.store
  lock,     \* holder of setup.Serialiser
  pc, buf,  \* per actor: its place, the configuration it works with
  told,     \* what this process answered the last wizard that wrote config.json
  client,   \* the handler a client's request has entered, before its gate
  tries, faults

memVars == <<handler, latch, live, source, proxy, openDB>>
dbVars == <<schema, rows>>
actVars == <<lock, pc, buf, told, tries>>
vars == <<fileVars, dbVars, memVars, actVars, env, host, pid, client, faults>>

Defaults == [retention |-> 30, renames |-> <<>>, proxy |-> NoProxy]
\* The account of a body, if it has one.
Seed(b) == {b.account.name} \ {""}

\* What the checks of a body and of a patch accept.
Accepted == {b \in Bodies : BodyError(b) = "ok" /\ CommitError(b) = "ok"}
ValidPatches == {p \in SettingsPatches : PatchErrors(p) = {}}

\* The sets of values hold the defaults and what can be sent.
ASSUME ValuesAssumption ==
  /\ Defaults \in Settings
  /\ \A b \in Accepted : b.db \in DBs /\ RetentionOf(b) \in Retentions
  /\ \A p \in ValidPatches : \A i \in p :
       /\ i.key = "log_retention_days" => i.value \in Retentions
       /\ i.key = "model_renames" => i.value \in Renames
       /\ i.key = "proxy_url" => i.value \in Proxies

Init ==
  /\ file = NoFile /\ tmp = NoTmp
  /\ env \in {"unset", "url", "both"} /\ host \in {"fresh pids", "same pid"}
  /\ schema = [d \in DBs |-> "empty"]
  /\ rows = [d \in DBs |-> [n \in Names |-> 0]]
  /\ pid = NoPid
  /\ handler = "none" /\ latch = [h \in {"pending", "steady"} |-> FALSE]
  /\ live = NoFile /\ source = "none" /\ proxy = NoProxy /\ openDB = NoFile
  /\ lock = Nobody /\ pc = [a \in Actors |-> "idle"] /\ buf = [a \in Actors |-> NoFile]
  /\ told = "nothing" /\ client = "none"
  /\ tries = 0 /\ faults = 0

-----------------------------------------------------------------------------
(* Shared pieces *)

Goto(a, label) == pc' = [pc EXCEPT ![a] = label]
MayFail == faults < MaxFaults /\ faults' = faults + 1
\* A call that succeeds, or fails at the expense of the bound.
Works == UNCHANGED faults

\* The process stops: memory is gone, requests in flight get no answer.
Dies ==
  /\ pid' = NoPid /\ handler' = "none"
  /\ latch' = [h \in {"pending", "steady"} |-> FALSE]
  /\ live' = NoFile /\ source' = "none" /\ proxy' = NoProxy /\ openDB' = NoFile
  /\ lock' = Nobody
  /\ pc' = [a \in Actors |-> "idle"] /\ buf' = [a \in Actors |-> NoFile]
  /\ told' = "nothing" /\ client' = "none"

\* Migrator.Up: a dirty schema refuses; a failing migration may leave one.
Up(d) == schema[d] # "dirty" /\ schema' = [schema EXCEPT ![d] = "ready"]
UpFails(d) ==
  \/ schema[d] = "dirty" /\ UNCHANGED <<schema, faults>>
  \/ /\ MayFail
     /\ schema' \in {schema, [schema EXCEPT ![d] = IF @ = "empty" THEN "dirty" ELSE @]}

HasRows(d) == \E n \in Names : rows[d][n] > 0

\* buildHandler: a new gate; with a store it is marked open, without one it
\* does not watch the file system.
Install(h) ==
  /\ handler' = h
  /\ latch' = [latch EXCEPT ![h] = (h = "steady")]
ObservesAlways(h) == TRUE
Observes(h) == h = "steady"

\* Gate.probe of the gate of handler h.
Open(h) == latch[h] \/ (Observes(h) /\ IsDone)
Latched(h) == [latch EXCEPT ![h] = Open(h)]

-----------------------------------------------------------------------------
(* WriteAtomic, by whichever actor has a configuration to write. *)

\* What an actor does when a step failed: the router refuses to start, or the
\* request is answered and the lock released.  A wizard past the rename has
\* written config.json.
Reply(a, what) ==
  /\ told' = IF a \in Wizards /\ pc[a] \in {"load", "promote", "publish"}
             THEN what ELSE told
  /\ lock' = IF lock = a THEN Nobody ELSE lock
  /\ Goto(a, "idle") /\ buf' = [buf EXCEPT ![a] = NoFile]

GiveUp(a, what) ==
  IF a = Boot
  THEN Dies /\ UNCHANGED <<tries>>
  ELSE Reply(a, what) /\ UNCHANGED <<pid, memVars, client, tries>>

OpenStep(a) ==
  /\ pc[a] = "open"
  /\ \/ OpenTmp(pid) /\ Works /\ Goto(a, "fill")
        /\ UNCHANGED <<pid, memVars, client, lock, buf, told, tries>>
     \/ OpenTmpFails(pid) /\ Works /\ GiveUp(a, "tmp_exists")
     \/ UNCHANGED fileVars /\ MayFail /\ GiveUp(a, "config_write_failed")
  /\ UNCHANGED <<dbVars, env, host>>

FillStep(a) ==
  /\ pc[a] = "fill"
  /\ \/ FillTmp(pid, buf[a]) /\ Works /\ Goto(a, "rename")
        /\ UNCHANGED <<pid, memVars, client, lock, buf, told, tries>>
     \/ DropTmp(pid) /\ MayFail /\ GiveUp(a, "config_write_failed")
  /\ UNCHANGED <<dbVars, env, host>>

RenameStep(a) ==
  /\ pc[a] = "rename"
  /\ \/ Rename(pid) /\ Works /\ Goto(a, "load")
        /\ UNCHANGED <<pid, memVars, client, lock, buf, told, tries>>
     \/ DropTmp(pid) /\ MayFail /\ GiveUp(a, "config_write_failed")
  /\ UNCHANGED <<dbVars, env, host>>

-----------------------------------------------------------------------------
(* Start: entrypoint.Run and app.BuildApp *)

StartIgnoringFile(p) ==
  /\ pid = NoPid
  /\ host = "same pid" \/ tmp[p] = NoFile
  /\ pid' = p
  /\ SweepStale(p)
  /\ Goto(Boot, "brownfield")
  /\ UNCHANGED <<file, dbVars, memVars, env, host, lock, buf, told, client, tries, faults>>

\* Load of config.json, SweepStale.
Start(p) ==
  /\ pid = NoPid
  /\ host = "same pid" \/ tmp[p] = NoFile
  /\ pid' = p
  /\ SweepStale(p)
  /\ Goto(Boot, IF IsDone THEN "load" ELSE "brownfield")
  /\ UNCHANGED <<file, dbVars, memVars, env, host, lock, buf, told, client, tries, faults>>

\* BootstrapIfBrownfield writes the environment's database and the defaults.
Materialized == [db |-> EnvDB, set |-> Defaults]

\* tryBrownfield: with both variables set, migrate that database and look for
\* accounts; with none, or no accounts, the router waits for the wizard.
Brownfield ==
  /\ pc[Boot] = "brownfield"
  /\ \/ /\ IF env = "both" THEN Up(EnvDB) /\ ~ HasRows(EnvDB) ELSE UNCHANGED schema
        /\ Install("pending") /\ Goto(Boot, "idle") /\ Works
        /\ UNCHANGED <<pid, buf, lock, told, client, tries,
                       live, source, proxy, openDB>>
     \/ /\ env = "both" /\ Up(EnvDB) /\ HasRows(EnvDB) /\ Works
        /\ buf' = [buf EXCEPT ![Boot] = Materialized]
        /\ Goto(Boot, "open")
        /\ UNCHANGED <<pid, memVars, lock, told, client, tries>>
     \/ /\ env = "both" /\ UpFails(EnvDB)
        /\ schema'[EnvDB] # "dirty"
        /\ GiveUp(Boot, "migrate_failed")
     \/ \* a dirty schema is reported and tolerated; the count then runs on it
        /\ env = "both" /\ UpFails(EnvDB) /\ schema'[EnvDB] = "dirty"
        /\ \/ /\ HasRows(EnvDB)
              /\ buf' = [buf EXCEPT ![Boot] = Materialized]
              /\ Goto(Boot, "open")
              /\ UNCHANGED <<pid, memVars, lock, told, client, tries>>
           \/ /\ ~ HasRows(EnvDB)   \* the table may be missing
              /\ \/ GiveUp(Boot, "count_failed")
                 \/ /\ Install("pending") /\ Goto(Boot, "idle")
                    /\ UNCHANGED <<pid, buf, lock, told, client, tries,
                                   live, source, proxy, openDB>>
  /\ UNCHANGED <<fileVars, rows, env, host>>

\* The rest of BuildApp: proxy, store, migrations (a dirty schema is tolerated),
\* plugins, both publications, the steady handler.
Serve ==
  /\ pc[Boot] = "load"
  /\ LET cfg == Load(env)
     IN  \/ /\ \/ Up(cfg.db) /\ Works
               \/ UpFails(cfg.db) /\ schema'[cfg.db] = "dirty"
            /\ Install("steady")
            /\ live' = cfg /\ proxy' = cfg.set.proxy /\ openDB' = cfg.db
            \* after a brownfield start the provenance is still that of no file
            /\ source' = IF buf[Boot] = NoFile THEN Sources(env) ELSE "none"
            /\ Goto(Boot, "idle") /\ buf' = [buf EXCEPT ![Boot] = NoFile]
            /\ UNCHANGED <<pid, lock, told, client, tries>>
         \/ MayFail /\ UNCHANGED schema /\ GiveUp(Boot, "start_failed")
  /\ UNCHANGED <<fileVars, rows, env, host>>

Crash ==
  /\ pid # NoPid
  /\ MayFail
  /\ Dies
  /\ UNCHANGED <<fileVars, dbVars, env, host, tries>>

\* resolveDBConfig: the file, or both variables.
ResolvesTo(d) == IF IsDone THEN d = Load(env).db ELSE env = "both" /\ d = EnvDB

\* `one-llm-router migrate force`, by the operator.
MigrateForce(d) ==
  /\ schema[d] = "dirty"
  /\ ResolvesTo(d)
  /\ schema' = [schema EXCEPT ![d] = "ready"]
  /\ UNCHANGED <<fileVars, rows, memVars, actVars, env, host, pid, client, faults>>

-----------------------------------------------------------------------------
(* The wizard: Handler.Commit and setup.Commit *)

\* The gate of the handler the request came in by, then decoding.
Submit(w, b) ==
  /\ handler # "none" /\ pc[w] = "idle" /\ tries < MaxTries
  /\ tries' = tries + 1
  /\ latch' = Latched(handler)
  /\ IF Open(handler) \/ BodyError(b) # "ok"
     THEN Reply(w, IF Open(handler) THEN "setup_already_done" ELSE BodyError(b))
     ELSE /\ Goto(w, "commit") /\ buf' = [buf EXCEPT ![w] = b]
          /\ UNCHANGED <<lock, told>>
  /\ UNCHANGED <<fileVars, dbVars, env, host, pid, handler, live, source, proxy,
                 openDB, client, faults>>

CommitNoRecheck(w) ==
  /\ pc[w] = "commit" /\ lock = Nobody
  /\ LET err == CommitError(buf[w])
     IN  \/ err # "ok" /\ Works /\ Reply(w, err)
         \/ /\ err = "ok" /\ Works
            /\ lock' = w /\ Goto(w, "migrate") /\ UNCHANGED <<buf, told>>
  /\ UNCHANGED <<fileVars, dbVars, memVars, env, host, pid, client, tries>>

\* Mutant: two commits at a time.
CommitUnserialised(w) ==
  /\ pc[w] = "commit" /\ ~ IsDone /\ CommitError(buf[w]) = "ok" /\ Works
  /\ Goto(w, "migrate") /\ UNCHANGED <<lock, buf, told>>
  /\ UNCHANGED <<fileVars, dbVars, memVars, env, host, pid, client, tries>>

\* Under the lock: is config.json there, Validator.Commit, ProbeDSN.
Commit(w) ==
  /\ pc[w] = "commit" /\ lock = Nobody
  /\ LET err == CommitError(buf[w])
     IN  \/ /\ IsDone /\ Works /\ Reply(w, "setup_already_done")
         \/ /\ ~ IsDone /\ err # "ok" /\ Works /\ Reply(w, err)
         \/ /\ ~ IsDone /\ err = "ok" /\ MayFail /\ Reply(w, "invalid_dsn")
         \/ /\ ~ IsDone /\ err = "ok" /\ Works
            /\ lock' = w /\ Goto(w, "migrate") /\ UNCHANGED <<buf, told>>
  /\ UNCHANGED <<fileVars, dbVars, memVars, env, host, pid, client, tries>>

Migrate(w) ==
  /\ pc[w] = "migrate"
  /\ \/ Up(buf[w].db) /\ Works /\ Goto(w, "lookup") /\ UNCHANGED <<lock, buf, told>>
     \/ UpFails(buf[w].db) /\ Reply(w, "migrate_failed")
  /\ UNCHANGED <<fileVars, rows, memVars, env, host, pid, client, tries>>

Configured(b) == [db |-> b.db, set |-> [Defaults EXCEPT !.retention = RetentionOf(b)]]

\* CreateIdempotentByName, the SELECT: with a row of that name, or no account
\* to create, there is nothing to insert.
LookupAccount(w) ==
  LET new == \E n \in Seed(buf[w]) : rows[buf[w].db][n] = 0 IN
  /\ pc[w] = "lookup"
  /\ \/ /\ Works /\ Goto(w, IF new THEN "insert" ELSE "sweep")
        /\ buf' = [buf EXCEPT ![w] = IF new THEN @ ELSE Configured(@)]
        /\ UNCHANGED <<lock, told>>
     \/ Seed(buf[w]) # {} /\ MayFail /\ Reply(w, "commit_tx_failed")
  /\ UNCHANGED <<fileVars, dbVars, memVars, env, host, pid, client, tries>>

CreateAccount(b) ==
  \A n \in Seed(b) : rows' = [rows EXCEPT ![b.db][n] = @ + 1]

\* The INSERT and the COMMIT; one that fails may have taken effect.
InsertAccount(w) ==
  /\ pc[w] = "insert"
  /\ \/ /\ Works /\ CreateAccount(buf[w]) /\ Goto(w, "sweep")
        /\ buf' = [buf EXCEPT ![w] = Configured(@)]
        /\ UNCHANGED <<lock, told>>
     \/ /\ MayFail /\ (CreateAccount(buf[w]) \/ UNCHANGED rows)
        /\ Reply(w, "commit_tx_failed")
  /\ UNCHANGED <<fileVars, schema, memVars, env, host, pid, client, tries>>

\* A sweep that fails is only logged.
Sweep(w) ==
  /\ pc[w] = "sweep"
  /\ SweepStale(pid) \/ UNCHANGED tmp
  /\ Goto(w, "open")
  /\ UNCHANGED <<file, dbVars, memVars, env, host, pid, client, lock, buf, told, tries, faults>>

ReloadUnpublished(w) ==
  /\ w \in Wizards /\ pc[w] = "load"
  /\ Works /\ UNCHANGED live
  /\ Goto(w, "promote") /\ UNCHANGED <<lock, buf, told>>
  /\ UNCHANGED <<fileVars, dbVars, handler, latch, source, proxy, openDB, env, host,
                 pid, client, tries>>

ReloadFailureIgnored(w) ==
  /\ w \in Wizards /\ pc[w] = "load"
  /\ \/ /\ Works /\ live' = Load(env)
        /\ Goto(w, "promote") /\ UNCHANGED <<lock, buf, told>>
     \/ MayFail /\ UNCHANGED live /\ Reply(w, "ok")
  /\ UNCHANGED <<fileVars, dbVars, handler, latch, source, proxy, openDB, env, host,
                 pid, client, tries>>

\* postCommitReloader: Load, and the first publication.  A failure of the
\* reload or of the promotion has the code and the symbol of a failed write;
\* writeCommitFailure sends neither the message nor the hint of Commit.
Reload(w) ==
  /\ w \in Wizards /\ pc[w] = "load"
  /\ \/ /\ Works /\ live' = Load(env)
        /\ Goto(w, "promote") /\ UNCHANGED <<lock, buf, told>>
     \/ MayFail /\ UNCHANGED live /\ Reply(w, "config_write_failed")
  /\ UNCHANGED <<fileVars, dbVars, handler, latch, source, proxy, openDB, env, host,
                 pid, client, tries>>

\* promoteToSteadyState up to the swap of the handler.
Promote(w) ==
  /\ pc[w] = "promote"
  /\ \/ /\ handler = "pending" /\ Works
        /\ LET cfg == Load(env)
           IN  openDB' = cfg.db /\ proxy' = cfg.set.proxy
        /\ Install("steady")
        /\ Goto(w, "publish") /\ UNCHANGED <<lock, buf, told>>
     \/ /\ handler = "steady" /\ Works   \* promoted already
        /\ UNCHANGED <<handler, latch, proxy, openDB>>
        /\ Reply(w, "ok")
     \/ MayFail /\ UNCHANGED <<handler, latch, proxy, openDB>>
        /\ Reply(w, "config_write_failed")
  /\ UNCHANGED <<fileVars, dbVars, live, source, env, host, pid, client, tries>>

\* The publications at the end of the promotion; the answer.
PublishPromoted(w) ==
  /\ w \in Wizards /\ pc[w] = "publish"
  /\ live' = Load(env) /\ source' = Sources(env)
  /\ Reply(w, "ok")
  /\ UNCHANGED <<fileVars, dbVars, handler, latch, proxy, openDB, env, host, pid,
                 client, tries, faults>>

-----------------------------------------------------------------------------
(* Settings: SettingsHandler.Update and ConfigUpdater.Update *)

\* Only the steady handler has the route.  No patchable key can come from the
\* environment, so the check of the provenance refuses nothing.
Patch(e, p) ==
  /\ handler = "steady" /\ pc[e] = "idle" /\ tries < MaxTries
  /\ tries' = tries + 1
  /\ IF PatchErrors(p) # {}
     THEN \E err \in PatchErrors(p) : Reply(e, err)
     ELSE /\ Goto(e, "update") /\ buf' = [buf EXCEPT ![e] = p]
          /\ UNCHANGED <<lock, told>>
  /\ UNCHANGED <<fileVars, dbVars, memVars, env, host, pid, client, faults>>

\* Under the lock: the live configuration, patched, is what will be written.
Update(e) ==
  /\ pc[e] = "update" /\ lock = Nobody
  /\ IF live = NoFile
     THEN Reply(e, "config_write_failed")
     ELSE /\ lock' = e /\ Goto(e, "open")
          /\ buf' = [buf EXCEPT ![e] = [live EXCEPT !.set = applyPatch(@, buf[e])]]
          /\ UNCHANGED told
  /\ UNCHANGED <<fileVars, dbVars, memVars, env, host, pid, client, tries, faults>>

\* The file is loaded again; its provenance is published first.
ReloadUpdated(e) ==
  /\ e \in Edits /\ pc[e] = "load"
  /\ \/ /\ Works /\ source' = Sources(env)
        /\ buf' = [buf EXCEPT ![e] = Load(env)]
        /\ Goto(e, "publish") /\ UNCHANGED <<lock, told>>
     \/ MayFail /\ UNCHANGED source /\ Reply(e, "config_write_failed")
  /\ UNCHANGED <<fileVars, dbVars, handler, latch, live, proxy, openDB, env, host,
                 pid, client, tries>>

\* Then the configuration, then onReload applies the outbound proxy.
PublishUpdated(e) ==
  /\ e \in Edits /\ pc[e] = "publish"
  /\ live' = buf[e] /\ proxy' = buf[e].set.proxy
  /\ Reply(e, "ok")
  /\ UNCHANGED <<fileVars, dbVars, handler, latch, source, openDB, env, host, pid,
                 client, tries, faults>>

-----------------------------------------------------------------------------
(* A client's request: App.Handler, then Gate.Wrap *)

Enter ==
  /\ client = "none" /\ handler # "none"
  /\ client' = handler
  /\ UNCHANGED <<fileVars, dbVars, memVars, actVars, env, host, pid, faults>>

\* The routes of buildHandler, which every mux has, and those that
\* registerSteadyStateRoutes adds.
CommonRoutes == {"setup", "setup_api", "health", "admin_html"}
SteadyRoutes == {"admin_api", "data_plane"}
Routed(h, path) == path \in CommonRoutes \cup (IF h = "steady" THEN SteadyRoutes ELSE {})

\* serveSetupPending: the wizard and the health check pass, pages lead to the
\* wizard, the APIs refuse; anything else is left to the mux.
PendingAnswer(path) ==
  CASE path \in {"root", "admin_html"} -> "to /setup/"
    [] path = "admin_api" -> "setup_required"
    [] path = "data_plane" -> "503"
    [] OTHER -> "mux"

\* Gate.Wrap; "missing" is the 404 of the mux.
GateAnswer(h, open, path) ==
  LET verdict == IF ~ open THEN PendingAnswer(path)
                 ELSE IF path \in {"root", "setup"} THEN "to /admin/" ELSE "mux"
  IN  IF verdict = "mux" /\ ~ Routed(h, path) THEN "missing" ELSE verdict

\* makeHealthHandler and Handler.Status: the gate's view, and whether a store
\* is behind the handler.
Health(h, dbAnswers) ==
  [setup_state |-> IF Open(h) THEN "done" ELSE "pending",
   status |-> IF h # "steady" THEN "degraded"
              ELSE IF dbAnswers THEN "healthy" ELSE "unhealthy"]

\* What the client's path would be answered now.
Answered(path) == GateAnswer(client, Open(client), path)

Ask ==
  /\ client # "none"
  /\ latch' = Latched(client)
  /\ client' = "none"
  /\ UNCHANGED <<fileVars, dbVars, handler, live, source, proxy, openDB, actVars,
                 env, host, pid, faults>>

-----------------------------------------------------------------------------
BootNext == (\E p \in Pids : Start(p)) \/ Brownfield \/ Serve

WizardNext(w) ==
  \/ \E b \in Bodies : Submit(w, b)
  \/ Commit(w) \/ Migrate(w) \/ LookupAccount(w) \/ InsertAccount(w) \/ Sweep(w)
  \/ Reload(w) \/ Promote(w) \/ PublishPromoted(w)

EditNext(e) ==
  \/ \E p \in SettingsPatches : Patch(e, p)
  \/ Update(e) \/ ReloadUpdated(e) \/ PublishUpdated(e)

WriteNext(a) == OpenStep(a) \/ FillStep(a) \/ RenameStep(a)

Next ==
  \/ BootNext \/ Crash \/ \E d \in DBs : MigrateForce(d)
  \/ \E w \in Wizards : WizardNext(w)
  \/ \E e \in Edits : EditNext(e)
  \/ \E a \in Actors : WriteNext(a)
  \/ Enter \/ Ask

Spec == Init /\ [][Next]_vars

\* The operating system starts the router again, goroutines that can run do,
\* and the lock is granted; nothing obliges anyone to send a request.
Fairness ==
  /\ WF_vars(BootNext)
  /\ \A a \in Actors : WF_vars(WriteNext(a))
  /\ \A w \in Wizards :
       WF_vars(Commit(w) \/ Migrate(w) \/ LookupAccount(w) \/ InsertAccount(w)
               \/ Sweep(w) \/ Reload(w) \/ Promote(w) \/ PublishPromoted(w))

FairSpec == Spec /\ Fairness

-----------------------------------------------------------------------------
(* Properties *)

\* config.json and the published configuration behave like one durable value
\* that setup installs once and edits replace whole: no torn file, no second
\* installation, no lost edit, nothing invalid stored, nothing served before it
\* is durable, whatever crashes (WriteAtomic, the Serialiser, Commit's re-check).
Durable == INSTANCE DurableSettings WITH
  Values <- Settings,
  Firsts <- {Defaults} \cup {Configured(b).set : b \in Accepted},
  Patched <- applyPatch,
  Patches <- ValidPatches,
  None <- NoFile,
  stored <- IF file = NoFile THEN NoFile ELSE file.set,
  served <- IF live = NoFile THEN NoFile ELSE live.set
DurableConfig == Durable!Spec

\* However wizards overlap and are retried, after failures and crashes at any
\* step, also between the SELECT and the INSERT of CreateIdempotentByName or
\* when a COMMIT that took effect reports an error, no database has two
\* accounts of one name (the schema has no constraint: the look-up before the
\* INSERT and the lock around both stand in for it).
NoDuplicateAccount == \A d \in DBs, n \in Names : rows[d][n] <= 1

\* No request passes a gate into a mux that lacks the route it asks for: the
\* gate in front of the pending mux stays shut although config.json is there,
\* and a request that entered before the swap is still refused properly.
NeverUnrouted ==
  client # "none" =>
    \A path \in {"admin_api", "data_plane"} : Answered(path) # "missing"

\* A wizard that was told "ok" left a router in steady state; when a router
\* waits for a wizard although config.json is there, the wizard that wrote it
\* was told of a failure, never left with "ok" or without an answer of this
\* process.  (The failure it is told, 2903 config_write_failed, is that of a
\* write that did not happen: Commit gives a failed reload the same code.)
WizardToldTruth ==
  /\ told = "ok" => /\ handler = "steady"
                    /\ Health(handler, TRUE) = [setup_state |-> "done", status |-> "healthy"]
  /\ (handler = "pending" /\ IsDone /\ lock = Nobody) => told = "config_write_failed"

\* The steady handler is reachable only with a configuration published and
\* stored, and with a store whose schema was migrated - also between the swap
\* and the publications of promoteToSteadyState.  (A URL variable alone moves
\* the store to a database that Commit did not migrate.)
SteadyReady ==
  handler = "steady" =>
    /\ file # NoFile /\ live # NoFile
    /\ live.db = openDB
    /\ env # "url" => schema[openDB] # "empty"
    /\ lock = Nobody => proxy = live.set.proxy

\* A router that was set up, or whose database was, serves again after the last
\* crash, without the operator (BuildApp, BootstrapIfBrownfield).
Recovers ==
  (/\ pid = NoPid /\ faults = MaxFaults
   /\ file # NoFile \/ (env = "both" /\ HasRows(EnvDB) /\ host = "fresh pids"))
  ~> handler = "steady"
=============================================================================
