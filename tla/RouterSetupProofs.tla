-------------------------- MODULE RouterSetupProofs --------------------------
(***************************************************************************)
(* What RouterSetup keeps true for every set of wizards, editors, bodies,  *)
(* patches, databases and process numbers, through every crash and         *)
(* failing call: its four safety properties, and that the configuration    *)
(* file implements DurableSettings.                                        *)
(*                                                                         *)
(* The invariant says, for every place in the code, what the actor there   *)
(* may rely on: RequestAt and BootAt.  The lock keeps the others away from *)
(* what it relies on (LockInv), so a step disturbs its own actor only.     *)
(***************************************************************************)
EXTENDS RouterSetup, TLAPS

Committing == {"commit", "migrate", "lookup", "insert"}
Writing == {"open", "fill", "rename"}
\* Before config.json is there, and after.
Before == {"migrate", "lookup", "insert", "sweep"} \cup Writing
After == {"load", "promote"}
Locked == Before \cup After \cup {"publish"}
WizardLabels == {"idle", "commit"} \cup Locked
EditLabels == {"idle", "update", "load", "publish"} \cup Writing
BootLabels == {"idle", "brownfield", "load"} \cup Writing
Labels == WizardLabels \cup EditLabels \cup BootLabels

\* The settings that setup may install.
Firsts == {Defaults} \cup {Configured(b).set : b \in Accepted}

TypeInv ==
  /\ file \in Config \cup {NoFile}
  /\ tmp \in [Pids -> Config \cup {NoFile, Partial}]
  /\ env \in {"unset", "url", "both"}
  /\ schema \in [DBs -> {"empty", "dirty", "ready"}]
  /\ rows \in [DBs -> [Names -> Nat]]
  /\ pid \in Pids \cup {NoPid}
  /\ handler \in {"none", "pending", "steady"}
  /\ latch \in [{"pending", "steady"} -> BOOLEAN]
  /\ live \in Config \cup {NoFile}
  /\ lock \in Requests \cup {Nobody}
  /\ pc \in [Actors -> Labels]
  /\ buf = [a \in Actors |-> buf[a]]
  /\ client \in {"none", "pending", "steady"}

\* Whoever is past Commit's or Update's first statement holds the lock.
LockInv == \A a \in Requests : pc[a] \in Locked <=> lock = a

WizardAt(w) ==
  /\ pc[w] \in WizardLabels
  /\ pc[w] # "idle" => handler # "none"
  /\ pc[w] \in Committing => buf[w] \in Bodies /\ BodyError(buf[w]) = "ok"
  /\ pc[w] \in {"migrate", "lookup", "insert"} => buf[w] \in Accepted
  /\ pc[w] \in {"lookup", "insert"} => schema[buf[w].db] # "empty"
  /\ pc[w] = "insert" => /\ Seed(buf[w]) # {}
                         /\ \A n \in Seed(buf[w]) : rows[buf[w].db][n] = 0
  /\ pc[w] \in {"sweep"} \cup Writing =>
       /\ buf[w] \in Config /\ buf[w].set \in Firsts
       /\ schema[buf[w].db] # "empty"
  /\ pc[w] \in Before => file = NoFile /\ handler = "pending"
  /\ pc[w] \in After => file # NoFile /\ handler = "pending"
  /\ pc[w] = "publish" => file # NoFile /\ handler = "steady"
  /\ pc[w] \in {"promote", "publish"} => live = Load(env)
  /\ pc[w] = "rename" => tmp[pid] = buf[w]

EditAt(e) ==
  /\ pc[e] \in EditLabels
  /\ pc[e] # "idle" => handler = "steady"
  /\ pc[e] = "update" => buf[e] \in ValidPatches
  /\ pc[e] \in Writing =>
       /\ live # NoFile
       /\ buf[e] \in Config /\ buf[e].db = live.db
       /\ \E p \in ValidPatches : buf[e].set = applyPatch(live.set, p)
  /\ pc[e] = "publish" => buf[e] = Load(env)
  /\ pc[e] = "rename" => tmp[pid] = buf[e]

RequestAt(a) == (a \in Wizards => WizardAt(a)) /\ (a \in Edits => EditAt(a))
RequestInv == \A a \in Requests : RequestAt(a)

BootInv ==
  /\ pc[Boot] \in BootLabels
  /\ pc[Boot] # "idle" => handler = "none" /\ pid # NoPid
  /\ pc[Boot] \in {"brownfield"} \cup Writing => file = NoFile
  /\ pc[Boot] \in Writing => /\ buf[Boot] = Materialized
                             /\ env = "both" /\ schema[EnvDB] # "empty"
  /\ pc[Boot] = "rename" => tmp[pid] = buf[Boot]
  /\ pc[Boot] = "load" => file # NoFile

\* What the process holds, and what it may hold only when it runs.
ProcessInv ==
  /\ ~ latch["pending"]
  /\ handler # "none" => pid # NoPid
  /\ handler = "none" => live = NoFile /\ told = "nothing" /\ client = "none"

\* What is served was stored, and is on a database that was migrated.
ConfigInv ==
  /\ live # NoFile => file # NoFile /\ live.db = Load(env).db
  /\ handler = "steady" => live # NoFile /\ openDB = live.db /\ proxy = live.set.proxy
  /\ env = "unset" /\ file # NoFile => schema[file.db] # "empty"
  /\ env = "both" /\ handler # "none" => schema[EnvDB] # "empty"

ToldInv ==
  /\ told = "ok" => handler = "steady"
  /\ handler = "pending" /\ file # NoFile /\ lock = Nobody => told = "config_write_failed"

IInv ==
  /\ TypeInv /\ LockInv /\ RequestInv /\ BootInv /\ ProcessInv /\ ConfigInv
  /\ ToldInv /\ NoDuplicateAccount

-----------------------------------------------------------------------------
(* What the operators return *)

\* applyPatch of an accepted patch gives settings that may be stored.
LEMMA PatchedSettings ==
  ASSUME NEW s \in Settings, NEW p \in ValidPatches
  PROVE  applyPatch(s, p) \in Settings
<1> DEFINE hit(key) == {i \in p : i.key = key}
           val(key, old) == IF hit(key) = {} THEN old ELSE (CHOOSE i \in hit(key) : TRUE).value
<1>1. DOMAIN s = {"retention", "renames", "proxy"}
  BY DEF Settings
<1> DEFINE Key == [retention |-> "log_retention_days", renames |-> "model_renames",
                   proxy |-> "proxy_url"]
<1>2. applyPatch(s, p) = [k \in DOMAIN s |-> val(Key[k], s[k])]
  BY Zenon DEF applyPatch
<1>3. \A key : hit(key) # {} => /\ (CHOOSE i \in hit(key) : TRUE) \in p
                                /\ (CHOOSE i \in hit(key) : TRUE).key = key
  OBVIOUS
<1>4. val("log_retention_days", s.retention) \in Retentions
  BY <1>3, ValuesAssumption DEF Settings
<1>5. val("model_renames", s.renames) \in Renames
  BY <1>3, ValuesAssumption DEF Settings
<1>6. val("proxy_url", s.proxy) \in Proxies
  BY <1>3, ValuesAssumption DEF Settings
<1>7. /\ Key["retention"] = "log_retention_days" /\ Key["renames"] = "model_renames"
      /\ Key["proxy"] = "proxy_url"
  OBVIOUS
<1> HIDE DEF val, Key
<1> QED BY <1>1, <1>2, <1>4, <1>5, <1>6, <1>7 DEF Settings

\* Load keeps the settings of the file; only the database may be another.
LEMMA Loaded ==
  ASSUME file \in Config
  PROVE  /\ Load(env) \in Config /\ Load(env).set = file.set
         /\ Load(env).db = IF env = "unset" THEN file.db ELSE EnvDB
         /\ env = "unset" => Load(env) = file
BY EnvAssumption DEF Load, Overlay, Config

\* What setup writes is a configuration that an installation may start with.
LEMMA FirstConfigs ==
  /\ Materialized \in Config /\ Materialized.set \in Firsts /\ Materialized.db = EnvDB
  /\ \A b \in Accepted : /\ Configured(b) \in Config /\ Configured(b).set \in Firsts
                         /\ Configured(b).db = b.db /\ b.db \in DBs
<1>1. Materialized \in Config /\ Materialized.set \in Firsts /\ Materialized.db = EnvDB
  BY EnvAssumption, ValuesAssumption DEF Materialized, Config, Firsts
<1>2. ASSUME NEW b \in Accepted
      PROVE  [Defaults EXCEPT !.retention = RetentionOf(b)] \in Settings
  BY ValuesAssumption DEF Settings
<1> QED BY <1>1, <1>2, ValuesAssumption DEF Configured, Config, Firsts

LEMMA ConfigsAreConfigs == NoFile \notin Config /\ NoFile \notin Settings
                           /\ \A c \in Config : c.set \in Settings /\ c.db \in DBs
BY FileAssumption DEF Config

-----------------------------------------------------------------------------
(* The invariant holds initially *)

LEMMA InitIInv == Init => IInv
<1> SUFFICES ASSUME Init PROVE IInv
  OBVIOUS
<1>1. TypeInv
  BY BoundsAssumption DEF Init, TypeInv, NoTmp, Labels, WizardLabels
<1>2. LockInv
  BY ActorsAssumption DEF Init, LockInv, Locked, Before, After, Writing, Actors
<1>3. RequestInv
  BY DEF Init, RequestInv, RequestAt, WizardAt, EditAt, Actors, Requests, WizardLabels,
         EditLabels, Committing, Before, After, Writing
<1>4. BootInv
  BY DEF Init, BootInv, Actors, BootLabels, Writing
<1>5. ProcessInv /\ ConfigInv /\ ToldInv
  BY DEF Init, ProcessInv, ConfigInv, ToldInv
<1>6. NoDuplicateAccount
  <2>1. rows = [d \in DBs |-> [n \in Names |-> 0]]
    BY DEF Init
  <2> QED BY <2>1 DEF NoDuplicateAccount
<1> QED BY <1>1, <1>2, <1>3, <1>4, <1>5, <1>6 DEF IInv

-----------------------------------------------------------------------------
(* Frames: what a step leaves alone *)

NonEmptyKept == \A d \in DBs : schema[d] # "empty" => schema'[d] # "empty"

LEMMA LoadKept == ASSUME env' = env, file' = file PROVE Load(env)' = Load(env)
BY DEF Load, Overlay

\* A request that does not move keeps what it relies on, when it holds no lock
\* or when nothing it relies on changes.
LEMMA StillRequest ==
  ASSUME IInv, NEW a \in Requests, pc'[a] = pc[a], buf'[a] = buf[a], env' = env,
         handler' = handler \/ (handler = "pending" /\ handler' = "steady"),
         \/ pc[a] \notin Locked
         \/ handler' = handler /\ UNCHANGED <<file, tmp, pid, live, rows>> /\ NonEmptyKept
  PROVE  RequestAt(a)'
<1>0. RequestAt(a)
  BY DEF IInv, RequestInv
<1>1. CASE pc[a] \notin Locked
  BY <1>0, <1>1 DEF RequestAt, WizardAt, EditAt, Locked, Before, After, Writing, Committing
<1>2. CASE handler' = handler /\ UNCHANGED <<file, tmp, pid, live, rows>> /\ NonEmptyKept
  <2>1. Load(env)' = Load(env)
    BY <1>2, LoadKept
  <2>2. ASSUME a \in Wizards PROVE WizardAt(a)'
    <3>0. WizardAt(a)
      BY <1>0, <2>2 DEF RequestAt
    <3>1. pc[a] \in {"lookup", "insert"} => buf[a].db \in DBs
      BY <3>0, FirstConfigs DEF WizardAt
    <3>2. pc[a] \in {"sweep"} \cup Writing => buf[a].db \in DBs
      BY <3>0, ConfigsAreConfigs DEF WizardAt
    <3> QED BY <1>2, <2>1, <3>0, <3>1, <3>2 DEF WizardAt, NonEmptyKept
  <2>3. ASSUME a \in Edits PROVE EditAt(a)'
    BY <1>0, <1>2, <2>1, <2>3 DEF RequestAt, EditAt
  <2> QED BY <2>2, <2>3 DEF RequestAt
<1> QED BY <1>1, <1>2

\* While a request is served the start-up code has ended.
LEMMA BootIdle == ASSUME IInv, handler # "none" PROVE pc[Boot] = "idle"
BY DEF IInv, BootInv

LEMMA BusyServed ==
  ASSUME IInv, NEW a \in Requests, pc[a] # "idle"
  PROVE  handler # "none"
BY DEF IInv, RequestInv, RequestAt, WizardAt, EditAt, Requests

\* One request moves to label l with work v, taking or giving back the lock;
\* unless it has the lock, or nobody has, it changes nothing others rely on.
LEMMA RequestStep ==
  ASSUME IInv, NEW b \in Requests, NEW l \in Labels, NEW v,
         handler # "none", env' = env,
         pc' = [pc EXCEPT ![b] = l], buf' = [buf EXCEPT ![b] = v],
         handler' = handler \/ (handler = "pending" /\ handler' = "steady"),
         \/ lock \in {b, Nobody}
         \/ handler' = handler /\ UNCHANGED <<file, tmp, pid, live, rows>> /\ NonEmptyKept,
         \/ l \in Locked /\ lock' = b /\ lock \in {b, Nobody}
         \/ l \notin Locked /\ lock' = IF lock = b THEN Nobody ELSE lock,
         RequestAt(b)'
  PROVE  /\ LockInv' /\ RequestInv' /\ BootInv'
         /\ pc' \in [Actors -> Labels] /\ buf' = [a \in Actors |-> buf'[a]]
         /\ lock' \in Requests \cup {Nobody}
<1> USE DEF Actors
<1>1. /\ pc' \in [Actors -> Labels] /\ buf' = [a \in Actors |-> buf'[a]]
      /\ lock' \in Requests \cup {Nobody}
  BY DEF IInv, TypeInv
<1>2. \A a \in Requests \ {b} : pc'[a] = pc[a] /\ buf'[a] = buf[a]
  BY DEF IInv, TypeInv
<1>3. pc'[b] = l
  BY DEF IInv, TypeInv
<1>4. b # Nobody
  BY ActorsAssumption
<1>5. LockInv'
  <2>1. lock' = b <=> l \in Locked
    BY <1>4
  <2>2. ASSUME NEW a \in Requests \ {b} PROVE pc'[a] \in Locked <=> lock' = a
    BY <1>2, <1>4, ActorsAssumption DEF IInv, LockInv
  <2> QED BY <1>3, <2>1, <2>2 DEF LockInv
<1>6. ASSUME NEW a \in Requests \ {b} PROVE RequestAt(a)'
  <2>1. lock \in {b, Nobody} => pc[a] \notin Locked
    BY ActorsAssumption DEF IInv, LockInv
  <2> QED BY <1>2, <2>1, StillRequest
<1>7. RequestInv'
  BY <1>6 DEF RequestInv
<1>8. BootInv'
  <2>1. pc'[Boot] = "idle"
    BY BootIdle, ActorsAssumption DEF IInv, TypeInv
  <2> QED BY <2>1 DEF BootInv, BootLabels, Writing
<1> QED BY <1>1, <1>5, <1>7, <1>8

\* The answers that release the lock.
LEMMA ReplyStep ==
  ASSUME IInv, NEW b \in Requests, NEW what, Reply(b, what), handler # "none", env' = env,
         handler' = handler,
         \/ lock \in {b, Nobody}
         \/ UNCHANGED <<file, tmp, pid, live, rows>> /\ NonEmptyKept
  PROVE  /\ LockInv' /\ RequestInv' /\ BootInv'
         /\ pc' \in [Actors -> Labels] /\ buf' = [a \in Actors |-> buf'[a]]
         /\ lock' \in Requests \cup {Nobody}
<1>1. "idle" \in Labels /\ "idle" \notin Locked
  BY DEF Labels, WizardLabels, Locked, Before, After, Writing
<1>2. pc' = [pc EXCEPT ![b] = "idle"] /\ buf' = [buf EXCEPT ![b] = NoFile]
      /\ lock' = IF lock = b THEN Nobody ELSE lock
  BY DEF Reply, Goto
<1>3. pc'[b] = "idle"
  BY <1>2 DEF IInv, TypeInv, Actors
<1>4. RequestAt(b)'
  BY <1>3 DEF RequestAt, WizardAt, EditAt, WizardLabels, EditLabels, Committing, Before,
              After, Writing
<1> QED BY <1>1, <1>2, <1>4, RequestStep

\* What an answer leaves: told changes only for a wizard that wrote config.json.
LEMMA ReplyTold ==
  ASSUME NEW b, NEW what, Reply(b, what)
  PROVE  told' = IF b \in Wizards /\ pc[b] \in After \cup {"publish"} THEN what ELSE told
BY DEF Reply, After

\* A migration never empties a schema; one that succeeds leaves it ready.
LEMMA UpKeeps ==
  ASSUME IInv, NEW d \in DBs, Up(d) \/ UpFails(d)
  PROVE  /\ schema' \in [DBs -> {"empty", "dirty", "ready"}] /\ NonEmptyKept
         /\ Up(d) => schema'[d] # "empty"
<1> USE DEF IInv, TypeInv, NonEmptyKept
<1>1. CASE Up(d)
  BY <1>1 DEF Up
<1>2. CASE UpFails(d)
  <2>1. \/ schema' = schema
        \/ schema' = [schema EXCEPT ![d] = IF schema[d] = "empty" THEN "dirty" ELSE schema[d]]
    BY <1>2 DEF UpFails
  <2>2. Up(d) => schema'[d] # "empty"
    BY DEF Up
  <2> QED BY <2>1, <2>2
<1> QED BY <1>1, <1>2

LEMMA SchemaKept == ASSUME schema' = schema PROVE NonEmptyKept
BY DEF NonEmptyKept

\* A process that ends leaves the file, the databases and temporary files.
LEMMA DiesKeeps ==
  ASSUME IInv, Dies, env' = env, file' = file, rows' = rows,
         tmp' \in [Pids -> Config \cup {NoFile, Partial}],
         schema' \in [DBs -> {"empty", "dirty", "ready"}], NonEmptyKept
  PROVE  IInv'
<1>1. \A a \in Actors : pc'[a] = "idle"
  BY DEF Dies
<1>2. TypeInv'
  BY DEF Dies, IInv, TypeInv, Labels, WizardLabels
<1>3. LockInv'
  BY <1>1, ActorsAssumption DEF Dies, LockInv, Locked, Before, After, Writing, Actors
<1>4. RequestInv'
  BY <1>1 DEF RequestInv, RequestAt, WizardAt, EditAt, Actors, Requests, WizardLabels,
              EditLabels, Committing, Before, After, Writing
<1>5. BootInv'
  BY <1>1 DEF BootInv, Actors, BootLabels, Writing
<1>6. ProcessInv' /\ ToldInv'
  BY DEF Dies, ProcessInv, ToldInv
<1>7. ConfigInv'
  <2>1. env = "unset" /\ file # NoFile => schema'[file.db] # "empty"
    BY ConfigsAreConfigs DEF IInv, ConfigInv, TypeInv, NonEmptyKept
  <2> QED BY <2>1 DEF ConfigInv, Dies
<1>8. NoDuplicateAccount'
  BY DEF IInv, NoDuplicateAccount
<1> QED BY <1>2, <1>3, <1>4, <1>5, <1>6, <1>7, <1>8 DEF IInv

LEMMA CrashKeeps == ASSUME IInv, Crash PROVE IInv'
BY DiesKeeps, SchemaKept DEF Crash, IInv, TypeInv, fileVars, dbVars

\* The start-up code moves: there is no request, and nothing is served.
LEMMA BootStep ==
  ASSUME IInv, NEW l \in BootLabels, handler = "none", handler' \in {"none", "pending", "steady"},
         env' = env, lock' = lock, pc' = [pc EXCEPT ![Boot] = l],
         \A a \in Requests : buf'[a] = buf[a],
         buf' = [a \in Actors |-> buf'[a]]
  PROVE  /\ LockInv' /\ RequestInv' /\ pc' \in [Actors -> Labels] /\ pc'[Boot] = l
         /\ \A a \in Requests : pc'[a] = "idle"
<1>1. \A a \in Requests : pc[a] = "idle"
  BY BusyServed
<1>2. \A a \in Requests : pc'[a] = "idle"
  BY <1>1, ActorsAssumption DEF IInv, TypeInv, Actors
<1>3. LockInv'
  BY <1>1, <1>2 DEF IInv, LockInv
<1>4. RequestInv'
  BY <1>2 DEF RequestInv, RequestAt, WizardAt, EditAt, WizardLabels,
              EditLabels, Committing, Before, After, Writing
<1>5. pc' \in [Actors -> Labels] /\ pc'[Boot] = l
  BY DEF IInv, TypeInv, Actors, Labels
<1> QED BY <1>2, <1>3, <1>4, <1>5

LEMMA StartKeeps == ASSUME IInv, NEW p \in Pids, Start(p) PROVE IInv'
<1>0. /\ pid = NoPid /\ pid' = p /\ SweepStale(p)
      /\ pc' = [pc EXCEPT ![Boot] = IF IsDone THEN "load" ELSE "brownfield"]
      /\ UNCHANGED <<file, dbVars, memVars, env, lock, buf, told, client>>
  BY DEF Start, Goto
<1>1. handler = "none"
  BY <1>0 DEF IInv, ProcessInv
<1>2. tmp' \in [Pids -> Config \cup {NoFile, Partial}]
  BY <1>0 DEF SweepStale, IInv, TypeInv
<1>3. (IF IsDone THEN "load" ELSE "brownfield") \in BootLabels
  BY DEF BootLabels
<1>4. /\ LockInv' /\ RequestInv' /\ pc' \in [Actors -> Labels]
      /\ pc'[Boot] = IF IsDone THEN "load" ELSE "brownfield"
  BY <1>0, <1>1, <1>3, BootStep DEF IInv, TypeInv, memVars
<1>5. TypeInv'
  BY <1>0, <1>2, <1>4 DEF IInv, TypeInv, dbVars, memVars
<1>6. BootInv'
  BY <1>0, <1>1, <1>4, ActorsAssumption DEF BootInv, BootLabels, Writing, IsDone, memVars
<1>7. ProcessInv' /\ ToldInv' /\ ConfigInv' /\ NoDuplicateAccount'
  BY <1>0, <1>1, LoadKept DEF IInv, ProcessInv, ToldInv, ConfigInv, NoDuplicateAccount,
                              memVars, dbVars
<1> QED BY <1>4, <1>5, <1>6, <1>7 DEF IInv

\* tryBrownfield gives up, with the schema as the migration left it.
LEMMA BootGivesUp ==
  ASSUME IInv, NEW what, GiveUp(Boot, what), env' = env, file' = file, rows' = rows,
         tmp' \in [Pids -> Config \cup {NoFile, Partial}],
         schema' \in [DBs -> {"empty", "dirty", "ready"}], NonEmptyKept
  PROVE  IInv'
BY DiesKeeps DEF GiveUp

LEMMA BrownfieldKeeps == ASSUME IInv, Brownfield PROVE IInv'
<1>0. /\ pc[Boot] = "brownfield" /\ UNCHANGED <<fileVars, rows, env>>
      /\ handler = "none" /\ pid # NoPid /\ file = NoFile
  BY DEF Brownfield, IInv, BootInv
<1>1. /\ schema' \in [DBs -> {"empty", "dirty", "ready"}] /\ NonEmptyKept
      /\ env = "both" => Up(EnvDB) \/ schema'[EnvDB] = "dirty" \/ GiveUp(Boot, "migrate_failed")
  <2>1. schema' = schema \/ Up(EnvDB) \/ UpFails(EnvDB)
    BY DEF Brownfield
  <2>2. env = "both" => Up(EnvDB) \/ schema'[EnvDB] = "dirty" \/ GiveUp(Boot, "migrate_failed")
    BY DEF Brownfield
  <2> QED BY <2>1, <2>2, UpKeeps, SchemaKept, EnvAssumption DEF IInv, TypeInv
<1>2. CASE GiveUp(Boot, "migrate_failed") \/ GiveUp(Boot, "count_failed")
  BY <1>0, <1>1, <1>2, BootGivesUp DEF fileVars, IInv, TypeInv
<1> DEFINE Waits == /\ Install("pending") /\ Goto(Boot, "idle")
                    /\ UNCHANGED <<pid, buf, lock, told, client, live, proxy, openDB>>
           Writes == /\ env = "both" /\ buf' = [buf EXCEPT ![Boot] = Materialized]
                     /\ Goto(Boot, "open")
                     /\ UNCHANGED <<pid, memVars, lock, told, client>>
<1>3. Waits \/ Writes \/ GiveUp(Boot, "migrate_failed") \/ GiveUp(Boot, "count_failed")
  BY DEF Brownfield
<1>4. ASSUME Waits \/ Writes, env = "both" PROVE schema'[EnvDB] # "empty"
  <2>1. ~ GiveUp(Boot, "migrate_failed")
    <3>1. GiveUp(Boot, "migrate_failed") => pid' = NoPid
      BY DEF GiveUp, Dies
    <3> QED BY <1>0, <1>4, <3>1
  <2> QED BY <1>1, <1>4, <2>1, UpKeeps, EnvAssumption
<1>5. CASE Waits
  <2>0. /\ handler' = "pending" /\ latch' = [latch EXCEPT !["pending"] = FALSE]
        /\ pc' = [pc EXCEPT ![Boot] = "idle"]
        /\ UNCHANGED <<pid, buf, lock, told, client, live, proxy, openDB>>
    BY <1>5 DEF Install, Goto
  <2>1. LockInv' /\ RequestInv' /\ pc' \in [Actors -> Labels] /\ pc'[Boot] = "idle"
    <3>1. "idle" \in BootLabels
      BY DEF BootLabels
    <3> QED BY <1>0, <2>0, <3>1, BootStep DEF IInv, TypeInv
  <2>2. TypeInv'
    BY <1>0, <1>1, <2>0, <2>1 DEF IInv, TypeInv, fileVars
  <2>3. BootInv'
    BY <2>1 DEF BootInv, BootLabels, Writing
  <2>4. ProcessInv' /\ ToldInv' /\ NoDuplicateAccount'
    BY <1>0, <2>0 DEF IInv, TypeInv, ProcessInv, ToldInv, NoDuplicateAccount, fileVars
  <2>5. ConfigInv'
    BY <1>0, <1>4, <1>5, <2>0 DEF IInv, ProcessInv, ConfigInv, fileVars
  <2> QED BY <2>1, <2>2, <2>3, <2>4, <2>5 DEF IInv
<1>6. CASE Writes
  <2>0. /\ env = "both" /\ buf' = [buf EXCEPT ![Boot] = Materialized]
        /\ pc' = [pc EXCEPT ![Boot] = "open"]
        /\ UNCHANGED <<pid, memVars, lock, told, client>>
    BY <1>6 DEF Goto
  <2>1. /\ buf' = [a \in Actors |-> buf'[a]] /\ buf'[Boot] = Materialized
        /\ \A a \in Requests : buf'[a] = buf[a]
    BY <2>0, ActorsAssumption DEF IInv, TypeInv, Actors
  <2>2. LockInv' /\ RequestInv' /\ pc' \in [Actors -> Labels] /\ pc'[Boot] = "open"
    <3>1. "open" \in BootLabels
      BY DEF BootLabels, Writing
    <3> QED BY <1>0, <2>0, <2>1, <3>1, BootStep DEF IInv, TypeInv, memVars
  <2>3. TypeInv'
    BY <1>0, <1>1, <2>0, <2>1, <2>2 DEF IInv, TypeInv, fileVars, memVars
  <2>4. BootInv'
    BY <1>0, <1>4, <1>6, <2>0, <2>1, <2>2 DEF BootInv, BootLabels, Writing, fileVars, memVars
  <2>5. ProcessInv' /\ ToldInv' /\ NoDuplicateAccount'
    BY <1>0, <2>0 DEF IInv, ProcessInv, ToldInv, NoDuplicateAccount, fileVars, memVars
  <2>6. ConfigInv'
    BY <1>0, <2>0 DEF IInv, ProcessInv, ConfigInv, fileVars, memVars
  <2> QED BY <2>2, <2>3, <2>4, <2>5, <2>6 DEF IInv
<1> QED BY <1>2, <1>3, <1>5, <1>6

LEMMA ServeKeeps == ASSUME IInv, Serve PROVE IInv'
<1> DEFINE cfg == Load(env)
<1>0. /\ pc[Boot] = "load" /\ UNCHANGED <<fileVars, rows, env>>
      /\ handler = "none" /\ pid # NoPid /\ file # NoFile /\ file \in Config
  BY DEF Serve, IInv, BootInv, TypeInv
<1>1. /\ cfg \in Config /\ cfg # NoFile /\ cfg.db \in DBs
      /\ cfg.db = IF env = "unset" THEN file.db ELSE EnvDB
  BY <1>0, Loaded, ConfigsAreConfigs
<1>2. Load(env)' = cfg
  BY <1>0, LoadKept DEF fileVars
<1> DEFINE Up2 == Up(cfg.db) \/ (UpFails(cfg.db) /\ schema'[cfg.db] = "dirty")
           Serves == /\ Up2 /\ Install("steady")
                     /\ live' = cfg /\ proxy' = cfg.set.proxy /\ openDB' = cfg.db
                     /\ Goto(Boot, "idle") /\ buf' = [buf EXCEPT ![Boot] = NoFile]
                     /\ UNCHANGED <<pid, lock, told, client>>
<1>3. Serves \/ (UNCHANGED schema /\ GiveUp(Boot, "start_failed"))
  BY Zenon DEF Serve
<1> HIDE DEF cfg
<1>4. CASE UNCHANGED schema /\ GiveUp(Boot, "start_failed")
  BY <1>0, <1>4, SchemaKept, BootGivesUp DEF IInv, TypeInv, fileVars
<1>5. CASE Serves
  <2>0. /\ handler' = "steady" /\ latch' = [latch EXCEPT !["steady"] = TRUE]
        /\ pc' = [pc EXCEPT ![Boot] = "idle"] /\ buf' = [buf EXCEPT ![Boot] = NoFile]
        /\ live' = cfg /\ proxy' = cfg.set.proxy /\ openDB' = cfg.db
        /\ UNCHANGED <<pid, lock, told, client>>
    BY <1>5 DEF Install, Goto
  <2>1. /\ schema' \in [DBs -> {"empty", "dirty", "ready"}] /\ NonEmptyKept
        /\ schema'[cfg.db] # "empty"
    BY <1>1, <1>5, UpKeeps
  <2>2. /\ buf' = [a \in Actors |-> buf'[a]] /\ \A a \in Requests : buf'[a] = buf[a]
    BY <2>0, ActorsAssumption DEF IInv, TypeInv, Actors
  <2>3. LockInv' /\ RequestInv' /\ pc' \in [Actors -> Labels] /\ pc'[Boot] = "idle"
    <3>1. "idle" \in BootLabels
      BY DEF BootLabels
    <3> QED BY <1>0, <2>0, <2>2, <3>1, BootStep
  <2>4. TypeInv'
    BY <1>0, <1>1, <2>0, <2>1, <2>2, <2>3 DEF IInv, TypeInv, fileVars
  <2>5. BootInv'
    BY <2>3 DEF BootInv, BootLabels, Writing
  <2>6. ProcessInv' /\ ToldInv' /\ NoDuplicateAccount'
    BY <1>0, <2>0 DEF IInv, TypeInv, ProcessInv, ToldInv, NoDuplicateAccount
  <2>7. ConfigInv'
    BY <1>0, <1>1, <1>2, <2>0, <2>1 DEF ConfigInv, fileVars
  <2> QED BY <2>3, <2>4, <2>5, <2>6, <2>7 DEF IInv
<1> QED BY <1>3, <1>4, <1>5

\* Steps of the operator and of a client, and steps outside the model.
LEMMA OutsideKeeps ==
  ASSUME IInv, UNCHANGED <<fileVars, rows, handler, live, proxy, openDB, lock, pc, buf, told,
                           env, pid>>,
         schema' \in [DBs -> {"empty", "dirty", "ready"}], NonEmptyKept,
         latch' \in [{"pending", "steady"} -> BOOLEAN], ~ latch'["pending"],
         client' \in {"none", "pending", "steady"}, handler = "none" => client' = "none"
  PROVE  IInv'
<1>0. UNCHANGED <<file, tmp>>
  BY DEF fileVars
<1>1. TypeInv' /\ LockInv' /\ ProcessInv' /\ ToldInv' /\ NoDuplicateAccount'
  BY <1>0 DEF IInv, TypeInv, LockInv, ProcessInv, ToldInv, NoDuplicateAccount
<1>2. RequestInv'
  BY <1>0, StillRequest DEF RequestInv
<1>3. BootInv'
  BY <1>0, EnvAssumption DEF IInv, BootInv, NonEmptyKept
<1>4. ConfigInv'
  BY <1>0, LoadKept, EnvAssumption, ConfigsAreConfigs DEF IInv, ConfigInv, NonEmptyKept, TypeInv
<1> QED BY <1>1, <1>2, <1>3, <1>4 DEF IInv

LEMMA ForceKeeps == ASSUME IInv, NEW d \in DBs, MigrateForce(d) PROVE IInv'
<1>1. /\ schema' \in [DBs -> {"empty", "dirty", "ready"}] /\ NonEmptyKept
  BY DEF MigrateForce, IInv, TypeInv, NonEmptyKept
<1>2. UNCHANGED <<fileVars, rows, memVars, actVars, env, pid, client>>
  BY DEF MigrateForce
<1> QED BY <1>1, <1>2, OutsideKeeps DEF memVars, actVars, IInv, TypeInv, ProcessInv

\* The gate of the pending handler is never latched, since it does not watch
\* the file system.
LEMMA PendingShut ==
  ASSUME IInv, NEW h \in {"pending", "steady"}
  PROVE  /\ Latched(h) \in [{"pending", "steady"} -> BOOLEAN] /\ ~ Latched(h)["pending"]
         /\ h = "pending" => ~ Open(h)
BY DEF IInv, ProcessInv, TypeInv, Latched, Open, Observes

LEMMA ClientKeeps == ASSUME IInv, Enter \/ Ask PROVE IInv'
<1>1. CASE Enter
  BY <1>1, SchemaKept, OutsideKeeps
     DEF Enter, dbVars, memVars, actVars, IInv, TypeInv, ProcessInv
<1>2. CASE Ask
  <2>1. client \in {"pending", "steady"} /\ handler # "none"
    BY <1>2 DEF Ask, IInv, TypeInv, ProcessInv
  <2> QED BY <1>2, <2>1, PendingShut, SchemaKept, OutsideKeeps
             DEF Ask, dbVars, actVars, IInv, TypeInv
<1> QED BY <1>1, <1>2

LEMMA StutterKeeps == ASSUME IInv, UNCHANGED vars PROVE IInv'
BY SchemaKept, OutsideKeeps
   DEF vars, dbVars, memVars, actVars, IInv, TypeInv, ProcessInv

-----------------------------------------------------------------------------
(* Steps of a request that leave config.json and the served value alone *)

\* What every such step leaves alone, but for the seeded account.
Apart(b) ==
  /\ UNCHANGED <<file, env, pid, handler, live, proxy, openDB, client>>
  /\ latch' \in [{"pending", "steady"} -> BOOLEAN] /\ ~ latch'["pending"]
  /\ tmp' \in [Pids -> Config \cup {NoFile, Partial}]
  /\ lock \in {b, Nobody} \/ UNCHANGED <<tmp, rows>>
  /\ schema' \in [DBs -> {"empty", "dirty", "ready"}] /\ NonEmptyKept
  /\ rows' \in [DBs -> [Names -> Nat]] /\ NoDuplicateAccount'

LEMMA ApartKeeps ==
  ASSUME IInv, NEW b, Apart(b), handler # "none"
  PROVE  ProcessInv' /\ ConfigInv'
<1>1. ProcessInv'
  BY DEF IInv, ProcessInv, Apart
<1>2. ConfigInv'
  BY LoadKept, EnvAssumption, ConfigsAreConfigs
     DEF IInv, ConfigInv, NonEmptyKept, TypeInv, Apart
<1> QED BY <1>1, <1>2

\* The request is answered.  The wizard that wrote config.json and leaves the
\* pending handler in place says so.
LEMMA AnswerKeeps ==
  ASSUME IInv, NEW b \in Requests, NEW what, Reply(b, what), Apart(b), handler # "none",
         lock = b /\ handler = "pending" /\ file # NoFile =>
           b \in Wizards /\ pc[b] \in After /\ what = "config_write_failed",
         b \in Wizards /\ pc[b] \in After \cup {"publish"} /\ what = "ok" => handler = "steady"
  PROVE  IInv'
<1>1. /\ LockInv' /\ RequestInv' /\ BootInv'
      /\ pc' \in [Actors -> Labels] /\ buf' = [a \in Actors |-> buf'[a]]
      /\ lock' \in Requests \cup {Nobody}
  BY ReplyStep DEF Apart
<1>2. TypeInv'
  BY <1>1 DEF IInv, TypeInv, Apart
<1>3. ToldInv'
  <2>1. told' = "ok" => handler = "steady"
    BY ReplyTold DEF IInv, ToldInv
  <2>2. lock' = Nobody => lock = Nobody \/ lock = b
    BY DEF Reply
  <2>3. ASSUME handler = "pending", file # NoFile, lock' = Nobody
        PROVE  told' = "config_write_failed"
    <3>1. CASE lock = b
      BY <2>3, <3>1, ReplyTold
    <3>2. CASE lock = Nobody
      <4>1. pc[b] \notin After \cup {"publish"}
        BY <3>2, ActorsAssumption DEF IInv, LockInv, Locked, Actors
      <4> QED BY <2>3, <3>2, <4>1, ReplyTold DEF IInv, ToldInv
    <3> QED BY <2>2, <2>3, <3>1, <3>2
  <2> QED BY <2>1, <2>3 DEF ToldInv, Apart
<1> QED BY <1>1, <1>2, <1>3, ApartKeeps DEF IInv, Apart

\* The request goes on, with the lock or towards it.
LEMMA MoveKeeps ==
  ASSUME IInv, NEW b \in Requests, NEW l \in Labels, NEW v, Apart(b), handler # "none",
         pc' = [pc EXCEPT ![b] = l], buf' = [buf EXCEPT ![b] = v], told' = told,
         \/ l \in Locked /\ lock' = b /\ lock \in {b, Nobody}
         \/ l \notin Locked /\ lock' = lock /\ pc[b] = "idle",
         RequestAt(b)'
  PROVE  IInv'
<1>0. lock = b => pc[b] # "idle"
  BY DEF IInv, LockInv, Locked, Before, After, Writing
<1>1. /\ LockInv' /\ RequestInv' /\ BootInv'
      /\ pc' \in [Actors -> Labels] /\ buf' = [a \in Actors |-> buf'[a]]
      /\ lock' \in Requests \cup {Nobody}
  BY <1>0, RequestStep DEF Apart
<1>2. TypeInv'
  BY <1>1 DEF IInv, TypeInv, Apart
<1>3. ToldInv'
  <2>1. lock' = Nobody => lock = Nobody
    BY ActorsAssumption DEF Actors
  <2> QED BY <2>1 DEF IInv, ToldInv, Apart
<1> QED BY <1>1, <1>2, <1>3, ApartKeeps DEF IInv, Apart

\* Moved work is where it should be.
LEMMA Moved ==
  ASSUME IInv, NEW b \in Requests, NEW l, NEW v, pc' = [pc EXCEPT ![b] = l],
         buf' = [buf EXCEPT ![b] = v]
  PROVE  pc'[b] = l /\ buf'[b] = v
BY DEF IInv, TypeInv, Actors

LEMMA WorkKept == ASSUME IInv, buf' = buf PROVE \A b : buf' = [buf EXCEPT ![b] = buf[b]]
BY DEF IInv, TypeInv

LEMMA SubmitKeeps ==
  ASSUME IInv, NEW w \in Wizards, NEW b \in Bodies, Submit(w, b)
  PROVE  IInv'
<1>0. /\ handler # "none" /\ pc[w] = "idle" /\ latch' = Latched(handler) /\ w \in Requests
      /\ UNCHANGED <<fileVars, dbVars, env, pid, handler, live, proxy, openDB, client>>
  BY DEF Submit, Requests
<1>1. Apart(w)
  BY <1>0, PendingShut, SchemaKept DEF Apart, IInv, TypeInv, fileVars, dbVars, NoDuplicateAccount
<1>2. lock # w
  BY <1>0 DEF IInv, LockInv, Locked, Before, After, Writing
<1> DEFINE err == IF Open(handler) THEN "setup_already_done" ELSE BodyError(b)
<1>3. CASE Open(handler) \/ BodyError(b) # "ok"
  <2>1. Reply(w, err)
    BY <1>3 DEF Submit
  <2>2. err # "ok"
    BY <1>3
  <2> QED BY <1>0, <1>1, <1>2, <2>1, <2>2, AnswerKeeps
<1>4. CASE ~ (Open(handler) \/ BodyError(b) # "ok")
  <2>1. /\ pc' = [pc EXCEPT ![w] = "commit"] /\ buf' = [buf EXCEPT ![w] = b]
        /\ lock' = lock /\ told' = told
    BY <1>4 DEF Submit, Goto
  <2>2. RequestAt(w)'
    <3>1. pc'[w] = "commit" /\ buf'[w] = b
      BY <1>0, <2>1, Moved
    <3> QED BY <1>0, <1>4, <3>1, ActorsAssumption DEF RequestAt, WizardAt, WizardLabels,
              Committing, Before, After, Writing
  <2>3. "commit" \in Labels /\ "commit" \notin Locked
    BY DEF Labels, WizardLabels, Locked, Before, After, Writing
  <2> QED BY <1>0, <1>1, <2>1, <2>2, <2>3, MoveKeeps
<1> QED BY <1>3, <1>4

LEMMA CommitKeeps == ASSUME IInv, NEW w \in Wizards, Commit(w) PROVE IInv'
<1>0. /\ pc[w] = "commit" /\ lock = Nobody /\ w \in Requests
      /\ UNCHANGED <<fileVars, dbVars, memVars, env, pid, client>>
  BY DEF Commit, Requests
<1>1. Apart(w) /\ handler # "none"
  BY <1>0, SchemaKept, BusyServed
     DEF Apart, IInv, TypeInv, fileVars, dbVars, memVars, NoDuplicateAccount, ProcessInv
<1>2. lock # w
  BY <1>0, ActorsAssumption DEF Actors
<1>3. ASSUME NEW what, Reply(w, what), what # "ok" PROVE IInv'
  BY <1>0, <1>1, <1>2, <1>3, AnswerKeeps
<1>4. CASE /\ ~ IsDone /\ CommitError(buf[w]) = "ok"
           /\ lock' = w /\ Goto(w, "migrate") /\ UNCHANGED <<buf, told>>
  <2>1. /\ pc' = [pc EXCEPT ![w] = "migrate"] /\ buf' = [buf EXCEPT ![w] = buf[w]]
        /\ told' = told
    BY <1>4, WorkKept DEF Goto
  <2>2. RequestAt(w)'
    <3>1. pc'[w] = "migrate" /\ buf'[w] = buf[w]
      BY <1>0, <2>1, Moved
    <3>2. WizardAt(w)
      BY <1>0 DEF IInv, RequestInv, RequestAt
    <3>3. buf[w] \in Accepted
      BY <1>0, <1>4, <3>2 DEF Accepted, WizardAt, Committing
    <3>4. handler = "pending" /\ file = NoFile
      BY <1>1, <1>4 DEF IInv, ConfigInv, TypeInv, IsDone
    <3> QED BY <1>0, <3>1, <3>2, <3>3, <3>4, ActorsAssumption
            DEF RequestAt, WizardAt, WizardLabels,
              Committing, Before, After, Writing, Locked,
                Apart, fileVars, memVars, Accepted
  <2>3. "migrate" \in Labels /\ "migrate" \in Locked
    BY DEF Labels, WizardLabels, Locked, Before
  <2> QED BY <1>0, <1>1, <1>4, <2>1, <2>2, <2>3, MoveKeeps
<1>5. \/ \E what : Reply(w, what) /\ what # "ok"
      \/ /\ ~ IsDone /\ CommitError(buf[w]) = "ok"
         /\ lock' = w /\ Goto(w, "migrate") /\ UNCHANGED <<buf, told>>
  <2>1. "setup_already_done" # "ok" /\ "invalid_dsn" # "ok"
    OBVIOUS
  <2> QED BY <2>1, Zenon DEF Commit
<1> QED BY <1>3, <1>4, <1>5

\* A wizard past Commit's checks: where it is, and that it holds the lock.
LEMMA WizardBusy ==
  ASSUME IInv, NEW w \in Wizards, pc[w] \in Locked
  PROVE  WizardAt(w) /\ lock = w /\ w \in Requests /\ w \notin Edits /\ handler # "none"
BY BusyServed, ActorsAssumption
   DEF IInv, RequestInv, RequestAt, LockInv, Requests, Locked, Before, After, Writing

LEMMA MigrateKeeps == ASSUME IInv, NEW w \in Wizards, Migrate(w) PROVE IInv'
<1>0. /\ pc[w] = "migrate" /\ UNCHANGED <<fileVars, rows, memVars, env, pid, client>>
  BY DEF Migrate
<1>1. WizardAt(w) /\ lock = w /\ w \in Requests /\ w \notin Edits /\ handler # "none"
  BY <1>0, WizardBusy DEF Locked, Before
<1>2. /\ buf[w] \in Accepted /\ buf[w].db \in DBs /\ file = NoFile /\ handler = "pending"
      /\ buf[w] \in Bodies /\ BodyError(buf[w]) = "ok"
  BY <1>0, <1>1, FirstConfigs DEF WizardAt, Before, Committing
<1>3. /\ schema' \in [DBs -> {"empty", "dirty", "ready"}] /\ NonEmptyKept
      /\ Up(buf[w].db) => schema'[buf[w].db] # "empty"
  BY <1>2, UpKeeps DEF Migrate
<1>4. Apart(w)
  BY <1>0, <1>1, <1>3 DEF Apart, IInv, TypeInv, fileVars, memVars, NoDuplicateAccount, ProcessInv
<1>5. CASE Up(buf[w].db) /\ Goto(w, "lookup") /\ UNCHANGED <<lock, buf, told>>
  <2>1. pc' = [pc EXCEPT ![w] = "lookup"] /\ buf' = [buf EXCEPT ![w] = buf[w]]
    BY <1>5, WorkKept DEF Goto
  <2>2. RequestAt(w)'
    <3>1. pc'[w] = "lookup" /\ buf'[w] = buf[w]
      BY <1>1, <2>1, Moved
    <3> QED BY <1>0, <1>1, <1>2, <1>3, <1>5, <3>1
            DEF RequestAt, WizardAt, WizardLabels,
              Committing, Before, After, Writing, Locked,
                fileVars, memVars
  <2>3. "lookup" \in Labels /\ "lookup" \in Locked
    BY DEF Labels, WizardLabels, Locked, Before
  <2> QED BY <1>1, <1>4, <1>5, <2>1, <2>2, <2>3, MoveKeeps
<1>6. CASE Reply(w, "migrate_failed")
  BY <1>1, <1>2, <1>4, <1>6, AnswerKeeps
<1> QED BY <1>5, <1>6 DEF Migrate

\* The SELECT: a wizard goes on to the INSERT only when there is no such row.
LEMMA LookupKeeps == ASSUME IInv, NEW w \in Wizards, LookupAccount(w) PROVE IInv'
<1>0. /\ pc[w] = "lookup" /\ UNCHANGED <<fileVars, dbVars, memVars, env, pid, client>>
  BY DEF LookupAccount
<1>1. WizardAt(w) /\ lock = w /\ w \in Requests /\ w \notin Edits /\ handler # "none"
  BY <1>0, WizardBusy DEF Locked, Before
<1>2. /\ buf[w] \in Accepted /\ buf[w].db \in DBs /\ file = NoFile /\ handler = "pending"
      /\ schema[buf[w].db] # "empty" /\ buf[w] \in Bodies /\ BodyError(buf[w]) = "ok"
  BY <1>0, <1>1, FirstConfigs DEF WizardAt, Before, Committing
<1>3. Apart(w)
  BY <1>0, <1>1, SchemaKept DEF Apart, IInv, TypeInv, fileVars, dbVars, memVars, ProcessInv,
       NoDuplicateAccount
<1> DEFINE new == \E n \in Seed(buf[w]) : rows[buf[w].db][n] = 0
           l == IF new THEN "insert" ELSE "sweep"
           v == IF new THEN buf[w] ELSE Configured(buf[w])
<1>4. CASE /\ Goto(w, l) /\ buf' = [buf EXCEPT ![w] = IF new THEN @ ELSE Configured(@)]
           /\ UNCHANGED <<lock, told>>
  <2>1. pc' = [pc EXCEPT ![w] = l] /\ buf' = [buf EXCEPT ![w] = v]
    BY <1>4 DEF Goto
  <2>2. pc'[w] = l /\ buf'[w] = v
    BY <1>1, <2>1, Moved
  <2>3. RequestAt(w)'
    <3>1. CASE new
      <4>1. Seed(buf[w]) # {} /\ \A n \in Seed(buf[w]) : rows[buf[w].db][n] = 0
        BY <3>1, Zenon DEF Seed
      <4>2. pc'[w] = "insert" /\ buf'[w] = buf[w]
        BY <2>2, <3>1
      <4> QED BY <1>0, <1>1, <1>2, <4>1, <4>2
              DEF RequestAt, WizardAt, WizardLabels, Committing, Before, After, Writing,
                  Locked, fileVars, dbVars, memVars
    <3>2. CASE ~new
      <4>1. pc'[w] = "sweep" /\ buf'[w] = Configured(buf[w])
        BY <2>2, <3>2
      <4> QED BY <1>0, <1>1, <1>2, <4>1, FirstConfigs
              DEF RequestAt, WizardAt, WizardLabels, Committing, Before, After, Writing,
                  Locked, fileVars, dbVars, memVars
    <3> QED BY <3>1, <3>2
  <2>4. l \in Labels /\ l \in Locked
    BY DEF Labels, WizardLabels, Locked, Before
  <2> HIDE DEF l, v
  <2> QED BY <1>1, <1>3, <1>4, <2>1, <2>3, <2>4, MoveKeeps
<1>5. CASE Reply(w, "commit_tx_failed")
  BY <1>0, <1>1, <1>2, <1>3, <1>5, AnswerKeeps DEF After
<1> QED BY <1>4, <1>5 DEF LookupAccount

\* The INSERT adds the one account the look-up did not find, or nothing.
LEMMA CreateOnce ==
  ASSUME IInv, NEW b, b.db \in DBs, CreateAccount(b), Seed(b) # {},
         \A n \in Seed(b) : rows[b.db][n] = 0
  PROVE  rows' \in [DBs -> [Names -> Nat]] /\ NoDuplicateAccount'
<1>0. /\ rows \in [DBs -> [Names -> Nat]] /\ \A x \in DBs, y \in Names : rows[x][y] <= 1
  BY DEF IInv, TypeInv, NoDuplicateAccount
<1>1. PICK n \in Seed(b) : rows' = [rows EXCEPT ![b.db][n] = @ + 1]
  BY DEF CreateAccount
<1> DEFINE d == b.db
           one == [rows[d] EXCEPT ![n] = 1]
<1>2. rows' = [rows EXCEPT ![d] = one] /\ d \in DBs
  <2>1. rows[d][n] = 0
    OBVIOUS
  <2> QED BY <1>1, <2>1
<1>3. one \in [Names -> Nat] /\ \A y \in Names : one[y] <= 1
  <2>1. ASSUME NEW g \in [Names -> Nat], \A y \in Names : g[y] <= 1
        PROVE  /\ [g EXCEPT ![n] = 1] \in [Names -> Nat]
               /\ \A y \in Names : [g EXCEPT ![n] = 1][y] <= 1
    <3> DEFINE h == [g EXCEPT ![n] = 1]
    <3>1. \A y \in Names : h[y] = IF y = n THEN 1 ELSE g[y]
      BY <2>1
    <3>2. \A y \in Names : h[y] \in Nat /\ h[y] <= 1
      BY <2>1, <3>1
    <3>3. h \in [Names -> Nat]
      BY <2>1, <3>2
    <3> QED BY <3>2, <3>3
  <2>2. rows[d] \in [Names -> Nat] /\ \A y \in Names : rows[d][y] <= 1
    BY <1>0
  <2> QED BY <2>1, <2>2
<1> HIDE DEF one, d
<1>4. rows' \in [DBs -> [Names -> Nat]] /\ \A x \in DBs, y \in Names : rows'[x][y] <= 1
  BY <1>0, <1>2, <1>3
<1> QED BY <1>4 DEF NoDuplicateAccount

LEMMA InsertKeeps == ASSUME IInv, NEW w \in Wizards, InsertAccount(w) PROVE IInv'
<1>0. /\ pc[w] = "insert" /\ UNCHANGED <<fileVars, schema, memVars, env, pid, client>>
      /\ rows' = rows \/ CreateAccount(buf[w])
  BY DEF InsertAccount
<1>1. WizardAt(w) /\ lock = w /\ w \in Requests /\ w \notin Edits /\ handler # "none"
  BY <1>0, WizardBusy DEF Locked, Before
<1>2. /\ buf[w] \in Accepted /\ buf[w].db \in DBs /\ file = NoFile /\ handler = "pending"
      /\ schema[buf[w].db] # "empty" /\ \A n \in Seed(buf[w]) : rows[buf[w].db][n] = 0
      /\ Seed(buf[w]) # {}
  BY <1>0, <1>1, FirstConfigs DEF WizardAt, Before, Committing
<1>3. rows' \in [DBs -> [Names -> Nat]] /\ NoDuplicateAccount'
  <2>1. CASE rows' = rows
    BY <2>1 DEF IInv, TypeInv, NoDuplicateAccount
  <2> QED BY <1>0, <1>2, <2>1, CreateOnce
<1>4. Apart(w)
  BY <1>0, <1>1, <1>3, SchemaKept DEF Apart, IInv, TypeInv, fileVars, memVars, ProcessInv
<1>5. CASE Goto(w, "sweep") /\ buf' = [buf EXCEPT ![w] = Configured(@)] /\ UNCHANGED <<lock, told>>
  <2>1. pc' = [pc EXCEPT ![w] = "sweep"] /\ buf' = [buf EXCEPT ![w] = Configured(buf[w])]
    BY <1>5 DEF Goto
  <2>2. RequestAt(w)'
    <3>1. pc'[w] = "sweep" /\ buf'[w] = Configured(buf[w])
      BY <1>1, <2>1, Moved
    <3> QED BY <1>0, <1>1, <1>2, <3>1, FirstConfigs
            DEF RequestAt, WizardAt, WizardLabels,
              Committing, Before, After, Writing, Locked,
                fileVars, memVars
  <2>3. "sweep" \in Labels /\ "sweep" \in Locked
    BY DEF Labels, WizardLabels, Locked, Before
  <2> QED BY <1>1, <1>4, <1>5, <2>1, <2>2, <2>3, MoveKeeps
<1>6. CASE Reply(w, "commit_tx_failed")
  BY <1>0, <1>1, <1>2, <1>4, <1>6, AnswerKeeps DEF After
<1> QED BY <1>5, <1>6 DEF InsertAccount

LEMMA SweepKeeps == ASSUME IInv, NEW w \in Wizards, Sweep(w) PROVE IInv'
<1>0. /\ pc[w] = "sweep" /\ Goto(w, "open")
      /\ UNCHANGED <<file, dbVars, memVars, env, pid, client, lock, buf, told>>
  BY DEF Sweep
<1>1. WizardAt(w) /\ lock = w /\ w \in Requests /\ w \notin Edits /\ handler # "none"
  BY <1>0, WizardBusy DEF Locked, Before
<1>2. tmp' \in [Pids -> Config \cup {NoFile, Partial}]
  BY DEF Sweep, SweepStale, IInv, TypeInv
<1>3. Apart(w)
  BY <1>0, <1>1, <1>2, SchemaKept DEF Apart, IInv, TypeInv, dbVars, memVars, ProcessInv,
       NoDuplicateAccount
<1>4. pc' = [pc EXCEPT ![w] = "open"] /\ buf' = [buf EXCEPT ![w] = buf[w]]
  BY <1>0, WorkKept DEF Goto
<1>5. RequestAt(w)'
  <2>1. pc'[w] = "open" /\ buf'[w] = buf[w]
    BY <1>1, <1>4, Moved
  <2> QED BY <1>0, <1>1, <2>1
          DEF RequestAt, WizardAt, WizardLabels,
              Committing, Before, After, Writing, Locked,
              dbVars, memVars
<1>6. "open" \in Labels /\ "open" \in Locked
  BY DEF Labels, WizardLabels, Locked, Before, Writing
<1> QED BY <1>0, <1>1, <1>3, <1>4, <1>5, <1>6, MoveKeeps

-----------------------------------------------------------------------------
(* Settings *)

LEMMA EditBusy ==
  ASSUME IInv, NEW e \in Edits, pc[e] # "idle"
  PROVE  /\ EditAt(e) /\ e \in Requests /\ e \notin Wizards /\ handler = "steady"
         /\ live # NoFile /\ live \in Config /\ file # NoFile /\ file \in Config
         /\ pc[e] \in Locked => lock = e
<1>1. EditAt(e) /\ e \in Requests /\ e \notin Wizards /\ handler = "steady"
  BY ActorsAssumption DEF IInv, RequestInv, RequestAt, EditAt, Requests
<1> QED BY <1>1 DEF IInv, ConfigInv, TypeInv, LockInv

LEMMA PatchKeeps ==
  ASSUME IInv, NEW e \in Edits, NEW p \in SettingsPatches, Patch(e, p)
  PROVE  IInv'
<1>0. /\ handler = "steady" /\ pc[e] = "idle" /\ e \in Requests /\ e \notin Wizards
      /\ UNCHANGED <<fileVars, dbVars, memVars, env, pid, client>>
  BY ActorsAssumption DEF Patch, Requests
<1>1. Apart(e)
  BY <1>0, SchemaKept DEF Apart, IInv, TypeInv, fileVars, dbVars, memVars, ProcessInv,
       NoDuplicateAccount
<1>2. lock # e
  BY <1>0 DEF IInv, LockInv, Locked, Before, After, Writing
<1>3. CASE PatchErrors(p) # {}
  <2>1. \E err : Reply(e, err)
    BY <1>3 DEF Patch
  <2> QED BY <1>0, <1>1, <1>2, <2>1, AnswerKeeps
<1>4. CASE PatchErrors(p) = {}
  <2>1. /\ pc' = [pc EXCEPT ![e] = "update"] /\ buf' = [buf EXCEPT ![e] = p]
        /\ lock' = lock /\ told' = told
    BY <1>4 DEF Patch, Goto
  <2>2. RequestAt(e)'
    <3>1. pc'[e] = "update" /\ buf'[e] = p
      BY <1>0, <2>1, Moved
    <3> QED BY <1>0, <1>4, <3>1 DEF RequestAt, EditAt, EditLabels, Writing, ValidPatches, memVars
  <2>3. "update" \in Labels /\ "update" \notin Locked
    BY DEF Labels, EditLabels, Locked, Before, After, Writing
  <2> QED BY <1>0, <1>1, <2>1, <2>2, <2>3, MoveKeeps
<1> QED BY <1>3, <1>4

LEMMA UpdateKeeps == ASSUME IInv, NEW e \in Edits, Update(e) PROVE IInv'
<1>0. /\ pc[e] = "update" /\ lock = Nobody
      /\ UNCHANGED <<fileVars, dbVars, memVars, env, pid, client>>
  BY DEF Update
<1>1. /\ EditAt(e) /\ e \in Requests /\ e \notin Wizards /\ handler = "steady"
      /\ live # NoFile /\ live \in Config
  BY <1>0, EditBusy
<1>2. Apart(e)
  BY <1>0, <1>1, SchemaKept DEF Apart, IInv, TypeInv, fileVars, dbVars, memVars, ProcessInv,
       NoDuplicateAccount
<1> DEFINE next == [live EXCEPT !.set = applyPatch(live.set, buf[e])]
<1>3. /\ pc' = [pc EXCEPT ![e] = "open"] /\ buf' = [buf EXCEPT ![e] = next]
      /\ lock' = e /\ told' = told
  BY <1>1 DEF Update, Goto
<1>4. /\ buf[e] \in ValidPatches /\ next \in Config /\ next.db = live.db
      /\ next.set = applyPatch(live.set, buf[e])
  <2>1. buf[e] \in ValidPatches
    BY <1>0, <1>1 DEF EditAt
  <2>2. applyPatch(live.set, buf[e]) \in Settings
    BY <1>1, <2>1, PatchedSettings, ConfigsAreConfigs
  <2> QED BY <1>1, <2>1, <2>2 DEF Config
<1> HIDE DEF next
<1>5. RequestAt(e)'
  <2>1. pc'[e] = "open" /\ buf'[e] = next
    BY <1>1, <1>3, Moved
  <2> QED BY <1>0, <1>1, <1>4, <2>1 DEF RequestAt, EditAt, EditLabels, Writing, memVars
<1>6. "open" \in Labels /\ "open" \in Locked
  BY DEF Labels, WizardLabels, Locked, Before, Writing
<1> QED BY <1>0, <1>1, <1>2, <1>3, <1>5, <1>6, MoveKeeps

LEMMA ReloadUpdatedKeeps == ASSUME IInv, NEW e \in Edits, ReloadUpdated(e) PROVE IInv'
<1>0. /\ pc[e] = "load"
      /\ UNCHANGED <<fileVars, dbVars, handler, latch, live, proxy, openDB, env, pid, client>>
  BY DEF ReloadUpdated
<1>1. /\ EditAt(e) /\ e \in Requests /\ e \notin Wizards /\ handler = "steady" /\ lock = e
  BY <1>0, EditBusy DEF Locked, After
<1>2. Apart(e)
  BY <1>0, <1>1, SchemaKept DEF Apart, IInv, TypeInv, fileVars, dbVars, ProcessInv,
       NoDuplicateAccount
<1>3. CASE /\ buf' = [buf EXCEPT ![e] = Load(env)]
           /\ Goto(e, "publish") /\ UNCHANGED <<lock, told>>
  <2>1. pc' = [pc EXCEPT ![e] = "publish"]
    BY <1>3 DEF Goto
  <2>2. RequestAt(e)'
    <3>1. pc'[e] = "publish" /\ buf'[e] = Load(env)
      BY <1>1, <1>3, <2>1, Moved
    <3>2. Load(env)' = Load(env)
      BY <1>0, LoadKept DEF fileVars
    <3> QED BY <1>0, <1>1, <3>1, <3>2 DEF RequestAt, EditAt, EditLabels, Writing
  <2>3. "publish" \in Labels /\ "publish" \in Locked
    BY DEF Labels, WizardLabels, Locked
  <2> QED BY <1>1, <1>2, <1>3, <2>1, <2>2, <2>3, MoveKeeps
<1>4. CASE Reply(e, "config_write_failed")
  BY <1>1, <1>2, <1>4, AnswerKeeps
<1> QED BY <1>3, <1>4 DEF ReloadUpdated

-----------------------------------------------------------------------------
(* WriteAtomic *)

\* Whoever writes has a configuration to write, and writes alone.
LEMMA Writer ==
  ASSUME IInv, NEW a \in Actors, pc[a] \in Writing
  PROVE  /\ buf[a] \in Config /\ pid \in Pids
         /\ pc[a] = "rename" => tmp[pid] = buf[a]
         /\ a = Boot => handler = "none" /\ BootInv
         /\ a # Boot => /\ a \in Requests /\ lock = a /\ handler # "none"
                        /\ RequestAt(a) /\ (handler = "pending" => file = NoFile)
<1>1. CASE a = Boot
  <2>1. buf[a] = Materialized /\ BootInv /\ handler = "none" /\ pid # NoPid
    BY <1>1 DEF IInv, BootInv, Writing
  <2> QED BY <1>1, <2>1, FirstConfigs DEF IInv, BootInv, TypeInv
<1>2. CASE a \in Wizards
  <2>1. WizardAt(a) /\ lock = a /\ a \in Requests /\ handler # "none"
    BY <1>2, WizardBusy DEF Locked, Before
  <2>2. /\ buf[a] \in Config /\ file = NoFile /\ (pc[a] = "rename" => tmp[pid] = buf[a])
    BY <2>1 DEF WizardAt, Before
  <2> QED BY <2>1, <2>2, ActorsAssumption DEF IInv, ProcessInv, RequestInv, TypeInv
<1>3. CASE a \in Edits
  <2>1. EditAt(a) /\ lock = a /\ a \in Requests /\ handler = "steady"
    BY <1>3, EditBusy DEF Locked, Before, Writing
  <2>2. /\ buf[a] \in Config /\ (pc[a] = "rename" => tmp[pid] = buf[a])
    BY <2>1 DEF EditAt
  <2> QED BY <2>1, <2>2, ActorsAssumption DEF IInv, ProcessInv, RequestInv, TypeInv
<1> QED BY <1>1, <1>2, <1>3 DEF Actors, Requests

\* A failing call of WriteAtomic: the temporary file may be gone, nothing else is.
LEMMA WriteFails ==
  ASSUME IInv, NEW a \in Actors, pc[a] \in Writing, NEW what, GiveUp(a, what),
         tmp' \in [Pids -> Config \cup {NoFile, Partial}], file' = file,
         UNCHANGED <<dbVars, env>>
  PROVE  IInv'
<1>1. CASE a = Boot
  BY <1>1, SchemaKept, BootGivesUp DEF dbVars, IInv, TypeInv
<1>2. CASE a # Boot
  <2>1. Reply(a, what) /\ UNCHANGED <<pid, memVars, client>>
    BY <1>2 DEF GiveUp
  <2>2. Apart(a)
    BY <1>2, <2>1, Writer, SchemaKept
       DEF Apart, IInv, TypeInv, memVars, dbVars, ProcessInv, NoDuplicateAccount
  <2>3. pc[a] \notin After \cup {"publish"}
    BY DEF After, Writing
  <2> QED BY <1>2, <2>1, <2>2, <2>3, Writer, AnswerKeeps
<1> QED BY <1>1, <1>2

\* The start-up code takes a step of WriteAtomic.
LEMMA BootWrites ==
  ASSUME IInv, NEW l \in BootLabels, handler = "none", pc' = [pc EXCEPT ![Boot] = l],
         UNCHANGED <<dbVars, env, pid, memVars, client, lock, buf, told>>,
         tmp' \in [Pids -> Config \cup {NoFile, Partial}], file' \in Config \cup {NoFile},
         env = "unset" => file' = file,
         pc'[Boot] = l => BootInv'
  PROVE  IInv'
<1>1. LockInv' /\ RequestInv' /\ pc' \in [Actors -> Labels] /\ pc'[Boot] = l
  BY BootStep DEF IInv, TypeInv, memVars
<1>2. TypeInv'
  BY <1>1 DEF IInv, TypeInv, dbVars, memVars
<1>3. ProcessInv' /\ ToldInv' /\ NoDuplicateAccount'
  BY DEF IInv, ProcessInv, ToldInv, NoDuplicateAccount, memVars, dbVars
<1>4. ConfigInv'
  BY DEF IInv, ProcessInv, ConfigInv, memVars, dbVars
<1> QED BY <1>1, <1>2, <1>3, <1>4 DEF IInv

\* A request takes one that does not yet touch config.json.
LEMMA RequestWrites ==
  ASSUME IInv, NEW a \in Requests, pc[a] \in Writing, NEW l \in {"fill", "rename"},
         pc' = [pc EXCEPT ![a] = l], file' = file,
         tmp' \in [Pids -> Config \cup {NoFile, Partial}],
         UNCHANGED <<dbVars, env, pid, memVars, client, lock, buf, told>>,
         l = "rename" => tmp'[pid] = buf[a]
  PROVE  IInv'
<1>0. /\ lock = a /\ handler # "none" /\ RequestAt(a) /\ a # Boot
  BY Writer, ActorsAssumption DEF Actors
<1>1. Apart(a)
  BY <1>0, SchemaKept DEF Apart, IInv, TypeInv, memVars, dbVars, ProcessInv, NoDuplicateAccount
<1>2. buf' = [buf EXCEPT ![a] = buf[a]]
  BY WorkKept
<1>3. pc'[a] = l /\ buf'[a] = buf[a]
  BY <1>2, Moved
<1>4. l \in Labels /\ l \in Locked
  BY DEF Labels, WizardLabels, Locked, Before, Writing
<1>5. RequestAt(a)'
  <2>1. ASSUME a \in Wizards PROVE WizardAt(a)'
    BY <1>0, <1>3, <2>1 DEF RequestAt, WizardAt, WizardLabels,
              Committing, Before, After,
                            Writing, Locked, dbVars, memVars
  <2>2. ASSUME a \in Edits PROVE EditAt(a)'
    BY <1>0, <1>3, <2>2 DEF RequestAt, EditAt, EditLabels, Writing, memVars
  <2> QED BY <2>1, <2>2 DEF RequestAt
<1> QED BY <1>0, <1>1, <1>2, <1>4, <1>5, MoveKeeps

LEMMA OpenKeeps == ASSUME IInv, NEW a \in Actors, OpenStep(a) PROVE IInv'
<1>0. pc[a] \in Writing /\ UNCHANGED <<dbVars, env>>
  BY DEF OpenStep, Writing
<1>1. CASE /\ OpenTmp(pid) /\ Goto(a, "fill")
           /\ UNCHANGED <<pid, memVars, client, lock, buf, told>>
  <2>1. /\ tmp' \in [Pids -> Config \cup {NoFile, Partial}] /\ file' = file
        /\ pc' = [pc EXCEPT ![a] = "fill"]
    BY <1>1 DEF OpenTmp, IInv, TypeInv, Goto
  <2>2. CASE a = Boot
    <3>1. handler = "none" /\ BootInv
      BY <1>0, <2>2, Writer
    <3>2. pc'[Boot] = "fill" => BootInv'
      BY <1>0, <1>1, <2>1, <2>2, <3>1 DEF BootInv, BootLabels, Writing, memVars, dbVars
    <3>3. "fill" \in BootLabels
      BY DEF BootLabels, Writing
    <3> QED BY <1>0, <1>1, <2>1, <2>2, <3>1, <3>2, <3>3, BootWrites DEF IInv, TypeInv
  <2>3. CASE a # Boot
    BY <1>0, <1>1, <2>1, <2>3, RequestWrites DEF Actors
  <2> QED BY <2>2, <2>3
<1>2. CASE (OpenTmpFails(pid) /\ GiveUp(a, "tmp_exists"))
           \/ (UNCHANGED fileVars /\ GiveUp(a, "config_write_failed"))
  BY <1>0, <1>2, WriteFails DEF OpenTmpFails, fileVars, IInv, TypeInv
<1> QED BY <1>1, <1>2 DEF OpenStep

LEMMA DropTyped == ASSUME IInv, DropTmp(pid)
                   PROVE  tmp' \in [Pids -> Config \cup {NoFile, Partial}] /\ file' = file
BY DEF DropTmp, IInv, TypeInv

LEMMA FillKeeps == ASSUME IInv, NEW a \in Actors, FillStep(a) PROVE IInv'
<1>0. pc[a] \in Writing /\ pc[a] = "fill" /\ UNCHANGED <<dbVars, env>>
  BY DEF FillStep, Writing
<1>1. CASE /\ FillTmp(pid, buf[a]) /\ Goto(a, "rename")
           /\ UNCHANGED <<pid, memVars, client, lock, buf, told>>
  <2>0. buf[a] \in Config /\ pid \in Pids
    BY <1>0, Writer
  <2>1. /\ tmp' \in [Pids -> Config \cup {NoFile, Partial}] /\ file' = file
        /\ pc' = [pc EXCEPT ![a] = "rename"] /\ tmp'[pid] = buf[a]
    BY <1>1, <2>0 DEF FillTmp, IInv, TypeInv, Goto
  <2>2. CASE a = Boot
    <3>1. handler = "none" /\ BootInv
      BY <1>0, <2>2, Writer
    <3>2. pc'[Boot] = "rename" => BootInv'
      BY <1>0, <1>1, <2>1, <2>2, <3>1 DEF BootInv, BootLabels, Writing, memVars, dbVars
    <3>3. "rename" \in BootLabels
      BY DEF BootLabels, Writing
    <3> QED BY <1>0, <1>1, <2>1, <2>2, <3>1, <3>2, <3>3, BootWrites DEF IInv, TypeInv
  <2>3. CASE a # Boot
    BY <1>0, <1>1, <2>1, <2>3, RequestWrites DEF Actors
  <2> QED BY <2>2, <2>3
<1>2. CASE DropTmp(pid) /\ GiveUp(a, "config_write_failed")
  BY <1>0, <1>2, WriteFails, DropTyped
<1> QED BY <1>1, <1>2 DEF FillStep

LEMMA RenameKeeps == ASSUME IInv, NEW a \in Actors, RenameStep(a) PROVE IInv'
<1>0. pc[a] \in Writing /\ pc[a] = "rename" /\ UNCHANGED <<dbVars, env>>
  BY DEF RenameStep, Writing
<1>1. CASE /\ Rename(pid) /\ Goto(a, "load")
           /\ UNCHANGED <<pid, memVars, client, lock, buf, told>>
  <2>0. buf[a] \in Config /\ pid \in Pids /\ tmp[pid] = buf[a]
    BY <1>0, Writer
  <2>1. /\ tmp' \in [Pids -> Config \cup {NoFile, Partial}]
        /\ file' = buf[a] /\ file' \in Config /\ file' # NoFile
        /\ pc' = [pc EXCEPT ![a] = "load"]
    BY <1>1, <2>0, ConfigsAreConfigs DEF Rename, IInv, TypeInv, Goto
  <2>2. CASE a = Boot
    <3>1. handler = "none" /\ BootInv /\ env = "both"
      BY <1>0, <2>2, Writer DEF BootInv
    <3>2. pc'[Boot] = "load" => BootInv'
      BY <1>0, <1>1, <2>1, <2>2, <3>1 DEF BootInv, BootLabels, Writing, memVars, dbVars
    <3>3. "load" \in BootLabels
      BY DEF BootLabels, Writing
    <3> QED BY <1>0, <1>1, <2>1, <2>2, <3>1, <3>2, <3>3, BootWrites
  <2>3. CASE a # Boot
    <3>0. /\ a \in Requests /\ lock = a /\ handler # "none" /\ RequestAt(a)
          /\ handler = "pending" => file = NoFile
      BY <1>0, <2>3, Writer
    <3>1. buf' = [buf EXCEPT ![a] = buf[a]]
      BY <1>1, WorkKept
    <3>2. pc'[a] = "load" /\ buf'[a] = buf[a]
      BY <2>1, <3>0, <3>1, Moved
    <3>3. "load" \in Labels /\ "load" \in Locked
      BY DEF Labels, WizardLabels, Locked, After
    <3>4. RequestAt(a)'
      <4>1. ASSUME a \in Wizards PROVE WizardAt(a)'
        BY <1>0, <1>1, <2>1, <3>0, <3>2, <4>1
           DEF RequestAt, WizardAt, WizardLabels,
              Committing, Before, After, Writing, Locked,
               memVars
      <4>2. ASSUME a \in Edits PROVE EditAt(a)'
        BY <1>0, <1>1, <3>0, <3>2, <4>2 DEF RequestAt, EditAt, EditLabels, Writing, memVars
      <4> QED BY <4>1, <4>2 DEF RequestAt
    <3>5. /\ LockInv' /\ RequestInv' /\ BootInv'
          /\ pc' \in [Actors -> Labels] /\ buf' = [x \in Actors |-> buf'[x]]
          /\ lock' \in Requests \cup {Nobody}
      BY <1>0, <1>1, <2>1, <3>0, <3>1, <3>3, <3>4, RequestStep DEF memVars
    <3>6. TypeInv'
      BY <1>0, <1>1, <2>1, <3>5 DEF IInv, TypeInv, dbVars, memVars
    <3>7. ProcessInv' /\ NoDuplicateAccount'
      BY <1>0, <1>1, <3>0 DEF IInv, ProcessInv, NoDuplicateAccount, memVars, dbVars
    <3>8. ToldInv'
      BY <1>1, <3>0, ActorsAssumption DEF IInv, ToldInv, memVars, Actors
    <3>9. ConfigInv'
      <4>0. Load(env)'.db = IF env = "unset" THEN buf[a].db ELSE EnvDB
        BY <1>0, <2>1, <2>0, EnvAssumption DEF Load, Overlay, Config
      <4>1. CASE a \in Wizards
        <5>1. /\ file = NoFile /\ handler = "pending" /\ schema[buf[a].db] # "empty"
          BY <1>0, <3>0, <4>1 DEF RequestAt, WizardAt, Before
        <5>2. live = NoFile
          BY <5>1 DEF IInv, ConfigInv
        <5> QED BY <1>0, <1>1, <2>1, <5>1, <5>2 DEF IInv, ConfigInv, memVars, dbVars
      <4>2. CASE a \in Edits
        <5>1. /\ live # NoFile /\ handler = "steady" /\ buf[a].db = live.db
          BY <1>0, <3>0, <4>2 DEF RequestAt, EditAt
        <5>2. /\ file # NoFile /\ file \in Config /\ live.db = Load(env).db
          BY <5>1 DEF IInv, ConfigInv, TypeInv
        <5>3. live.db = IF env = "unset" THEN file.db ELSE EnvDB
          BY <5>2, Loaded
        <5> QED BY <1>0, <1>1, <2>1, <4>0, <5>1, <5>2, <5>3 DEF IInv, ConfigInv, memVars, dbVars
      <4> QED BY <3>0, <4>1, <4>2 DEF Requests
    <3> QED BY <3>5, <3>6, <3>7, <3>8, <3>9 DEF IInv
  <2> QED BY <2>2, <2>3
<1>2. CASE DropTmp(pid) /\ GiveUp(a, "config_write_failed")
  BY <1>0, <1>2, WriteFails, DropTyped
<1> QED BY <1>1, <1>2 DEF RenameStep

-----------------------------------------------------------------------------
(* Publications *)

LEMMA ReloadKeeps == ASSUME IInv, NEW w \in Wizards, Reload(w) PROVE IInv'
<1>0. /\ pc[w] = "load"
      /\ UNCHANGED <<fileVars, dbVars, handler, latch, proxy, openDB, env, pid, client>>
  BY DEF Reload
<1>1. WizardAt(w) /\ lock = w /\ w \in Requests /\ w \notin Edits /\ handler # "none"
  BY <1>0, WizardBusy DEF Locked, After
<1>2. file # NoFile /\ file \in Config /\ handler = "pending"
  BY <1>0, <1>1 DEF WizardAt, After, IInv, TypeInv
<1>3. /\ Load(env) \in Config /\ Load(env) # NoFile /\ Load(env)' = Load(env)
  BY <1>0, <1>2, Loaded, LoadKept, ConfigsAreConfigs DEF fileVars
<1>4. CASE live' = Load(env) /\ Goto(w, "promote") /\ UNCHANGED <<lock, buf, told>>
  <2>1. pc' = [pc EXCEPT ![w] = "promote"] /\ buf' = [buf EXCEPT ![w] = buf[w]]
    BY <1>4, WorkKept DEF Goto
  <2>2. RequestAt(w)'
    <3>1. pc'[w] = "promote" /\ buf'[w] = buf[w]
      BY <1>1, <2>1, Moved
    <3> QED BY <1>0, <1>1, <1>2, <1>3, <1>4, <3>1
            DEF RequestAt, WizardAt, WizardLabels,
              Committing, Before, After, Writing, Locked,
                fileVars
  <2>3. "promote" \in Labels /\ "promote" \in Locked
    BY DEF Labels, WizardLabels, Locked, After
  <2>4. /\ LockInv' /\ RequestInv' /\ BootInv'
        /\ pc' \in [Actors -> Labels] /\ buf' = [a \in Actors |-> buf'[a]]
        /\ lock' \in Requests \cup {Nobody}
    BY <1>0, <1>1, <1>4, <2>1, <2>2, <2>3, RequestStep
  <2>5. TypeInv'
    BY <1>0, <1>3, <1>4, <2>4 DEF IInv, TypeInv, fileVars, dbVars
  <2>6. ProcessInv' /\ NoDuplicateAccount'
    BY <1>0, <1>1 DEF IInv, ProcessInv, NoDuplicateAccount, dbVars
  <2>7. ToldInv'
    BY <1>0, <1>1, <1>4, ActorsAssumption DEF IInv, ToldInv, Actors
  <2>8. ConfigInv'
    BY <1>0, <1>2, <1>3, <1>4 DEF IInv, ConfigInv, fileVars, dbVars
  <2> QED BY <2>4, <2>5, <2>6, <2>7, <2>8 DEF IInv
<1>5. CASE UNCHANGED live /\ Reply(w, "config_write_failed")
  <2>1. Apart(w)
    BY <1>0, <1>1, <1>5, SchemaKept
       DEF Apart, IInv, TypeInv, fileVars, dbVars, ProcessInv,
       NoDuplicateAccount
  <2> QED BY <1>0, <1>1, <1>5, <2>1, AnswerKeeps DEF After
<1> QED BY <1>4, <1>5 DEF Reload

LEMMA PromoteKeeps == ASSUME IInv, NEW w \in Wizards, Promote(w) PROVE IInv'
<1>0. /\ pc[w] = "promote" /\ UNCHANGED <<fileVars, dbVars, live, env, pid, client>>
  BY DEF Promote
<1>1. WizardAt(w) /\ lock = w /\ w \in Requests /\ w \notin Edits /\ handler # "none"
  BY <1>0, WizardBusy DEF Locked, After
<1>2. file # NoFile /\ file \in Config /\ handler = "pending" /\ live = Load(env)
  BY <1>0, <1>1 DEF WizardAt, After, IInv, TypeInv
<1>3. /\ live # NoFile /\ Load(env)' = Load(env)
  BY <1>0, <1>2, Loaded, LoadKept, ConfigsAreConfigs DEF fileVars
<1> DEFINE Swaps == /\ openDB' = Load(env).db /\ proxy' = Load(env).set.proxy
                    /\ Install("steady")
                    /\ Goto(w, "publish") /\ UNCHANGED <<lock, buf, told>>
           Fails == UNCHANGED <<handler, latch, proxy, openDB>> /\ Reply(w, "config_write_failed")
<1>4. Swaps \/ Fails
  BY <1>2 DEF Promote
<1>5. CASE Swaps
  <2>1. /\ pc' = [pc EXCEPT ![w] = "publish"] /\ buf' = [buf EXCEPT ![w] = buf[w]]
        /\ handler' = "steady" /\ latch' = [latch EXCEPT !["steady"] = TRUE]
    BY <1>5, WorkKept DEF Goto, Install
  <2>2. RequestAt(w)'
    <3>1. pc'[w] = "publish" /\ buf'[w] = buf[w]
      BY <1>1, <2>1, Moved
    <3> QED BY <1>0, <1>1, <1>2, <1>3, <2>1, <3>1
            DEF RequestAt, WizardAt, WizardLabels,
              Committing, Before, After, Writing, Locked,
                fileVars
  <2>3. "publish" \in Labels /\ "publish" \in Locked
    BY DEF Labels, WizardLabels, Locked
  <2>4. /\ LockInv' /\ RequestInv' /\ BootInv'
        /\ pc' \in [Actors -> Labels] /\ buf' = [a \in Actors |-> buf'[a]]
        /\ lock' \in Requests \cup {Nobody}
    BY <1>0, <1>1, <1>2, <1>5, <2>1, <2>2, <2>3, RequestStep
  <2>5. TypeInv'
    BY <1>0, <2>1, <2>4 DEF IInv, TypeInv, fileVars, dbVars
  <2>6. ProcessInv' /\ NoDuplicateAccount'
    BY <1>0, <1>1, <2>1 DEF IInv, TypeInv, ProcessInv, NoDuplicateAccount, dbVars
  <2>7. ToldInv'
    BY <2>1 DEF ToldInv
  <2>8. ConfigInv'
    BY <1>0, <1>1, <1>2, <1>3, <1>5 DEF IInv, ConfigInv, fileVars, dbVars
  <2> QED BY <2>4, <2>5, <2>6, <2>7, <2>8 DEF IInv
<1>6. CASE Fails
  <2>1. Apart(w)
    BY <1>0, <1>1, <1>6, SchemaKept
       DEF Apart, IInv, TypeInv, fileVars, dbVars, ProcessInv,
       NoDuplicateAccount
  <2> QED BY <1>0, <1>1, <1>2, <1>6, <2>1, AnswerKeeps DEF After
<1> QED BY <1>4, <1>5, <1>6

\* The steady handler's last publication, by a wizard or an editor: what is in
\* the file is served, and its proxy used.
LEMMA PublishKeeps ==
  ASSUME IInv, NEW b \in Requests, lock = b, handler = "steady", file \in Config,
         live' = Load(env), proxy' = Load(env).set.proxy, Reply(b, "ok"),
         openDB = Load(env).db,
         UNCHANGED <<fileVars, dbVars, handler, latch, openDB, env, pid, client>>
  PROVE  IInv'
<1>1. /\ Load(env) \in Config /\ Load(env) # NoFile /\ Load(env)' = Load(env) /\ file # NoFile
  BY Loaded, LoadKept, ConfigsAreConfigs DEF fileVars
<1>2. /\ LockInv' /\ RequestInv' /\ BootInv'
      /\ pc' \in [Actors -> Labels] /\ buf' = [a \in Actors |-> buf'[a]]
      /\ lock' \in Requests \cup {Nobody}
  BY ReplyStep
<1>3. TypeInv'
  BY <1>1, <1>2 DEF IInv, TypeInv, fileVars, dbVars
<1>4. ProcessInv' /\ NoDuplicateAccount' /\ ToldInv'
  BY DEF IInv, ProcessInv, NoDuplicateAccount, ToldInv, dbVars
<1>5. ConfigInv'
  BY <1>1 DEF IInv, ConfigInv, fileVars, dbVars
<1> QED BY <1>2, <1>3, <1>4, <1>5 DEF IInv

LEMMA PublishPromotedKeeps == ASSUME IInv, NEW w \in Wizards, PublishPromoted(w) PROVE IInv'
<1>0. /\ pc[w] = "publish" /\ live' = Load(env) /\ Reply(w, "ok")
      /\ UNCHANGED <<fileVars, dbVars, handler, latch, proxy, openDB, env, pid, client>>
  BY DEF PublishPromoted
<1>1. WizardAt(w) /\ lock = w /\ w \in Requests
  BY <1>0, WizardBusy DEF Locked
<1>2. file # NoFile /\ file \in Config /\ handler = "steady" /\ live = Load(env)
  BY <1>0, <1>1 DEF WizardAt, IInv, TypeInv
<1>3. openDB = live.db /\ proxy = live.set.proxy
  BY <1>2 DEF IInv, ConfigInv
<1> QED BY <1>0, <1>1, <1>2, <1>3, PublishKeeps

LEMMA PublishUpdatedKeeps == ASSUME IInv, NEW e \in Edits, PublishUpdated(e) PROVE IInv'
<1>0. /\ pc[e] = "publish" /\ live' = buf[e] /\ proxy' = buf[e].set.proxy /\ Reply(e, "ok")
      /\ UNCHANGED <<fileVars, dbVars, handler, latch, openDB, env, pid, client>>
  BY DEF PublishUpdated
<1>1. /\ EditAt(e) /\ e \in Requests /\ handler = "steady" /\ lock = e
      /\ live # NoFile /\ file # NoFile /\ file \in Config
  BY <1>0, EditBusy DEF Locked
<1>2. buf[e] = Load(env)
  BY <1>0, <1>1 DEF EditAt
<1>3. openDB = Load(env).db
  BY <1>1 DEF IInv, ConfigInv
<1> QED BY <1>0, <1>1, <1>2, <1>3, PublishKeeps

-----------------------------------------------------------------------------
(* The invariant, and the properties it implies *)

\* Every step keeps the invariant.
LEMMA NextIInv == IInv /\ [Next]_vars => IInv'
<1> SUFFICES ASSUME IInv, [Next]_vars PROVE IInv'
  OBVIOUS
<1>1. CASE BootNext
  BY <1>1, StartKeeps, BrownfieldKeeps, ServeKeeps DEF BootNext
<1>2. CASE Crash \/ \E d \in DBs : MigrateForce(d)
  BY <1>2, CrashKeeps, ForceKeeps
<1>3. CASE \E w \in Wizards : WizardNext(w)
  BY <1>3, SubmitKeeps, CommitKeeps, MigrateKeeps, LookupKeeps, InsertKeeps, SweepKeeps, ReloadKeeps,
     PromoteKeeps, PublishPromotedKeeps DEF WizardNext
<1>4. CASE \E e \in Edits : EditNext(e)
  BY <1>4, PatchKeeps, UpdateKeeps, ReloadUpdatedKeeps, PublishUpdatedKeeps DEF EditNext
<1>5. CASE \E a \in Actors : WriteNext(a)
  BY <1>5, OpenKeeps, FillKeeps, RenameKeeps DEF WriteNext
<1>6. CASE Enter \/ Ask
  BY <1>6, ClientKeeps
<1>7. CASE UNCHANGED vars
  BY <1>7, StutterKeeps
<1> QED BY <1>1, <1>2, <1>3, <1>4, <1>5, <1>6, <1>7 DEF Next

\* What every actor relies on holds at its place, in every reachable state.
LEMMA AlwaysIInv == Spec => []IInv
BY InitIInv, NextIInv, PTL DEF Spec

\* No database ever has two accounts of one name, however many wizards overlap
\* and are retried after failures and crashes at any step of Commit: whoever is
\* between the SELECT and the INSERT holds the lock, and there is still no row.
THEOREM NeverDuplicates == Spec => []NoDuplicateAccount
<1>1. IInv => NoDuplicateAccount
  BY DEF IInv
<1> QED BY <1>1, AlwaysIInv, PTL

\* No client request passes a gate into a mux without the route it asks for,
\* also when the handler is swapped while the request is between mux and gate.
THEOREM AlwaysRouted == Spec => []NeverUnrouted
<1>1. IInv => NeverUnrouted
  <2> SUFFICES ASSUME IInv, client # "none", NEW path \in {"admin_api", "data_plane"}
               PROVE  Answered(path) # "missing"
    BY DEF NeverUnrouted
  <2>1. CASE client = "pending"
    <3>1. ~ Open(client)
      BY <2>1, PendingShut
    <3> QED BY <3>1 DEF Answered, GateAnswer, PendingAnswer
  <2>2. CASE client = "steady"
    <3>1. Routed(client, path)
      BY <2>2 DEF Routed, SteadyRoutes
    <3>2. path \notin {"root", "setup"}
      OBVIOUS
    <3> QED BY <3>1, <3>2 DEF Answered, GateAnswer, PendingAnswer
  <2> QED BY <2>1, <2>2 DEF IInv, TypeInv
<1> QED BY <1>1, AlwaysIInv, PTL

\* The steady handler is reachable only with a stored and published
\* configuration and a migrated store behind it, between the swap and the
\* publications of promoteToSteadyState too.
THEOREM AlwaysReady == Spec => []SteadyReady
<1>1. IInv => SteadyReady
  <2> SUFFICES ASSUME IInv, handler = "steady"
               PROVE  /\ file # NoFile /\ live # NoFile /\ live.db = openDB
                      /\ env # "url" => schema[openDB] # "empty"
                      /\ lock = Nobody => proxy = live.set.proxy
    BY DEF SteadyReady
  <2>1. /\ live # NoFile /\ openDB = live.db /\ proxy = live.set.proxy
        /\ file # NoFile /\ file \in Config /\ live.db = Load(env).db
    BY DEF IInv, ConfigInv, TypeInv
  <2>2. env # "url" => schema[openDB] # "empty"
    BY <2>1, Loaded DEF IInv, ConfigInv, TypeInv
  <2> QED BY <2>1, <2>2
<1> QED BY <1>1, AlwaysIInv, PTL

\* A wizard told "ok" left a steady and healthy router; a pending router whose
\* config.json is there has told the wizard that wrote it of a failure.
THEOREM AlwaysToldTruth == Spec => []WizardToldTruth
<1>1. IInv => WizardToldTruth
  <2> SUFFICES ASSUME IInv PROVE WizardToldTruth
    OBVIOUS
  <2>1. (handler = "pending" /\ IsDone /\ lock = Nobody) => told = "config_write_failed"
    BY DEF IInv, ToldInv, IsDone
  <2>2. ASSUME told = "ok"
        PROVE  /\ handler = "steady"
               /\ Health(handler, TRUE) = [setup_state |-> "done", status |-> "healthy"]
    <3>1. handler = "steady" /\ file # NoFile
      BY <2>2 DEF IInv, ToldInv, ConfigInv
    <3>2. Open(handler)
      BY <3>1 DEF Open, Observes, IsDone
    <3> QED BY <3>1, <3>2 DEF Health
  <2> QED BY <2>1, <2>2 DEF WizardToldTruth
<1> QED BY <1>1, AlwaysIInv, PTL

-----------------------------------------------------------------------------
(* config.json implements DurableSettings *)

Stored == IF file = NoFile THEN NoFile ELSE file.set
Served == IF live = NoFile THEN NoFile ELSE live.set

\* The steps that leave both values alone.
LEMMA SameValue ==
  ASSUME file' = file, live' = live
  PROVE  UNCHANGED <<Stored, Served>>
BY DEF Stored, Served

\* Publishing what Load returns serves what is stored.
LEMMA ServesStored ==
  ASSUME IInv, file \in Config, file' = file, live' = Load(env)
  PROVE  Stored # NoFile /\ Served' = Stored /\ Stored' = Stored
<1>1. /\ file # NoFile /\ file.set # NoFile /\ Load(env) # NoFile /\ Load(env).set = file.set
  BY Loaded, ConfigsAreConfigs
<1> QED BY <1>1 DEF Stored, Served

\* The rename is the moment at which a value is stored: of a first
\* configuration where there was none, or of a patch of what is served.
LEMMA RenameStores ==
  ASSUME IInv, NEW a \in Actors, RenameStep(a), file' # file
  PROVE  /\ live' = live
         /\ \/ file = NoFile /\ live = NoFile /\ Stored' \in Firsts
            \/ live # NoFile /\ \E p \in ValidPatches : Stored' = applyPatch(Served, p)
<1>0. pc[a] \in Writing /\ pc[a] = "rename"
  BY DEF RenameStep, Writing
<1>1. Rename(pid) /\ UNCHANGED <<pid, memVars>>
  BY DEF RenameStep, DropTmp
<1>2. live' = live /\ file' = buf[a] /\ buf[a] \in Config /\ file' # NoFile
  BY <1>0, <1>1, Writer, ConfigsAreConfigs DEF Rename, memVars
<1>3. Stored' = buf[a].set
  BY <1>2 DEF Stored
<1>4. CASE a = Boot
  <2>1. buf[a] = Materialized /\ file = NoFile
    BY <1>0, <1>4, Writer DEF BootInv
  <2> QED BY <1>2, <1>3, <2>1, FirstConfigs DEF IInv, ConfigInv
<1>5. CASE a \in Wizards
  <2>1. WizardAt(a)
    BY <1>0, <1>5, WizardBusy DEF Locked, Before
  <2>2. file = NoFile /\ buf[a].set \in Firsts
    BY <1>0, <2>1 DEF WizardAt, Before
  <2> QED BY <1>2, <1>3, <2>2 DEF IInv, ConfigInv
<1>6. CASE a \in Edits
  <2>1. EditAt(a)
    BY <1>0, <1>6, EditBusy
  <2>2. live # NoFile /\ \E p \in ValidPatches : buf[a].set = applyPatch(live.set, p)
    BY <1>0, <2>1 DEF EditAt
  <2> QED BY <1>2, <1>3, <2>2 DEF Served
<1> QED BY <1>4, <1>5, <1>6 DEF Actors, Requests

\* Every step stores a first value, stores a patch of the served one, serves
\* what is stored, loses the served value, or changes neither.
LEMMA StepValues ==
  ASSUME IInv, [Next]_vars
  PROVE  \/ file' = file /\ live' = live
         \/ \E a \in Actors : RenameStep(a) /\ file' # file
         \/ file \in Config /\ file' = file /\ live' = Load(env)
         \/ file' = file /\ live' = NoFile
<1> DEFINE Goal == \/ file' = file /\ live' = live
                   \/ \E a \in Actors : RenameStep(a) /\ file' # file
                   \/ file \in Config /\ file' = file /\ live' = Load(env)
                   \/ file' = file /\ live' = NoFile
<1>0. ASSUME NEW a, NEW what, GiveUp(a, what) PROVE live' \in {live, NoFile}
  BY <1>0 DEF GiveUp, Dies, memVars
<1>1. ASSUME NEW p \in Pids, Start(p) PROVE Goal
  BY <1>1 DEF Start, memVars
<1>2. CASE Brownfield
  <2>1. file' = file
    BY <1>2 DEF Brownfield, fileVars
  <2>2. live' = live \/ GiveUp(Boot, "migrate_failed") \/ GiveUp(Boot, "count_failed")
    BY <1>2 DEF Brownfield, memVars
  <2> QED BY <1>0, <2>1, <2>2
<1>3. CASE Serve
  <2>1. file' = file /\ file \in Config
    BY <1>3 DEF Serve, fileVars, IInv, BootInv, TypeInv
  <2>2. live' = Load(env) \/ GiveUp(Boot, "start_failed")
    BY <1>3, Zenon DEF Serve
  <2> QED BY <1>0, <2>1, <2>2
<1>4. CASE Crash
  BY <1>4 DEF Crash, Dies, fileVars
<1>5. ASSUME NEW d \in DBs, MigrateForce(d) PROVE Goal
  BY <1>5 DEF MigrateForce, fileVars, memVars
<1>6. ASSUME NEW w \in Wizards, WizardNext(w) PROVE Goal
  <2>1. CASE \E b \in Bodies : Submit(w, b)
    BY <2>1 DEF Submit, fileVars
  <2>2. CASE Commit(w) \/ Migrate(w) \/ LookupAccount(w) \/ InsertAccount(w)
    BY <2>2 DEF Commit, Migrate, LookupAccount, InsertAccount, fileVars, memVars
  <2>3. CASE Sweep(w)
    BY <2>3 DEF Sweep, memVars
  <2>4. CASE Reload(w) \/ PublishPromoted(w)
    <3>1. w \in Wizards /\ pc[w] \in {"load", "publish"} /\ file' = file
          /\ live' \in {live, Load(env)}
      BY <2>4 DEF Reload, PublishPromoted, fileVars
    <3>2. WizardAt(w)
      BY <3>1, WizardBusy DEF Locked, After
    <3>3. file \in Config
      BY <3>1, <3>2 DEF WizardAt, After, IInv, TypeInv
    <3> QED BY <3>1, <3>3
  <2>5. CASE Promote(w)
    BY <2>5 DEF Promote, fileVars
  <2> QED BY <1>6, <2>1, <2>2, <2>3, <2>4, <2>5 DEF WizardNext
<1>7. ASSUME NEW e \in Edits, EditNext(e) PROVE Goal
  <2>1. CASE \E p \in SettingsPatches : Patch(e, p)
    BY <2>1 DEF Patch, fileVars, memVars
  <2>2. CASE Update(e) \/ ReloadUpdated(e)
    BY <2>2 DEF Update, ReloadUpdated, fileVars, memVars
  <2>3. CASE PublishUpdated(e)
    <3>1. pc[e] = "publish" /\ file' = file /\ live' = buf[e]
      BY <2>3 DEF PublishUpdated, fileVars
    <3>2. EditAt(e) /\ file \in Config
      BY <3>1, EditBusy
    <3>3. buf[e] = Load(env)
      BY <3>1, <3>2 DEF EditAt
    <3> QED BY <3>1, <3>2, <3>3
  <2> QED BY <1>7, <2>1, <2>2, <2>3 DEF EditNext
<1>8. ASSUME NEW a \in Actors, WriteNext(a) PROVE Goal
  <2>1. live' = live \/ \E what : GiveUp(a, what) /\ file' = file
    BY <1>8 DEF WriteNext, OpenStep, FillStep, RenameStep, OpenTmpFails, DropTmp, memVars,
                fileVars
  <2>2. file' = file \/ RenameStep(a)
    BY <1>8 DEF WriteNext, OpenStep, FillStep, OpenTmp, OpenTmpFails, FillTmp, DropTmp, fileVars
  <2> QED BY <1>0, <2>1, <2>2
<1>9. CASE Enter \/ Ask \/ UNCHANGED vars
  BY <1>9 DEF Enter, Ask, vars, fileVars, memVars
<1> QED BY <1>1, <1>2, <1>3, <1>4, <1>5, <1>6, <1>7, <1>8, <1>9 DEF Next, BootNext

\* The steps of the router are steps of the durable value, or change neither
\* what is stored nor what is served.
LEMMA StepRefines ==
  ASSUME IInv, [Next]_vars
  PROVE  Durable!Next \/ UNCHANGED <<Stored, Served>>
<1>1. CASE file' = file /\ live' = live
  BY <1>1, SameValue
<1>2. ASSUME NEW a \in Actors, RenameStep(a), file' # file PROVE Durable!Next
  <2>1. /\ live' = live
        /\ \/ file = NoFile /\ live = NoFile /\ Stored' \in Firsts
           \/ live # NoFile /\ \E p \in ValidPatches : Stored' = applyPatch(Served, p)
    BY <1>2, RenameStores
  <2>2. Served' = Served
    BY <2>1 DEF Served
  <2>3. CASE file = NoFile /\ live = NoFile /\ Stored' \in Firsts
    <3>1. Durable!Install
      BY <2>2, <2>3 DEF Durable!Install, Stored, Served, Firsts
    <3> QED BY <3>1 DEF Durable!Next
  <2>4. CASE live # NoFile /\ \E p \in ValidPatches : Stored' = applyPatch(Served, p)
    <3>1. Served # NoFile
      BY <2>4, ConfigsAreConfigs DEF Served, IInv, TypeInv
    <3>2. Durable!Edit
      BY <2>2, <2>4, <3>1 DEF Durable!Edit, Stored, Served
    <3> QED BY <3>2 DEF Durable!Next
  <2> QED BY <2>1, <2>3, <2>4
<1>3. CASE file \in Config /\ file' = file /\ live' = Load(env)
  <2>1. Stored # NoFile /\ Served' = Stored /\ Stored' = Stored
    BY <1>3, ServesStored
  <2>2. Durable!Serve
    BY <2>1 DEF Durable!Serve, Stored, Served
  <2> QED BY <2>2 DEF Durable!Next
<1>4. CASE file' = file /\ live' = NoFile
  <2>1. Durable!Crash
    BY <1>4 DEF Durable!Crash
  <2> QED BY <2>1 DEF Durable!Next
<1> QED BY <1>1, <1>2, <1>3, <1>4, StepValues

\* config.json and what the router serves behave like one durable value that
\* setup installs once and edits replace whole, through every failing call and
\* crash: RouterSetup implements DurableSettings.
THEOREM ConfigIsDurable == Spec => DurableConfig
<1>1. Init => Durable!Init
  BY DEF Init, Durable!Init
<1>2. IInv /\ [Next]_vars => [Durable!Next]_<<Stored, Served>>
  BY StepRefines
<1> QED BY <1>1, <1>2, AlwaysIInv, PTL DEF Spec, DurableConfig, Durable!Spec, Stored, Served

=============================================================================
