----------------------------- MODULE ConfigFile -----------------------------
(***************************************************************************)
(* config.json and the temporary files beside it (internal/config).        *)
(*                                                                         *)
(* WriteAtomic is three system calls that matter: create the temporary     *)
(* file of this process with O_EXCL, fill and fsync it, rename it over     *)
(* config.json.  A failing call removes the temporary file; a process that *)
(* dies leaves it.  SweepStale removes what dead processes left, and       *)
(* keeps the file that carries its own process number.                     *)
(***************************************************************************)
CONSTANTS Pids,        \* process numbers the operating system hands out
          DBs,         \* databases a DSN can name
          EnvDB,       \* the database ROUTER_DB_DRIVER / ROUTER_DB_URL name
          Retentions,  \* values of runtime.log_retention_days
          Renames,     \* values of runtime.model_renames
          Proxies,     \* values of network.proxy_url
          NoFile,      \* nothing there; also "no configuration"
          Partial      \* a file that was created and not completely written

ASSUME EnvAssumption == EnvDB \in DBs

VARIABLES file,  \* config.json
          tmp    \* config.json.tmp.<pid>, for every process number

fileVars == <<file, tmp>>

\* Config: the database, and the settings a patch can change.
Settings == [retention : Retentions, renames : Renames, proxy : Proxies]
Config == [db : DBs, set : Settings]

ASSUME FileAssumption ==
  /\ NoFile \notin Config \cup Settings /\ Partial \notin Config
  /\ NoFile # Partial

NoTmp == [p \in Pids |-> NoFile]

IsDone == file # NoFile

\* The environment overrides the database.  With one of the two variables only,
\* the other half comes from the file.
Overlay(env, cfg) == IF env = "unset" THEN cfg ELSE [cfg EXCEPT !.db = EnvDB]

\* Load of a file that is there.  The writers leave no field out, so no default
\* applies; provenance is kept for the database only, no other field can come
\* from the environment.
Load(env) == Overlay(env, file)
Sources(env) == IF env = "unset" THEN "file" ELSE "env"

\* The processes whose temporary files a sweep by p removes: none but p is alive.
SweepStale(p) == tmp' = [q \in Pids |-> IF q = p THEN tmp[q] ELSE NoFile]

OpenTmp(p) ==
  /\ tmp[p] = NoFile
  /\ tmp' = [tmp EXCEPT ![p] = Partial]
  /\ UNCHANGED file

\* O_EXCL: the file is already there, and stays.
OpenTmpFails(p) ==
  /\ tmp[p] # NoFile
  /\ UNCHANGED fileVars

FillTmp(p, cfg) ==
  /\ tmp' = [tmp EXCEPT ![p] = cfg]
  /\ UNCHANGED file

Rename(p) ==
  /\ file' = tmp[p]
  /\ tmp' = [tmp EXCEPT ![p] = NoFile]

\* Any error after the file was created removes it.
DropTmp(p) ==
  /\ tmp' = [tmp EXCEPT ![p] = NoFile]
  /\ UNCHANGED file
=============================================================================
