--------------------------- MODULE AccountLifecycle ---------------------------
(***************************************************************************)
(* The status of one upstream_accounts row and the operators who change it *)
(* through core.AccountService: Enable, Disable and Delete read the row,   *)
(* decide, and then write the status with an unconditional UPDATE.         *)
(* TokenRefresh and AccountDetails extend this module with the other       *)
(* writers of the row.                                                     *)
(***************************************************************************)

CONSTANT Admins    \* admin request goroutines

VARIABLES status,      \* upstream_accounts.status
          adminPc,     \* per admin: "idle", or the operation past its check
          everDeleted  \* the row has been soft-deleted once (history)

adminVars == <<status, adminPc, everDeleted>>

Statuses == {"active", "disabled", "deleted"}
Operations == {"enable", "disable", "delete"}

AdminTypeOK ==
  /\ status \in Statuses
  /\ adminPc \in [Admins -> Operations \cup {"idle"}]
  /\ everDeleted \in BOOLEAN

AdminInit ==
  /\ status = "active"
  /\ adminPc = [a \in Admins |-> "idle"]
  /\ everDeleted = FALSE

\* The status an operation writes, and those from which it goes on to write:
\* from the others it returns at once (ErrAccountDeleted, or nothing to do).
Target(op) == CASE op = "enable"  -> "active"
                [] op = "disable" -> "disabled"
                [] op = "delete"  -> "deleted"

GoesOn(op) == CASE op = "enable"  -> status = "disabled"
                [] op = "disable" -> status = "active"
                [] op = "delete"  -> status # "deleted"

Check(a, op) ==
  /\ adminPc[a] = "idle" /\ GoesOn(op)
  /\ adminPc' = [adminPc EXCEPT ![a] = op]
  /\ UNCHANGED <<status, everDeleted>>

Enable(a) == Check(a, "enable")
Disable(a) == Check(a, "disable")
Delete(a) == Check(a, "delete")

SetStatus(s) ==
  /\ status' = s
  /\ everDeleted' = (everDeleted \/ s = "deleted")

\* AccountRepo.UpdateStatus, or its failure.
UpdateStatus(a) ==
  /\ adminPc[a] # "idle"
  /\ SetStatus(Target(adminPc[a])) \/ UNCHANGED <<status, everDeleted>>
  /\ adminPc' = [adminPc EXCEPT ![a] = "idle"]

AdminNext ==
  \E a \in Admins : Enable(a) \/ Disable(a) \/ Delete(a) \/ UpdateStatus(a)

\* A deleted account stays deleted: enable is for disabled rows only.
DeletedIsFinal == everDeleted => status = "deleted"
=============================================================================
