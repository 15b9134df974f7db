---------------------------- MODULE FlowRegister ----------------------------
(***************************************************************************)
(* What the OAuth coordinator promises, without rails, timers, locks or    *)
(* races: one slot, in which one flow at a time lives from its start to    *)
(* its outcome.  A success comes after the account's row and an error is   *)
(* published only without one, once, while the flow has the slot; the slot *)
(* is empty before the next flow starts.  Shutdown alone takes the slot    *)
(* from a flow that has no outcome; its end is then nobody's, and the flow *)
(* may still come to an outcome of its own.                                *)
(***************************************************************************)
EXTENDS Naturals

CONSTANTS Flows, NoFlow, ErrorCodes

VARIABLES slot,    \* the flow in progress, or NoFlow
          life,    \* per flow: "unborn", "pending", "success" or its error
          rows,    \* per flow: account rows inserted for it
          open     \* Shutdown has not been called

Ended(f) == life[f] \in {"success"} \cup ErrorCodes

Init ==
  /\ slot = NoFlow
  /\ life = [f \in Flows |-> "unborn"]
  /\ rows = [f \in Flows |-> 0]
  /\ open = TRUE

Start(f) ==
  /\ slot = NoFlow /\ life[f] = "unborn"
  /\ slot' = f
  /\ life' = [life EXCEPT ![f] = "pending"]
  /\ UNCHANGED <<rows, open>>

\* f is the flow that may come to an outcome.
InProgress(f) == life[f] = "pending" /\ (open => slot = f)

Store(f) ==
  /\ InProgress(f) /\ rows[f] = 0
  /\ rows' = [rows EXCEPT ![f] = 1]
  /\ UNCHANGED <<slot, life, open>>

Succeed(f) ==
  /\ InProgress(f) /\ rows[f] = 1
  /\ life' = [life EXCEPT ![f] = "success"]
  /\ UNCHANGED <<slot, rows, open>>

Fail(f, code) ==
  /\ InProgress(f) /\ rows[f] = 0
  /\ life' = [life EXCEPT ![f] = code]
  /\ UNCHANGED <<slot, rows, open>>

Release(f) ==
  /\ slot = f /\ (open => Ended(f))
  /\ slot' = NoFlow
  /\ UNCHANGED <<life, rows, open>>

Shutdown ==
  /\ open /\ open' = FALSE
  /\ UNCHANGED <<slot, life, rows>>

Next ==
  \/ \E f \in Flows : \/ Start(f) \/ Store(f) \/ Succeed(f) \/ Release(f)
                      \/ \E code \in ErrorCodes : Fail(f, code)
  \/ Shutdown

Spec == Init /\ [][Next]_<<slot, life, rows, open>>
=============================================================================
