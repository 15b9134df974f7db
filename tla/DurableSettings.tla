-------------------------- MODULE DurableSettings --------------------------
(***************************************************************************)
(* What the configuration promises, without files, locks or steps: a       *)
(* durable value that is installed once and then edited, and the value a   *)
(* running router serves from.  An edit starts from the served value and   *)
(* changes what its patch names; it is served only after it is durable;    *)
(* a crash loses the served value and nothing else.                        *)
(***************************************************************************)
CONSTANTS Values,   \* settings
          Firsts,   \* the settings an installation may start with
          Patched(_, _),  \* the settings after a patch
          Patches,
          None

VARIABLES stored, served

Init == stored = None /\ served = None

\* Setup completes, once.
Install ==
  /\ stored = None
  /\ served = None
  /\ stored' \in Firsts
  /\ UNCHANGED served

\* An edit becomes durable.
Edit ==
  /\ served # None
  /\ \E p \in Patches : stored' = Patched(served, p)
  /\ UNCHANGED served

\* A router starts to serve what is stored.
Serve ==
  /\ stored # None
  /\ served' = stored
  /\ UNCHANGED stored

Crash == served' = None /\ UNCHANGED stored

Next == Install \/ Edit \/ Serve \/ Crash

Spec == Init /\ [][Next]_<<stored, served>>
=============================================================================
