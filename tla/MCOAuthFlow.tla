----------------------------- MODULE MCOAuthFlow -----------------------------
(* Model-checking instances of OAuthFlow.                                  *)
EXTENDS OAuthFlow, TLC

\* Handlers are interchangeable, and so are flow ids.
Symmetry == Permutations(Callers) \cup Permutations(Flows)

\* Everything that can end a flow while the router is up.
EndCalls == {"start_browser", "start_device", "callback", "access_denied",
             "cancel"}
\* Status polls against starts and the operator's cancel.
CancelPollCalls == {"start_device", "cancel", "get_flow"}
\* Both methods and their polls, up to and after Shutdown.
LifeCalls == {"start_browser", "start_device", "callback", "cancel",
              "get_flow", "shutdown"}
=============================================================================
