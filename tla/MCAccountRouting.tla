--------------------------- MODULE MCAccountRouting ---------------------------
(* Instances of AccountRouting for TLC.  The ring has two nodes per account  *)
(* and the session's key falls between nodes of different accounts.          *)
EXTENDS AccountRouting

CONSTANTS q1, m1, m2, s1

ThreeAccounts == 1 .. 3
TwoNodes == 0 .. 1
SmallRing == [n \in ThreeAccounts \X TwoNodes |-> n[1] + 10 * n[2]]
Keys == [s \in {s1} |-> 2]

\* An OAuth account, an API-key account for chat and responses, and one for
\* responses and System One.
Kinds == [a \in ThreeAccounts |->
  CASE a = 1 -> [credential |-> "oauth", capabilities |-> {}]
    [] a = 2 -> [credential |-> "api_key", capabilities |-> {"chat", "responses"}]
    [] a = 3 -> [credential |-> "api_key", capabilities |-> {"responses", "systemone"}]]

Renames == [m \in {m1, m2} |-> m2]

SomeEndpoints ==
  { <<"POST", "/v1/responses">>, <<"POST", "/v1/chat/completions">>,
    <<"POST", "/v1/systemone">>, <<"GET", "/v1/models">>,
    <<"WS", "/v1/responses">>, <<"GET", "/v1/projects/{id}">> }
OneEndpoint == { <<"POST", "/v1/responses">> }
=============================================================================
