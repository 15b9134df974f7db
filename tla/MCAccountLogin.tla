--------------------------- MODULE MCAccountLogin ---------------------------
(* Model-checking instance of AccountLogin.                               *)
EXTENDS AccountLogin, TLC

Symmetry == Permutations(Handlers)

\* Two states are told apart by what their futures and the properties depend on: times
\* relative to now; of a flow that is over, with no poll in flight, what a late request
\* still reads; and whether the invariants about such flows hold.
Left(t) == IF t < now THEN -1 ELSE t - now
Over(f) == IsTerminal(f) /\ ~flows[f].polling
Seen(f) ==
  IF Over(f)
  THEN <<flows[f].status, flows[f].winner, flows[f].listener, Left(flows[f].expires), rows[f],
         IF flows[f].err \in {"cancelled", "flow_expired"} THEN flows[f].err ELSE "">>
  ELSE <<[flows[f] EXCEPT !.expires = Left(@), !.due = IF @ = 0 THEN -1 ELSE Left(@)], grant[f],
         rows[f], [heard[f] EXCEPT !.at = Left(heard[f].at + heard[f].floor)]>>
View == <<[f \in Flows |-> Seen(f)], slot, released, latest, task, said, calls,
          EndsForCause>>

Code(http, error, ids, interval, ttl) ==
  [http |-> http, readable |-> TRUE, error |-> error, ids |-> ids, interval |-> interval,
   ttl |-> ttl]

\* Two usable device codes: no interval and a short life, a long interval that a
\* slow_down takes to the maximum; and what is refused.
MCDeviceAnswers ==
  { Code(200, "", TRUE, Absent, 3), Code(200, "", TRUE, 7, 22), Code(404, "", FALSE, 0, 0),
    Code(200, "", TRUE, -1, 4), Code(0, "", FALSE, 0, 0) }

Poll(http, readable, error, status, code) ==
  [http |-> http, readable |-> readable, error |-> error, status |-> status, code |-> code]

MCWaitAnswers ==
  { Poll(403, TRUE, "authorization_pending", "", FALSE), Poll(200, TRUE, "", "slow_down", FALSE),
    Poll(404, TRUE, "", "", FALSE) }
MCFaultAnswers ==
  { Poll(0, FALSE, "", "", FALSE), Poll(200, FALSE, "", "", TRUE), Poll(500, TRUE, "", "", FALSE) }

Token(http, readable, error, complete, jwt, email) ==
  [http |-> http, readable |-> readable, error |-> error, complete |-> complete,
   idToken |-> [jwt |-> jwt, email |-> email, account |-> "", exp |-> Absent]]

MCTokenAnswers ==
  { Token(200, TRUE, "", TRUE, TRUE, "ann"), Token(0, FALSE, "", FALSE, FALSE, ""),
    Token(400, TRUE, "invalid_grant", FALSE, FALSE, ""), Token(200, TRUE, "", TRUE, TRUE, "") }
=============================================================================
