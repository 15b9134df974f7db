------------------------- MODULE AccountRoutingProofs -------------------------
(***************************************************************************)
(* Routing picks right accounts, misses none it saw all along, and moves   *)
(* sessions only when it has to, for every set of accounts, models,        *)
(* sessions and requests at once, and for any number of edits.  What comes *)
(* after the pick is recorded truly (GatewayExchange).                     *)
(***************************************************************************)
EXTENDS AccountRouting, GatewayExchange, WellFoundedInduction, FiniteSetTheorems, TLAPS

(* The session router: what consistent hashing guarantees whatever the ring *)
(* looks like.                                                             *)

\* A non-empty set of naturals has a least element.
LEMMA LeastNatural ==
  ASSUME NEW T \in SUBSET Nat, T # {}
  PROVE  \E x \in T : \A y \in T : x <= y
<1>1. \E x \in T : \A y \in T : ~(<<y, x>> \in OpToRel(<, Nat))
  BY NatLessThanWellFounded, WFMin
<1>2. PICK x \in T : \A y \in T : ~(<<y, x>> \in OpToRel(<, Nat))
  BY <1>1
<1>3. \A y \in T : ~(y < x)
  BY <1>2, Zenon DEF OpToRel
<1>4. \A y \in T : x <= y
  BY <1>3
<1>5. QED
  BY <1>4, Zenon

\* The node First chooses exists, is a candidate and has the least hash.
LEMMA FirstIsLeast ==
  ASSUME NEW s \in Sessions, NEW S \in SUBSET Accounts, S # {}
  PROVE  /\ First(s, S) \in Candidates(s, S)
         /\ \A m \in Candidates(s, S) : Hash[First(s, S)] <= Hash[m]
<1> DEFINE C == Candidates(s, S)
<1>1. C # {} /\ C \subseteq Accounts \X Nodes
  <2>1. PICK a \in S, i \in Nodes : TRUE
    BY HashAssumption
  <2>2. <<a, i>> \in Ring(S)
    BY <2>1 DEF Ring
  <2>3. C # {}
    BY <2>2, Zenon DEF Candidates
  <2>4. C \subseteq Accounts \X Nodes
    BY DEF Candidates, Ahead, Ring
  <2>5. QED
    BY <2>3, <2>4
<1> DEFINE T == {Hash[n] : n \in C}
<1>2. T \in SUBSET Nat /\ T # {}
  BY <1>1, HashAssumption
<1>3. \E x \in T : \A y \in T : x <= y
  BY <1>2, LeastNatural
<1>4. \E n \in C : \A m \in C : Hash[n] <= Hash[m]
  BY <1>3
<1>5. QED
  BY <1>4, Zenon DEF First

\* Route answers with one of the accounts it was offered.
THEOREM RouteAmongOffered ==
  ASSUME NEW s \in Sessions, NEW S \in SUBSET Accounts, S # {}
  PROVE  Route(s, S) \in S
BY FirstIsLeast DEF Route, Candidates, Ahead, Ring

\* Consistent hashing: a session moves from one account to another only if
\* the account it had is no longer offered or the one it gets is newly
\* offered.  No other change of the offered accounts reassigns it.
THEOREM MinimalReassignment ==
  ASSUME NEW s \in Sessions,
         NEW S \in SUBSET Accounts, NEW T \in SUBSET Accounts,
         S # {}, T # {},
         Route(s, S) \in T, Route(s, T) \in S
  PROVE  Route(s, S) = Route(s, T)
<1> DEFINE n == First(s, S)
           m == First(s, T)
<1>1. n \in Candidates(s, S) /\ m \in Candidates(s, T)
  BY FirstIsLeast
<1>2. n \in Ring(S) /\ m \in Ring(T)
  BY <1>1 DEF Candidates, Ahead
<1>3. n \in Ring(T) /\ m \in Ring(S)
  BY <1>2 DEF Ring, Route
<1>4. n \in Candidates(s, T) /\ m \in Candidates(s, S)
  BY <1>1, <1>2, <1>3 DEF Candidates, Ahead
<1>5. Hash[n] <= Hash[m] /\ Hash[m] <= Hash[n]
  BY <1>4, FirstIsLeast
<1>6. Hash[n] \in Nat /\ Hash[m] \in Nat
  BY <1>2, HashAssumption DEF Ring
<1>7. Hash[n] = Hash[m]
  BY <1>5, <1>6
<1>8. PICK a \in Accounts, i \in Nodes : n = <<a, i>>
  BY <1>2 DEF Ring
<1>9. PICK b \in Accounts, j \in Nodes : m = <<b, j>>
  BY <1>2 DEF Ring
<1>10. a = b
  BY <1>7, <1>8, <1>9, NoCollision
<1>11. QED
  BY <1>8, <1>9, <1>10 DEF Route

-----------------------------------------------------------------------------
(* Requests and routes.                                                    *)

\* What Now and Since return.
LEMMA NowShape ==
  ASSUME NEW r
  PROVE  Now(r) \in [able : SUBSET Accounts, listed : SUBSET Accounts,
                     unrestricted : SUBSET Accounts, ever : SUBSET Accounts]
BY DEF Now

WatchShape == [able : SUBSET Accounts, listed : SUBSET Accounts,
               unrestricted : SUBSET Accounts, ever : SUBSET Accounts]

LEMMA SinceShape ==
  ASSUME NEW w \in WatchShape, NEW n \in WatchShape
  PROVE  /\ Since(w, n) \in WatchShape
         /\ Since(w, n).listed = w.listed \cap n.listed
         /\ Since(w, n).unrestricted = w.unrestricted \cap n.unrestricted
         /\ Since(w, n).ever = w.ever \cup n.ever
BY DEF Since, WatchShape

\* Every index below its size is the rank of a member of a finite set of
\* numbers: were some missing, take the least of them, and the member after
\* the one of the rank before.
LEMMA EveryRank ==
  ASSUME NEW S \in SUBSET Nat, IsFiniteSet(S), NEW k \in Nat, k < Cardinality(S)
  PROVE  \E a \in S : Cardinality({b \in S : b < a}) = k
<1> DEFINE Below(a) == {b \in S : b < a}
           Missing == {i \in Nat : i < Cardinality(S) /\ \A a \in S : Cardinality(Below(a)) # i}
<1>1. SUFFICES ASSUME Missing # {} PROVE FALSE
  OBVIOUS
<1>2. PICK i \in Missing : \A j \in Missing : i <= j
  BY <1>1, LeastNatural
<1>3. Cardinality(S) \in Nat
  BY FS_CardinalityType
<1>4. CASE i = 0
  <2>1. S # {}
    BY <1>2, <1>3, <1>4, FS_EmptySet
  <2>2. PICK a \in S : \A b \in S : a <= b
    BY <2>1, LeastNatural
  <2>3. Below(a) = {}
    <3>1. \A b \in S : ~(b < a)
      BY <2>2
    <3>2. QED
      BY <3>1, Zenon
  <2>4. QED
    BY <2>3, <1>2, <1>4, FS_EmptySet
<1>5. CASE i # 0
  <2>1. i - 1 \in Nat /\ i - 1 < Cardinality(S) /\ i - 1 \notin Missing
    BY <1>2, <1>3, <1>5
  <2>2. PICK a \in S : Cardinality(Below(a)) = i - 1
    BY <2>1
  <2> DEFINE Above == {b \in S : a < b}
             Upto == Below(a) \cup {a}
  <2>3. IsFiniteSet(Below(a)) /\ a \notin Below(a)
    BY FS_Subset
  <2>4. Cardinality(Upto) = i
    <3>1. Cardinality(Upto) = Cardinality(Below(a)) + 1
      BY <2>3, FS_AddElement, Zenon
    <3>2. QED
      BY <3>1, <2>2, <1>2
  <2>5. Above # {}
    <3>1. SUFFICES ASSUME Above = {} PROVE FALSE
      OBVIOUS
    <3>2. S = Upto
      <4>1. \A b \in S : ~(a < b)
        BY <3>1, Zenon
      <4>2. \A b \in S : b < a \/ b = a
        BY <4>1
      <4>3. QED
        BY <4>2, Zenon
    <3>3. QED
      BY <3>2, <2>4, <1>2, <1>3
  <2>6. PICK c \in Above : \A b \in Above : c <= b
    BY <2>5, LeastNatural
  <2>7. Below(c) = Upto
    <3>1. c \in S /\ a < c
      BY <2>6, Zenon
    <3>2. \A b \in S : a < b => c <= b
      BY <2>6, Zenon
    <3>3. \A b \in S : b < c <=> b < a \/ b = a
      BY <3>1, <3>2
    <3>4. QED
      BY <3>3, Zenon
  <2>8. QED
    BY <2>4, <2>6, <2>7, <1>2
<1>6. QED
  BY <1>4, <1>5

\* The round-robin index picks one of the accounts offered.
LEMMA NthMember ==
  ASSUME NEW S \in SUBSET Accounts, S # {}, NEW k \in Nat
  PROVE  Nth(S, k % Cardinality(S)) \in S
<1>1. S \in SUBSET Nat /\ IsFiniteSet(S)
  BY FS_Subset, RoutingAssumption
<1>2. Cardinality(S) \in Nat \ {0}
  BY <1>1, FS_CardinalityType, FS_EmptySet
<1>3. k % Cardinality(S) \in Nat /\ k % Cardinality(S) < Cardinality(S)
  BY <1>2
<1>4. \E a \in S : Cardinality({b \in S : b < a}) = k % Cardinality(S)
  BY <1>1, <1>3, EveryRank
<1>5. QED
  BY <1>4 DEF Nth

\* classifyGatewayRoute returns an operation of its tables, or none.
LEMMA RouteType ==
  ASSUME NEW e
  PROVE  classifyGatewayRoute(e[1], e[2]) \in Ops \cup NoOps
<1> DEFINE static == Found(StaticRoutes, e[1], e[2])
           dynamic == IF e[1] = "WS" THEN {} ELSE Found(DynamicRoutes, e[1], Shape(e[2]))
<1>1. static # {} => (CHOOSE r \in static : TRUE)[3] \in Ops
  <2>1. \A r \in static : r[3] \in Ops
    BY Zenon DEF Found, Ops
  <2>2. QED
    BY <2>1, Zenon
<1>2. dynamic # {} => (CHOOSE r \in dynamic : TRUE)[3] \in Ops
  <2>1. \A r \in dynamic : r[3] \in Ops
    BY Zenon DEF Found, Ops
  <2>2. QED
    BY <2>1, Zenon
<1> HIDE DEF static, dynamic
<1>3. classifyGatewayRoute(e[1], e[2]) =
        CASE isBlockedGatewayPath(e[2]) -> "blocked"
          [] ~isBlockedGatewayPath(e[2]) /\ static # {} -> (CHOOSE r \in static : TRUE)[3]
          [] ~isBlockedGatewayPath(e[2]) /\ static = {} /\ dynamic # {} ->
               (CHOOSE r \in dynamic : TRUE)[3]
          [] OTHER -> "unsupported"
  BY Zenon DEF classifyGatewayRoute, static, dynamic
<1>4. QED
  BY <1>1, <1>2, <1>3 DEF NoOps

\* The model lists and the statuses stay of their types.
LEMMA EnvironmentType ==
  ASSUME TypeOK, Environment
  PROVE  TypeOK'
<1>1. watch' \in [Requests -> WatchShape]
  <2>1. KeepWatch
    BY Zenon DEF Environment, Edit, CreateAccount, UpdateStatus, AddModel, RemoveModel,
       ReplaceUpstreamModels
  <2>2. \A q \in Requests : Now(req[q])' \in WatchShape
    BY NowShape DEF WatchShape, Now
  <2>3. \A q \in Requests : watch[q] \in WatchShape
    BY DEF TypeOK, WatchShape
  <2>4. QED
    BY <2>1, <2>2, <2>3, SinceShape DEF KeepWatch
<1>2. Edit
  BY Zenon DEF Environment, CreateAccount, UpdateStatus, AddModel, RemoveModel,
     ReplaceUpstreamModels
<1>3. status' \in [Accounts -> Statuses]
  BY DEF TypeOK, Statuses, Environment, CreateAccount, UpdateStatus, AddModel,
     RemoveModel, ReplaceUpstreamModels
<1>4. models' \in [Accounts -> [Models -> Sources]]
  <2>1. PICK a \in Accounts :
          \/ UNCHANGED models
          \/ \E m \in Models : AddModel(a, m)
          \/ \E m \in Models : RemoveModel(a, m)
          \/ \E list \in (SUBSET Models) \ {{}} : ReplaceUpstreamModels(a, list)
    BY Zenon DEF Environment, CreateAccount, UpdateStatus
  <2>2. models \in [Accounts -> [Models -> Sources]]
    BY DEF TypeOK
  <2>3. ASSUME NEW m \in Models, AddModel(a, m) \/ RemoveModel(a, m)
        PROVE  models' \in [Accounts -> [Models -> Sources]]
    BY <2>2, <2>3 DEF AddModel, RemoveModel, Sources
  <2>4. ASSUME NEW list \in SUBSET Models, ReplaceUpstreamModels(a, list)
        PROVE  models' \in [Accounts -> [Models -> Sources]]
    BY <2>2, <2>4 DEF ReplaceUpstreamModels, Sources
  <2>5. QED
    BY <2>1, <2>2, <2>3, <2>4
<1>5. edits' \in 0 .. MaxEdits
  BY <1>2, RoutingAssumption DEF Edit, TypeOK
<1>6. QED
  BY <1>1, <1>2, <1>3, <1>4, <1>5 DEF TypeOK, WatchShape, Edit, locals

\* Every account the handler may pick is an account.
LEMMA PickedIsOffered ==
  ASSUME TypeOK, NEW q \in Requests, pc[q] = "pick", Offered(q) # {}
  PROVE  /\ Offered(q) \in SUBSET Accounts
         /\ req[q].session # NoSession =>
              Route(req[q].session, Offered(q)) \in Offered(q)
         /\ Nth(Offered(q), counter % Cardinality(Offered(q))) \in Offered(q)
<1>1. Offered(q) \in SUBSET Accounts
  BY DEF TypeOK, Offered
<1>2. req[q].session # NoSession => req[q].session \in Sessions
  BY DEF TypeOK
<1>3. counter \in Nat
  BY RoutingAssumption DEF TypeOK
<1>4. QED
  BY <1>1, <1>2, <1>3, RouteAmongOffered, NthMember

LEMMA HandlerType ==
  ASSUME TypeOK, NEW q \in Requests, Handler(q)
  PROVE  TypeOK'
<1> USE DEF TypeOK
<1>1. ASSUME NEW e \in Endpoints, NEW m \in Models \cup {NoModel},
             NEW s \in Sessions \cup {NoSession}, Arrive(q, e, m, s)
      PROVE  TypeOK'
  <2>1. classifyGatewayRoute(e[1], e[2]) \in Ops \cup NoOps
    BY RouteType
  <2>2. Now(req[q])' \in WatchShape
    BY NowShape DEF WatchShape, Now
  <2>3. QED
    BY <1>1, <2>1, <2>2 DEF Arrive, Goto, Pcs, store, WatchShape
<1>2. CASE Reject(q)
  BY <1>2 DEF Reject, Conclude, Goto, Pcs, Verdicts, store
<1>3. CASE Accept(q)
  BY <1>3 DEF Accept, Goto, Pcs, store
<1>4. CASE AccountsWithModel(q)
  BY <1>4 DEF AccountsWithModel, Goto, Pcs, store
<1>5. CASE DistinctAccountIDs(q)
  BY <1>5 DEF DistinctAccountIDs, Goto, Pcs, store
<1>6. CASE AccountsWithoutModels(q)
  BY <1>6 DEF AccountsWithoutModels, Goto, Pcs, store
<1>7. CASE QueryFails(q)
  BY <1>7 DEF QueryFails, Conclude, Goto, Pcs, Verdicts, store
<1>8. CASE serveModelsUnion(q)
  BY <1>8 DEF serveModelsUnion, Conclude, Goto, Pcs, Verdicts, store
<1>9. CASE NoCapacity(q)
  BY <1>9 DEF NoCapacity, Conclude, Goto, Pcs, Verdicts, store
<1>10. CASE RouteSession(q)
  <2>1. PICK a \in Accounts, o \in SUBSET Accounts :
          /\ account' = [account EXCEPT ![q] = a]
          /\ home' = [home EXCEPT ![req[q].session] = [account |-> a, offered |-> o]]
    BY <1>10, PickedIsOffered DEF RouteSession
  <2>2. QED
    BY <1>10, <2>1 DEF RouteSession, Conclude, Goto, Pcs, Verdicts, store
<1>11. CASE RoundRobin(q)
  <2>1. PICK a \in Accounts : account' = [account EXCEPT ![q] = a]
    BY <1>11, PickedIsOffered DEF RoundRobin
  <2>2. counter' \in 0 .. CounterMod - 1
    BY <1>11, RoutingAssumption DEF RoundRobin
  <2>3. QED
    BY <1>11, <2>1, <2>2 DEF RoundRobin, Conclude, Goto, Pcs, Verdicts, store
<1>12. CASE Finish(q)
  BY <1>12 DEF Finish, Goto, Pcs, Verdicts, store, NoRequest, NoWatch, NoOps
<1>13. QED
  BY <1>1, <1>2, <1>3, <1>4, <1>5, <1>6, <1>7, <1>8, <1>9, <1>10, <1>11, <1>12
     DEF Handler

-----------------------------------------------------------------------------
(* The inductive invariant.                                                *)

\* A verdict, per request: what RightAccount and NeverMissed say.
Verdict(q) ==
  /\ verdict[q] = "picked" => account[q] \in watch[q].ever
  /\ verdict[q] \in Refused => watch[q].listed = {} /\ watch[q].unrestricted = {}

IInv == TypeOK /\ RoutingInv /\ \A q \in Requests : Verdict(q)

\* An edit changes the tables under every request: watch follows, and only
\* shrinks where the filter must hold it and grows where it must hold the
\* filter.
LEMMA EnvironmentKeeps ==
  ASSUME IInv, Environment, NEW q \in Requests
  PROVE  (WatchInv(q) /\ FilterInv(q) /\ Verdict(q))'
<1> DEFINE n == Now(req[q])'
<1>1. Edit
  BY Zenon DEF Environment, CreateAccount, UpdateStatus, AddModel, RemoveModel,
     ReplaceUpstreamModels
<1>2. n \in WatchShape /\ watch[q] \in WatchShape
  BY NowShape DEF WatchShape, Now, IInv, TypeOK
<1>3. UNCHANGED <<pc[q], req[q], eligible[q], rows[q], account[q], verdict[q]>>
  BY <1>1 DEF Edit, locals
<1>4. WatchInv(q) /\ FilterInv(q) /\ Verdict(q)
  BY DEF IInv, RoutingInv
<1>5. CASE q \in Watching
  <2>1. watch'[q] = Since(watch[q], n)
    BY <1>1, <1>5 DEF Edit, KeepWatch
  <2>2. /\ watch'[q].listed = watch[q].listed \cap n.listed
        /\ watch'[q].unrestricted = watch[q].unrestricted \cap n.unrestricted
        /\ watch'[q].ever = watch[q].ever \cup n.ever
    BY <1>2, <2>1, SinceShape
  <2> HIDE DEF n
  <2>3. /\ watch'[q].listed \subseteq n.listed
        /\ watch'[q].unrestricted \subseteq n.unrestricted
        /\ n.ever \subseteq watch'[q].ever
    BY <2>2
  <2>4. WatchInv(q)'
    BY <2>3, Zenon DEF WatchInv, n
  <2>5. FilterInv(q)'
    BY <1>3, <1>4, <2>2 DEF FilterInv
  <2>6. Verdict(q)'
    BY <1>3, <1>4, <2>2 DEF Verdict
  <2>7. QED
    BY <2>4, <2>5, <2>6
<1>6. CASE q \notin Watching
  <2>1. watch'[q] = watch[q] /\ pc[q] \in {"idle", "done"}
    BY <1>1, <1>6 DEF Edit, KeepWatch, Watching
  <2>2. QED
    BY <1>3, <1>4, <2>1 DEF WatchInv, FilterInv, Verdict
<1>7. QED
  BY <1>5, <1>6

\* A step of one handler leaves the others alone.
LEMMA OthersKeep ==
  ASSUME IInv, NEW q \in Requests, Handler(q), NEW p \in Requests, p # q
  PROVE  (WatchInv(p) /\ FilterInv(p) /\ Verdict(p))'
<1>1. UNCHANGED <<pc[p], req[p], eligible[p], rows[p], account[p], verdict[p], watch[p],
                  status, models>>
  BY DEF IInv, TypeOK, Handler, Arrive, Reject, Accept, AccountsWithModel,
     DistinctAccountIDs, AccountsWithoutModels, QueryFails, serveModelsUnion,
     NoCapacity, RouteSession, RoundRobin, Finish, Conclude, Goto, store
<1>2. Now(req[p])' = Now(req[p])
  BY <1>1, Zenon DEF Now, Usable, Lists, Unrestricted, HasRows, Effective
<1>3. WatchInv(p) /\ FilterInv(p) /\ Verdict(p)
  BY DEF IInv, RoutingInv
<1>4. WatchInv(p)'
  BY <1>1, <1>2, <1>3 DEF WatchInv
<1>5. FilterInv(p)' /\ Verdict(p)'
  BY <1>1, <1>3 DEF FilterInv, Verdict
<1>6. QED
  BY <1>4, <1>5

\* What the queries return, in terms of Now.
LEMMA NowSets ==
  ASSUME NEW r
  PROVE  /\ Now(r).listed = {a \in Accounts : Usable(a, r) /\ Lists(a, r)}
         /\ Now(r).unrestricted = {a \in Accounts : Usable(a, r) /\ Unrestricted(a, r)}
         /\ Now(r).ever = {a \in Accounts : Lists(a, r) \/ Unrestricted(a, r)}
BY DEF Now

LEMMA OwnKeeps ==
  ASSUME IInv, NEW q \in Requests, Handler(q)
  PROVE  (WatchInv(q) /\ FilterInv(q) /\ Verdict(q))'
<1> DEFINE r == req[q]
<1>1. WatchInv(q) /\ FilterInv(q) /\ Verdict(q) /\ TypeOK
  BY DEF IInv, RoutingInv
<1>2. ASSUME UNCHANGED <<status, models, req[q], watch[q]>>, pc[q] \notin {"idle", "done"}
      PROVE  WatchInv(q)'
  <2>1. Now(req[q])' = Now(req[q])
    BY <1>2, Zenon DEF Now, Usable, Lists, Unrestricted, HasRows, Effective
  <2>2. QED
    BY <1>1, <1>2, <2>1 DEF WatchInv
<1>3. ASSUME NEW e \in Endpoints, NEW m \in Models \cup {NoModel},
             NEW s \in Sessions \cup {NoSession}, Arrive(q, e, m, s)
      PROVE  (WatchInv(q) /\ FilterInv(q) /\ Verdict(q))'
  <2>1. watch'[q] = Now(req[q])' /\ pc'[q] = "serve"
    BY <1>1, <1>3 DEF Arrive, Goto, TypeOK
  <2>2. WatchInv(q)'
    BY <2>1, Zenon DEF WatchInv
  <2>3. verdict'[q] = verdict[q] /\ pc[q] = "idle"
    BY <1>3 DEF Arrive
  <2>4. verdict[q] = "none"
    BY <1>1, <2>3 DEF FilterInv
  <2>5. QED
    BY <2>1, <2>2, <2>3, <2>4 DEF FilterInv, Verdict, Refused
<1>4. ASSUME NEW v \in Verdicts \ (Refused \cup {"picked"}), Conclude(q, v)
      PROVE  (WatchInv(q) /\ FilterInv(q) /\ Verdict(q))'
  <2>1. pc'[q] = "done" /\ verdict'[q] = v
    BY <1>1, <1>4 DEF Conclude, Goto, TypeOK
  <2>2. QED
    BY <2>1, <1>4 DEF WatchInv, FilterInv, Verdict
<1>5. CASE Reject(q)
  BY <1>4, <1>5 DEF Reject, Verdicts, Refused
<1>6. CASE QueryFails(q)
  BY <1>4, <1>6 DEF QueryFails, Verdicts, Refused
<1>7. CASE Accept(q)
  <2>1. UNCHANGED <<status, models, req[q], watch[q], verdict[q]>> /\ pc[q] = "serve"
    BY <1>7 DEF Accept, store
  <2>2. /\ pc'[q] \in {"union", "with_model", "pick"}
        /\ pc'[q] = "with_model" => req[q].model # NoModel
        /\ pc'[q] = "pick" => r.model = NoModel /\ eligible'[q] = Accounts
    BY <1>1, <1>7 DEF Accept, Goto, TypeOK
  <2>3. r.model = NoModel => Accounts \subseteq watch[q].ever
    <3>1. r.model = NoModel => Now(r).ever = Accounts
      BY NowSets DEF Unrestricted
    <3>2. QED
      BY <3>1, <2>1, <1>1 DEF WatchInv
  <2>4. watch[q].listed \subseteq Accounts /\ watch[q].unrestricted \subseteq Accounts
    BY <1>1 DEF TypeOK
  <2>5. verdict[q] = "none"
    BY <1>1, <2>1 DEF FilterInv
  <2>6. WatchInv(q)'
    BY <1>2, <2>1
  <2>7. FilterInv(q)' /\ Verdict(q)'
    BY <2>1, <2>2, <2>3, <2>4, <2>5 DEF FilterInv, Verdict, Refused
  <2>8. QED
    BY <2>6, <2>7
<1>8. CASE AccountsWithModel(q)
  <2>1. /\ UNCHANGED <<status, models, req[q], watch[q], verdict[q]>>
        /\ pc[q] = "with_model" /\ pc'[q] = "with_rows"
    BY <1>1, <1>8 DEF AccountsWithModel, Goto, store, TypeOK
  <2>2. eligible'[q] = {a \in Accounts : Lists(a, r)}
    <3>1. r.model # NoModel
      BY <1>1, <2>1 DEF FilterInv
    <3>2. eligible'[q] = {a \in Accounts : models[a][Effective(r)] # "none"}
      BY <1>1, <1>8 DEF AccountsWithModel, TypeOK
    <3>3. QED
      BY <3>1, <3>2, Zenon DEF Lists
  <2>3. eligible'[q] \subseteq Now(r).ever /\ Now(r).listed \subseteq eligible'[q]
    BY <2>2, NowSets, Zenon
  <2>4. eligible'[q] \subseteq watch[q].ever /\ watch[q].listed \subseteq eligible'[q]
    BY <1>1, <2>1, <2>3 DEF WatchInv
  <2>5. verdict[q] = "none"
    BY <1>1, <2>1 DEF FilterInv
  <2>6. WatchInv(q)'
    BY <1>2, <2>1
  <2>7. FilterInv(q)' /\ Verdict(q)'
    BY <1>1, <2>1, <2>4, <2>5 DEF FilterInv, Verdict, Refused
  <2>8. QED
    BY <2>6, <2>7
<1>9. CASE DistinctAccountIDs(q)
  <2>1. /\ UNCHANGED <<status, models, req[q], watch[q], verdict[q], eligible[q]>>
        /\ pc[q] = "with_rows" /\ pc'[q] = "not_deleted"
    BY <1>1, <1>9 DEF DistinctAccountIDs, Goto, store, TypeOK
  <2>2. rows'[q] = {a \in Accounts : HasRows(a)}
    BY <1>1, <1>9 DEF DistinctAccountIDs, TypeOK
  <2>3. Accounts \ rows'[q] \subseteq Now(r).ever
    BY <2>2, NowSets, Zenon DEF Unrestricted
  <2>4. Accounts \ rows'[q] \subseteq watch[q].ever
    BY <1>1, <2>1, <2>3 DEF WatchInv
  <2>5. r.model # NoModel => watch[q].unrestricted \cap rows'[q] = {}
    <3>1. r.model # NoModel => Now(r).unrestricted \cap rows'[q] = {}
      BY <2>2, NowSets, Zenon DEF Unrestricted
    <3>2. QED
      BY <1>1, <2>1, <3>1 DEF WatchInv
  <2>6. verdict[q] = "none"
    BY <1>1, <2>1 DEF FilterInv
  <2>7. WatchInv(q)'
    BY <1>2, <2>1
  <2>8. r.model # NoModel
    BY <1>1, <2>1 DEF FilterInv
  <2>9. FilterInv(q)' /\ Verdict(q)'
    BY <1>1, <2>1, <2>4, <2>5, <2>6, <2>8 DEF FilterInv, Verdict, Refused
  <2>10. QED
    BY <2>7, <2>9
<1>10. CASE AccountsWithoutModels(q)
  <2>1. /\ UNCHANGED <<status, models, req[q], watch[q], verdict[q]>>
        /\ pc[q] = "not_deleted" /\ pc'[q] = "pick"
    BY <1>1, <1>10 DEF AccountsWithoutModels, Goto, store, TypeOK
  <2>2. eligible'[q] = eligible[q] \cup
          {a \in Accounts : status[a] \notin {"absent", "deleted"} /\ a \notin rows[q]}
    BY <1>1, <1>10 DEF AccountsWithoutModels, TypeOK
  <2>3. \A a \in watch[q].unrestricted : a \in Accounts /\ status[a] = "active"
    <3>1. \A a \in Now(r).unrestricted : a \in Accounts /\ status[a] = "active"
      BY NowSets DEF Usable
    <3>2. QED
      BY <1>1, <2>1, <3>1 DEF WatchInv
  <2>4. eligible'[q] \subseteq watch[q].ever /\ watch[q].listed \subseteq eligible'[q]
    BY <1>1, <2>1, <2>2 DEF FilterInv
  <2>5. watch[q].unrestricted \subseteq eligible'[q]
    BY <1>1, <2>1, <2>2, <2>3 DEF FilterInv
  <2>6. verdict[q] = "none"
    BY <1>1, <2>1 DEF FilterInv
  <2>7. WatchInv(q)'
    BY <1>2, <2>1
  <2>8. FilterInv(q)' /\ Verdict(q)'
    BY <2>1, <2>4, <2>5, <2>6 DEF FilterInv, Verdict, Refused
  <2>9. QED
    BY <2>7, <2>8
<1>11. CASE serveModelsUnion(q)
  <2>1. pc[q] = "union" /\ pc'[q] = "done" /\ watch'[q] = watch[q]
    BY <1>1, <1>11 DEF serveModelsUnion, Conclude, Goto, TypeOK
  <2>2. verdict'[q] = IF \E a \in Accounts : Usable(a, r)
                      THEN "models_listed" ELSE "no_available_account"
    BY <1>1, <1>11 DEF serveModelsUnion, Conclude, TypeOK
  <2>3. (\A a \in Accounts : ~Usable(a, r)) =>
          watch[q].listed = {} /\ watch[q].unrestricted = {}
    <3>1. (\A a \in Accounts : ~Usable(a, r)) =>
            Now(r).listed = {} /\ Now(r).unrestricted = {}
      BY NowSets, Zenon
    <3>2. QED
      BY <1>1, <2>1, <3>1 DEF WatchInv
  <2>4. QED
    BY <2>1, <2>2, <2>3 DEF WatchInv, FilterInv, Verdict, Refused
<1>12. CASE NoCapacity(q)
  <2>1. pc[q] = "pick" /\ pc'[q] = "done" /\ watch'[q] = watch[q] /\ Offered(q) = {}
    BY <1>1, <1>12 DEF NoCapacity, Conclude, Goto, TypeOK
  <2>2. verdict'[q] \in Refused
    BY <1>1, <1>12 DEF NoCapacity, Conclude, TypeOK, Refused
  <2>3. \A a \in watch[q].listed \cup watch[q].unrestricted : Usable(a, r)
    <3>1. \A a \in Now(r).listed \cup Now(r).unrestricted : Usable(a, r)
      BY NowSets, Zenon
    <3>2. QED
      BY <1>1, <2>1, <3>1 DEF WatchInv
  <2>4. watch[q].listed \cup watch[q].unrestricted \subseteq eligible[q]
    BY <1>1, <2>1 DEF FilterInv
  <2>5. watch[q].listed = {} /\ watch[q].unrestricted = {}
    BY <2>1, <2>3, <2>4 DEF Offered
  <2>6. QED
    BY <2>1, <2>2, <2>5 DEF WatchInv, FilterInv, Verdict, Refused
<1>13. ASSUME pc[q] = "pick", account'[q] \in Offered(q), Conclude(q, "picked"),
              watch'[q] = watch[q]
       PROVE  (WatchInv(q) /\ FilterInv(q) /\ Verdict(q))'
  <2>1. account'[q] \in watch'[q].ever
    BY <1>1, <1>13 DEF FilterInv, Offered
  <2>2. pc'[q] = "done" /\ verdict'[q] = "picked"
    BY <1>1, <1>13 DEF Conclude, Goto, TypeOK
  <2>3. QED
    BY <2>1, <2>2 DEF WatchInv, FilterInv, Verdict, Refused
<1>14. CASE RouteSession(q)
  BY <1>1, <1>13, <1>14, PickedIsOffered DEF RouteSession, TypeOK
<1>15. CASE RoundRobin(q)
  BY <1>1, <1>13, <1>15, PickedIsOffered DEF RoundRobin, TypeOK
<1>16. CASE Finish(q)
  BY <1>1, <1>16 DEF Finish, Goto, TypeOK, WatchInv, FilterInv, Verdict, Refused
<1>17. QED
  BY <1>3, <1>5, <1>6, <1>7, <1>8, <1>9, <1>10, <1>11, <1>12, <1>14, <1>15, <1>16
     DEF Handler

\* A pick puts the session where the ring of the accounts offered puts it.
LEMMA HomeKeeps ==
  ASSUME IInv, Next
  PROVE  \A s \in Sessions : HomeInv(s)' /\ StaysHome(s)
<1> USE DEF IInv, RoutingInv
<1>1. ASSUME UNCHANGED home
      PROVE  \A s \in Sessions : HomeInv(s)' /\ StaysHome(s)
  BY <1>1 DEF HomeInv, StaysHome
<1>2. ASSUME NEW q \in Requests, RouteSession(q)
      PROVE  \A s \in Sessions : HomeInv(s)' /\ StaysHome(s)
  <2>1. PICK s \in Sessions, T \in SUBSET Accounts :
          s = req[q].session /\ T = Offered(q) /\ T # {}
    BY <1>2 DEF RouteSession, TypeOK, Offered
  <2>2. home' = [home EXCEPT ![s] = [account |-> Route(s, T), offered |-> T]]
    BY <1>2, <2>1 DEF RouteSession
  <2>3. home \in [Sessions -> [account : Accounts \cup {NoAccount}, offered : SUBSET Accounts]]
    BY DEF TypeOK
  <2>4. ASSUME NEW t \in Sessions, t # s
        PROVE  HomeInv(t)' /\ StaysHome(t)
    <3>1. home'[t] = home[t]
      BY <2>2, <2>3, <2>4
    <3>2. QED
      BY <2>4, <3>1 DEF HomeInv, StaysHome
  <2>5. home'[s].account = Route(s, T) /\ home'[s].offered = T
    BY <2>1, <2>2, <2>3
  <2>6. HomeInv(s)'
    BY <2>1, <2>5 DEF HomeInv
  <2>7. StaysHome(s)
    <3>1. SUFFICES ASSUME home[s] # NoHome, home[s].account \in T,
                          Route(s, T) \in home[s].offered
                   PROVE  Route(s, T) = home[s].account
      BY <2>5 DEF StaysHome
    <3>2. /\ home[s].offered # {} /\ home[s].account = Route(s, home[s].offered)
          /\ home[s].offered \in SUBSET Accounts
      BY <2>1, <2>3, <3>1 DEF HomeInv
    <3>3. QED
      BY <2>1, <3>1, <3>2, MinimalReassignment
  <2>8. QED
    BY <2>4, <2>6, <2>7
<1>3. UNCHANGED home \/ \E q \in Requests : RouteSession(q)
  BY Zenon DEF Next, Environment, CreateAccount, UpdateStatus, AddModel, RemoveModel,
     ReplaceUpstreamModels, Edit, Handler, Arrive, Reject, Accept, AccountsWithModel,
     DistinctAccountIDs, AccountsWithoutModels, QueryFails, serveModelsUnion,
     NoCapacity, RoundRobin, Finish
<1>4. QED
  BY <1>1, <1>2, <1>3

\* The locals of every handler stay true of the tables, under any edits.
THEOREM Inductive == Spec => []IInv
<1>1. Init => IInv
  <2> SUFFICES ASSUME Init PROVE IInv
    OBVIOUS
  <2>1. TypeOK
    BY RoutingAssumption DEF Init, TypeOK, Statuses, Sources, Pcs, Verdicts,
       NoRequest, NoWatch, NoHome, NoOps
  <2>2. RoutingInv /\ \A q \in Requests : Verdict(q)
    BY DEF Init, RoutingInv, WatchInv, FilterInv, HomeInv, Verdict, Refused
  <2>3. QED
    BY <2>1, <2>2 DEF IInv
<1>2. IInv /\ [Next]_vars => IInv'
  <2> SUFFICES ASSUME IInv, [Next]_vars PROVE IInv'
    OBVIOUS
  <2>1. CASE Next
    <3>1. TypeOK'
      BY <2>1, EnvironmentType, HandlerType DEF IInv, Next
    <3>2. \A q \in Requests : (WatchInv(q) /\ FilterInv(q) /\ Verdict(q))'
      BY <2>1, EnvironmentKeeps, OthersKeep, OwnKeeps DEF Next
    <3>3. QED
      BY <2>1, <3>1, <3>2, HomeKeeps DEF IInv, RoutingInv
  <2>2. CASE UNCHANGED vars
    <3>1. \A r : Now(r)' = Now(r)
      BY <2>2 DEF vars, store, Now, Usable, Lists, Unrestricted, HasRows, Effective
    <3>2. QED
      BY <2>2, <3>1 DEF IInv, TypeOK, RoutingInv, WatchInv, FilterInv, HomeInv, Verdict,
         vars, store, locals
  <2>3. QED
    BY <2>1, <2>2
<1>3. QED
  BY <1>1, <1>2, PTL DEF Spec

\* Type correctness of the routing tables, the handlers and the history.
THEOREM TypeCorrect == Spec => []TypeOK
BY Inductive, PTL DEF IInv

\* The filter invariant that TLC checks, for any number of handlers and edits.
THEOREM FilterSound == Spec => []RoutingInv
BY Inductive, PTL DEF IInv

\* Every account picked admitted the model sent upstream at some time since
\* the request came.
THEOREM PicksRight == Spec => []RightAccount
<1>1. IInv => RightAccount
  BY DEF IInv, Verdict, RightAccount
<1>2. QED
  BY <1>1, Inductive, PTL

\* No refusal while an account was listed, or unrestricted, all along.
THEOREM MissesNone == Spec => []NeverMissed
<1>1. IInv => NeverMissed
  BY DEF IInv, Verdict, NeverMissed
<1>2. QED
  BY <1>1, Inductive, PTL

\* Sessions move only when they have to, for every ring without collisions.
THEOREM SessionsStay == Spec => Sticky
<1>1. IInv /\ [Next]_vars => [\A s \in Sessions : StaysHome(s)]_vars
  BY HomeKeeps
<1>2. QED
  BY <1>1, Inductive, PTL DEF Spec, Sticky

-----------------------------------------------------------------------------
(* What routing hands on to the exchange.                                  *)

\* The tables of the routes and of the bridges agree: whichever credential a
\* route admits, selectGatewayBridge finds a bridge for it.
LEMMA EveryRouteHasBridge ==
  ASSUME NEW op, NEW credential \in {"oauth", "api_key"}, CredentialEligible(op, credential)
  PROVE  selectGatewayBridge(op, credential)
<1>1. CASE credential = "oauth"
  BY <1>1 DEF CredentialEligible, selectGatewayBridge, Bridges, OAuthEligible, NativeOps,
     CodexBridges
<1>2. CASE credential = "api_key"
  <2>1. op \in Ops /\ op \notin NativeOps \cup {"responses.websocket"}
    BY <1>2 DEF CredentialEligible, APIKeyEligible
  <2>2. PICK r \in StaticRoutes \cup DynamicRoutes : op = r[3]
    BY <2>1 DEF Ops
  <2>3. op \in ResponsesDirect \cup ConversationsDirect \cup ChatDirect
                 \cup {"models.list", "models.retrieve", "systemone.create"}
    <3>1. CASE r \in StaticRoutes
      BY <2>1, <2>2, <3>1 DEF StaticRoutes, NativeOps, ResponsesDirect,
         ConversationsDirect, ChatDirect
    <3>2. CASE r \in DynamicRoutes
      <4> DEFINE Of(o) == \E x, y : r = <<x, y, o>>
      <4>1. \/ Of("responses.retrieve") \/ Of("responses.delete") \/ Of("responses.cancel")
            \/ Of("responses.input_items") \/ Of("conversations.retrieve")
            \/ Of("conversations.update") \/ Of("conversations.delete")
            \/ Of("conversations.items.create") \/ Of("conversations.items.list")
            \/ Of("conversations.items.retrieve") \/ Of("conversations.items.delete")
            \/ Of("chat.retrieve") \/ Of("chat.update") \/ Of("chat.delete")
            \/ Of("chat.messages") \/ Of("models.retrieve")
        BY <3>2, Zenon DEF DynamicRoutes
      <4>2. ASSUME NEW o, Of(o) PROVE r[3] = o
        BY <4>2
      <4> HIDE DEF Of
      <4>3. QED
        BY <2>2, <4>1, <4>2 DEF ResponsesDirect, ConversationsDirect, ChatDirect
    <3>3. QED
      BY <2>2, <3>1, <3>2
  <2>4. QED
    BY <1>2, <2>3 DEF selectGatewayBridge, Bridges
<1>3. QED
  BY <1>1, <1>2

\* The requests that look for an account name an operation, and not the models list.
OpInv(q) ==
  /\ pc[q] \in {"with_model", "with_rows", "not_deleted", "pick"} =>
       req[q].op \in Ops \ {"models.list"}
  /\ verdict[q] = "picked" =>
       /\ pc[q] = "done" /\ account[q] \in Accounts
       /\ req[q].op \in Ops \ {"models.list"}
       /\ proxyAccountEligible(Kind[account[q]], req[q].op)

LEMMA OpOwn ==
  ASSUME IInv, NEW q \in Requests, OpInv(q), Handler(q)
  PROVE  OpInv(q)'
<1> USE DEF OpInv
<1>0. TypeOK /\ (verdict[q] # "none" => pc[q] = "done")
  BY DEF IInv, RoutingInv, FilterInv
<1>1. ASSUME NEW e \in Endpoints, NEW m \in Models \cup {NoModel},
             NEW s \in Sessions \cup {NoSession}, Arrive(q, e, m, s)
      PROVE  OpInv(q)'
  BY <1>0, <1>1 DEF TypeOK, Arrive, Goto
<1>2. CASE Accept(q)
  BY <1>0, <1>2 DEF TypeOK, Accept, Goto
<1>3. CASE Reject(q) \/ QueryFails(q) \/ serveModelsUnion(q) \/ NoCapacity(q)
  BY <1>0, <1>3 DEF TypeOK, Reject, QueryFails, serveModelsUnion, NoCapacity, Conclude, Goto
<1>4. CASE AccountsWithModel(q) \/ DistinctAccountIDs(q) \/ AccountsWithoutModels(q)
  BY <1>0, <1>4 DEF TypeOK, AccountsWithModel, DistinctAccountIDs, AccountsWithoutModels, Goto
<1>5. CASE RouteSession(q) \/ RoundRobin(q)
  <2>1. /\ pc[q] = "pick" /\ pc'[q] = "done" /\ UNCHANGED req
        /\ account'[q] \in Offered(q)
    BY <1>0, <1>5, PickedIsOffered DEF RouteSession, RoundRobin, TypeOK, Conclude, Goto
  <2>2. /\ account'[q] \in Accounts
        /\ proxyAccountEligible(Kind[account'[q]], req[q].op)
    BY <1>0, <2>1 DEF Offered, Usable, TypeOK
  <2>3. QED
    BY <2>1, <2>2
<1>6. CASE Finish(q)
  BY <1>0, <1>6 DEF TypeOK, Finish, Goto
<1>7. QED
  BY <1>1, <1>2, <1>3, <1>4, <1>5, <1>6 DEF Handler

LEMMA OpOthers ==
  ASSUME IInv, NEW q \in Requests, OpInv(q),
         Environment \/ \E o \in Requests \ {q} : Handler(o)
  PROVE  OpInv(q)'
<1>1. UNCHANGED <<pc[q], req[q], account[q], verdict[q]>>
  <2>1. CASE Environment
    BY <2>1 DEF Environment, CreateAccount, UpdateStatus, AddModel, RemoveModel,
       ReplaceUpstreamModels, Edit, locals
  <2>2. ASSUME NEW o \in Requests \ {q}, Handler(o)
        PROVE  UNCHANGED <<pc[q], req[q], account[q], verdict[q]>>
    BY <2>2 DEF IInv, TypeOK, Handler, Arrive, Reject, Accept, AccountsWithModel,
       DistinctAccountIDs, AccountsWithoutModels, QueryFails, serveModelsUnion,
       NoCapacity, RouteSession, RoundRobin, Finish, Conclude, Goto
  <2>3. QED
    BY <2>1, <2>2
<1>2. QED
  BY <1>1 DEF OpInv

\* What GatewayExchange starts from: the account that was picked may serve the
\* operation by its credential and its capabilities, and a bridge is there
\* for the two, so the exchange never finds itself without one.
HandedOn ==
  \A q \in Requests : verdict[q] = "picked" =>
    /\ req[q].op \in Ops \ {"models.list"}
    /\ proxyAccountEligible(Kind[account[q]], req[q].op)
    /\ selectGatewayBridge(req[q].op, Kind[account[q]].credential)

\* Every pick is one the exchange can serve, however accounts are edited.
THEOREM PicksServable == Spec => []HandedOn
<1> DEFINE J == \A q \in Requests : OpInv(q)
<1>1. Init => J
  BY DEF Init, OpInv
<1>2. IInv /\ J /\ [Next]_vars => J'
  <2>1. IInv /\ J /\ Next => J'
    BY OpOwn, OpOthers DEF Next
  <2>2. J /\ UNCHANGED vars => J'
    BY DEF vars, locals, OpInv
  <2>3. QED
    BY <2>1, <2>2
<1>3. J => HandedOn
  <2> SUFFICES ASSUME J, NEW q \in Requests, verdict[q] = "picked"
               PROVE  selectGatewayBridge(req[q].op, Kind[account[q]].credential)
    BY DEF OpInv, HandedOn
  <2>1. account[q] \in Accounts /\ proxyAccountEligible(Kind[account[q]], req[q].op)
    BY DEF OpInv
  <2>2. Kind[account[q]].credential \in {"oauth", "api_key"}
    BY <2>1, RoutingAssumption DEF AccountKinds
  <2>3. QED
    BY <2>1, <2>2, EveryRouteHasBridge DEF proxyAccountEligible
<1> HIDE DEF J
<1>4. QED
  BY <1>1, <1>2, <1>3, Inductive, PTL DEF Spec

-----------------------------------------------------------------------------
(* The exchange that follows a pick (GatewayExchange), which has its own   *)
(* program counter, request and account.                                   *)

Results == [direction : Directions, normal : BOOLEAN]
PeerStates == {"none", "open", "normal", "lost", "closed"}

\* The answer handed on, and the one it was made from: an error or a cut body is
\* never mended on the way, and an error is handed on as it came.
Adaptation(u, v) ==
  /\ v.code # "error" => u.code # "error"
  /\ v.body # "cut" => u.body # "cut"
  /\ u.code = "ok" => v.code \in {"ok", "error"}
  /\ u.code = "error" => v.code = "error" /\ v.body = u.body

LEMMA AdaptedFacts ==
  ASSUME NEW op, NEW credential, NEW stream \in BOOLEAN, NEW u \in Answers,
         NEW v \in Adapted(Adapter(op, credential, stream), u)
  PROVE  v \in Answers /\ Adaptation(u, v)
<1>1. Adapter(op, credential, stream) \in {"collect", "chat_sse", "chat_json", "passthrough"}
  BY DEF Adapter
<1>2. ASSUME NEW a \in {"collect", "chat_sse", "chat_json", "passthrough"},
             NEW w \in Adapted(a, u)
      PROVE  w \in Answers /\ Adaptation(u, w)
  <2>1. CASE a = "passthrough"
    BY <1>2, <2>1 DEF Adapted, Answers, Adaptation
  <2>2. CASE a = "collect"
    BY <1>2, <2>2 DEF Adapted, Answers, Adaptation
  <2>3. CASE a = "chat_json"
    BY <1>2, <2>3 DEF Adapted, Answers, Adaptation
  <2>4. CASE a = "chat_sse"
    BY <1>2, <2>4 DEF Adapted, Answers, Adaptation
  <2>5. QED
    BY <2>1, <2>2, <2>3, <2>4
<1>3. QED
  BY <1>1, <1>2

\* Only the collecting adapter has nothing to hand on for an error read whole.
LEMMA AdaptedErrors ==
  ASSUME NEW op, NEW credential, NEW stream \in BOOLEAN, NEW u \in Answers,
         u.code = "error", u.body = "whole",
         Adapted(Adapter(op, credential, stream), u) = {}
  PROVE  Adapter(op, credential, stream) = "collect" /\ u.type = "other"
<1>1. Adapter(op, credential, stream) \in {"collect", "chat_sse", "chat_json", "passthrough"}
  BY DEF Adapter
<1>2. ASSUME NEW a \in {"collect", "chat_sse", "chat_json", "passthrough"},
             Adapted(a, u) = {}
      PROVE  a = "collect" /\ u.type = "other"
  <2>1. CASE a = "passthrough"
    BY <1>2, <2>1 DEF Adapted
  <2>2. CASE a = "collect"
    BY <1>2, <2>2 DEF Adapted, Answers
  <2>3. CASE a = "chat_json"
    BY <1>2, <2>3 DEF Adapted
  <2>4. CASE a = "chat_sse"
    BY <1>2, <2>4 DEF Adapted
  <2>5. QED
    BY <2>1, <2>2, <2>3, <2>4
<1>3. QED
  BY <1>1, <1>2

\* Who ended a relay: its first result comes from a peer that closed or was lost,
\* for only the relay's own cleaning up, after that result, interrupts a copier.
RelayInv ==
  /\ results \in Seq(Results) /\ peer \in [Peers -> PeerStates]
  /\ ctx = "cancelled" \/ (\E p \in Peers : peer[p] = "closed") => results # <<>>
  /\ results # <<>> =>
       /\ \E p \in Peers : peer[p] \in {"normal", "lost"}
       /\ results[1].normal => \E p \in Peers : peer[p] = "normal"
  /\ stage \in {"prepare", "bridge", "forward"} =>
       results = <<>> /\ ctx = "live" /\ \A d \in Directions : copier[d] = "none"
  /\ stage = "closing" => results # <<>>

\* The exchange's invariant: which answer the handler holds, who ends a relay, and
\* the record that is kept.
ExchangeInv ==
  /\ upstream \in Answers /\ resp \in Answers
  /\ call.stream \in BOOLEAN
  /\ stage \notin {"respond", "done"} => upstream.code = "ok"
  /\ stage = "respond" => call.op \notin WebSocketOps /\ Adaptation(upstream, resp)
  /\ stage \in {"relay", "closing"} => call.op \in WebSocketOps
  /\ RelayInv
  /\ RecordTruthful

LEMMA ExchangeStarts == ExchangeInit => ExchangeInv
BY DEF ExchangeInit, ExchangeInv, RelayInv, RecordTruthful, NoAnswer,
       Answers, Peers, PeerStates

\* Before the reply and after it, the relay's state does not move the handler's.
LEMMA HandlerStep ==
  ASSUME ExchangeInv, UNCHANGED <<call, peer, copier, results, ctx>>, stage' # "closing",
         stage' \in {"prepare", "bridge", "forward"} => stage \in {"prepare", "bridge", "forward"},
         upstream' \in Answers, resp' \in Answers,
         stage' \notin {"respond", "done"} => upstream'.code = "ok",
         stage' = "respond" => call.op \notin WebSocketOps /\ Adaptation(upstream', resp'),
         stage' = "relay" => call.op \in WebSocketOps,
         RecordTruthful'
  PROVE  ExchangeInv'
BY DEF ExchangeInv, RelayInv

LEMMA ForwardKeeps ==
  ASSUME ExchangeInv,
         \/ PreForward \/ SelectBridge \/ ForwardFails
         \/ ForwardBridgeRequest \/ ClientLeaves
  PROVE  ExchangeInv'
<1> USE DEF relay
<1>1. CASE PreForward
  BY <1>1, HandlerStep DEF ExchangeInv, PreForward, writeError,
     Answer, RecordTruthful
<1>2. CASE SelectBridge
  BY <1>2, HandlerStep DEF ExchangeInv, SelectBridge, writeError,
     Answer, RecordTruthful
<1>3. CASE ForwardFails
  BY <1>3, HandlerStep DEF ExchangeInv, ForwardFails, writeError,
     Answer, RecordTruthful
<1>4. CASE ForwardBridgeRequest
  <2> DEFINE out(u) == Adapted(Adapter(call.op, kind.credential, call.stream), u)
  <2>1. PICK u \in Answers :
          /\ upstream' = u
          /\ \/ \E v \in out(u) : resp' = v /\ stage' = "respond"
             \/ /\ out(u) = {} \/ u.body = "malformed"
                /\ writeError("502", "router_error") /\ UNCHANGED resp
    BY <1>4, Zenon DEF ForwardBridgeRequest
  <2>2. call.op \notin WebSocketOps /\ UNCHANGED <<call, kind, peer, copier, results, ctx>>
    BY <1>4, Zenon DEF ForwardBridgeRequest
  <2>3. CASE /\ out(u) = {} \/ u.body = "malformed"
             /\ writeError("502", "router_error") /\ UNCHANGED resp
    <3>1. u.code = "error" /\ u.body = "whole"
            => Adapter(call.op, kind.credential, call.stream) = "collect" /\ u.type = "other"
      BY <2>3, AdaptedErrors DEF ExchangeInv
    <3>2. RecordTruthful'
      BY <2>1, <2>2, <2>3, <3>1 DEF writeError, Answer, RecordTruthful, Uncollectable
    <3>3. QED
      BY <2>1, <2>2, <2>3, <3>2, HandlerStep DEF ExchangeInv, writeError, Answer
  <2>4. ASSUME NEW v \in out(u),
               resp' = v /\ stage' = "respond"
        PROVE  ExchangeInv'
    <3>1. resp' \in Answers /\ Adaptation(upstream', resp')
      BY <2>1, <2>4, AdaptedFacts DEF ExchangeInv
    <3>2. RecordTruthful'
      BY <2>4 DEF RecordTruthful
    <3>3. QED
      BY <2>1, <2>2, <2>4, <3>1, <3>2, HandlerStep
  <2>5. QED
    BY <2>1, <2>3, <2>4
<1>5. CASE ClientLeaves
  BY <1>5, HandlerStep DEF ExchangeInv, ClientLeaves, RecordTruthful
<1>6. QED
  BY <1>1, <1>2, <1>3, <1>4, <1>5

LEMMA RespondKeeps ==
  ASSUME ExchangeInv,
         RespondSystemOne \/ RespondJSON \/ RespondSSE
  PROVE  ExchangeInv'
<1> USE DEF relay
<1>1. /\ stage = "respond" /\ stage' = "done" /\ call.op \notin WebSocketOps
      /\ Adaptation(upstream, resp)
      /\ UNCHANGED <<call, kind, peer, copier, results, ctx, upstream, resp, gone>>
  BY DEF ExchangeInv, RespondSystemOne, RespondJSON, RespondSSE,
     Passed, writeError, Answer
<1>2. upstream \in Answers /\ resp \in Answers
  BY DEF ExchangeInv
<1>3. ASSUME Passed, resp.body # "cut"
      PROVE  RecordTruthful'
  <2>1. /\ reply'.sent = resp.code /\ reply'.recorded = resp.code
        /\ reply'.outcome = OutcomeOf(call.op, resp.code)
    BY <1>3 DEF Passed, Answer
  <2>2. CASE resp.code = "error"
    BY <1>1, <2>1, <2>2 DEF OutcomeOf, RecordTruthful
  <2>3. CASE resp.code # "error"
    BY <1>1, <1>3, <2>1, <2>3 DEF OutcomeOf, RecordTruthful, Adaptation
  <2>4. QED
    BY <2>2, <2>3
<1>4. ASSUME NEW code, writeError(code, "router_error"),
             gone \/ resp.code # "error" \/ resp.body # "whole"
      PROVE  RecordTruthful'
  BY <1>1, <1>4 DEF writeError, Answer, RecordTruthful, Adaptation
<1>5. ASSUME Answer(resp.code, resp.code,
                classifySSEForwardFailure(OutcomeOf(call.op, resp.code)))
      PROVE  RecordTruthful'
  <2>1. /\ reply'.sent = resp.code /\ reply'.recorded = resp.code
        /\ reply'.outcome =
             classifySSEForwardFailure(OutcomeOf(call.op, resp.code))
    BY <1>5 DEF Answer
  <2>2. CASE resp.code = "error"
    BY <1>1, <2>1, <2>2 DEF OutcomeOf, classifySSEForwardFailure,
       RecordTruthful
  <2>3. CASE resp.code # "error"
    BY <1>1, <2>1, <2>3 DEF OutcomeOf, classifySSEForwardFailure,
       RecordTruthful, Adaptation
  <2>4. QED
    BY <2>2, <2>3
<1>6. RecordTruthful'
  <2>1. CASE RespondSystemOne
    <3> DEFINE valid == /\ resp.body # "cut"
                        /\ resp.code = "ok" => resp.type = "json" /\ resp.body = "whole"
    <3>1. ~valid => resp.code # "error" \/ resp.body # "whole"
      OBVIOUS
    <3>2. \/ valid /\ Passed
          \/ /\ ~valid \/ gone
             /\ \E code \in {"502", "504"} : writeError(code, "router_error")
      BY <2>1, Zenon DEF RespondSystemOne
    <3>3. CASE valid /\ Passed
      BY <3>3, <1>3
    <3>4. CASE /\ ~valid \/ gone
               /\ \E code \in {"502", "504"} : writeError(code, "router_error")
      BY <3>1, <3>4, <1>4, Zenon
    <3>5. QED
      BY <3>2, <3>3, <3>4
  <2>2. CASE RespondJSON
    <3>1. resp.body = "cut" => resp.body # "whole"
      OBVIOUS
    <3>2. QED
      BY <2>2, <3>1, <1>3, <1>4, Zenon DEF RespondJSON
  <2>3. CASE RespondSSE
    BY <2>3, <1>3, <1>5, Zenon DEF RespondSSE
  <2>4. QED
    BY <2>1, <2>2, <2>3
<1>7. QED
  BY <1>1, <1>2, <1>6, HandlerStep

\* A copier's result is put behind the others; the first one has a peer's end behind it.
LEMMA StopsKeeps ==
  ASSUME ExchangeInv, NEW d \in Directions, NEW normal \in BOOLEAN,
         Stops(d, normal),
         \/ /\ \E p \in Peers : peer[p] \in {"normal", "lost"}
            /\ normal => \E p \in Peers : peer[p] = "normal"
         \/ results # <<>>
  PROVE  ExchangeInv'
<1>1. /\ results' = Append(results, [direction |-> d, normal |-> normal])
      /\ UNCHANGED <<stage, call, kind, upstream, resp, gone, reply, peer, ctx>>
      /\ stage \notin {"prepare", "bridge", "forward"}
  BY DEF Stops, ExchangeInv, RelayInv
<1>2. [direction |-> d, normal |-> normal] \in Results
  BY DEF Results
<1>3. results' \in Seq(Results) /\ results' # <<>>
  BY <1>1, <1>2 DEF ExchangeInv, RelayInv
<1>4. \/ results = <<>> /\ results'[1].normal = normal
      \/ results # <<>> /\ results'[1] = results[1]
  BY <1>1, <1>2 DEF ExchangeInv, RelayInv
<1>5. RelayInv'
  BY <1>1, <1>3, <1>4 DEF ExchangeInv, RelayInv
<1>6. RecordTruthful'
  BY <1>1 DEF ExchangeInv, RecordTruthful, Uncollectable
<1>7. QED
  BY <1>1, <1>5, <1>6 DEF ExchangeInv

LEMMA RelayKeeps ==
  ASSUME ExchangeInv, DialBridgeWebSocket \/ Relay
  PROVE  ExchangeInv'
<1>1. CASE DialBridgeWebSocket
  <2>1. /\ stage = "forward" /\ call.op \in WebSocketOps
        /\ upstream.code = "ok" /\ UNCHANGED <<call, upstream, resp, gone, results, ctx>>
    BY <1>1 DEF DialBridgeWebSocket, ExchangeInv
  <2>2. CASE stage' = "relay" /\ peer' = [p \in Peers |-> "open"]
    <3>1. peer' \in [Peers -> PeerStates] /\ \A p \in Peers : peer'[p] # "closed"
      BY <2>2 DEF PeerStates
    <3>2. RelayInv'
      BY <2>1, <2>2, <3>1 DEF ExchangeInv, RelayInv
    <3>3. RecordTruthful'
      BY <2>2 DEF RecordTruthful
    <3>4. QED
      BY <2>1, <2>2, <3>2, <3>3 DEF ExchangeInv
  <2>3. CASE Answer("library", "400", "router_error") /\ UNCHANGED <<peer, copier>>
    <3>1. RecordTruthful' /\ stage' = "done"
      BY <2>1, <2>3 DEF Answer, RecordTruthful
    <3>2. QED
      BY <2>1, <2>3, <3>1, HandlerStep DEF ExchangeInv
  <2>4. QED
    BY <1>1, <2>2, <2>3 DEF DialBridgeWebSocket
<1>2. ASSUME NEW p \in Peers, NEW how \in {"normal", "lost"}, PeerEnds(p, how)
      PROVE  ExchangeInv'
  <2>1. /\ peer[p] = "open" /\ peer' = [peer EXCEPT ![p] = how]
        /\ UNCHANGED <<stage, call, kind, upstream, resp, gone, reply, copier, results, ctx>>
    BY <1>2 DEF PeerEnds
  <2>2. \A o \in Peers : peer[o] # "open" => peer'[o] = peer[o]
    BY <2>1 DEF ExchangeInv, RelayInv
  <2>3. \A o \in Peers : peer'[o] = "closed" => peer[o] = "closed"
    BY <2>1 DEF ExchangeInv, RelayInv
  <2>4. peer' \in [Peers -> PeerStates]
    BY <2>1 DEF ExchangeInv, RelayInv, PeerStates
  <2>5. RelayInv'
    BY <2>1, <2>2, <2>3, <2>4 DEF ExchangeInv, RelayInv
  <2>6. RecordTruthful'
    BY <2>1, <2>2 DEF ExchangeInv, RecordTruthful, Uncollectable
  <2>7. QED
    BY <2>1, <2>5, <2>6 DEF ExchangeInv
<1>3. ASSUME NEW d \in Directions,
             \/ CopierReadsEnd(d) \/ CopierFailsToWrite(d)
             \/ CopierInterrupted(d)
      PROVE  ExchangeInv'
  <2>1. Source(d) \in Peers /\ Target(d) \in Peers
    BY DEF Source, Target, Peers
  <2>2. CASE CopierReadsEnd(d)
    BY <2>1, <2>2, StopsKeeps DEF CopierReadsEnd
  <2>3. CASE CopierFailsToWrite(d)
    BY <2>1, <2>3, StopsKeeps DEF CopierFailsToWrite
  <2>4. CASE CopierInterrupted(d)
    <3>1. results # <<>>
      BY <2>1, <2>4 DEF CopierInterrupted, ExchangeInv, RelayInv
    <3>2. QED
      BY <2>4, <3>1, StopsKeeps DEF CopierInterrupted
  <2>5. QED
    BY <1>3, <2>2, <2>3, <2>4
<1>4. CASE RelayFirstResult
  <2>1. /\ stage = "relay" /\ results # <<>> /\ stage' = "closing"
        /\ peer' = [p \in Peers |-> IF peer[p] = "open" THEN "closed" ELSE peer[p]]
        /\ UNCHANGED <<call, upstream, resp, gone, reply, results>>
    BY <1>4 DEF RelayFirstResult
  <2>2. peer' \in [Peers -> PeerStates]
    BY <2>1 DEF ExchangeInv, RelayInv, PeerStates
  <2>3. RelayInv'
    BY <2>1, <2>2 DEF ExchangeInv, RelayInv
  <2>4. QED
    BY <2>1, <2>3 DEF ExchangeInv, RecordTruthful
<1>5. CASE RelayReturns
  <2>1. /\ stage = "closing" /\ stage' = "done" /\ UNCHANGED <<call, upstream, resp, gone>>
        /\ UNCHANGED <<peer, copier, results, ctx>>
        /\ reply' = [sent |-> "101", recorded |-> "101", outcome |->
             IF results[1].normal THEN "success"
             ELSE IF results[1].direction = "downstream_to_upstream"
                  THEN "cancelled" ELSE "router_error"]
    BY <1>5 DEF RelayReturns, Answer, relay
  <2>2. /\ results[1].normal => \E p \in Peers : peer[p] = "normal"
        /\ \E p \in Peers : peer[p] \in {"normal", "lost"}
        /\ call.op \in WebSocketOps /\ upstream.code = "ok"
    BY <2>1 DEF ExchangeInv, RelayInv
  <2>3. /\ reply'.sent = "101" /\ reply'.recorded = "101"
        /\ reply'.outcome = "success" => results[1].normal
        /\ reply'.outcome # "upstream_error"
    BY <2>1
  <2>4. RecordTruthful'
    BY <2>1, <2>2, <2>3 DEF RecordTruthful
  <2>5. QED
    BY <2>1, <2>4, HandlerStep DEF ExchangeInv
<1>6. QED
  BY <1>1, <1>2, <1>3, <1>4, <1>5 DEF Relay

\* Whatever the upstream answers, whoever leaves and however a relay ends, the record
\* tells how it ended: success only for an answer without error status that was read
\* and handed on to its end, converted or not, or a peer that closed normally; the
\* upstream's error passed on and recorded as one; cancelled only if the client or a
\* peer has gone.
THEOREM RecordsTruly == ExchangeSpec => []RecordTruthful
<1>1. ExchangeInv /\ [ExchangeNext]_exchange => ExchangeInv'
  <2>1. ExchangeInv /\ UNCHANGED exchange => ExchangeInv'
    BY DEF exchange, relay, ExchangeInv, RelayInv, RecordTruthful, Uncollectable
  <2>2. ExchangeInv /\ ExchangeNext => ExchangeInv'
    BY ForwardKeeps, RespondKeeps, RelayKeeps DEF ExchangeNext
  <2>3. QED
    BY <2>1, <2>2
<1>2. ExchangeInv => RecordTruthful
  BY DEF ExchangeInv
<1>3. QED
  BY ExchangeStarts, <1>1, <1>2, PTL DEF ExchangeSpec
===============================================================================
