----------------------------- MODULE AccountRows -----------------------------
(***************************************************************************)
(* The rows of upstream_accounts as the admin API and the usage refresher  *)
(* see them: accounts are created, imported, exported, disabled, deleted   *)
(* and listed while the refresher goes over the active ones, renews their  *)
(* tokens, asks the provider for their quota and anchors rolling windows   *)
(* with a probe.  The provider's clock and the router's differ, and        *)
(* answers take time.  Times are in half minutes.                          *)
(***************************************************************************)
EXTENDS AuthJSON, FiniteSets, Sequences

CONSTANTS Ids,        \* account ids 1 .. n
          Imports,    \* import requests
          Creates,    \* creation requests
          Renewals,   \* id_tokens a token refresh may return
          Windows,    \* quota windows an account has: "primary", "secondary"
          Period,     \* their lengths
          Spent,      \* used_percent of a window with real usage
          Unspent,    \* used_percent of one without
          Skew,       \* the provider's clock minus the router's
          Interval,   \* usage_refresh_interval_seconds
          MaxDelay,   \* bound: time an answer of the provider may take
          MaxTime     \* bound: the clock

resetAnchorTolerance == 2

ASSUME IdsAssumption == IsFiniteSet(Ids) /\ Ids = 1 .. Cardinality(Ids)
ASSUME TypesAssumption ==
  /\ Windows \subseteq WindowNames /\ Period \in [Windows -> Nat]
  /\ Skew \in Int /\ Interval \in Nat /\ MaxDelay \in Nat
  /\ \A req \in Imports : req.doc.last \in Int
  /\ Spent \subseteq Nat \ {0} /\ Unspent \subseteq {n \in Int : n <= 0} \ {Null}
\* What the comment on resetAnchorTolerance asks of the clocks and of the interval, with
\* the time the answers of a pass take.
ASSUME ClockAssumption ==
  /\ MaxDelay - Skew <= resetAnchorTolerance
  /\ resetAnchorTolerance + Skew + MaxDelay * Cardinality(Ids) < Interval

VARIABLES rows,     \* id -> the row
          now,
          exporting,\* the id whose export met an invalid shape, 0 if none
          exported, \* the last document exported, with the row it came from
          answered, \* the last answer of the admin API: a result, a refusal, a failure
          pass,     \* the refresher: what is left of its list, and the usage it judges
          nextTick, \* when the ticker fires
          anchor,   \* external: per account and window the reset time, Null while it rolls
          used,     \* external: accounts with real usage in their windows
          told      \* history: the last answer of the provider about an account, the last
                    \* one that was stored, and the last judgement

vars == <<rows, now, exporting, exported, answered, pass, nextTick, anchor, used, told>>

NoDoc == [form |-> "none"]
\* What an export takes along of an account; the expiry of the access token stays behind.
Credentials(row) ==
  [access |-> row.access, refresh |-> row.refresh, idToken |-> row.idToken,
   email |-> row.email, account |-> row.account, last |-> row.last]
NoAnswer == [rated |-> FALSE, complete |-> FALSE, shown |-> {}, spent |-> 0, unspent |-> 0]
NoPass == [todo |-> <<>>, id |-> 0, at |-> 0, usage |-> NoUsage, answer |-> NoAnswer,
           rolling |-> FALSE]
NotTold == [given |-> NoUsage, usage |-> NoUsage, judged |-> FALSE, rolling |-> FALSE, probed |-> FALSE]

Init ==
  /\ rows = <<>> /\ now = 0 /\ exporting = 0
  /\ exported = [doc |-> NoDoc, row |-> Credentials(Created(""))]
  /\ answered = "none" /\ pass = NoPass /\ nextTick = 0
  /\ anchor = [id \in Ids |-> [w \in Windows |-> Null]]
  /\ used = {} /\ told = [id \in Ids |-> NotTold]

refresher == <<pass, nextTick, anchor, used, told>>

Insert(row) == rows' = Append(rows, row)
CanInsert == Len(rows) + 1 \in Ids

-----------------------------------------------------------------------------
(* The admin API *)

CreateAccount ==
  /\ \E req \in Creates :
       \/ CreateCode(req) # 201 /\ answered' = "refused" /\ UNCHANGED rows
       \/ CreateCode(req) = 201 /\ CanInsert /\ Insert(Created(req.name)) /\ answered' = "ok"
       \/ CreateCode(req) = 201 /\ answered' = "failed" /\ UNCHANGED rows
  /\ UNCHANGED <<now, exporting, exported, refresher>>

\* ImportAuthJSONHandler.ServeHTTP.
ImportAuthJSON ==
  /\ \E req \in Imports :
       LET refusal == IF readRequestAuthJSON(req) # "ok" THEN readRequestAuthJSON(req)
                                                        ELSE Import(req.doc) IN
       \/ refusal # "ok" /\ answered' = "refused" /\ UNCHANGED rows
       \/ refusal = "ok" /\ CanInsert /\ Insert(Imported(req.doc, now)) /\ answered' = "ok"
       \/ refusal = "ok" /\ answered' = "failed" /\ UNCHANGED rows
  /\ UNCHANGED <<now, exporting, exported, refresher>>

\* ExportAuthJSONHandler.ServeHTTP; of an invalid shape the row is read once more.
ExportAuthJSON(id) ==
  /\ exporting = 0
  /\ IF id \notin DOMAIN rows
     THEN answered' = "refused" /\ UNCHANGED <<exported, exporting>>
     ELSE CASE GetForExport(rows[id]) = "ok" ->
                 /\ exported' = [doc |-> buildCodexAuthJSONDocument(rows[id]), row |-> Credentials(rows[id])]
                 /\ answered' = "ok" /\ UNCHANGED exporting
            [] GetForExport(rows[id]) = "account_not_found" ->
                 answered' = "refused" /\ UNCHANGED <<exported, exporting>>
            [] GetForExport(rows[id]) = "invalid_shape" ->
                 exporting' = id /\ answered' = "none" /\ UNCHANGED exported
  /\ UNCHANGED <<rows, now, refresher>>

writeExportLookupError ==
  /\ exporting # 0
  /\ answered' = IF exportShapeError(rows[exporting]) = "oauth_export_read_failed"
                  THEN "failed" ELSE "refused"
  /\ exporting' = 0
  /\ UNCHANGED <<rows, now, exported, refresher>>

\* EnableAccount, DisableAccount and DeleteAccount, as AccountLifecycle has them.
SetStatus(id) ==
  /\ \E status \in {"active", "disabled", "deleted"} :
       IF rows[id].status = "deleted" /\ status # "deleted"
       THEN answered' = "refused" /\ UNCHANGED rows
       ELSE answered' = "ok" /\ rows' = [rows EXCEPT ![id].status = status]
  /\ UNCHANGED <<now, exporting, exported, refresher>>

\* ListForAdminAPI: the rows that are not deleted, by id.
ListForAdminAPI ==
  [id \in {i \in DOMAIN rows : rows[i].status # "deleted"} |->
     newAccountListItemResponse(rows[id])]

\* ListAccounts and filterAccountListItems: the query may name one status ("": any).
ListAccounts(status) ==
  [id \in {i \in DOMAIN ListForAdminAPI : status \in {"", rows[i].status}} |-> ListForAdminAPI[id]]

-----------------------------------------------------------------------------
(* The provider (external) *)

\* A window that is not anchored rolls: its nominal reset is a period from the
\* provider's now.  One that is over rolls again.
Anchored(id, w) == anchor[id][w] # Null /\ now + Skew < anchor[id][w]
Anchor(id) ==
  [anchor EXCEPT ![id] = [w \in Windows |->
     IF Anchored(id, w) THEN anchor[id][w] ELSE now + Skew + Period[w]]]
Reported(id, w, answer) ==
  [used |-> IF id \in used /\ Anchored(id, w) THEN answer.spent ELSE answer.unspent,
   reset |-> IF Anchored(id, w) THEN anchor[id][w] ELSE now + Skew + Period[w],
   period |-> Period[w]]
\* An answer: whether it has a rate_limit, the windows in it, whether these are complete or
\* lack reset_at and limit_window_seconds, and the percentages, which may be out of range.
Rated(complete, shown) ==
  {[rated |-> TRUE, complete |-> complete, shown |-> shown, spent |-> s, unspent |-> u] :
     s \in Spent, u \in Unspent}
Answers ==
  {NoAnswer} \cup Rated(FALSE, Windows) \cup UNION {Rated(TRUE, shown) : shown \in SUBSET Windows}
Usage(id, answer) ==
  [w \in WindowNames |->
     CASE w \in answer.shown /\ answer.complete  -> Reported(id, w, answer)
       [] w \in answer.shown /\ ~answer.complete ->
            [NoWindow EXCEPT !.used = Reported(id, w, answer).used]
       [] OTHER                                  -> NoWindow]

\* A client's message counts against the windows of an OAuth account.
ClientMessage(id) ==
  /\ rows[id].method \in OAuthMethods /\ id \notin used
  /\ anchor' = Anchor(id) /\ used' = used \cup {id}
  /\ UNCHANGED <<rows, now, exporting, exported, answered, pass, nextTick, told>>

-----------------------------------------------------------------------------
(* UsageRefresher *)

\* Bug: the two clocks are taken to be one.
usageWindowFixedExact(w, t) ==
  w.used > 0 \/ (Null \notin {w.reset, w.period} /\ t + w.period > w.reset)
usageWindowFixed(w, t) ==
  \/ w.used > 0
  \/ Null \notin {w.reset, w.period} /\ t + w.period - resetAnchorTolerance > w.reset

usageResetFixed(answer, usage, t) ==
  answer.rated /\ \A w \in answer.shown : usageWindowFixed(usage[w], t)

Active == {id \in DOMAIN rows : rows[id].status = "active"}
Ascending(S) == CHOOSE s \in [1 .. Cardinality(S) -> S] : \A i, j \in DOMAIN s : i < j => s[i] < s[j]

\* refreshAll begins: ListActive, of which only the OAuth rows are gone over.
refreshAll ==
  /\ pass = NoPass /\ now >= nextTick
  /\ pass' = [NoPass EXCEPT !.todo =
                Ascending({id \in Active : rows[id].method \in OAuthMethods})]
  /\ nextTick' = now + Interval
  /\ UNCHANGED <<rows, now, exporting, exported, answered, anchor, used, told>>

\* RefreshIfStale on the row: UpdateCredentials with the claims of the new id_token.
Renewed(row, idToken) ==
  [row EXCEPT !.access = 2, !.refresh = 2, !.idToken = idToken, !.email = idToken.email,
              !.account = idToken.account, !.last = now, !.expires = now + ImportLifetime]

NextOf(p) == [NoPass EXCEPT !.todo = Tail(p.todo)]

\* refreshOne up to the usage: the token cannot be had (or the usage cannot: no answer, a
\* status, an unreadable body, no proxy), or the provider answers.
RefreshIfStale ==
  /\ pass.todo # <<>> /\ pass.id = 0
  /\ LET id == Head(pass.todo) IN
     \E idToken \in Renewals \cup {rows[id].idToken}, answer \in Answers, ok \in BOOLEAN :
       /\ rows' = IF idToken = rows[id].idToken \/ rows[id].status = "deleted" THEN rows
                  ELSE [rows EXCEPT ![id] = Renewed(@, idToken)]
       /\ pass' = IF ok THEN [pass EXCEPT !.id = id, !.at = now, !.usage = Usage(id, answer),
                                          !.answer = answer,
                                          !.rolling = \E w \in answer.shown : ~Anchored(id, w)]
                  ELSE NextOf(pass)
       /\ told' = IF ok THEN [told EXCEPT ![id].given = Usage(id, answer)] ELSE told
  /\ UNCHANGED <<now, exporting, exported, answered, nextTick, anchor, used>>

\* Bug: only the windows of the answer are written.
UpdateUsageMerged(row, usage) ==
  [row EXCEPT !.usage = [w \in DOMAIN @ |-> IF usage[w] = NoWindow THEN @[w] ELSE usage[w]]]
UpdateUsage(row, usage) == [row EXCEPT !.usage = usage]

\* ProbeResetAnchor: a message of the router's, unless it does not get through.
ProbeResetAnchor(id, sent) == IF sent THEN Anchor(id) ELSE anchor

\* Its rest, once the answer is there: the probe and the snapshot, which is the one
\* from before the probe.
refreshOne ==
  /\ pass.id # 0
  /\ LET id == pass.id
         probe == ~usageResetFixed(pass.answer, pass.usage, now) IN
     \E sent \in BOOLEAN, stored \in BOOLEAN :
       /\ anchor' = IF probe THEN ProbeResetAnchor(id, sent) ELSE anchor
       /\ rows' = IF stored THEN [rows EXCEPT ![id] = UpdateUsage(@, pass.usage)] ELSE rows
       /\ told' = [told EXCEPT ![Head(pass.todo)] =
                     [given |-> @.given, usage |-> IF stored THEN @.given ELSE @.usage,
                      judged |-> pass.answer.complete, rolling |-> pass.rolling, probed |-> probe]]
  /\ pass' = NextOf(pass)
  /\ UNCHANGED <<now, exporting, exported, answered, nextTick, used>>

\* An answer takes at most MaxDelay, and the loop takes a tick and the next account at
\* once: a pass is shorter than the interval, so no tick waits for it.
TimePasses ==
  /\ now < MaxTime
  /\ IF pass = NoPass THEN now < nextTick ELSE pass.id # 0 /\ now < pass.at + MaxDelay
  /\ now' = now + 1
  /\ used' = {id \in used : \E w \in Windows : anchor[id][w] > now + 1 + Skew}
  /\ UNCHANGED <<rows, exporting, exported, answered, pass, nextTick, anchor, told>>

-----------------------------------------------------------------------------
Next ==
  \/ CreateAccount \/ ImportAuthJSON
  \/ \E id \in Ids : ExportAuthJSON(id)
  \/ writeExportLookupError
  \/ \E id \in DOMAIN rows : SetStatus(id) \/ ClientMessage(id)
  \/ refreshAll \/ RefreshIfStale \/ refreshOne \/ TimePasses

Spec == Init /\ [][Next]_vars

-----------------------------------------------------------------------------
(* Properties *)

\* A document exported from a row and imported again, here or on another router whose
\* clock is not behind, is the same account: tokens, identity and the time of its last
\* refresh.  No row's last refresh lies in the future.  The expiry of the access token is not
\* in the document: the import takes the id_token's exp for it, or five minutes, so the
\* moment from which RefreshIfStale renews the token, halfway to the expiry, may shift.
RoundTrip ==
  /\ \A id \in DOMAIN rows : rows[id].last <= now
  /\ exported.doc # NoDoc /\ Import(exported.doc) = "ok" =>
       Credentials(Imported(exported.doc, now)) = exported.row

\* As long as the clocks differ, and answers take, less than the tolerance allows, a
\* window that still rolls is probed and one that is anchored is not: no message is spent
\* in every pass, and no account goes without a fixed reset.  (An answer that lacks the
\* rate limit or the times of its windows is no ground for either.)
ProbesRolling ==
  \A id \in Ids : told[id].judged => told[id].probed = told[id].rolling

\* A window is shown as the provider reported it, its percentage as the nearest one in range.
Shows(item, given) ==
  /\ item.reset = given.reset /\ item.period = given.period
  /\ IF given.used = Null THEN item.used = Null
     ELSE /\ item.used \in 0 .. 100
          /\ given.used < item.used => item.used = 0
          /\ given.used > item.used => item.used = 100

\* The usage an account is listed with is one answer the provider gave about this account, the
\* last that was stored, whatever else was asked and stored meanwhile: percentages brought
\* into range, both windows of the same moment, a window the answer lacked not shown; an
\* api_key account is listed with none, and a deleted one not at all.
UsageTruthful ==
  \A status \in {"", "active", "disabled", "deleted"} :
    LET list == ListAccounts(status) IN \A id \in DOMAIN list :
    LET item == list[id] IN
    /\ item.status # "deleted" /\ status \in {"", item.status}
    /\ IF item.method = "api_key" THEN item.usage = NoUsage
       ELSE \A w \in WindowNames : Shows(item.usage[w], told[id].usage[w])

\* The quickstart of specification 003 says that an exported file imported into another
\* router must land a functional account.
ExportImportable == exported.doc # NoDoc => Import(exported.doc) = "ok"
=============================================================================
