# A TLA+ verification of one-llm-router

one-llm-router is a Go gateway in front of LLM providers.  Clients call
OpenAI-shaped routes under `/v1/`; the router picks one of the upstream
accounts an operator has stored (API keys, or ChatGPT OAuth logins), forwards
the request with that account's credentials, adapts the answer and records what
happened.  Operators manage accounts, settings and OAuth logins through
`/api/admin` and a first-run wizard.

This directory holds TLA+ modules of the program, TLC configurations that check
them on small instances, and TLAPS proofs of the main safety properties for
every instance.  `PROJECT.json` maps each definition to the lines it models and
lists the hazards, line by line, that the properties are for.

## 1. Inventory

| Component (source) | State | Operations | Modelled in |
|---|---|---|---|
| OAuth onboarding coordinator (`internal/oauth/coordinator.go`, `flow.go`, `status.go`, `listener.go`) | the one active flow (`flowPtr`), released flows, each flow's `Consumed`, status, error, winner rail, `mu`; `closed` | StartBrowser, StartDevice, ConsumeCode on two rails, access-denied on two rails, CancelWithContext, expiry reaper, device poller, ReleaseFlow, GetFlow, Shutdown | `OAuthFlow`; promise: `FlowRegister` |
| OAuth HTTP handlers and provider client (`api/oauthapi/handlers.go`, `oauth/exchange.go`, `claims.go`) | what a handler has read of the coordinator; deadlines and polling intervals | both starts, pasted URL, loopback pages, cancel; device code, poll, exchange | `ProviderAnswers`, `AccountLogin` |
| OAuth token refresher (`coordinator.go`, `store/accounts.go`) | token columns and `last_refresh` of a row, the singleflight group | RefreshIfStale, UpdateCredentials, UpdateStatusIfCurrent | `TokenRefresh` |
| Usage refresher (`oauth/usage_refresher.go`, `provider/openai/client.go`) | the list of the current pass, usage columns | a pass, the judgement of quota windows, the probe | `AccountRows` |
| auth.json import and export (`oauth/import_auth_json.go`, `api/adminapi/import_auth_json.go`, `api/exportapi`) | account rows | import, export | `AuthJSON`, `AccountRows` |
| Admin account API (`api/admin/handler.go`, `core/account_service.go`, `store/accounts.go`) | account rows | create, list, Enable, Disable, Delete, UpdateDetails | `AccountLifecycle`, `AccountDetails`, `AccountRows` |
| Routing (`api/proxy.go`, `proxy_routes.go`, `proxy_models.go`, `core/account_selector.go`) | round-robin counter; reads accounts, model lists, rename rules | ServeHTTP up to the pick, buildModelEligibleSet, SelectEligible, the models union | `GatewayRoutes`, `AccountRouting` |
| Session router (`core/session_router.go`) | none: a ring is built per call | Route | `SessionRouter` |
| Model cache (`core/model_refresh.go`, `store/account_models.go`) | account_models rows | add, remove, replace upstream list | `AccountRouting` |
| Exchange (`api/proxy.go`, `api/sse.go`, `provider/openai/forwarder.go`, `bridge.go`) | one request | bridge, forward, adapt, reply, record | `GatewayExchange` |
| WebSocket relay (`api/websocket_proxy.go`, `provider/openai/codex_ws.go`) | two connections, two goroutines, a channel, a context | relayWebSockets | `GatewayExchange` |
| Payload conversions (`provider/openai/codex_request.go`, `chat_adapter.go`, `sse_collector.go`) | per-stream collectors | normalise a request, convert an answer event by event, collect | `CodexRequest`, `ResponsesEvents`, `ChatAdapter`, `UpstreamAnswers` |
| Playground (`core/playground_service.go`, `provider/openai/playground.go`, `api/playgroundapi`) | one run | Validate, Run, the code of the answer | `Playground`, `UpstreamAnswers` |
| Request recorder, shutdown (`core/request_recorder.go`, `app/app.go`, `entrypoint/run.go`) | bounded queue, closed flag | Record, worker, Close, Stop, signals | `RequestRecords` |
| Request records store, reports, retention (`store/records.go`, `core/request_service.go`, `dashboard_service.go`, `cleanup.go`, `api/adminapi/request_logs.go`) | request_records rows | Insert, paging, filters, dashboard, usage summary, DeleteBefore | `RequestReports`, `RequestRecords` |
| Setup wizard and gate (`setup/`, `api/setup/`, `app/adapters.go`) | config.json, database, gate latch, installed mux | Commit, probe, promote, brownfield start | `SetupRequests`, `RouterSetup` |
| Configuration file and publishers (`config/writer.go`, `live.go`, `loader.go`, `api/adminapi/updater.go`, `settings.go`) | config.json, temporary files, two published pointers | WriteAtomic, SweepStale, Load, Update | `ConfigFile`, `SetupRequests`, `RouterSetup`; promise: `DurableSettings` |
| Application wiring, migrator, proxy dialler (`app/app.go`, `entrypoint/`, `store/migrator.go`, `proxydial/`) | handler, schema version, proxy slot | Run, BuildApp, promoteToSteadyState, Up, Force | `RouterSetup` |
| Middleware, plugins, generated API, web console | none of their own | | not modelled (section 8) |

How they interact:

- A request passes routing, then the token refresher (for OAuth accounts), then
  the exchange with its conversions, then the recorder.  They share the
  account's row, with no transaction across the steps: everything a request has
  read may be stale when it is used.
- The token refresher, the usage refresher and the operator write the same row;
  the only protection is the condition in the UPDATE (`last_refresh`, or the
  columns an editor read), and some statements have none.
- The coordinator's rails, timers, cancels and polls meet in one `Flow`: one
  atomic flag decides the winner, a mutex orders what is published.  The HTTP
  handlers read the coordinator and call it in separate steps.
- Wizard commits, brownfield start-up and settings edits write config.json under
  one lock; requests read the gate's latch and the installed handler without it.
- The reaper, the poller, the singleflight, the refreshers, the recorder's worker
  and the relay's copiers are goroutines or callbacks of their own.

What is hard here, and therefore what the properties are about: who ends a flow
and what is published when; an optimistic lock whose version is a time stamp;
check-then-write without a transaction; a filter computed from several queries;
consistent hashing under a changing set; a sequence of file and database writes
cut by a crash; a queue closed while handlers still write; a stream that may end
after any event; an error path that changes the shape of an answer; clocks that
differ; goroutines that wait for each other.

What makes each component correct:

- *Onboarding*: at most one account per login; a published outcome is true,
  final and findable; the slot is held until then and freed in the end; a
  waiting cancel is answered; a losing rail learns why; what HTTP clients are
  told is true; the provider is polled no faster than it asked.
- *Refresh*: stored tokens never go back; what is handed out was persisted; an
  account is disabled only for tokens that were rejected; every caller is answered.
- *Rows*: the stored row is valid whatever edits cross; "saved" means stored; a
  document exported and imported is the same account (tokens, identity, last
  refresh); quota shown is one answer of the provider about that account; rolling windows and only those are probed.
- *Routing*: the account picked could serve the model; no account that could is
  missed; a session moves only when it must.
- *Exchange and conversions*: a record says what happened; a relay leaves nothing
  behind; requests keep their content; answers arrive whole and once; a cut
  answer is never a success; the playground's code and record agree.
- *Records*: each record is in one place; a loss has a cause; pages skip nothing;
  reports count each row once; the process ends when told to.
- *Setup and configuration*: the stored configuration behaves like one durable
  value; setup happens once; nobody reaches a handler that is not ready; a router
  that was set up comes back after crashes.

## 2. How the project is organised, and what is left of the plan

Composition: `AccountLifecycle` is extended by `TokenRefresh` and
`AccountDetails`; `SessionRouter` and `GatewayRoutes` by `AccountRouting`, and
`GatewayRoutes` by `GatewayExchange`, which starts where `AccountRouting` ends.
`ConfigFile` and `SetupRequests` are extended by `RouterSetup`, `RequestReports`
by `RequestRecords`, `ResponsesEvents` by `ChatAdapter`, that by `Playground`, and
`Playground` with `CodexRequest` by `UpstreamAnswers`; `ProviderAnswers` by
`AccountLogin` and by `AuthJSON`, and `AuthJSON` by `AccountRows`.
`DurableSettings` and `FlowRegister` are the abstract specifications that `RouterSetup`
and `OAuthFlow` implement (checked by TLC on the instance, proved for every one).
`MC*` modules hold the instances, `*Proofs` modules the proofs.

Left of the plan, in this order:

1. `AccountRows` with a usage pass longer than its interval.
2. Token counting for the record (`usage.go`) and the transcription forms.

## 3. Modules and the code

**OAuthFlow.**  Actors are HTTP handlers (`Callers`), and a reaper and a poller
per flow; `pc` says between which two atomic steps of the code an actor is.  A
step is what happens between two accesses to shared state (`flowPtr`,
`Consumed`, `closed`, `released`, a critical section of `Flow.mu`).
`ConsumeCode` keeps `Flow.mu` while it publishes a success and releases the flow,
so `mu` is state; every other critical section is one step.  Provider answers,
claim checks and the INSERT succeed or fail freely.  PKCE, URLs, the state token
and the texts of errors are left out; a callback for a browser flow is taken to
carry the right state once the start has announced it (`Announced`, `Reaches`).
`rows`, `reports` and `newest` are history.  `FlowRegister` is what all of it promises:
one slot in which a flow is started, gets a row or none, comes to the outcome that fits,
and leaves; only Shutdown takes the slot from a flow that has none.

**ProviderAnswers, AccountLogin.**  `ProviderAnswers` is what `exchange.go` makes
of every answer of the three provider endpoints: not arrived, cut, not JSON,
refused, incomplete, complete; and the interval after each poll.  `AccountLogin`
puts it between the provider and the HTTP handlers.  A handler is several steps
(snapshot, call, second look after a refusal); a coordinator call is one, or two
where the provider is asked in it, because `OAuthFlow` has the interleavings
inside.  Time is in units of five seconds and jumps to the next deadline.  The
answers other than success and the ones a property names are one value each.

**AccountLifecycle, TokenRefresh.**  An operator's call is two steps, the read
with its check and the unconditional UPDATE.  Tokens are generations: the
provider answers generation g with g + 1 and then rejects g; its answer may be
lost after it rotated.  Time is whole seconds, as SQLite stores `last_refresh`.
A caller reads the row (`pick`), decides whether it is stale, and joins or leads
a flight; the leader's steps are the provider call, each UPDATE, the re-read that
tells a conflict from a missing row, and the single retry.

**AccountDetails.**  UpdateDetails of an api_key row: read, merge, Validate, one
UPDATE conditional on the columns read when base_url or capabilities are patched,
and the re-read when it affected no row.  Columns validated by themselves (name,
api_key) are one column.

**AuthJSON, AccountRows.**  `AuthJSON` is the document, the checks of the envelope
and of the document in their order, what a row takes from it and the document a
row gives.  `AccountRows` runs creation, import, export (with its second lookup),
status changes and the list against the usage refresher: a pass over a list that
was read at its start, the token refresh in it, one question to the provider, the
judgement of its windows, the probe and the snapshot.  The provider (`anchor`,
`used`) is external and has its own clock; an unanchored window's reset moves with
the time of asking, and the percentages it reports are any numbers (`Spent`,
`Unspent`), which the list brings into 0 to 100 (`usedPercent`).  `told` is history:
what the provider said last of an account, written when it is said (`given`), and
what of it was stored.

**GatewayRoutes.**  Tables and pure rules: endpoint to operation, credentials a
route admits, the capability that governs an operation, the bridges registered,
streaming.

**SessionRouter.**  The ring as the pair of functions `Hash` (virtual nodes) and
`KeyHash`; Route is the owner of the first node at or after the key, cyclically.

**AccountRouting.**  A request slot goes through classification, rewrite, the
queries of `buildModelEligibleSet` (accounts listing the model, accounts with any
list, all accounts), ListActive and the pick, each query a step; operators and
refreshers edit `status` and `models` between any two.  `watch` records what was
true of each account since the request arrived, `home` the last pick of a session.

**GatewayExchange.**  One request on any account: bridge, upstream answer (code,
content type, whole, cut or malformed body), adapter, reply, record; the client
may leave at any time.  A Chat stream is converted while it is read, so response.failed
or an event that does not parse makes it a cut one for its reader.  A WebSocket route becomes the relay: two copiers, the
buffered results channel, cancel, closing of both connections.  Exchanges share
no state, so one is enough.  Contents are reduced to whether the adapter accepts
them; `UpstreamAnswers` has the contents.

**CodexRequest, ResponsesEvents, ChatAdapter, Playground, UpstreamAnswers.**
`CodexRequest` is the two request normalisers and the chat request adapter over
JSON values (tagged: string, number, boolean, null, array, object), each rewriting
step an operator, in the code's order.  `ResponsesEvents` is the event stream and
its collector, `ChatAdapter` the conversion of a stream or a body into a chat
stream or a chat completion, with the tool-call indexer.  A text is the sequence of its
pieces, so that what is dropped, repeated or reordered shows.  `Playground` is
validation, the reading of the answer, the record and the code of the envelope.
`UpstreamAnswers` runs a request through them event by event, with a provider that
may be cut after any event, a client that may leave, the wait limit, and a transport
that refuses or gives up by limits of its own (connect, TLS handshake, headers).

**RequestReports, RequestRecords.**  `RequestReports` is what the admin pages
compute from rows: filters, pages, options, dashboard buckets, percentiles, usage
summary.  `RequestRecords` is the recorder's queue with its lock, the synchronous
fallback, the worker, Close against the drain context, App.Stop, both signals, the
store's closing, the retention worker and an admin who pages meanwhile.  Requests
in `Hijacked` are not waited for by `http.Server.Shutdown`.  The retention worker
is modelled as `cleanup.go` writes it, although BuildApp does not start it:
`StartedWorkers` says who runs (see `RecordsNeverExpire.cfg`).

**ConfigFile, SetupRequests, RouterSetup, DurableSettings.**  `ConfigFile` is
config.json and the temporary files, WriteAtomic by system call, SweepStale, Load
with the environment overlay.  `SetupRequests` is every check on a wizard's body
and a settings patch, in order, with its error.  `RouterSetup` is the process:
start-up (fresh, configured or brownfield), commits and edits under the
Serialiser, each database and file step failing or crashing (the SELECT and the
INSERT of CreateIdempotentByName are two steps, and a COMMIT that reports an error
may have taken effect), promotion (swap of
the handler, then the publications), the gates' latches, a client that entered
before a swap, and restarts with new or repeated process numbers.
`DurableSettings` is the promise: a stored value installed once and then edited
from what is served, a served value that is always a stored one, and crashes that
lose the served value only.

## 4. Runs

| Run (cfg) | Instance | Properties and what they show |
|---|---|---|
| `oauth_ends` (OAuthEnds) | 2 flows, 2 handlers, both methods, every call that ends a flow | OutcomeTruthful, LoserToldWhy, SlotHeldUntilTerminal, TerminalIsFinal, FlowsTakeTurns (refinement of `FlowRegister`): one outcome per flow, true and final, while it has the slot, and losers are told why |
| `oauth_live` (OAuthLive) | 1 flow, 2 handlers, both methods, polls, Shutdown, fairness | OutcomeKept: an outcome can be found until a poll reported it; SlotFreed, CancelAnswered |
| `account_login` (AccountLogin) | 2 flows (the first of either method), 2 handlers, 3 calls, two usable device codes and refused ones, waiting, failing, unreadable and final answers, expired_token at any time | EndsForCause, AnswersTruthful, PollsPaced |
| `token_refresh` (TokenRefresh) | 2 callers, 1 operator, Life 2, 3 seconds, 3 generations, fairness | AnswerPersisted, NoRollback, DisabledOnlyIfRejected, Answered |
| `details_edits` (DetailsEdits) | 2 editors, 1 operator, every patch | RowValid, SavedWasStored |
| `account_rows` (AccountRows) | 2 accounts, four import requests (one is taken), a renewed id_token without account id, two passes of the refresher, percentages 120, 0 and -1, provider's clock half a minute behind, answers up to half a minute late | RoundTrip, ProbesRolling, UsageTruthful |
| `export_round_trip` (ExportRoundTrip; violated) | 1 account, ten import requests (two are taken), two kinds of renewed id_token, three passes | ExportImportable fails: see section 7 |
| `account_routing` (AccountRouting) | 3 accounts of different kinds, 2 models, a rename, 1 session, 6 endpoints, 2 edits | RightAccount, NeverMissed, Sticky |
| `gateway_exchange` (GatewayExchange) | every route, account kind and upstream answer; the relay; fairness | RecordTruthful, RelayCleansUp |
| `upstream_answers` (UpstreamAnswers) | 250 requests, some 200 answers, cut after any event | RequestFaithful, CutNeverSucceeds, AnswerFaithful, PlaygroundTruthful |
| `request_records` (RequestRecords) | 2 requests, one hijacked, 2 older rows, queue of 1, batches of 1, 1 failing call, 2 days of clock in half days, fairness | Accounted, LossExplained, WalkComplete, ReportsFaithful, StopEnds |
| `router_setup` (RouterSetup) | 2 wizards, 2 editors, 3 requests, 2 faults, 2 databases, 2 process numbers, every environment, fairness | NoDuplicateAccount, NeverUnrouted, SteadyReady, WizardToldTruth, DurableConfig (refinement of `DurableSettings`), Recovers |

Other configurations, run by hand, show a statement of a document or a natural
expectation that the code does not meet; TLC finds each violated:

| cfg (MC module) | Property | Trace |
|---|---|---|
| OAuthLostCancel (MCOAuthFlow) | EveryOutcomeKept | a flow cancelled right after it became visible is removed from the released map by the start that created it and is never reported |
| TokenResurrected (MCTokenRefresh) | DeletedIsFinal | Enable writes over a Delete that came in between |
| RoutingStranded (MCAccountRouting) | StrandedNever | an account that receives its first model list between the two halves of the filter is in neither and the request gets a 400 |
| RecordsNeverExpire (MCRequestRecords) | RecordsExpire | with the workers BuildApp really starts, rows past their retention stay |
| PlaygroundWaitLimit (MCUpstreamAnswers) | WaitLimitReported | a wait limit that passes after the headers is answered 4900, not 4005 |

Bounds, and why they are enough.

- *OAuth*: two handlers and the two timers of each flow give up to four actors
  racing for one flow; a second flow is needed for the slot to be reused and the
  released map cleaned, a third would repeat it.  In `AccountLogin` three calls
  are two requests that race and one that comes late; `BrowserTTL` 2 and device
  codes that live 3 and 22 units let a flow expire before, between and after
  polls, with a slow_down that reaches the maximum interval.
- *Refresh*: with `Life` 2 and clock 3 a token set expires and is replaced twice,
  so a flight can be a whole generation late; three generations are stored, new
  and lost.
- *Rows*: a conflict needs two editors, and the rule validated takes one URL and
  one capability.  In `AccountRows` accounts share nothing but the pass, so two
  show a mix-up and a turn that comes late; the delays within an account are
  `MaxDelay`, the list's age the steps between its reading and the account's turn.
  The second pass meets what the first stored and anchored, with a primary window
  that is over by then and a secondary one that is not.  120 and -1 are beyond either
  end of a percentage.  The document imported has a last_refresh that lies in the
  future for half of the run.  `ClockAssumption` is what the comment on
  `resetAnchorTolerance` asks of clocks and interval.
- *Routing*: the filter is wrong only by an edit between two queries; two edits
  put one between any two of the pairs, and three accounts let one be picked, one
  be eligible and one be neither.  `CounterMod` 4 makes the counter wrap.
- *Records*: a queue of one is full with one record, so the second request meets
  the fallback; two old rows with batches of one make a pass of retention and a
  walk of the log two steps each, with anything in between.
- *Setup*: two faults are a failure and a crash, or a crash during the recovery
  from a crash; three requests are a commit, its retry or rival, and an edit, or
  two edits; two process numbers repeat or not.
- *Conversions*: the families of requests and answers are chosen so that each
  branch of the conversions is taken.  The events of a call's arguments carry its
  call_id or only an item id, for one call and for two.

Symmetry is used for handlers, flows, editors and keys, which no definition
orders or names, and only with safety properties.  `VIEW` in `AccountLogin` drops
absolute times and the history of flows that are over, and keeps whether the
invariants hold of them; in `AccountRows` it drops the last answer of the admin
API, which no action reads and no property names, the rows that are deleted and the
anchors nobody will ask about, and keeps of what is only shown (the exported document,
the usage of the rows) whether the properties hold of it.

`CHECK_DEADLOCK FALSE` stands where the instance stops by its bounds (the clock
or the generations in `token_refresh`, the requests of `router_setup`) or by its
nature (a served exchange, a router that has shut down, operators who stop editing).

Every property of a passing run has a defective variant of an action or operator
(kept in the module that defines it, next to the original) under which
TLC finds it violated; `PROJECT.json` lists them under "mutants".

## 5. Fairness

- `oauth_live`: weak fairness of a handler that is inside a call, of the step
  that publishes or releases, of the clock reaching ExpiresAt, of due timers and
  of a poll's answer.  Goroutines run; provider calls end with the client's
  timeout; `time.AfterFunc` fires; `Flow.mu` is never held across a provider
  call.  No new call by anyone is assumed, nor that a context ends.
- `token_refresh`: weak fairness of a caller inside RefreshIfStale.  The
  provider call ends, with an answer or an error, and UPDATEs return.  The clock
  and the operator owe nothing.
- `gateway_exchange`: weak fairness of the relay's own reads from its channel
  and of a copier whose context is cancelled or whose connection is closed.  A
  peer need never send or close: only after one copier ends must the other.
- `request_records`: weak fairness of the worker, of a handler inside a
  synchronous insert (bounded by its own timeout), of the drain deadline and of
  the steps of Stop and Run, of the retention worker and the clock.  Requests need
  not finish and no signal need come; StopEnds rests on the deadline.
- `router_setup`: the operating system restarts a router that died, a start-up
  that can proceed does, a wizard that has the lock finishes.  Nobody need send a
  request; faults are bounded by `MaxFaults`, and Recovers speaks of the time
  after the last one.

## 6. Proofs

| Module | Theorems | Assumptions beyond the constants' types |
|---|---|---|
| `OAuthFlowProofs` | Inductive, TypeCorrect, OneRow, Truthful, SlotHeld, OutcomeFinal, LoserToldRight, OutcomeFindable, FlowsAreRegister | none |
| `TokenRefreshProofs` | Inductive, TypeCorrect, Persisted, Forward, Justified | `Life >= 2` |
| `AccountDetailsProofs` | AlwaysValid, SavedIsStored | none |
| `AccountLoginProofs` | AlwaysEndsForCause, AlwaysAnswersTruthful, AlwaysPaced | `ProviderAssumption`; for AlwaysPaced, device codes whose interval is at most `maxDevicePollInterval` |
| `AccountRoutingProofs` | RouteAmongOffered, MinimalReassignment, Inductive, TypeCorrect, FilterSound, PicksRight, MissesNone, SessionsStay, PicksServable; of `GatewayExchange`: RecordsTruly | `NoCollision` (MinimalReassignment, SessionsStay) |
| `AccountRowsProofs` | AlwaysRoundTrip, AlwaysProbesRolling, AlwaysUsageTruthful | `ClockAssumption` (AlwaysProbesRolling) |
| `RequestRecordsProofs` | AlwaysAccounted, AlwaysExplained, AlwaysWalkComplete, AlwaysLogFaithful, AlwaysBuckets, PercentileRank; of `UpstreamAnswers`: RunsToldTruly | `RowsAssumption`, `ShowableAssumption`, `QueriesAssumption` |
| `RouterSetupProofs` | NeverDuplicates, AlwaysRouted, AlwaysReady, AlwaysToldTruth, ConfigIsDurable | `ValuesAssumption` |

The assumptions are evaluated by TLC in every run that extends their module.  Those
on types also keep marks apart from values: `NoFile` is no configuration, `Keep` no
value of a patch, "none" no request (`FileAssumption`, `KeepAssumption`,
`RecordsAssumption`), the actors of a module are disjoint (`ActorsAssumption`,
`CallersAssumption`).  `IdsAssumption` and `RowsAssumption` number rows 1, 2, ... as
the databases do, `ShowableAssumption` says that the handlers write outcomes and modes
the admin pages know, `QueriesAssumption` that a filter is one queryParamsFromRequestsList
parsed, `ValuesAssumption` that the sets of settings hold the defaults
and what validated requests carry.  `ProviderAssumption` is what a provider keeps to:
before the user has decided it answers a poll that came through with "wait", with a
bare 403 or 404 or with expired_token, and its failures do not bear the names
access_denied, which is the user's, or cancelled and flow_expired, under which the
router ends a flow itself (an `error` field with one of these names is taken at its
word by the code).  expired_token at any time, lost, unreadable and late answers are
not excluded.  `ClockAssumption` is what the comment on
`resetAnchorTolerance` asks of the clocks and the interval.

*OAuthFlow.*  `OneRowPerFlow` is not inductive: a second row needs a second
winner, so `WinnerInv` says that at most one actor is between winning Consumed
and publishing (`Winning`), that the flow is pending meanwhile, and that its row
exists only between the INSERT and the publication.  `ControlInv` ties `pc` to
the kind of actor and the error code it carries; `OutcomeInv` says what an
unconsumed flow looks like; `ReleaseInv` that, before Shutdown, only terminal
flows are released.  Their conjunction, with the two properties they are for, is `IInv`.
The proof has one lemma per kind of step: most actions only move an actor between
places that carry no obligation (`QuietStep`), and each of the others has its own.
OutcomeFinal follows from the invariant step by step.
LoserToldRight and OutcomeFindable need `KInv` on top of it: rails meet browser
flows only, and a consumed flow whose loser cannot be told why is in the hands of a
cancel or of the reaper (`LoserInv`); one start is under way at a time, its flow is the
newest, and until its timers are armed only a cancel can have ended it (`StartInv`);
before Shutdown one actor releases a flow, it keeps the slot until its swap and has
stored the flow by then (`ReleaserInv`).
FlowsAreRegister is the refinement: the slot is `flowPtr`, a flow's life its status or the
error it ended with.  TryStartFlow's CAS is a Start, the INSERT a Store, each publication a
Succeed or a Fail of the code its actor carries, the swap of ReleaseFlow and Shutdown's
clearing a Release, and every other step leaves the register alone.  A publication maps to
a step only because of `WinnerInv` (its flow is still pending, and has a row exactly if
the exchange stored one), and before Shutdown because of `SlotHeldUntilTerminal`.

*TokenRefresh.*  The lock compares `last_refresh`, so the proof needs that two
token sets stored at different times have different stamps.  `StampInv` and
`FreshInv` relate a caller's copy, the leader's fresh tokens and the row: a copy
with the row's stamp has the row's generation, and a flight whose copy is current
holds the newest generation.  `Life >= 2` is essential: with `expires_in` 0 or 1
two refreshes can be stored in the same second and their stamps coincide: the
conditional statements then take the newer token set for the one they read, and a
late rejection disables an account whose stored tokens nobody rejected (TLC finds
both Forward and Justified refuted with `Life` 0 and 1).  The provider's tokens
live for days, so the assumption is mild, but the code does not enforce it.

*AccountDetails.*  `EditInv`: an editor about to write has a copy whose merge with
its patch is valid; the condition of the UPDATE makes the copy the row, or the
patch touches neither of the two columns.  SavedIsStored adds `HeldInv`: while an editor is
at work and the row has its whole patch, that has been noted, so the re-read that
answers "saved" is right.

*AccountRouting.*  Each conjunct of `RoutingInv` says what a handler knows at a
place of its program: the accounts in `eligible` listed the model at some time
since it came (`watch`), an account that listed it all along, or had no list all
along, is in it once the queries are done, and `home` agrees with the set
offered.  TypeCorrect includes that the index counter mod n always names an
account of the list, which rests on the lemmas on ranks (`EveryRank`,
`NthMember`).  SessionsStay reduces to MinimalReassignment: on a ring without
collisions the owner among a set is the owner among any larger set that does not
contain a closer node.
PicksServable ties routing to the exchange that follows it: `OpInv` carries the route's
operation and the eligibility of the candidates from place to place, and the tables of
`GatewayRoutes` give a bridge for every operation and credential that pass
(`EveryRouteHasBridge`), so the answer "no bridge" is never given after a pick.

*GatewayExchange, UpstreamAnswers.*  The proofs stand beside those of the components they
join: the exchange beside routing, the playground's record beside the records.  That is why
their specifications are named `ExchangeSpec` and `AnswerSpec`: one module extends
both sides.  RecordTruthful needs
`ExchangeInv`: which of the upstream's answers the handler holds after the adapter, and for
a relay `RelayInv`: the first result in the channel comes from a peer that closed or was
lost, since only the relay's own cleaning up, after that result, interrupts a copier.
RecordTruthful says of success what the code can know: the answer had no error status and
was read to its end without an error, after the conversion too.  Whether the client got it
is not known, since ForwardSSE ignores failed writes and sees a departure only at its next
read.  An upstream error that was answered whole must reach a client that stayed as that
error, with one exception, `Uncollectable` (section 7).
PlaygroundTruthful needs `PlayInv`: before its end a run has no record, was validated, and
has an answer only after it was sent; one lemma (`RunEnds`) then serves every way to end,
because recordRun and playgroundCode read the same ending (`EndLeaves`).  A run counts as
timed out if the wait limit passed or the transport gave up waiting: `isTimeout` does
not tell them apart (section 7).

*AccountLogin.*  `FlowsInv` says of every flow that was started how its record, its rows,
what the provider told and what the user decided fit together (`FlowSound`), and that
flows are started in the order of their numbers; `SlotInv` that the flow in the slot is
the one that is pending and that what was released is over.  Neither is enough for the
answers: `TaskInv` adds what a handler still knows of its flow when it takes its next
step, however the flow moved on: a pasted URL carries the state of its flow, a handler at
the exchange is the only one there, its flow is won by its rail and waits for it, and
one that was told "already consumed" meets a consumed flow.  Two lemmas carry most steps:
a flow only moves forward (`Follows`) and a flow that a rail has won waits for that rail
(`Awaits`).  PollOutcome says which answers can end the polling and as what; a poll that
comes back after a cancel or the reaper finds the flow over for that very reason
(`FlowSound`), so its answer changes nothing but the history.  A provider that calls the
code expired ends the flow as expired_token wherever the clock stands (`lapsed`), unless a
cancel was first.  AlwaysPaced has its own
invariant, `PaceInv`: the timer of a device flow is due an interval after the last
answer, and the interval is at least what the provider asked; its hypothesis is needed,
since slow_down lowers an interval above the maximum (section 7).

*AccountRows.*  RoundTrip rests on `RowsInv` (a row keeps the claims of its
id_token, and its last refresh is past) and `ExportInv` (the document says what the row
said).  ProbesRolling is about time: `AnchorInv` bounds every anchored reset by the
beginning of the pass in which it was anchored, `ClockInv` gives a pass a budget of
`MaxDelay` for each account it has dealt with, and so at its next turn an anchored
window is nearer than the tolerance admits for a rolling one; `AnswerInv` keeps what the
answer said until it is judged.  That the budget of a whole pass stays below the
interval is the second half of `ClockAssumption`; without it a window is probed twice
(section 7).  UsageTruthful needs that what the pass holds is what the provider said of
the account whose turn it is (`PassInv`), although the list was read earlier, that the
row and the last snapshot of that account agree for every row that exists, that rows
without a snapshot show none, and what usedPercent makes of any integer.

*RequestRecords.*  `PlacesInv` says that the record of a request that is done is in
exactly one place (queue, worker's hand, table, deleted, lost) and that of another in
none; it needs that the queue repeats nothing (`QueueInv`), that numbers are given once
(`RowsInv`) and that what the cleaner selected stays old enough while rows arrive
(`CleanerInv`).  LossExplained adds what Stop has waited for (`ShutdownInv`): unless the
drain deadline passed, only hijacked handlers still run when the recorder is closed,
and the queue is empty when the store is.  WalkComplete needs `ReaderInv`: what was shown is
selected and in descending order, and what was there at the first page has been shown
or deleted, or lies below the cursor.  The order of a page is a CHOOSE among sequences;
that one exists, and what a page cut from it shows, is proved with well-founded
minima (`LeastId`, `OrderExists`, `Ordered`, `QueryPageShows`), the only induction
the provers do here.
Of ReportsFaithful two parts are theorems.  AlwaysLogFaithful: both places that build a
filter (the session's and the options' WHERE) select the rows the query names, whatever
query validates, and every row can be shown; it needs that rows carry values the pages know
(`TableInv`).  AlwaysBuckets: for every clock, table, account and range, the buckets
are those of the span and each row of the window is counted in the one of its time; the
argument is the quotient of its age by the width (`Quotient`), with the clamp at the end of
the window (`WindowBucketed`).  PercentileRank is the arithmetic of dashboardP95's position.

*RouterSetup.*  The invariant has a part per concern: the Serialiser (`LockInv`), what
a wizard or editor has established at its place (`RequestInv`), the same for a
start-up (`BootInv`), process, handler and latches (`ProcessInv`), the relation of
file, temporary files and published configuration (`ConfigInv`), and the answers
(`ToldInv`).  NeverUnrouted and SteadyReady rest on the pending gate's latch, which
stays shut, and on the order of the reload, the swap and the publications under the
lock.  ConfigIsDurable is the refinement: the stored value is the file's settings, the
served value the published ones; the rename of a wizard or of a brownfield start is an
Install, that of an editor an Edit of what is served, the reload and the publications a
Serve, the end of the process a Crash, and every other step leaves both alone.  An
Install needs that the file is still missing at the rename, an Edit that what the
editor patched is still what is served (`RequestInv` under the lock).  NeverDuplicates
needs that what LookupAccount saw is still so at the INSERT: only the holder of the
lock is between the two (`LockInv`), and its database still has no row of that name
(`RequestInv`); without the lock TLC finds two wizards inserting it twice.

Only model-checked: all liveness properties and the fairness they need (ENABLED is
outside the prover's reach); RequestFaithful, CutNeverSucceeds and AnswerFaithful of
`UpstreamAnswers`, which are about what folds over the messages of a request and the events
of an answer compute; of ReportsFaithful, that the cards of the buckets add up to the total
and that the value at the percentile's position in the sorted samples is the percentile.
What a fold, a filtered or a sorted sequence is for every input needs induction over
data, which the installed provers do not do.  CRC32 and the contents of the tables are not
proved about.

## 7. Where code and documents disagree

`export_round_trip`: a token refresh stores chatgpt_account_id and email from the
new id_token alone (`coordinator.go:1096`), so an account imported with its id in
`tokens.account_id` loses it at its first refresh, and the file exported afterwards
is refused by the import; `specs/003-multi-mode-codex-auth/quickstart.md:190` says
it "MUST land a functional account".  The configurations of the second table of
section 4 show five more.

Met while modelling, without a configuration of their own:

- *Onboarding.*  A rail that loses to a cancel or the reaper before its status is
  published gets an internal error, not already_consumed (`LoserToldWhy` delimits
  the window); a flow that ends between GetFlow's two critical sections is reported
  twice.  A URL pasted after the operator's cancel is answered with a bare 500
  (`handlers.go:645`), where `contracts/oauth-flow-api.md:109` and
  `docs/error-codes.md:119` say 3004.  A poll answered 5xx or not at all ends the
  flow, where `specs/003-multi-mode-codex-auth/data-model.md:132` says polling goes on
  until ExpiresAt.  slow_down
  with an interval above 60 s shrinks it to 60 s, and a doubled interval stays.
  A 403 or 404 poll whose body is not JSON ends the flow.
- *Tokens.*  The singleflight function does not look at the row again, so the slower of
  two requests that picked an account together can start a second refresh with a token
  that was just replaced, where `specs/003-multi-mode-codex-auth/spec.md:155` says
  "Single-flight locking MUST prevent duplicate refresh for concurrent picks".
- *Rows.*  The same auth.json imported twice gives two rows with one refresh token.
  An exported document has no expiry of the access token: the import takes the
  id_token's exp or five minutes for it (`import_auth_json.go:211`), so the moment
  from which the token is renewed, halfway from the last refresh to the expiry
  (`coordinator.go:1040`), may shift, where `specs/003-multi-mode-codex-auth/tasks.md:966`
  asks for a byte-compatible row (`RoundTrip` compares tokens, identity and last
  refresh).
  A provider's clock lagging more than a minute makes a rolling window look fixed,
  and an interval below the tolerance is not refused; a pass longer than the
  interval probes a window again that was just anchored; an answer without
  rate_limit is probed in every pass.  GET of an account returns deleted rows.
- *Routing and exchange.*  Only the first copier to stop decides a relay's outcome.
  `collectResponsesSSEForJSON` reads any answer that is not JSON as an event stream without
  looking at its status, so a plain-text upstream error on a collected Responses request
  becomes a 502, where `specs/001-codex-router-mvp/plan/tech-design.md:320` says
  "upstream's code".
  `specs/008-account-model-routing/spec.md:89` says that every request is refused
  until some account has models configured, while an account without a list serves
  any model.
- *Conversions.*  The whole-answer conversion refuses a stream with a trailing
  `[DONE]`; output_text.done drops the text of earlier parts (`OneText`); a JSON
  answer never finishes with "length"; argument deltas without any id go to the
  first tool call (`chat_adapter.go:1597`), so those of parallel calls run together
  (`CallsNamed`; `specs/006-openai-api-gateway/contracts/v1-platform-gateway.md:111`
  wants tool calls converted); an answer collected from an error event has no items; a JSON body that mentions "data:" is parsed as SSE; an empty
  `messages` is accepted; messages of the compatibility path lose tool calls,
  refusals and tool answers without an id.
- *Playground.*  A failed provider response on OAuth with `responses` counts as
  code 0; a client that leaves during selection is recorded as router_error.  4005,
  "Provider request exceeded the Playground wait limit", is also the answer when the
  transport's own limits pass first, as the 10 s for a TLS handshake
  (`client.go:71`; `playground.go:138` asks `isTimeout`).
- *Records.*  `specs/001-codex-router-mvp/spec.md:155` wants the final outcome of
  every request in the history; a relay that ends after Close loses its record
  (`LossExplained` allows for it).
- *Setup.*  SweepStale keeps the temporary file that carries its own process number
  (`config/writer.go:294`) and WriteAtomic opens it with O_EXCL, so a restarted
  router that gets its old number (PID 1 in a container) meets the file of the crash
  and cannot write, where `specs/002-setup-wizard-and-admin-portal-skeleton/data-model.md:120` says "PID-suffixed so
  crashed tmps never collide" (`Recovers` makes the exception).  The promotion opens the environment's database, not the one Commit
  migrated (`app.go:406`, the exception in `SteadyReady`); a failed
  reload or promotion is answered 2903 config_write_failed although config.json is
  written: Commit gives it that code with the message config_reload_failed and a hint to
  retry or restart (`commit.go:331`), of which `handler.go:502` sends neither, and a retry
  is told setup_already_done; a settings edit
  writes the environment's database into the file, although FR-008 reserves `db.*`
  for the wizard; the refusal of fields overridden by the environment never fires;
  compensation after a failed wizard can use the account id of an earlier seed.

## 8. Not modelled

- Request middleware (stateless wrappers), plugins (a registry filled at init),
  generated API code, the web console: no state of their own to get wrong.
- UpdateUseProxy, the proxy toggle and probe: one unconditional statement or one
  outbound call each.  ResolveSession, health counts, GetAccount only read.
- Formatting and byte-level work: envelopes' texts, page texts, headers, gzip,
  capture limits, JSON and SSE syntax below the shapes the code tells apart, the
  transcription forms, token counting for the record.
- Migrator Down and Steps (operator commands on a stopped router), SQL dialects,
  HTTP clients, PKCE: external or sequential; their outcomes are nondeterministic
  where they matter.

Running: `tlc -config <cfg> <MC module>` for the pairs of section 4 (`PROJECT.json`
names the module of each run), `tlapm <module>Proofs.tla` for the proofs.
