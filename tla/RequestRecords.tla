--------------------------- MODULE RequestRecords ---------------------------
(***************************************************************************)
(* A request's record on its way from the handler to the request_records   *)
(* table and out of it again: the recorder's bounded queue and its worker  *)
(* (core/request_recorder.go), the shutdown that drains them (app.Stop,    *)
(* entrypoint.Run), the retention worker (core/cleanup.go) and an admin    *)
(* who pages through the request log while all that goes on.               *)
(*                                                                         *)
(* Requests in Hijacked are WebSocket relays: http.Server.Shutdown does    *)
(* not wait for a hijacked connection.                                     *)
(***************************************************************************)
EXTENDS RequestReports

CONSTANTS Requests,       \* requests served in this run of the process
          Attr,           \* what a request's record says, without id and at
          Hijacked,       \* the requests that hijack their connection
          InitRows,       \* rows of an earlier run of the process
          QueueCap,       \* recorderBufferSize
          Batch,          \* the 1000 of DeleteBefore and cleanupBatchSize
          Retention,      \* log_retention_days
          StartedWorkers, \* the background workers BuildApp starts
          Queries,        \* filters the reports are asked about
          Walks,          \* the ones an admin pages through
          Step,           \* minutes between two ticks of the clock
          MaxClock,       \* bound on the clock
          MaxFaults       \* bound on failing database calls

None == "none"

ASSUME RecordsAssumption ==
  /\ Hijacked \subseteq Requests /\ QueueCap \in Nat \ {0} /\ Batch \in Nat \ {0}
  /\ Retention \in Nat /\ Step \in Nat \ {0} /\ MaxClock \in Nat /\ MaxFaults \in Nat
  /\ None \notin Requests

\* The rows of an earlier run are of other requests, and numbered.
ASSUME RowsAssumption ==
  /\ IsFiniteSet(InitRows)
  /\ \A x \in InitRows : /\ x.req \notin Requests /\ x.at \in Int
                         /\ x.id \in 1 .. Cardinality(InitRows)
  /\ \A x, y \in InitRows : x.id = y.id => x = y

\* The handlers note outcomes and modes that the admin pages know.
ASSUME ShowableAssumption ==
  (\A x \in InitRows : Showable(x)) /\ (\A r \in Requests : Showable(Attr[r]))

\* A filter as queryParamsFromRequestsList parses it: a time it leaves out is -1.
ASSUME QueriesAssumption ==
  \A q \in Queries :
    /\ q.start \in Nat \union {-1} /\ q.end \in Nat \union {-1}
    /\ q.accounts \in Seq(Int) /\ q.outcomes \in Seq(STRING)
    /\ q.models \in Seq(STRING) /\ q.modes \in Seq(STRING)

VARIABLES clock, faults,
          phase,     \* of the process
          late,      \* drainCtx has expired
          forced,    \* a second signal ended the process
          pc,        \* where each request's handler is
          fate,      \* what became of the records that did not reach the table
          queue, closed, cur,     \* the recorder: r.ch, r.closed, the worker's record
          rows, nextId, storeOpen,
          expired,   \* <<row, when>> for each row the retention worker deleted
          cleaner,   \* [pc, cutoff, ids]
          reader     \* [pc, q, before, seen, start]

vars == <<clock, faults, phase, late, forced, pc, fate, queue, closed, cur, rows, nextId,
          storeOpen, expired, cleaner, reader>>

recorderVars == <<queue, closed, cur>>
dbVars == <<rows, nextId, expired>>
procVars == <<phase, late, forced, storeOpen>>

NoQuery == [before |-> 0, limit |-> 0, start |-> -1, end |-> -1, accounts |-> <<>>,
            outcomes |-> <<>>, models |-> <<>>, modes |-> <<>>, search |-> Empty]
Running == phase # "exited"

Init ==
  /\ clock = 0 /\ faults = 0 /\ phase = "up" /\ late = FALSE /\ forced = FALSE
  /\ pc = [r \in Requests |-> "idle"] /\ fate = [r \in Requests |-> None]
  /\ queue = <<>> /\ closed = FALSE /\ cur = None
  /\ rows = InitRows /\ nextId = Cardinality(InitRows) + 1 /\ storeOpen = TRUE
  /\ expired = {}
  /\ cleaner = [pc |-> IF "cleanup" \in StartedWorkers THEN "wait" ELSE "off",
                cutoff |-> 0, ids |-> {}]
  /\ reader = [pc |-> "idle", q |-> NoQuery, before |-> 0, seen |-> <<>>, start |-> {}]

-----------------------------------------------------------------------------
(* Handlers *)

Arrive(r) ==
  /\ phase = "up" /\ pc[r] = "idle"
  /\ pc' = [pc EXCEPT ![r] = "serving"]
  /\ UNCHANGED <<clock, faults, fate, expired, cleaner, reader, rows, nextId>>
  /\ UNCHANGED <<procVars, recorderVars>>

\* RequestRecordRepo.Insert of what the handler noted.
NewRow(r) ==
  LET a == Attr[r]
  IN  [id |-> nextId, at |-> clock, req |-> r, account |-> a.account, outcome |-> a.outcome,
       model |-> a.model, mode |-> a.mode, usage |-> a.usage, ttft |-> a.ttft,
       latency |-> a.latency, words |-> a.words]

\* One database insert of r's record: it is stored, it fails, or the store is closed.
InsertBounded(r) ==
  \/ /\ storeOpen
     /\ rows' = rows \union {NewRow(r)}
     /\ nextId' = nextId + 1
     /\ UNCHANGED <<fate, faults>>
  \/ /\ storeOpen /\ faults < MaxFaults
     /\ faults' = faults + 1 /\ fate' = [fate EXCEPT ![r] = "db"]
     /\ UNCHANGED <<rows, nextId>>
  \/ /\ ~storeOpen
     /\ fate' = [fate EXCEPT ![r] = "store"]
     /\ UNCHANGED <<faults, rows, nextId>>

RecordFallsThrough(r) ==
  /\ Running /\ pc[r] = "serving"
  /\ IF closed
     THEN /\ fate' = [fate EXCEPT ![r] = "closed"]
          /\ pc' = [pc EXCEPT ![r] = "done"] /\ UNCHANGED queue
     ELSE /\ queue' = IF Len(queue) < QueueCap THEN Append(queue, r) ELSE queue
          /\ pc' = [pc EXCEPT ![r] = "sync"] /\ UNCHANGED fate
  /\ UNCHANGED <<clock, faults, closed, cur, cleaner, reader, dbVars, procVars>>

\* The answer is complete.  Record: under the read lock, drop, enqueue, or find the queue full.
Record(r) ==
  /\ Running /\ pc[r] = "serving"
  /\ \/ /\ closed
        /\ fate' = [fate EXCEPT ![r] = "closed"]
        /\ pc' = [pc EXCEPT ![r] = "done"] /\ UNCHANGED queue
     \/ /\ ~closed /\ Len(queue) < QueueCap
        /\ queue' = Append(queue, r)
        /\ pc' = [pc EXCEPT ![r] = "done"] /\ UNCHANGED fate
     \/ /\ ~closed /\ Len(queue) = QueueCap
        /\ pc' = [pc EXCEPT ![r] = "sync"] /\ UNCHANGED <<queue, fate>>
  /\ UNCHANGED <<clock, faults, closed, cur, cleaner, reader, dbVars, procVars>>

\* The rest of Record when the queue was full: an insert outside the lock.
SyncInsert(r) ==
  /\ Running /\ pc[r] = "sync"
  /\ InsertBounded(r)
  /\ pc' = [pc EXCEPT ![r] = "done"]
  /\ UNCHANGED <<clock, expired, cleaner, reader, procVars, recorderVars>>

-----------------------------------------------------------------------------
(* The recorder's worker *)

WorkerTake ==
  /\ Running /\ cur = None /\ queue # <<>>
  /\ cur' = Head(queue) /\ queue' = Tail(queue)
  /\ UNCHANGED <<clock, faults, pc, fate, closed, cleaner, reader, dbVars, procVars>>

WorkerInsert ==
  /\ Running /\ cur # None
  /\ InsertBounded(cur)
  /\ cur' = None
  /\ UNCHANGED <<clock, pc, queue, closed, expired, cleaner, reader, procVars>>

\* The channel is closed and drained: the worker has returned.
WorkerDone == closed /\ queue = <<>> /\ cur = None

-----------------------------------------------------------------------------
(* Shutdown *)

\* A signal cancels the application's context: the listener is closed.
Signal ==
  /\ phase = "up" /\ phase' = "draining"
  /\ UNCHANGED <<clock, faults, late, forced, storeOpen, pc, fate, cleaner, reader>>
  /\ UNCHANGED <<dbVars, recorderVars>>

Deadline ==
  /\ phase \in {"draining", "closing"} /\ ~late
  /\ late' = TRUE
  /\ UNCHANGED <<clock, faults, phase, forced, storeOpen, pc, fate, cleaner, reader>>
  /\ UNCHANGED <<dbVars, recorderVars>>

ShutdownDoneNoDeadline ==
  /\ phase = "draining"
  /\ \A r \in Requests \ Hijacked : pc[r] \in {"idle", "done"}
  /\ phase' = "closing" /\ closed' = TRUE
  /\ UNCHANGED <<clock, faults, late, forced, storeOpen, pc, fate, queue, cur, cleaner>>
  /\ UNCHANGED <<reader, dbVars>>

\* srv.Shutdown returns when no plain connection is active, or when its context
\* expires; Stop then closes the recorder's channel.
ShutdownDone ==
  /\ phase = "draining"
  /\ late \/ \A r \in Requests \ Hijacked : pc[r] \in {"idle", "done"}
  /\ phase' = "closing" /\ closed' = TRUE
  /\ UNCHANGED <<clock, faults, late, forced, storeOpen, pc, fate, queue, cur, cleaner>>
  /\ UNCHANGED <<reader, dbVars>>

StopStoreEarly ==
  /\ phase = "closing"
  /\ storeOpen' = FALSE /\ phase' = "stopped"
  /\ UNCHANGED <<clock, faults, late, forced, pc, fate, cleaner, reader, dbVars, recorderVars>>

\* Close waits for the worker or the context; Stop then closes the store.
StopStore ==
  /\ phase = "closing"
  /\ WorkerDone \/ late
  /\ storeOpen' = FALSE /\ phase' = "stopped"
  /\ UNCHANGED <<clock, faults, late, forced, pc, fate, cleaner, reader, dbVars, recorderVars>>

\* The process ends: what is still in memory is lost.
Exit(isForced) ==
  /\ phase' = "exited" /\ forced' = isForced
  /\ fate' = [r \in Requests |->
       IF pc[r] \in {"serving", "sync"} \/ r = cur \/ r \in ToSet(queue)
       THEN "exit" ELSE fate[r]]
  /\ pc' = [r \in Requests |-> IF pc[r] = "idle" THEN "idle" ELSE "done"]
  /\ queue' = <<>> /\ cur' = None
  /\ UNCHANGED <<clock, faults, late, storeOpen, closed, cleaner, reader, dbVars>>

Return == phase = "stopped" /\ Exit(FALSE)
SecondSignal == phase \in {"draining", "closing", "stopped"} /\ Exit(TRUE)

-----------------------------------------------------------------------------
(* Retention.  A cleanup computes its cutoff once and deletes in batches.   *)

\* The selection of one DeleteBefore; Batch rows or fewer, the oldest ids first.
Oldest(cutoff) ==
  LET old == {r.id : r \in {x \in rows : x.at < cutoff}}
  IN  {i \in old : Cardinality({j \in old : j < i}) < Batch}

CleanupWake ==
  /\ Running /\ storeOpen /\ cleaner.pc = "wait"
  /\ cleaner' = [cleaner EXCEPT !.pc = "select", !.cutoff = clock - Retention]
  /\ UNCHANGED <<clock, faults, pc, fate, reader, dbVars, procVars, recorderVars>>

CleanupSelect ==
  /\ Running /\ cleaner.pc = "select"
  /\ cleaner' = IF ~storeOpen \/ Oldest(cleaner.cutoff) = {}
                THEN [cleaner EXCEPT !.pc = "wait", !.ids = {}]
                ELSE [cleaner EXCEPT !.pc = "delete", !.ids = Oldest(cleaner.cutoff)]
  /\ UNCHANGED <<clock, faults, pc, fate, reader, dbVars, procVars, recorderVars>>

CleanupDelete ==
  /\ Running /\ cleaner.pc = "delete"
  /\ \/ /\ storeOpen
        /\ LET gone == {r \in rows : r.id \in cleaner.ids}
           IN  /\ rows' = rows \ gone
               /\ expired' = expired \union {<<r, clock>> : r \in gone}
               /\ cleaner' = [cleaner EXCEPT !.ids = {},
                    !.pc = IF Cardinality(gone) < Batch THEN "wait" ELSE "select"]
        /\ UNCHANGED faults
     \/ /\ ~storeOpen \/ faults < MaxFaults
        /\ faults' = IF storeOpen THEN faults + 1 ELSE faults
        /\ cleaner' = [cleaner EXCEPT !.pc = "wait", !.ids = {}]
        /\ UNCHANGED <<rows, expired>>
  /\ UNCHANGED <<clock, pc, fate, nextId, reader, procVars, recorderVars>>

-----------------------------------------------------------------------------
(* An admin walks the request log, one page a request *)

Turn(q, before, seen, start) ==
  LET page == RequestsList(rows, q, before).page
  IN  reader' = [pc |-> IF page.has_more THEN "walking" ELSE "done", q |-> q,
                 before |-> page.next, seen |-> seen \o page.records, start |-> start]

\* RequestsList with a filter; one that does not validate is answered at once.
Open(q) ==
  /\ phase = "up" /\ reader.pc = "idle"
  /\ IF RequestsList(rows, q, q.before).code = "ok"
     THEN Turn(q, q.before, <<>>, {r \in SessionFilters(rows, q) : q.before > 0 => r.id < q.before})
     ELSE reader' = [reader EXCEPT !.pc = "refused", !.q = q]
  /\ UNCHANGED <<clock, faults, pc, fate, cleaner, dbVars, procVars, recorderVars>>

\* RequestsList again, with next_before_id.
NextPage ==
  /\ phase = "up" /\ reader.pc = "walking"
  /\ Turn(reader.q, reader.before, reader.seen, reader.start)
  /\ UNCHANGED <<clock, faults, pc, fate, cleaner, dbVars, procVars, recorderVars>>

Tick ==
  /\ Running /\ clock < MaxClock /\ clock' = clock + Step
  /\ UNCHANGED <<faults, pc, fate, cleaner, reader, dbVars, procVars, recorderVars>>

Idle == ~Running /\ UNCHANGED vars

Next ==
  \/ \E r \in Requests : Arrive(r) \/ Record(r) \/ SyncInsert(r)
  \/ WorkerTake \/ WorkerInsert
  \/ Signal \/ Deadline \/ ShutdownDone \/ StopStore \/ Return \/ SecondSignal
  \/ CleanupWake \/ CleanupSelect \/ CleanupDelete
  \/ (\E q \in Walks : Open(q)) \/ NextPage
  \/ Tick \/ Idle

\* Goroutines and timers run; each database call ends (its context is bounded).
\* Requests, signals and admins come or do not.
Fairness ==
  /\ \A r \in Requests : WF_vars(SyncInsert(r))
  /\ WF_vars(WorkerTake \/ WorkerInsert) /\ WF_vars(Deadline)
  /\ WF_vars(ShutdownDone) /\ WF_vars(StopStore) /\ WF_vars(Return)
  /\ WF_vars(CleanupWake) /\ WF_vars(CleanupSelect) /\ WF_vars(CleanupDelete)
  /\ WF_vars(Tick)

Spec == Init /\ [][Next]_vars /\ Fairness

-----------------------------------------------------------------------------
(* Properties *)

Places(r) ==
  (IF r \in ToSet(queue) THEN 1 ELSE 0) + (IF cur = r THEN 1 ELSE 0)
    + Cardinality({x \in rows : x.req = r}) + Cardinality({e \in expired : e[1].req = r})
    + (IF fate[r] # None THEN 1 ELSE 0)

\* A finished request's record is in exactly one place, the queue, the worker's
\* hand, the table, the deleted rows or the log of losses, and an unfinished
\* one's is nowhere; the queue keeps its bound, and retention has deleted only
\* rows older than the retention period.
Accounted ==
  /\ Len(queue) <= QueueCap
  /\ \A r \in Requests : Places(r) = IF pc[r] = "done" THEN 1 ELSE 0
  /\ \A e \in expired : e[2] - e[1].at > Retention
  /\ \A x, y \in rows : x.id = y.id => x = y

\* A record is lost other than by a failing insert only when the drain ran out of
\* time, a second signal ended the process, or its request was a WebSocket relay.
LossExplained ==
  \A r \in Requests :
    fate[r] \in {"closed", "store", "exit"} => late \/ forced \/ r \in Hijacked

\* Paging shows rows in strictly descending order, only rows that match, and by the
\* last page every row that was there at the first one and was not deleted.
WalkComplete ==
  reader.pc \in {"walking", "done"} =>
    LET seen == reader.seen IN
      /\ \A i, j \in DOMAIN seen : i < j => seen[i].id > seen[j].id
      /\ SessionFilters(ToSet(seen), reader.q) = ToSet(seen)
      /\ reader.pc = "done" =>
           reader.start \ {e[1] : e \in expired} \subseteq ToSet(seen)

\* What a filter that validates must mean: a named list or bound restricts its
\* own column and nothing else; a list that names nothing does not restrict.
Means(q, r) ==
  /\ (q.start = -1 \/ q.start <= r.at) /\ (q.end = -1 \/ r.at <= q.end)
  /\ q.accounts # <<>> => \E i \in DOMAIN q.accounts : q.accounts[i] = r.account
  /\ q.outcomes # <<>> => \E i \in DOMAIN q.outcomes : q.outcomes[i] = r.outcome
  /\ q.models # <<>> => \E i \in DOMAIN q.models : q.models[i] = r.model
  /\ q.modes # <<>> => \E i \in DOMAIN q.modes : q.modes[i] = r.mode
  /\ q.search # Empty => q.search \in r.words

Additive(card) == <<card.requests, card.errors, card.cached, card.fresh, card.output, card.samples>>

\* The rows of an account in the dashboard's window, which ends now.
InWindow(range, account) ==
  {r \in rows : /\ clock - Span(range) <= r.at /\ r.at <= clock
                /\ account = 0 \/ r.account = account}

\* The window has as many buckets as its span has widths, each row in it is counted
\* in one of them, the one of its time, and the last bucket includes the window's end.
BucketsFaithful(range, account) ==
  LET start == clock - Span(range)
      width == Width(range)
      d == Dashboard(rows, account, range, clock)
      last == Span(range) \div width - 1
      within(i, r) == /\ start + i * width <= r.at
                      /\ r.at < start + (i + 1) * width \/ i = last
  IN  /\ d.total = Card(InWindow(range, account)) /\ DOMAIN d.series = 0 .. last
      /\ \A i \in 0 .. last :
           d.series[i] = Card({r \in InWindow(range, account) : within(i, r)})
      /\ \A r \in InWindow(range, account) : \E i \in 0 .. last :
           within(i, r) /\ \A j \in 0 .. last : within(j, r) => j = i

\* The totals are the sums of the buckets, the percentile is one, and the usage
\* summary agrees.
SumsFaithful(range, account) ==
  LET d == Dashboard(rows, account, range, clock)
      samples == {r \in InWindow(range, account) : r.ttft >= 0}
      below(t) == Cardinality({r \in samples : r.ttft <= t})
  IN  /\ \A k \in 1 .. 6 : Additive(d.total)[k] =
           MapThenSumSet(LAMBDA i : Additive(d.series[i])[k], DOMAIN d.series)
      /\ samples # {} => /\ 100 * below(d.total.p95) >= 95 * Cardinality(samples)
                         /\ 100 * below(d.total.p95 - 1) < 95 * Cardinality(samples)
      /\ \A m \in DOMAIN d.speeds : d.speeds[m].time > 0 /\ d.speeds[m].output > 0
      /\ account = 0 /\ InWindow(range, account) = rows =>
           UsageSummary(rows) = [requests |-> d.total.requests, cached |-> d.total.cached,
             tokens |-> d.total.cached + d.total.fresh + d.total.output]

\* A filter that validates selects the rows it names, the options offered are those
\* rows' values, though Query and FilterOptions each build the filter anew, and
\* every row can be shown, alone too.
LogFaithful ==
  /\ \A q \in Queries : InvalidFilter(q) = "ok" =>
       LET found == {r \in rows : Means(q, r)} IN
         /\ SessionFilters(rows, q) = found
         /\ FilterOptions(rows, q) =
              [accounts |-> {r.account : r \in found} \ {0},
               outcomes |-> {r.outcome : r \in found},
               models |-> {r.model : r \in found} \ {Empty}, modes |-> {r.mode : r \in found}]
  /\ \A r \in rows : RequestsGet(rows, r.id) = [code |-> "ok", record |-> {r}]

\* The reports tell of the table as it is: a filter that validates selects the rows
\* it names and the options offered are those rows' values, every row can be shown,
\* and every window of the dashboard counts each row once, in its bucket.
ReportsFaithful ==
  phase = "up" /\ reader.pc = "idle" =>
  /\ LogFaithful
  /\ \A account \in {0, 1}, range \in Ranges \union {Empty} :
       DashboardRefusal(range, account, {1}) = "ok" =>
         /\ BucketsFaithful(EffectiveRange(range), account)
         /\ SumsFaithful(EffectiveRange(range), account)

\* Once a signal has arrived the process ends, whatever the database, the worker
\* and the open connections do.
StopEnds == phase = "draining" ~> phase = "exited"

\* "Expired records are removed according to the 30-day retention policy": while
\* the process runs, a row past its retention does not stay.
RecordsExpire ==
  \A x \in InitRows : (x \in rows /\ clock > x.at + Retention)
                         ~> (x \notin rows \/ ~storeOpen \/ ~Running)
=============================================================================
