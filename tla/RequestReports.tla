--------------------------- MODULE RequestReports ---------------------------
(***************************************************************************)
(* What the admin pages compute from the rows of request_records:          *)
(* filters and pages of the request log (store/records.go,                 *)
(* core/request_service.go, adminapi/request_logs.go), the dashboard       *)
(* (core/dashboard_service.go) and the usage summary.                      *)
(*                                                                         *)
(* A row is a record with fields id, at, account (0: none), outcome,       *)
(* model (Empty: none), mode, usage (a function on the keys of the         *)
(* token_usage object), ttft (-1: none), latency and words, what a search  *)
(* can find.                                                               *)
(* Times are whole minutes.                                                *)
(***************************************************************************)
EXTENDS Integers, Sequences, FiniteSets, FiniteSetsExt, SequencesExt

Empty == "empty"  \* the empty string, and one of spaces only
Blank == "blank"
Outcomes == {"success", "upstream_error", "no_available_account", "router_error",
             "account_unavailable", "upstream_timeout", "cancelled",
             "no_extractable_text"}
ResponseModes == {"json", "sse", "websocket"}
MaxFilterItems == 50
MaxPage == 200
DefaultPage == 50

-----------------------------------------------------------------------------
(* Filters.  A query q has before (0: none), limit (0: default), start and  *)
(* end (-1: none), accounts, outcomes, models and modes (sequences) and     *)
(* search (Empty: none).                                                    *)

\* validateRequestLogQuery and the limit check of queryParamsFromRequestsList:
\* the field it complains about.
InvalidFilter(q) ==
  LET complaints ==
        << <<q.limit \notin 0 .. MaxPage, "limit">>,
           <<q.start >= 0 /\ q.end >= 0 /\ q.start > q.end, "start">>,
           <<q.before < 0, "before">>,
           <<\E i \in DOMAIN q.accounts : q.accounts[i] <= 0, "account_id">>,
           <<Len(q.accounts) > MaxFilterItems, "account_id">>,
           <<\E i \in DOMAIN q.outcomes : q.outcomes[i] \notin Outcomes, "outcome">>,
           <<Len(q.outcomes) > MaxFilterItems, "outcome">>,
           <<\E i \in DOMAIN q.models : q.models[i] \in {Empty, "long"}, "model">>,
           <<Len(q.models) > MaxFilterItems, "model">>,
           <<\E i \in DOMAIN q.modes : q.modes[i] \notin ResponseModes, "response_mode">>,
           <<Len(q.modes) > MaxFilterItems, "response_mode">>,
           <<q.search \in {Blank, "long"}, "search">> >>
      bad == {i \in DOMAIN complaints : complaints[i][1]}
  IN  IF bad = {} THEN "ok" ELSE complaints[Min(bad)][2]

\* normalizeRequestQueryParams.
PageSize(q) == IF q.limit \in 1 .. MaxPage THEN q.limit ELSE DefaultPage

effectiveAccountIDs(q) == {a \in ToSet(q.accounts) : a > 0}
effectiveStrings(s) == {v \in ToSet(s) : v # Empty}

\* A filter that has no effective value is no filter.
Allows(values, v) == values = {} \/ v \in values

\* applyRequestRecordSessionFilters, which Query uses.
SessionFilters(rows, q) ==
  {r \in rows :
     /\ q.start >= 0 => r.at >= q.start
     /\ q.end >= 0 => r.at <= q.end
     /\ Allows(effectiveAccountIDs(q), r.account)
     /\ Allows(effectiveStrings(q.outcomes), r.outcome)
     /\ Allows(effectiveStrings(q.models), r.model)
     /\ Allows(effectiveStrings(q.modes), r.mode)
     /\ q.search \notin {Empty, Blank} => q.search \in r.words}

\* requestRecordWhereSQL, the same filters a second time, for FilterOptions.
WhereSQL(rows, q) ==
  {r \in rows :
     /\ q.start >= 0 => r.at >= q.start
     /\ q.end >= 0 => r.at <= q.end
     /\ effectiveAccountIDs(q) # {} => r.account \in effectiveAccountIDs(q)
     /\ effectiveStrings(q.outcomes) # {} => r.outcome \in effectiveStrings(q.outcomes)
     /\ effectiveStrings(q.models) # {} => r.model \in effectiveStrings(q.models)
     /\ effectiveStrings(q.modes) # {} => r.mode \in effectiveStrings(q.modes)
     /\ q.search \notin {Empty, Blank} => q.search \in r.words}

FilterOptions(rows, q) ==
  LET s == WhereSQL(rows, q)
  IN  [accounts |-> {r.account : r \in s} \ {0}, outcomes |-> {r.outcome : r \in s},
       models |-> {r.model : r \in s} \ {Empty}, modes |-> {r.mode : r \in s}]

\* ORDER BY id DESC.
NewestFirst(s) ==
  LET n == Cardinality(s)
  IN  CHOOSE f \in [1 .. n -> s] : \A i, j \in 1 .. n : i < j => f[i].id > f[j].id

\* Query: newest first, at most n rows.
Query(rows, q, before, n) ==
  LET s == {r \in SessionFilters(rows, q) : before > 0 => r.id < before}
  IN  SubSeq(NewestFirst(s), 1, Min({n, Cardinality(s)}))

QueryPageNextID(rows, q, before) ==
  LET limit == PageSize(q)
      found == Query(rows, q, before, limit + 1)
  IN  IF Len(found) <= limit
      THEN [records |-> found, has_more |-> FALSE, next |-> 0]
      ELSE [records |-> SubSeq(found, 1, limit), has_more |-> TRUE,
            next |-> found[limit + 1].id]

\* QueryPage: one row more is fetched to know whether there is another page; the
\* cursor is the last row shown.
QueryPage(rows, q, before) ==
  LET limit == PageSize(q)
      found == Query(rows, q, before, limit + 1)
  IN  IF Len(found) <= limit
      THEN [records |-> found, has_more |-> FALSE, next |-> 0]
      ELSE [records |-> SubSeq(found, 1, limit), has_more |-> TRUE,
            next |-> found[limit].id]

\* requestLogRowFromDomain: a row it cannot show fails the whole page.
Showable(r) == r.outcome \in Outcomes /\ r.mode \in ResponseModes

\* RequestsList.
RequestsList(rows, q, before) ==
  LET page == QueryPage(rows, q, before)
      code == CASE InvalidFilter(q) # "ok" -> "invalid_filter"
                [] \E i \in DOMAIN page.records : ~Showable(page.records[i]) -> "system_error"
                [] OTHER -> "ok"
  IN  [code |-> code, page |-> IF code = "ok" THEN page ELSE [page EXCEPT !.records = <<>>]]

\* RequestsGet, of one row by its id.
RequestsGet(rows, id) ==
  LET found == {r \in rows : r.id = id}
  IN  [code |-> CASE id <= 0 -> "invalid_filter"
                  [] found = {} -> "not_found"
                  [] \E r \in found : ~Showable(r) -> "system_error"
                  [] OTHER -> "ok",
       record |-> found]

-----------------------------------------------------------------------------
(* Token usage *)

\* dashboardUsageInt: the first of the keys with a value that is not negative.
UsageInt(usage, keys) ==
  LET good == {i \in DOMAIN keys : keys[i] \in DOMAIN usage /\ usage[keys[i]] >= 0}
  IN  IF good = {} THEN 0 ELSE usage[keys[Min(good)]]

\* dashboardTokens; "details" stands for input_tokens_details.cached_tokens.
Tokens(usage) ==
  LET input == UsageInt(usage, <<"input", "input_tokens">>)
      plain == UsageInt(usage, <<"cached_input", "cached_tokens">>)
      cached == IF plain # 0 THEN plain ELSE UsageInt(usage, <<"details">>)
  IN  [cached |-> cached, fresh |-> Max({input - cached, 0}),
       output |-> UsageInt(usage, <<"output", "output_tokens">>)]

\* UsageSummary.
UsageSummary(rows) ==
  [requests |-> Cardinality(rows),
   tokens |-> MapThenSumSet(LAMBDA r : LET t == Tokens(r.usage)
                                       IN  t.cached + t.fresh + t.output, rows),
   cached |-> MapThenSumSet(LAMBDA r : Tokens(r.usage).cached, rows)]

-----------------------------------------------------------------------------
(* Dashboard over the window [start, end] in buckets of the given width *)

\* DashboardWindow: how far back each range reaches, and its buckets.
Ranges == {"1h", "1d", "7d", "30d"}
Span(range) == CASE range = "1h" -> 60 [] range = "1d" -> 24 * 60
                 [] range = "7d" -> 7 * 24 * 60 [] range = "30d" -> 30 * 24 * 60
Width(range) == CASE range = "1h" -> 1 [] range = "1d" -> 60
                  [] range = "7d" -> 6 * 60 [] range = "30d" -> 24 * 60

\* NormalizeDashboardQuery and the service's look for the account.
DashboardRefusal(range, account, known) ==
  CASE range \notin Ranges \union {Empty} -> "range"
    [] account < 0 \/ (account > 0 /\ account \notin known) -> "account_id"
    [] OTHER -> "ok"
EffectiveRange(range) == IF range = Empty THEN "7d" ELSE range

DashboardBucketCount(start, end, width) ==
  IF width <= 0 \/ end <= start THEN 1
  ELSE LET whole == (end - start) \div width
       IN  Max({1, IF start + whole * width < end THEN whole + 1 ELSE whole})

\* The bucket of a time, or -1.  The end of the window belongs to the last one.
BucketIndexUnclamped(at, start, end, width, count) ==
  IF at < start \/ at > end \/ width <= 0 \/ count <= 0 THEN -1
  ELSE (at - start) \div width

BucketIndex(at, start, end, width, count) ==
  IF at < start \/ at > end \/ width <= 0 \/ count <= 0 THEN -1
  ELSE IF at = end THEN count - 1
  ELSE Min({(at - start) \div width, count - 1})

OutcomeIsError(outcome) == outcome \notin {"success", "no_extractable_text"}

\* dashboardP95: the position, counted from one, in n sorted samples.
P95Index(n) == Min({Max({(95 * n + 99) \div 100, 1}), n})
P95(samples) ==
  IF samples = {} THEN -1
  ELSE SetToSortSeq(samples, LAMBDA a, b : a.ttft < b.ttft \/ (a.ttft = b.ttft /\ a.id < b.id))
         [P95Index(Cardinality(samples))].ttft

\* dashboardGenerationDurationMS; not positive means no sample.
GenerationTime(r) ==
  IF r.mode # "sse" THEN r.latency ELSE IF r.ttft < 0 THEN 0 ELSE r.latency - r.ttft

Timed(rows, model) ==
  {r \in rows : r.model = model /\ Tokens(r.usage).output > 0 /\ GenerationTime(r) > 0}

\* One card over a set of rows, and the series of cards, one a bucket.
Card(rows) ==
  [requests |-> Cardinality(rows),
   errors |-> Cardinality({r \in rows : OutcomeIsError(r.outcome)}),
   cached |-> MapThenSumSet(LAMBDA r : Tokens(r.usage).cached, rows),
   fresh |-> MapThenSumSet(LAMBDA r : Tokens(r.usage).fresh, rows),
   output |-> MapThenSumSet(LAMBDA r : Tokens(r.usage).output, rows),
   samples |-> Cardinality({r \in rows : r.ttft >= 0}),
   p95 |-> P95({r \in rows : r.ttft >= 0})]

\* The output and the time of each model, for its tokens a second.
Speeds(rows) ==
  LET timed == {m \in {r.model : r \in rows} \ {Empty} : Timed(rows, m) # {}}
  IN  [m \in timed |->
         [output |-> MapThenSumSet(LAMBDA r : Tokens(r.usage).output, Timed(rows, m)),
          time |-> MapThenSumSet(GenerationTime, Timed(rows, m))]]

Dashboard(rows, account, range, now) ==
  LET start == now - Span(range)
      end == now
      width == Width(range)
      count == DashboardBucketCount(start, end, width)
      index(r) == BucketIndex(r.at, start, end, width, count)
      chosen == {r \in rows : (account # 0 => r.account = account) /\ index(r) >= 0}
  IN  [total |-> Card(chosen),
       series |-> [i \in 0 .. count - 1 |-> Card({r \in chosen : index(r) = i})],
       speeds |-> Speeds(chosen)]
=============================================================================
