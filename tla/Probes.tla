------------------------------- MODULE Probes -------------------------------
(***************************************************************************)
(* What each Signal probe makes of the answers an instance gives.  A probe *)
(* is a function from its answers and thresholds to an Observation, or to  *)
(* an error, which the collector keeps as a down row.                      *)
(*                                                                         *)
(* An answer has the HTTP status left after the retries of the client (0   *)
(* when there was none) and a body: a number, or a page of rows, or        *)
(* Malformed.  A row keeps what a probe reads of it: whether it has a      *)
(* sys_id, and the classes its text fields fall into.                      *)
(***************************************************************************)
EXTENDS Naturals, Sequences, FiniteSets, SequencesExt

CONSTANTS
  RowListLimit,       \* ROW_LIST_LIMIT, UNHEALTHY_LIST_LIMIT and the limit of row queries
  SessionsPage,       \* SESSIONS_PAGE_LIMIT, one more than the display cap
  FailureWindow,      \* UPGRADE_FAILURE_WINDOW_DAYS
  Off,                \* a threshold no count reaches (u64::MAX, or no ceiling)
  Malformed,          \* a body that does not parse
  NoDate,             \* a date that does not parse
  WatchedTables       \* WATCHED_TABLES of the growth Signal

ASSUME ProbesAssumption ==
  /\ RowListLimit \in Nat \ {0}
  /\ SessionsPage \in Nat \ {0}
  /\ FailureWindow \in Nat
  /\ Off \in Nat
  /\ WatchedTables # {}

Ok(v)  == [ok |-> TRUE, value |-> v]
Err(e) == [ok |-> FALSE, error |-> e]

-----------------------------------------------------------------------------
(* The instance: it counts the rows a query matches, or returns a page.    *)

Outcomes == {"ok", "malformed", "silent", "throttled", "denied", "missing", "bad_table"}

StatusOf(outcome) ==
  CASE outcome \in {"ok", "malformed"} -> 200
    [] outcome = "silent"    -> 0
    [] outcome = "throttled" -> 429
    [] outcome = "denied"    -> 403
    [] outcome = "missing"   -> 404
    [] outcome = "bad_table" -> 400

Answer(outcome, body) ==
  [status |-> StatusOf(outcome),
   body   |-> IF outcome = "malformed" THEN Malformed ELSE body]

First(rows, n) == SubSeq(rows, 1, IF Len(rows) < n THEN Len(rows) ELSE n)

Page(outcome, rows, limit) == Answer(outcome, First(rows, limit))

-----------------------------------------------------------------------------
(* Reading an answer                                                       *)

IsRateLimited(status) == status = 429

FetchAggregateCount(answer) ==
  CASE answer.status = 0            -> Err("transport")
    [] IsRateLimited(answer.status) -> Err("throttled")
    [] answer.status # 200 /\ ~IsRateLimited(answer.status) /\ answer.status # 0 -> Err("http")
    [] OTHER -> IF answer.body = Malformed THEN Err("body") ELSE Ok(answer.body)

\* The average of a field is read like a count.
FetchAggregateAvg(answer) == FetchAggregateCount(answer)

EvaluateGe(count, degradedAt) == IF count >= degradedAt THEN "degraded" ELSE "healthy"

\* Mutant: only a page that was cut counts as truncated.
TakeBoundedExact(rows) ==
  [rows |-> First(rows, RowListLimit), truncated |-> Len(rows) > RowListLimit]

\* A full page may hide more, so it counts as truncated.
TakeBounded(rows) ==
  [rows |-> First(rows, RowListLimit), truncated |-> Len(rows) >= RowListLimit]

Identified(rows) ==
  FlattenSeq([i \in DOMAIN rows |-> IF rows[i].id THEN <<rows[i]>> ELSE <<>>])

ParseResultArray(body) == IF body = Malformed THEN <<>> ELSE body

\* Mutant: a body that does not parse is an empty one.
ParseResultArrayLenient(body) == Ok(ParseResultArray(body))

ParseResultArrayRequired(body) == IF body = Malformed THEN Err("body") ELSE Ok(body)

NoRows == [rows |-> <<>>, truncated |-> FALSE, throttled |-> FALSE]

\* Mutant: a rate-limited read of rows is an empty list like any other.
FetchTableRowsQuietly(answer) ==
  IF answer.status # 200 THEN NoRows
  ELSE LET kept == TakeBounded(Identified(ParseResultArray(answer.body)))
       IN  [rows |-> kept.rows, truncated |-> kept.truncated, throttled |-> FALSE]

\* Tolerant: the count has decided, so a failed read is an empty list.
FetchTableRowsWithThrottle(answer) ==
  IF IsRateLimited(answer.status) THEN [NoRows EXCEPT !.throttled = TRUE]
  ELSE IF answer.status # 200     THEN NoRows
  ELSE LET kept == TakeBounded(Identified(ParseResultArray(answer.body)))
       IN  [rows |-> kept.rows, truncated |-> kept.truncated, throttled |-> FALSE]

FetchTableRows(answer) == [FetchTableRowsWithThrottle(answer) EXCEPT !.throttled = FALSE]

\* Strict: the rows are the count.
FetchTableRowsRequired(answer) ==
  CASE answer.status = 0            -> Err("transport")
    [] IsRateLimited(answer.status) -> Err("throttled")
    [] answer.status \notin {0, 200, 429} -> Err("http")
    [] OTHER ->
       LET parsed == ParseResultArrayRequired(answer.body)
       IN  IF parsed.ok THEN Ok(TakeBounded(Identified(parsed.value))) ELSE parsed

\* A list read whole: anything but 200 is an error that names the status.
FetchList(answer) ==
  IF answer.status = 0 THEN Err("transport")
  ELSE IF answer.status # 200 THEN Err("http")
  ELSE Ok(answer.body)

-----------------------------------------------------------------------------
(* Observations.  `counts` are the numbers of the payload, `shown` the     *)
(* rows of the drill-in, `sample` whether a sample is kept.                *)

Observation(state, counts, shown, truncated, throttled, sample) ==
  Ok([state |-> state, counts |-> counts, shown |-> shown, truncated |-> truncated,
      throttled |-> throttled, sample |-> sample, detail |-> "none"])

\* Mutant: a probe whose rows were refused is an error.
CountingProbeStrict(count, rowsAnswer, degradedAt, sampled) ==
  LET read == FetchAggregateCount(count)
      list == FetchTableRowsRequired(rowsAnswer)
  IN  IF ~read.ok THEN read
      ELSE IF read.value > 0 /\ ~list.ok THEN list
      ELSE Observation(EvaluateGe(read.value, degradedAt), <<read.value>>, <<>>, TRUE, TRUE, sampled)

\* The Signals with one count and one list: rows are read only when the
\* count is not zero, and never change the verdict.
CountingProbe(count, rowsAnswer, degradedAt, sampled) ==
  LET read == FetchAggregateCount(count) IN
  IF ~read.ok THEN read
  ELSE LET list == IF read.value > 0 THEN FetchTableRowsWithThrottle(rowsAnswer) ELSE NoRows
       IN  Observation(EvaluateGe(read.value, degradedAt), <<read.value>>, list.rows,
                       list.truncated, list.throttled, sampled)

SyslogProbe(w)   == CountingProbe(w.count, w.page, w.degradedAt, TRUE)
OutboundProbe(w) == CountingProbe(w.count, w.page, w.degradedAt, FALSE)
FlowProbe(w)     == CountingProbe(w.count, w.page, w.degradedAt, FALSE)
EmailProbe(w)    == CountingProbe(w.count, w.page, w.degradedAt, FALSE)

\* Two counts, each with a list and a threshold of its own.
JobsState(overdue, error, w) ==
  IF \/ EvaluateGe(overdue, w.degradedAt) = "degraded"
     \/ EvaluateGe(error, w.errorAt) = "degraded"
  THEN "degraded" ELSE "healthy"

JobsProbe(w) ==
  LET overdue == FetchAggregateCount(w.count)
      error   == FetchAggregateCount(w.errorCount)
  IN  IF ~overdue.ok THEN overdue
      ELSE IF ~error.ok THEN error
      ELSE LET late   == IF overdue.value > 0 THEN FetchTableRowsWithThrottle(w.page) ELSE NoRows
               failed == IF error.value > 0 THEN FetchTableRowsWithThrottle(w.errorPage) ELSE NoRows
           IN  Observation(JobsState(overdue.value, error.value, w),
                           <<overdue.value, error.value>>, late.rows \o failed.rows,
                           late.truncated \/ failed.truncated,
                           late.throttled \/ failed.throttled, TRUE)

\* Agents and two queues; the list is of the agents that are not healthy.
MidAgentHealthy(agent) == agent.up /\ agent.validated

Unhealthy(agents) ==
  FlattenSeq([i \in DOMAIN agents |-> IF MidAgentHealthy(agents[i]) THEN <<>> ELSE <<agents[i]>>])

ClassifyMidAgents(body) ==
  IF body = Malformed THEN Err("body")
  ELSE Ok([total |-> Len(body), unhealthy |-> Unhealthy(body)])

MidEccState(unhealthy, error, ready, w) ==
  IF unhealthy < w.degradedAt /\ error < w.errorAt /\ ready < w.readyAt
  THEN "healthy" ELSE "degraded"

MidEccProbe(w) ==
  LET list   == FetchList(w.page)
      agents == IF list.ok THEN ClassifyMidAgents(list.value) ELSE list
      ready  == FetchAggregateCount(w.count)
      error  == FetchAggregateCount(w.errorCount)
  IN  IF ~agents.ok THEN agents
      ELSE IF ~ready.ok THEN ready
      ELSE IF ~error.ok THEN error
      ELSE LET unhealthy == agents.value.unhealthy
           IN  Observation(MidEccState(Len(unhealthy), error.value, ready.value, w),
                           <<agents.value.total, Len(unhealthy), ready.value, error.value>>,
                           First(unhealthy, RowListLimit), Len(unhealthy) > RowListLimit,
                           FALSE, FALSE)

\* The slowest transactions are read only when the average is too high.
TransactionProbe(w) ==
  LET avg == FetchAggregateAvg(w.count) IN
  IF ~avg.ok THEN avg
  ELSE LET state == EvaluateGe(avg.value, w.degradedAt)
           list  == IF state = "degraded" THEN FetchTableRows(w.page) ELSE NoRows
       IN  Observation(state, <<avg.value>>, list.rows, list.truncated, FALSE, FALSE)

\* Counts for information: an unreadable table is a gap, all of them an error.
TableGrowthProbe(w) ==
  LET counts == [t \in WatchedTables |-> FetchAggregateCount(w.tables[t])]
  IN  IF \A t \in WatchedTables : ~counts[t].ok THEN Err("all")
      ELSE Observation("healthy", counts, <<>>, FALSE, FALSE, FALSE)

\* The rows are counted before those without a sys_id are dropped.
SessionsProbe(w) ==
  LET list == FetchList(w.page)
      rows == IF list.ok THEN ParseResultArrayRequired(list.value) ELSE list
  IN  IF ~rows.ok THEN rows
      ELSE LET kept == TakeBounded(Identified(rows.value))
           IN  Observation("healthy", <<Len(First(rows.value, SessionsPage - 1))>>, kept.rows,
                           Len(rows.value) >= SessionsPage \/ kept.truncated, FALSE, FALSE)

\* Failed upgrades of the window; a date that does not parse counts.
RecentFailure(row) == row.failed /\ (row.age = NoDate \/ row.age <= FailureWindow)

UpgradeProbe(w) ==
  LET list == FetchList(w.page) IN
  IF ~list.ok THEN list
  ELSE LET rows   == First(Identified(ParseResultArray(list.value)), RowListLimit)
           failed == Len(SelectSeq(rows, RecentFailure))
       IN  Observation(EvaluateGe(failed, w.degradedAt), <<failed>>, rows,
                       Len(rows) >= RowListLimit, FALSE, FALSE)

UpdateSetsProbe(w) ==
  LET sets == FetchTableRowsRequired(w.page) IN
  IF ~sets.ok THEN sets
  ELSE LET open == SelectSeq(sets.value.rows, LAMBDA r : r.open)
       IN  Observation(EvaluateGe(Len(open), w.degradedAt), <<Len(open)>>, open,
                       sets.value.truncated, FALSE, FALSE)

\* A missing priority is P2, so that the finding does not vanish.
PriorityBucket(priority) == IF priority \in {"P1", "P2", "P3", "P4"} THEN priority ELSE "P2"

FetchFindings(answer) ==
  CASE answer.status \in {404, 400} -> Ok(<<>>)
    [] OTHER ->
       LET list == FetchList(answer)
           rows == IF list.ok THEN ParseResultArrayRequired(list.value) ELSE list
       IN  IF ~rows.ok THEN rows
           ELSE Ok(First(SelectSeq(Identified(rows.value), LAMBDA r : r.open), RowListLimit))

\* Without the plugin there is nothing to observe: skipped, not down.
ScanProbe(w) ==
  LET findings == FetchFindings(w.page) IN
  IF ~findings.ok THEN findings
  ELSE IF w.page.status \in {404, 400}
  THEN Observation("skipped", <<>>, <<>>, FALSE, FALSE, FALSE)
  ELSE LET p1 == Len(SelectSeq(findings.value, LAMBDA r : PriorityBucket(r.priority) = "P1"))
       IN  Observation(EvaluateGe(p1, w.degradedAt), <<p1, Len(findings.value) - p1>>,
                       findings.value, Len(findings.value) >= RowListLimit, FALSE, FALSE)

\* Raw requests: no retry, and a credential of their own.
HttpProbeState(status, rtt, ceiling) ==
  CASE status \notin 200..399 -> "down"
    [] status \in 200..399 -> EvaluateGe(rtt, ceiling)

HttpProbe(w) ==
  IF w.page.status = 0 THEN Err("transport")
  ELSE Observation(HttpProbeState(w.page.status, w.rtt, w.degradedAt), <<w.rtt>>, <<>>,
                   FALSE, FALSE, FALSE)

\* Runs that failed less than two calendar days ago, or at an unreadable time.
FailedRuns(rows) ==
  SelectSeq(rows, LAMBDA r : r.failed /\ (r.age = NoDate \/ r.age <= 1) /\ r.id)

ActionsProbe(w) ==
  IF ~w.token THEN Err("credential")
  ELSE LET list == FetchList(w.page)
           runs == IF list.ok THEN ParseResultArrayRequired(list.value) ELSE list
       IN  IF ~runs.ok THEN runs
           ELSE LET failed == First(FailedRuns(runs.value), RowListLimit)
                IN  Observation(EvaluateGe(Len(failed), w.degradedAt), <<Len(failed)>>, failed,
                                Len(failed) >= RowListLimit, FALSE, FALSE)

-----------------------------------------------------------------------------
(* Availability classifies the answer, never fails, and is judged slow     *)
(* only when the instance is reachable.                                    *)

ClassifyAvailability(w) ==
  CASE w.page.status = 0 -> [reach |-> "unreachable", state |-> "down"]
    [] w.page.status # 0 /\ w.hibernating -> [reach |-> "asleep", state |-> "healthy"]
    [] w.page.status = 200 /\ ~w.hibernating /\ w.page.body # Malformed ->
         [reach |-> "reachable", state |-> "healthy"]
    [] OTHER -> [reach |-> "unreachable", state |-> "down"]

ApplyRttThreshold(seen, rtt, ceiling) ==
  IF seen.reach # "reachable" \/ rtt <= ceiling THEN seen
  ELSE [seen EXCEPT !.state = "degraded"]

AvailabilityProbe(w) ==
  LET seen == ApplyRttThreshold(ClassifyAvailability(w), w.rtt, w.degradedAt)
  IN  Observation(seen.state, <<w.rtt>>, <<seen.reach>>, FALSE, FALSE, seen.reach = "reachable")

-----------------------------------------------------------------------------
ProbeOf(w) ==
  CASE w.signal = "availability" -> AvailabilityProbe(w)
    [] w.signal = "jobs"         -> JobsProbe(w)
    [] w.signal = "syslog"       -> SyslogProbe(w)
    [] w.signal = "outbound"     -> OutboundProbe(w)
    [] w.signal = "flow"         -> FlowProbe(w)
    [] w.signal = "email"        -> EmailProbe(w)
    [] w.signal = "mid_ecc"      -> MidEccProbe(w)
    [] w.signal = "slow_txn"     -> TransactionProbe(w)
    [] w.signal = "table_growth" -> TableGrowthProbe(w)
    [] w.signal = "sessions"     -> SessionsProbe(w)
    [] w.signal = "upgrade"      -> UpgradeProbe(w)
    [] w.signal = "update_sets"  -> UpdateSetsProbe(w)
    [] w.signal = "scan"         -> ScanProbe(w)
    [] w.signal = "http_probe"   -> HttpProbe(w)
    [] w.signal = "actions"      -> ActionsProbe(w)

\* The row the collector keeps of a probe: an error is a down row that says why.
SnapshotOf(observed) ==
  IF observed.ok THEN observed.value
  ELSE [state |-> "down", counts |-> <<>>, shown |-> <<>>, truncated |-> FALSE,
        throttled |-> FALSE, sample |-> FALSE, detail |-> observed.error]
=============================================================================
