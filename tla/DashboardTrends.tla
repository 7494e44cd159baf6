--------------------------- MODULE DashboardTrends ---------------------------
(***************************************************************************)
(* What a window draws of the history it has received: trends with their   *)
(* gaps, weeks compared, the Recent timeline, and the Drill-in, which       *)
(* shows rows where the payload has some, a trend or a text otherwise.     *)
(***************************************************************************)
EXTENDS Dashboard

\* 2.5 polls, never below the floor; 30 polls, never below an hour.
StaleAfterSecs(cadence) == IF (5 * cadence) \div 2 > StaleAfter THEN (5 * cadence) \div 2 ELSE StaleAfter
CriticalAfterSecs(cadence) == IF 30 * cadence > CriticalAfter THEN 30 * cadence ELSE CriticalAfter

Freshness(observed, now, cadence) ==
  IF observed = Never THEN [label |-> Never, stale |-> TRUE, critical |-> FALSE]
  ELSE LET age == IF now > observed THEN now - observed ELSE 0
       IN  [label |-> age, stale |-> age > StaleAfterSecs(cadence),
            critical |-> age > CriticalAfterSecs(cadence)]

-----------------------------------------------------------------------------
(* Trends: a point has a time and a value, or Null                         *)

InOrder(points) == ByKey(points, [i \in DOMAIN points |-> points[i].at])

\* Mutant: a gap is never left.
SparklineJoined(points) ==
  LET p == InOrder(points) IN Valued([i \in DOMAIN p |-> p[i].value])

\* A gap (Null) where neighbouring points are far apart, none before the first value.
SparklineWithGaps(points) ==
  LET p == InOrder(points)
      begun(i) == \E j \in 1 .. i - 1 : p[j].value # Null
      piece(i) == (IF i > 1 /\ begun(i) /\ p[i].at - p[i-1].at > GapThreshold THEN <<Null>> ELSE <<>>)
                  \o (IF p[i].value # Null THEN <<p[i].value>> ELSE <<>>)
  IN  FlattenSeq([i \in DOMAIN p |-> piece(i)])

RollupLine(points, cutoff) ==
  LET p == InOrder(points)
  IN  Valued([i \in DOMAIN p |-> IF p[i].at >= cutoff THEN p[i].value ELSE Null])

DrillInTrend(d, s, window, now) ==
  LET key == <<d.selected, s>>
      line == IF window = DayWindow THEN SparklineWithGaps(Lookup(d.samples, key, <<>>))
              ELSE RollupLine(Lookup(d.rollups, key, <<>>), now - window)
  IN  IF Len(Valued(line)) < 2 THEN Null ELSE [trend |-> line]

Sum(points) == FoldSeq(LAMBDA p, sum : sum + p.value, 0, points)

\* Mutant: the last bucket of a week counts in both.
BucketsClosed(points, now, from, to) ==
  Kept(points, {i \in DOMAIN points : points[i].value # Null /\ now - points[i].at \in from .. to})

Buckets(points, now, from, to) ==
  Kept(points, {i \in DOMAIN points : points[i].value # Null /\ now - points[i].at \in from .. to - 1})

\* The sums and sizes of two weeks, if both have enough buckets.
WeekOverWeek(d, s, now) ==
  LET points == Lookup(d.rollups, <<d.selected, s>>, <<>>)
      current == Buckets(points, now, 0, WeekSecs)
      prior == Buckets(points, now, WeekSecs, 2 * WeekSecs)
  IN  IF \/ s \notin Trending \/ Len(current) < MinBuckets \/ Len(prior) < MinBuckets
         \/ Sum(prior) <= 0
      THEN Null
      ELSE <<Sum(current), Len(current), Sum(prior), Len(prior)>>

WeekdayHour(at) == at % WeekSecs

\* The latest value is AnomalyAt times the mean of this hour of the week.
Anomaly(d, s, now) ==
  LET values == SelectSeq(Lookup(d.samples, <<d.selected, s>>, <<>>), LAMBDA p : p.value # Null)
      base == SelectSeq(Lookup(d.rollups, <<d.selected, s>>, <<>>),
                LAMBDA p : p.value # Null /\ WeekdayHour(p.at) = WeekdayHour(now))
  IN  /\ s \in Trending /\ values # <<>> /\ Len(base) >= MinBaseline
      /\ Sum(base) > 0
      /\ Last(values).value * Len(base) >= AnomalyAt * Sum(base)

-----------------------------------------------------------------------------
(* The Recent timeline                                                     *)

RecentEvents(d, limit) ==
  LET events == Lookup(d.healthEvents, d.selected, <<>>)
  IN  SubSeq(events, IF Len(events) > limit THEN Len(events) - limit + 1 ELSE 1, Len(events))

\* Mutant: the oldest rows that match are kept.
LastOfRows(rows, limit) == SubSeq(rows, 1, IF Len(rows) > limit THEN limit ELSE Len(rows))

LastRows(rows, limit) ==
  SubSeq(rows, IF Len(rows) > limit THEN Len(rows) - limit + 1 ELSE 1, Len(rows))

\* Health and Signal events of the selected Environment by time, the newest
\* that match the filter and the query; only a health event can carry a note.
Timeline(d, limit, matching) ==
  LET health == RecentEvents(d, Len(Lookup(d.healthEvents, d.selected, <<>>)))
      rows == [i \in DOMAIN health |-> [at |-> health[i].at, key |-> <<health[i].at, health[i].kind>>]]
              \o [i \in DOMAIN Lookup(d.signalEvents, d.selected, <<>>) |->
                    [at |-> d.signalEvents[d.selected][i].at, key |-> Null]]
      sorted == InOrder(rows)
  IN  LastRows(Kept(sorted, {i \in DOMAIN sorted : sorted[i].at \in matching}), limit)

-----------------------------------------------------------------------------
(* The Drill-in                                                            *)

\* The address may be opened: re-checked, for the daemon may be another's.
Linked(d) == d.selected \in Ids(d) /\ SummaryOf(d, d.selected).url

SignalUrl(d, s) == IF s \in KnownSignals /\ Linked(d) THEN <<d.selected, s>> ELSE Null

RecordUrl(d, id) == IF id # Null /\ Linked(d) THEN <<d.selected, id>> ELSE Null

\* What a row links to: nothing, its record, or the page of a run.
Unlinked(d, row) == Null
Record(d, row) == RecordUrl(d, Get(row, "id"))
RunPage(d, row) == Get(row, "page")

Cells(d, list, Link(_, _)) ==
  [i \in 1 .. (IF Len(list) > DrillInRowLimit THEN DrillInRowLimit ELSE Len(list)) |->
     [row |-> list[i], link |-> Link(d, list[i])]]

RowsFrom(d, p, Link(_, _)) ==
  LET list == Get(p, "rows") IN
  IF list = Null \/ list = <<>> THEN Null
  ELSE [rows |-> Cells(d, list, Link),
        truncated |-> Flag(p, "rows_truncated") \/ Len(list) > DrillInRowLimit]

SyslogRows(d, p)     == RowsFrom(d, p, Unlinked)
OutboundRows(d, p)   == RowsFrom(d, p, Unlinked)
SlowTxnRows(d, p)    == RowsFrom(d, p, Unlinked)
FlowRows(d, p)       == RowsFrom(d, p, Record)
EmailRows(d, p)      == RowsFrom(d, p, Record)
UpgradeRows(d, p)    == RowsFrom(d, p, Record)
UpdateSetsRows(d, p) == RowsFrom(d, p, Record)
ScanRows(d, p)       == RowsFrom(d, p, Record)
SessionRows(d, p)    == RowsFrom(d, p, Record)
ActionsRows(d, p)    == RowsFrom(d, p, RunPage)
MidRows(d, p)        == RowsFrom(d, p, Unlinked)

\* An empty list of differences is shown as one.
DriftRows(d, p) ==
  IF Get(p, "rows") = <<>> THEN [rows |-> <<>>, truncated |-> Flag(p, "rows_truncated")]
  ELSE RowsFrom(d, p, Unlinked)

\* Mutant: only what the daemon left out is told of.
JobRowsQuiet(d, p) ==
  LET list(key) == IF Get(p, key) = Null THEN <<>> ELSE p[key]
      both == Cells(d, list("overdue_rows"), Record) \o Cells(d, list("error_rows"), Record)
  IN  IF both = <<>> THEN Null
      ELSE [rows |-> SubSeq(both, 1, IF Len(both) > DrillInRowLimit THEN DrillInRowLimit ELSE Len(both)),
            truncated |-> Flag(p, "overdue_rows_truncated") \/ Flag(p, "error_rows_truncated")]

\* Overdue jobs before those in error, in one list.
JobRows(d, p) ==
  LET list(key) == IF Get(p, key) = Null THEN <<>> ELSE p[key]
      both == Cells(d, list("overdue_rows"), Record) \o Cells(d, list("error_rows"), Record)
      shown == SubSeq(both, 1, IF Len(both) > DrillInRowLimit THEN DrillInRowLimit ELSE Len(both))
  IN  IF both = <<>> THEN Null
      ELSE [rows |-> shown,
            truncated |-> Flag(p, "overdue_rows_truncated") \/ Flag(p, "error_rows_truncated")
                          \/ Len(shown) >= DrillInRowLimit]

CloneRows(p) ==
  IF Get(p, "completed") = Null THEN Null
  ELSE [rows |-> <<[row |-> p, link |-> Null]>>, truncated |-> FALSE]

\* A table that could not be counted has no link.
TableRows(d, p) ==
  LET list == Get(p, "tables") IN
  IF list = Null \/ list = <<>> THEN Null
  ELSE [rows |-> [i \in 1 .. (IF Len(list) > DrillInRowLimit THEN DrillInRowLimit ELSE Len(list)) |->
          [row |-> list[i], link |-> IF Get(list[i], "count") = Null THEN Null
                                     ELSE RecordUrl(d, list[i].table)]],
        truncated |-> FALSE]

DrillInText(d, s) ==
  [text |-> IF CardDetail(d, s) # NoText THEN CardDetail(d, s) ELSE CardSummary(d, s)]

\* The rows of a payload, if its Signal lists some.
DrillRows(d, s, p) ==
  CASE s = "jobs"         -> JobRows(d, p)
    [] s = "syslog"       -> SyslogRows(d, p)
    [] s = "outbound"     -> OutboundRows(d, p)
    [] s = "slow_txn"     -> SlowTxnRows(d, p)
    [] s = "flow"         -> FlowRows(d, p)
    [] s = "email"        -> EmailRows(d, p)
    [] s = "upgrade"      -> UpgradeRows(d, p)
    [] s = "update_sets"  -> UpdateSetsRows(d, p)
    [] s = "scan"         -> ScanRows(d, p)
    [] s = "sessions"     -> SessionRows(d, p)
    [] s = "actions"      -> ActionsRows(d, p)
    [] s = "mid_ecc"      -> MidRows(d, p)
    [] s = "drift"        -> DriftRows(d, p)
    [] s = "last_clone"   -> CloneRows(p)
    [] s = "table_growth" -> TableRows(d, p)
    [] OTHER              -> Null

DrillIn(d, s, window, now) ==
  LET p == IF s \in DOMAIN RowsOf(d, d.selected) THEN RowsOf(d, d.selected)[s].payload ELSE Null
      rows == DrillRows(d, s, p)
      trend == IF s \in Trending THEN DrillInTrend(d, s, window, now) ELSE Null
  IN  IF rows # Null THEN rows ELSE IF trend # Null THEN trend ELSE DrillInText(d, s)

\* The first lines of a drift, and how many more the exact count tells of.
DriftMismatchLines(d, limit) ==
  LET p == IF "drift" \in DOMAIN RowsOf(d, d.selected) THEN RowsOf(d, d.selected)["drift"].payload ELSE Null
      list == Get(p, "rows")
      lines == SubSeq(list, 1, IF Len(list) > limit THEN limit ELSE Len(list))
      total == IF Get(p, "mismatches") = Null THEN Len(list) ELSE p.mismatches
  IN  IF list = Null THEN [lines |-> <<>>, more |-> 0]
      ELSE [lines |-> lines, more |-> IF total > Len(lines) THEN total - Len(lines) ELSE 0]
-----------------------------------------------------------------------------
(* What is copied for a person, for an agent, and into files               *)

\* Mutant: the cards of ServiceNow, whatever the platform.
ContextOfServiceNow(d) == SignalIds["servicenow"]

ContextSignals(d) == SignalIdsFor(PlatformOf(d, d.selected))

StateOf(d, s) == IF s \in DOMAIN RowsOf(d, d.selected) THEN RowsOf(d, d.selected)[s].state ELSE "Waiting"

SummaryText(d, now) ==
  LET e == SummaryOf(d, d.selected)
      ids == SignalIdsFor(e.platform)
  IN  [health |-> e.health, muted |-> IsMuted(d, e.id, now),
       fresh |-> Freshness(e.observed, now, e.cadence),
       lines |-> [i \in DOMAIN ids |->
         <<ids[i], StateOf(d, ids[i]),
           IF CardSummary(d, ids[i]) # NoText THEN CardSummary(d, ids[i]) ELSE CardDetail(d, ids[i])>>],
       build |-> EnvironmentBuild(d, e.id), because |-> HealthExplainFor(d, e.id),
       suspect |-> CorrelationBuild(d, now)]

\* States and main lines only: no payload, no address.
AgentContext(d) ==
  LET e == SummaryOf(d, d.selected)
      ids == ContextSignals(d)
  IN  [id |-> e.id, platform |-> e.platform, health |-> e.health,
       signals |-> [i \in DOMAIN ids |-> <<ids[i], StateOf(d, ids[i]), CardSummary(d, ids[i])>>]]

ExportTrends(d) ==
  LET series(f) == [key \in {k \in DOMAIN f : k[1] = d.selected} |-> f[key]]
  IN  [samples |-> series(d.samples), rollups |-> series(d.rollups)]
=============================================================================
