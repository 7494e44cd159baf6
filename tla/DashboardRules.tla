---------------------------- MODULE DashboardRules ----------------------------
(***************************************************************************)
(* One look at a dashboard, at one card, at one trend, at one timeline.    *)
(* The health of its Environments is the daemon's, which rolled up the     *)
(* same rows.                                                              *)
(***************************************************************************)
EXTENDS DashboardTrends, Judged

Look(d, now) ==
  [explain  |-> [id \in Ids(d) |-> HealthExplainFor(d, id)],
   headline |-> [id \in Ids(d) |-> HeadlineFor(d, id)],
   diagnosis |-> DiagnosisHeadline(d, now),
   cards    |-> Cards(d, now),
   count    |-> TroubledCount(d, now),
   worst    |-> WorstHealth(d, now),
   sidebar  |-> Sidebar(d, now),
   platforms |-> SidebarPlatforms(d, now),
   strip    |-> CompareStrip(d),
   rows     |-> CompareRows(d),
   text     |-> SummaryText(d, now),
   context  |-> AgentContext(d),
   export   |-> ExportTrends(d)]

LookAt   == Judge("dashboard", Look(input.d, input.now))
ReadCard == Judge("card", [summary |-> SummarizeValue(input.signal, input.payload),
                           body    |-> Body(input.signal, input.payload)])
DrawLine == Judge("trend", SparklineWithGaps(input.points))
CompareWeeks == Judge("weeks", WeekOverWeek(input.d, input.signal, input.now))
OpenCard == Judge("drill", DrillIn(input.d, input.signal, input.window, input.now))
ReadTimeline == Judge("timeline", Timeline(input.d, input.limit, input.matching))

\* The rows as the daemon reads them to decide the health of an Environment.
DaemonRows(rows) ==
  [s \in DOMAIN rows |->
     [state |-> rows[s].state,
      reach |-> IF Get(rows[s].payload, "reachability") = Null THEN "reachable"
                ELSE rows[s].payload.reachability,
      build |-> NoBuild]]

DaemonHealth(rows) == Decide(DaemonRows(rows)).health

-----------------------------------------------------------------------------
\* An Environment the daemon calls degraded or down names a Signal that makes
\* it so, in its explanation, its diagnosis and its notification, and one that
\* is reachable and healthy has no cause (degraded_voting_ids mirrors
\* health_rollup on the other side of the wire).
TroubleIsExplained ==
  Judged("dashboard") =>
    /\ \A e \in Range(input.d.environments) :
         /\ e.health \in {"degraded", "down"} =>
              result.explain[e.id] # <<>> /\ result.headline[e.id] # NoText
         /\ e.health = "healthy" /\ Reachability(DaemonRows(RowsOf(input.d, e.id))) = "reachable"
              => result.explain[e.id] = <<>>
    /\ result.diagnosis # Null =>
         /\ result.diagnosis.count = Len(result.explain[input.d.selected])
         /\ result.diagnosis.lead = result.explain[input.d.selected][1][1]

\* Every cause is on a card before all the cards without one, except MID
\* servers that are none, whose card reads unknown (cards, severity_rank).
CausesComeFirst ==
  Judged("dashboard") =>
    LET at(s) == CHOOSE i \in DOMAIN result.cards : result.cards[i].id = s
        causes == {x[1] : x \in Range(result.explain[input.d.selected])}
    IN  \A s \in causes :
          LET c == result.cards[at(s)] IN
          \/ c.status = "unknown"
          \/ \A i \in 1 .. at(s) : Troubled([state |-> result.cards[i].status])

\* The badge counts something exactly if the menu bar shows trouble, and
\* neither speaks of an Environment that is muted, was never observed, or is
\* shown over a lost connection (troubled_count, worst_health_excluding_muted).
SurfacesAgree ==
  Judged("dashboard") =>
    /\ result.count > 0 <=> result.worst \in {"degraded", "down"}
    /\ result.count <= Cardinality({i \in DOMAIN result.sidebar :
         LET r == result.sidebar[i] IN ~r.dimmed /\ ~r.muted /\ r.health \in {"degraded", "down"}})
    /\ Cardinality(UNION {{r.id : r \in Range(g.rows)} : g \in Range(result.platforms)})
         = Len(result.sidebar)

\* What is copied for a person and for an agent names the same Signals with the
\* same states, says the same of each that has a main line, and explains what
\* the cards show (summary_text, agent_context_json).
CopiesAgree ==
  Judged("dashboard") =>
    LET lines == result.text.lines  signals == result.context.signals IN
    /\ Len(lines) = Len(signals) /\ Len(lines) = Len(result.cards)
    /\ \A i \in DOMAIN lines :
         /\ <<lines[i][1], lines[i][2]>> = <<signals[i][1], signals[i][2]>>
         /\ signals[i][3] # NoText => lines[i][3] = signals[i][3]
    /\ \A x \in Range(result.text.because) :
         \E i \in DOMAIN lines : lines[i][1] = x[1] /\ Troubled([state |-> lines[i][2]])

\* A tinted row makes the strip warn, and without one only a row that was
\* compared does; an unread build is never tinted, nor is the clone source
\* (compare_strip, compare_rows, reference_build).
StripAgreesWithRows ==
  Judged("dashboard") =>
    LET tinted == {r \in Range(result.rows) : r.mismatch} IN
    /\ \A r \in tinted : r.build # Null /\ r.id # CloneSourceId(input.d)
    /\ Len(input.d.environments) > 1 /\ tinted # {} => result.strip.mismatch
    /\ result.strip.mismatch =>
         \/ tinted # {}
         \/ \E r \in Range(result.rows) : r.drift \notin {NoText, <<"Source of truth">>}

\* A card invents no number: a payload that did not parse, was skipped or is of
\* a failed probe has no counts, and unless it did not parse the card still
\* says something (summarize_value, detail_from_value).
NoInventedCounts ==
  Judged("card") =>
    LET p == input.payload IN
    /\ p = Null \/ Get(p, "skipped") # Null \/ ProbeFailed(p) => result.summary = NoText
    /\ p # Null => result.body # NoText

\* The line breaks where neighbouring samples are far apart, and nowhere else,
\* and shows every value in order (sparkline_with_gaps).
LineBreaksAtGaps ==
  Judged("trend") =>
    LET p == InOrder(input.points)
        valued(n) == Cardinality({i \in 1 .. n : p[i].value # Null})
        shown(k) == Cardinality({j \in 1 .. k : result[j] # Null})
        gaps == {i \in 2 .. Len(p) : valued(i - 1) > 0 /\ p[i].at - p[i-1].at > GapThreshold}
    IN  /\ Valued(result) = Valued([i \in DOMAIN p |-> p[i].value])
        /\ \A n \in 0 .. Len(p) :
             Cardinality({k \in DOMAIN result : result[k] = Null /\ shown(k) = n})
               = Cardinality({i \in gaps : valued(i - 1) = n})

\* No hour counts in both weeks, and none is left out (week_over_week).
WeeksShareNoHour ==
  Judged("weeks") /\ result # Null =>
    LET hours == Lookup(input.d.rollups, <<input.d.selected, input.signal>>, <<>>)
    IN  result[2] + result[4]
          = Cardinality({i \in DOMAIN hours :
              hours[i].value # Null /\ input.now - hours[i].at \in 0 .. 2 * WeekSecs - 1})

\* A row the Drill-in leaves out is told of, and a row is linked only to the
\* page of its own run, or where the address of the Environment may be opened
\* (drill_in).
NothingHiddenUnsaid ==
  Judged("drill") /\ "rows" \in DOMAIN result =>
    LET p == RowsOf(input.d, input.d.selected)[input.signal].payload
        all == UNION {Range(p[k]) : k \in DOMAIN p \cap {"rows", "overdue_rows", "error_rows"}}
    IN  /\ input.signal \notin {"last_clone", "table_growth"}
             /\ (all \ {r.row : r \in Range(result.rows)}) # {} => result.truncated
        /\ \A r \in Range(result.rows) :
             r.link # Null => Linked(input.d) \/ r.link = Get(r.row, "page")

\* The timeline holds the newest of the matching events: none it leaves out is
\* newer than one it shows (timeline).
NewestEventsAreShown ==
  Judged("timeline") =>
    LET times == {e.at : e \in Range(input.d.healthEvents[input.d.selected])}
                 \cup {e.at : e \in Range(input.d.signalEvents[input.d.selected])}
        shown == {row.at : row \in Range(result)}
    IN  \A at \in (times \cap input.matching) \ shown : \A s \in shown : at <= s

\* Every surface of the window tells the same story, of what is there.
SurfacesAreHonest ==
  /\ TroubleIsExplained /\ CausesComeFirst /\ SurfacesAgree /\ CopiesAgree
  /\ StripAgreesWithRows /\ NoInventedCounts /\ NothingHiddenUnsaid

\* Lines, weeks and timelines are drawn of the samples and events there are.
TrendsAreExact == LineBreaksAtGaps /\ WeeksShareNoHour /\ NewestEventsAreShown
=============================================================================
