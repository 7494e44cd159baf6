------------------------------ MODULE Dashboard ------------------------------
(***************************************************************************)
(* What a window shows of the messages it has received: operators over the *)
(* dashboard d, a record with                                              *)
(*   connected                                                             *)
(*   environments : the summaries in order (id, platform, health, the time *)
(*                  of the last observation or Never, cadence, url: if the *)
(*                  address may be opened)                                 *)
(*   selected     : an Environment id or NoOne                              *)
(*   snapshots    : id -> Signal -> [state, payload], partial functions    *)
(*   samples, rollups : <<id, Signal>> -> points                           *)
(*   healthEvents, signalEvents : id -> events                             *)
(*   mutes        : id -> time it ends                                     *)
(* A payload is a JSON object, a function from its keys, or Null if it did *)
(* not parse.  A text is the sequence of the values it is made of.         *)
(***************************************************************************)
EXTENDS SignalRules, Integers, Sequences, FiniteSets, SequencesExt

CONSTANTS
  SignalIds,      \* platform -> its cards in order (SIGNAL_IDS, signal_ids_for)
  Correlating,    \* the error Signals a new build is blamed for
  Trending,       \* TREND_SIGNALS
  PlainCount,     \* Signals whose text is one count
  Null,           \* no value
  NoOne,          \* no Environment, no card
  Never,          \* not observed
  DrillInRowLimit, GapThreshold, CorrelationWindow, AnomalyAt, MinBaseline,
  WeekSecs, MinBuckets, StaleAfter, CriticalAfter, DayWindow

\* Signals whose text is put together in an arm of its own.
OwnText == {"availability", "jobs", "mid_ecc", "upgrade", "sessions", "table_growth", "scan",
            "http_probe", "drift", "last_clone"}

ASSUME DashboardAssumption ==
  /\ WeekSecs \in Nat \ {0} /\ DrillInRowLimit \in Nat
  /\ "servicenow" \in DOMAIN SignalIds
  /\ \A p \in DOMAIN SignalIds :
       /\ SignalIds[p] \in Seq(Signals)
       /\ \A i, j \in DOMAIN SignalIds[p] : SignalIds[p][i] = SignalIds[p][j] => i = j
  /\ PlainCount \cap OwnText = {} /\ Signals \subseteq PlainCount \cup OwnText
  /\ Availability \notin NonVoting /\ PlatformProbes \cap NonVoting = {}
  /\ NoOne \notin Signals /\ Null \notin Healths /\ Null # <<>>

NoText == <<>>

Get(p, key) == IF p = Null THEN Null ELSE IF key \in DOMAIN p THEN p[key] ELSE Null
Num(p, key) == IF Get(p, key) = Null THEN 0 ELSE p[key]
Flag(p, key) == IF Get(p, key) = Null THEN FALSE ELSE p[key]
Lookup(f, key, default) == IF key \in DOMAIN f THEN f[key] ELSE default

\* What stands at the indexes of K, in order.
Kept(s, K) == FlattenSeq([i \in DOMAIN s |-> IF i \in K THEN <<s[i]>> ELSE <<>>])

\* In the order of the keys, one for each index; what has equal keys stays in order.
ByKey(s, key) ==
  LET before(i, j) == key[i] < key[j] \/ (key[i] = key[j] /\ i <= j)
      place == [j \in DOMAIN s |-> Cardinality({i \in DOMAIN s : before(i, j)})]
  IN  [k \in DOMAIN s |-> s[CHOOSE j \in DOMAIN s : place[j] = k]]

\* Without the gaps.
Valued(values) == Kept(values, {i \in DOMAIN values : values[i] # Null})

-----------------------------------------------------------------------------
(* Environments and their rows                                             *)

\* An unknown platform reads as ServiceNow.
SignalIdsFor(platform) == Lookup(SignalIds, platform, SignalIds["servicenow"])

KnownSignals == UNION {Range(SignalIds[p]) : p \in DOMAIN SignalIds}

IsVotingSignal(s) == s \notin NonVoting

Ids(d) == {e.id : e \in Range(d.environments)}

SummaryOf(d, id) ==
  LET es == d.environments IN Kept(es, {i \in DOMAIN es : es[i].id = id})[1]

PlatformOf(d, id) == IF id \in Ids(d) THEN SummaryOf(d, id).platform ELSE "servicenow"

RowsOf(d, id) == Lookup(d.snapshots, id, <<>>)

Troubled(row) == row.state \in {"degraded", "down"}

TroubledRow(d, id, s) == s \in DOMAIN RowsOf(d, id) /\ Troubled(RowsOf(d, id)[s])

ParseBuild(payload) == Get(payload, "build")

EnvironmentBuild(d, id) ==
  IF Availability \in DOMAIN RowsOf(d, id)
  THEN ParseBuild(RowsOf(d, id)[Availability].payload) ELSE Null

IsMuted(d, id, now) == id \in DOMAIN d.mutes /\ now < d.mutes[id]

-----------------------------------------------------------------------------
(* The main line of a card                                                 *)

\* A probe that failed: persist_signal_down writes no counts.
ProbeFailed(p) == Get(p, "reachability") = "unreachable" /\ Get(p, "detail") # Null

SumOf(tables) == FoldSeq(LAMBDA row, sum : sum + Num(row, "count"), 0, tables)

CloneText(p) ==
  CASE Get(p, "role") = "source"            -> <<"Clone source", Get(p, "supported")>>
    [] Get(p, "age_days") # Null            -> <<p.age_days, "days ago">>
    [] Get(p, "unknown") # Null             -> <<"Not in the last clones">>
    [] "completed" \in DOMAIN p /\ p.completed = Null -> <<"No clone found">>
    [] OTHER                                -> NoText

DriftText(p) ==
  CASE Get(p, "role") = "source"            -> <<"Source of truth">>
    [] Get(p, "mismatches") # Null          -> <<p.mismatches, Num(p, "expected_mismatches")>>
    [] OTHER                                -> NoText

UpgradeText(p) ==
  CASE Num(p, "failed_7d") > 0              -> <<p.failed_7d, "failed">>
    [] Get(p, "last_to") # Null             -> <<p.last_to, Get(p, "last_age_days")>>
    [] OTHER                                -> <<"No upgrades found">>

CountText(s, p) ==
  CASE s \in PlainCount    -> <<Num(p, "count")>>
    [] s = "availability" ->
         IF Get(p, "rtt_ms") # Null THEN <<p.rtt_ms, "ms">>
         ELSE IF ParseBuild(p) # Null THEN <<p.build>> ELSE NoText
    [] s = "jobs"         -> <<Num(p, "overdue_ready"), Num(p, "error")>>
    [] s = "mid_ecc"      ->
         IF Num(p, "agents_total") = 0 THEN <<"No MID servers">>
         ELSE <<p.agents_total - Num(p, "agents_unhealthy"), p.agents_total,
                Num(p, "ecc_output_ready")>>
    [] s = "upgrade"      -> UpgradeText(p)
    [] s = "sessions"     -> IF Flag(p, "truncated") THEN <<"100+">> ELSE <<Num(p, "active_sessions")>>
    [] s = "table_growth" -> <<Len(p.tables), SumOf(p.tables)>>
    [] s = "scan"         -> <<Num(p, "p1_open"), Num(p, "p2_open")>>
    [] s = "http_probe"   -> <<Num(p, "rtt_ms"), Num(p, "http_status")>>
    [] s = "drift"        -> DriftText(p)
    [] s = "last_clone"   -> CloneText(p)
    [] OTHER              -> NoText

\* Mutant: the payload of a failed probe is read like a count.
SummarizeAll(s, p) ==
  IF p = Null \/ Get(p, "skipped") # Null THEN NoText ELSE CountText(s, p)

SummarizeValue(s, p) ==
  IF p = Null \/ Get(p, "skipped") # Null \/ ProbeFailed(p) THEN NoText ELSE CountText(s, p)

DetailFromValue(s, p) ==
  CASE Get(p, "skipped") # Null               -> <<p.skipped>>
    [] Flag(p, "throttled")                   -> <<"throttled">>
    [] s = "drift" /\ Flag(p, "truncated")    -> <<"partial inventory">>
    [] Get(p, "error") # Null                 -> <<p.error>>
    [] Get(p, "detail") # Null                -> <<p.detail>>
    [] OTHER                                  -> NoText

Body(s, p) == IF SummarizeValue(s, p) # NoText THEN SummarizeValue(s, p) ELSE DetailFromValue(s, p)

\* The drift card names the build as well, which Availability read.
CardSummary(d, s) ==
  LET rows == RowsOf(d, d.selected)
      text == IF s \in DOMAIN rows THEN SummarizeValue(s, rows[s].payload) ELSE NoText
      build == EnvironmentBuild(d, d.selected)
  IN  IF s = "drift" /\ text # NoText /\ build # Null THEN Append(text, build) ELSE text

CardDetail(d, s) ==
  LET rows == RowsOf(d, d.selected)
  IN  IF s \in DOMAIN rows THEN DetailFromValue(s, rows[s].payload) ELSE NoText

CardHint(d, s) ==
  LET rows == RowsOf(d, d.selected)
      reason == IF s \in DOMAIN rows THEN Get(rows[s].payload, "skipped") ELSE Null
  IN  IF reason \in {"no_clone_source", "need_two_environments"} THEN <<reason>> ELSE NoText

-----------------------------------------------------------------------------
(* Cards                                                                   *)

\* Mutant: what waits is most urgent.
SeverityRankWaiting(status) ==
  CASE status = "Waiting" -> 0 [] status = "down" -> 1 [] status = "degraded" -> 2
    [] status = "healthy" -> 3 [] status = "skipped" -> 5 [] OTHER -> 4

SeverityRank(status) ==
  CASE status = "down" -> 0 [] status = "degraded" -> 1 [] status = "Waiting" -> 2
    [] status = "healthy" -> 3 [] status = "skipped" -> 5 [] OTHER -> 4

CardStatus(d, s) ==
  LET rows == RowsOf(d, d.selected) IN
  IF s \notin DOMAIN rows THEN "Waiting"
  ELSE IF s = "mid_ecc" /\ Get(rows[s].payload, "agents_total") = 0 THEN "unknown"
  ELSE rows[s].state

\* By rank; cards of one rank stay in Signal order.
Cards(d, now) ==
  LET card(s) == [id |-> s, status |-> CardStatus(d, s), dimmed |-> ~d.connected,
                  muted |-> d.selected # NoOne /\ IsMuted(d, d.selected, now)]
      ids == SignalIdsFor(PlatformOf(d, d.selected))
      cards == [i \in DOMAIN ids |-> card(ids[i])]
  IN  ByKey(cards, [i \in DOMAIN ids |-> SeverityRank(cards[i].status)])

-----------------------------------------------------------------------------
(* Why an Environment needs attention                                      *)

\* The troubled Signals in card order, those that do not vote included.
DegradedIds(d, id) ==
  LET ids == SignalIdsFor(PlatformOf(d, id))
  IN  Kept(ids, {i \in DOMAIN ids : TroubledRow(d, id, ids[i])})

\* Mutant: a probe that failed outright is no cause.
DegradedVotingIdsUp(d, id) ==
  LET ids == DegradedIds(d, id)
  IN  Kept(ids, {i \in DOMAIN ids : IsVotingSignal(ids[i]) /\ RowsOf(d, id)[ids[i]].state # "down"})

DegradedVotingIds(d, id) ==
  LET ids == SignalIdsFor(PlatformOf(d, id))
  IN  Kept(ids, {i \in DOMAIN ids : IsVotingSignal(ids[i]) /\ TroubledRow(d, id, ids[i])})

HealthExplainFor(d, id) ==
  LET ids == DegradedVotingIds(d, id)
  IN  [i \in DOMAIN ids |-> <<ids[i]>> \o Body(ids[i], RowsOf(d, id)[ids[i]].payload)]

WorstSignalId(d, id) ==
  LET ids == DegradedIds(d, id) IN IF ids = <<>> THEN NoOne ELSE ids[1]

HeadlineFor(d, id) ==
  LET s == WorstSignalId(d, id) IN
  IF id \notin Ids(d) \/ s = NoOne THEN NoText
  ELSE <<SummaryOf(d, id).health, s>> \o Body(s, RowsOf(d, id)[s].payload)

NewestOf(events) ==
  CHOOSE e \in Range(events) : \A f \in Range(events) : f.at <= e.at

BuildEvents(d, id) ==
  SelectSeq(Lookup(d.healthEvents, id, <<>>), LAMBDA e : e.kind = "build" /\ e.build # Null)

\* A recent build and a failing error Signal: the build is suspected.
CorrelationBuild(d, now) ==
  LET recent == SelectSeq(BuildEvents(d, d.selected), LAMBDA e : now - e.at <= CorrelationWindow)
  IN  IF /\ d.selected \in Ids(d)
         /\ SummaryOf(d, d.selected).health = "degraded"
         /\ recent # <<>>
         /\ \E s \in Correlating : TroubledRow(d, d.selected, s)
      THEN NewestOf(recent).build ELSE Null

FirstProblemSignalId(d) ==
  LET ids == DegradedVotingIds(d, d.selected) IN IF ids = <<>> THEN NoOne ELSE ids[1]

DiagnosisHeadline(d, now) ==
  IF /\ d.selected \in Ids(d)
     /\ SummaryOf(d, d.selected).health \in {"degraded", "down"}
     /\ FirstProblemSignalId(d) # NoOne
  THEN [count |-> Len(DegradedVotingIds(d, d.selected)), build |-> CorrelationBuild(d, now),
        lead |-> FirstProblemSignalId(d)]
  ELSE Null

BuildAge(d) ==
  LET build == EnvironmentBuild(d, d.selected)
      same == SelectSeq(BuildEvents(d, d.selected), LAMBDA e : e.build = build)
  IN  IF build = Null \/ same = <<>> THEN Null ELSE <<build, NewestOf(same).at>>

-----------------------------------------------------------------------------
(* The attention surfaces: badge, menu bar, notifications                  *)

Attending(d, now) ==
  LET es == d.environments
  IN  Kept(es, {i \in DOMAIN es : es[i].observed # Never /\ ~IsMuted(d, es[i].id, now)})

TroubledCount(d, now) ==
  LET es == Attending(d, now)
  IN  IF ~d.connected THEN 0 ELSE Cardinality({i \in DOMAIN es : es[i].health \in {"degraded", "down"}})

\* Mutant: one Environment that waits outranks what is known of the others.
HealthRankWaiting(health) ==
  CASE health = "waiting" -> 3 [] health = "healthy" -> 0
    [] health = "degraded" -> 1 [] health = "down" -> 2

HealthRank(health) ==
  CASE health = "waiting" -> -1 [] health = "healthy" -> 0
    [] health = "degraded" -> 1 [] health = "down" -> 2

WorstHealth(d, now) ==
  LET healths == {e.health : e \in Range(Attending(d, now))} IN
  IF ~d.connected \/ healths = {} THEN Null
  ELSE CHOOSE h \in healths : \A g \in healths : HealthRank(g) <= HealthRank(h)

SidebarRow(d, e, now) ==
  [id |-> e.id, health |-> e.health, dimmed |-> ~d.connected \/ e.observed = Never,
   muted |-> IsMuted(d, e.id, now)]

Sidebar(d, now) == [i \in DOMAIN d.environments |-> SidebarRow(d, d.environments[i], now)]

\* The platforms in the order they are first seen, each with its rows.
SidebarPlatforms(d, now) ==
  LET es == d.environments
      rows(p) == Kept(es, {i \in DOMAIN es : es[i].platform = p})
      heads == Kept(es, {i \in DOMAIN es : \A j \in 1 .. i - 1 : es[j].platform # es[i].platform})
      group(p) == [id |-> p, rows |-> [j \in DOMAIN rows(p) |-> SidebarRow(d, rows(p)[j], now)]]
  IN  [i \in DOMAIN heads |-> group(heads[i].platform)]

-----------------------------------------------------------------------------
(* The Compare strip                                                       *)

DriftMismatch(p) == Get(p, "build_matches") = FALSE \/ Num(p, "mismatches") > 0

CloneSourceId(d) ==
  LET es == d.environments
      sources == Kept(es, {i \in DOMAIN es : "drift" \in DOMAIN RowsOf(d, es[i].id)
                             /\ Get(RowsOf(d, es[i].id)["drift"].payload, "role") = "source"})
  IN  IF sources = <<>> THEN NoOne ELSE sources[1].id

FirstKnownBuild(d) ==
  LET es == d.environments
      known == Kept(es, {i \in DOMAIN es : EnvironmentBuild(d, es[i].id) # Null})
  IN  IF known = <<>> THEN Null ELSE EnvironmentBuild(d, known[1].id)

\* Mutant: the first known build is the reference, whoever the source is.
ReferenceBuildFirst(d) == FirstKnownBuild(d)

ReferenceBuild(d) ==
  LET source == EnvironmentBuild(d, CloneSourceId(d))
  IN  IF source # Null THEN source ELSE FirstKnownBuild(d)

BuildDiffers(d, id) ==
  /\ EnvironmentBuild(d, id) # Null /\ ReferenceBuild(d) # Null
  /\ EnvironmentBuild(d, id) # ReferenceBuild(d)

SignalSummary(d, id, s) ==
  IF s \in DOMAIN RowsOf(d, id) THEN SummarizeValue(s, RowsOf(d, id)[s].payload) ELSE NoText

CompareRows(d) ==
  [i \in DOMAIN d.environments |->
     LET id == d.environments[i].id IN
     [id |-> id, build |-> EnvironmentBuild(d, id), mismatch |-> BuildDiffers(d, id),
      drift |-> SignalSummary(d, id, "drift"), clone |-> SignalSummary(d, id, "last_clone")]]

CompareStrip(d) ==
  IF Len(d.environments) < 2 THEN [visible |-> FALSE, mismatch |-> FALSE]
  ELSE [visible  |-> TRUE,
        mismatch |-> \E id \in Ids(d) :
          \/ BuildDiffers(d, id)
          \/ /\ id # CloneSourceId(d) /\ "drift" \in DOMAIN RowsOf(d, id)
             /\ DriftMismatch(RowsOf(d, id)["drift"].payload)]
=============================================================================
