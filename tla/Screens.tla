------------------------------- MODULE Screens -------------------------------
(***************************************************************************)
(* What a window draws: the screen of a dashboard d in a window w, the     *)
(* palette and the slots, the menus, what is announced, and the files an   *)
(* export writes.  A window has                                            *)
(*   pinned    : the Environment of a detached window, NoOne in the main   *)
(*   expanded  : if the healthy cards were asked for                       *)
(*   open      : the Signal of the Drill-in, or NoOne                      *)
(*   trend     : the window of its trend                                   *)
(*   palette, local : if the palette is open, if the daemon is our own     *)
(*   flash, exported : what the footer says instead, or Null               *)
(* Of a colour only the health it stands for is kept, or "grey".           *)
(***************************************************************************)
EXTENDS DashboardTrends

CONSTANTS
  MostSlots,   \* the Environments that have a number key
  CopiedFor, ExportedFor, FailedFor, \* how long the footer keeps a text
  LastSecond   \* the bound of the clock of a desk

-----------------------------------------------------------------------------
(* Dots: solid for a reading or for silence that was chosen, hollow for none. *)

StatusColor(status) == IF status \in {"healthy", "degraded", "down"} THEN status ELSE "grey"

Silenced(c) == c.dimmed \/ c.muted

\* Mutant: a muted card that has no reading is hollow as well.
CardDotHollow(c) ==
  [color  |-> IF Silenced(c) THEN "grey" ELSE StatusColor(c.status),
   hollow |-> c.dimmed \/ c.status \in {"Waiting", "skipped", "unknown"}]

CardDot(c) ==
  [color  |-> IF Silenced(c) THEN "grey" ELSE StatusColor(c.status),
   hollow |-> ~c.muted /\ (c.dimmed \/ c.status \in {"Waiting", "skipped", "unknown"})]

\* A chip that waits, or is unknown, has a solid dot.
ChipDot(c) ==
  [color  |-> IF Silenced(c) THEN "grey" ELSE StatusColor(c.status),
   hollow |-> ~c.muted /\ (c.dimmed \/ c.status = "skipped")]

RowDot(row) ==
  [color  |-> IF row.dimmed \/ row.muted THEN "grey" ELSE StatusColor(row.health),
   hollow |-> row.dimmed /\ ~row.muted]

-----------------------------------------------------------------------------
(* Cards: the problems, what is only information, and the healthy ones, which  *)
(* are folded away while there are problems.                                   *)

HasSelection(d) == d.selected \in Ids(d)

VotingCards(d, now) ==
  IF HasSelection(d) THEN SelectSeq(Cards(d, now), LAMBDA c : IsVotingSignal(c.id)) ELSE <<>>

ContextCards(d, now) ==
  IF HasSelection(d) THEN SelectSeq(Cards(d, now), LAMBDA c : ~IsVotingSignal(c.id)) ELSE <<>>

Unobserved(c) == c.status \in {"Waiting", "skipped", "unknown"}

ProblemCards(d, now) == SelectSeq(VotingCards(d, now), LAMBDA c : c.status \in {"degraded", "down"})

\* Mutant: what was never read counts among the healthy.
HealthyCardsUnread(d, now) ==
  SelectSeq(VotingCards(d, now), LAMBDA c : c.status \notin {"degraded", "down"})

HealthyCards(d, now) ==
  SelectSeq(VotingCards(d, now), LAMBDA c : c.status \notin {"degraded", "down"} /\ ~Unobserved(c))

HealthyOpen(d, w, now) == ProblemCards(d, now) = <<>> \/ w.expanded

\* The headline of a card and the line under it; a skipped probe has no metric.
SignalCard(d, w, c) ==
  LET summary == CardSummary(d, c.id)  skipped == c.status = "skipped" IN
  [id     |-> c.id, muted |-> c.muted, status |-> c.status, dot |-> CardDot(c),
   border |-> CASE w.open = c.id -> "selected"
                [] ~Silenced(c) /\ c.status \in {"degraded", "down"} -> c.status
                [] OTHER -> "grey",
   value  |-> CASE skipped -> CardDetail(d, c.id)
                [] c.status = "Waiting" -> NoText
                [] summary = NoText -> <<c.status>>
                [] OTHER -> summary,
   detail |-> IF skipped THEN CardHint(d, c.id) ELSE CardDetail(d, c.id),
   lines  |-> IF c.id = "drift" THEN DriftMismatchLines(d, 5).lines ELSE <<>>,
   link   |-> SignalUrl(d, c.id)]

ContextChip(d, w, c) ==
  [id |-> c.id, muted |-> c.muted, status |-> c.status, dot |-> ChipDot(c),
   border |-> IF w.open = c.id THEN "selected" ELSE "grey",
   value |-> IF c.status = "Waiting" THEN <<"waiting">>
             ELSE IF CardSummary(d, c.id) # NoText THEN CardSummary(d, c.id)
             ELSE IF CardDetail(d, c.id) # NoText THEN CardDetail(d, c.id)
             ELSE <<c.status>>]

Groups(d, w, now) ==
  LET card(cs) == [i \in DOMAIN cs |-> SignalCard(d, w, cs[i])]
      chips == ContextCards(d, now)
      unread == SelectSeq(VotingCards(d, now), LAMBDA c : Unobserved(c))
  IN  [problems |-> card(ProblemCards(d, now)),
       chips    |-> [i \in DOMAIN chips |-> ContextChip(d, w, chips[i])],
       unread   |-> card(unread),
       healthy  |-> IF HealthyOpen(d, w, now) THEN card(HealthyCards(d, now)) ELSE <<>>,
       folded   |-> IF HealthyOpen(d, w, now) THEN 0 ELSE Len(HealthyCards(d, now)),
       toggle   |-> ProblemCards(d, now) # <<>> /\ HealthyCards(d, now) # <<>>]

-----------------------------------------------------------------------------
(* The detail. *)

\* Stale colours would contradict a lost connection: they are not drawn.
Header(d, now) ==
  LET e == SummaryOf(d, d.selected)
      observed == d.connected /\ e.observed # Never
  IN  [color |-> IF observed THEN StatusColor(e.health) ELSE "grey",
       tag   |-> IF observed THEN e.health ELSE Null,
       fresh |-> Freshness(e.observed, now, e.cadence),
       build |-> BuildAge(d)]

HeadlineBlock(d, now) ==
  LET h == DiagnosisHeadline(d, now) IN
  IF h = Null THEN Null
  ELSE [says |-> IF SummaryOf(d, d.selected).health = "down" THEN "Down" ELSE "Degraded",
        affected |-> h.count, lead |-> h.lead, build |-> h.build]

\* Investigate opens the first problem; then the mute, or its end; then Edit.
HeaderActions(d, now) ==
  [investigate |-> FirstProblemSignalId(d),
   mute |-> IF IsMuted(d, d.selected, now) THEN "unmute" ELSE "mute"]

PollSparkline(d) == SparklineWithGaps(Lookup(d.samples, <<d.selected, Availability>>, <<>>))

\* Nothing at all without events and without a line.
RecentBlock(d) ==
  LET times == {e.at : e \in Range(Lookup(d.healthEvents, d.selected, <<>>))
                              \union Range(Lookup(d.signalEvents, d.selected, <<>>))}
      rows == Timeline(d, 20, times)
      line == IF IsVotingSignal(Availability) /\ Availability \in Range(SignalIdsFor(PlatformOf(d, d.selected)))
              THEN PollSparkline(d) ELSE <<>>
      drawn == SelectSeq(line, LAMBDA v : v # Null)
  IN  IF rows = <<>> /\ drawn = <<>> THEN Null
      ELSE [rows |-> rows, line |-> IF drawn = <<>> THEN Null ELSE line]

\* The switch is there only while a trend is drawn.
TrendSwitch(d, w, now) ==
  LET content == DrillIn(d, w.open, w.trend, now) IN
  IF w.open \in Trending /\ "trend" \in DOMAIN content
  THEN [active |-> w.trend, delta |-> WeekOverWeek(d, w.open, now)] ELSE Null

\* Its dot is the Signal's own, muted or not, and grey when disconnected.
DrillInRegion(d, w, now) ==
  LET card == SelectSeq(Cards(d, now), LAMBDA c : c.id = w.open)
      content == DrillIn(d, w.open, w.trend, now)
  IN  IF w.open = NoOne THEN Null
      ELSE [color   |-> IF d.connected /\ card # <<>> THEN StatusColor(card[1].status) ELSE "grey",
            link    |-> SignalUrl(d, w.open),
            switch  |-> TrendSwitch(d, w, now),
            content |-> content,
            anomaly |-> "trend" \in DOMAIN content /\ Anomaly(d, w.open, now)]

\* Only the main window compares; a row leads to the drift of its Environment.
CompareRowsShown(d, w) ==
  IF w.pinned # NoOne \/ ~CompareStrip(d).visible THEN [rows |-> <<>>, warning |-> FALSE]
  ELSE [rows |-> CompareRows(d), warning |-> CompareStrip(d).mismatch]

Removed(d, w) == w.pinned # NoOne /\ w.pinned \notin Ids(d)

\* Mutant: a detached window shows what is selected, whatever it is.
DetailFollowing(d, w, now) ==
  IF ~HasSelection(d)
  THEN [kind |-> IF d.connected /\ d.environments = <<>> THEN "nothing configured" ELSE "nothing selected"]
  ELSE [kind |-> "detail", of |-> d.selected, header |-> Header(d, now),
        headline |-> HeadlineBlock(d, now), actions |-> HeaderActions(d, now),
        groups |-> Groups(d, w, now), recent |-> RecentBlock(d),
        drill |-> DrillInRegion(d, w, now), compare |-> CompareRowsShown(d, w)]

Detail(d, w, now) ==
  CASE Removed(d, w)    -> [kind |-> "removed"]
    [] ~HasSelection(d) ->
         [kind |-> IF d.connected /\ d.environments = <<>> THEN "nothing configured" ELSE "nothing selected"]
    [] OTHER ->
         [kind |-> "detail", of |-> d.selected, header |-> Header(d, now),
          headline |-> HeadlineBlock(d, now), actions |-> HeaderActions(d, now),
          groups |-> Groups(d, w, now), recent |-> RecentBlock(d),
          drill |-> DrillInRegion(d, w, now), compare |-> CompareRowsShown(d, w)]

Title(d, w) ==
  CASE w.pinned # NoOne -> w.pinned [] HasSelection(d) -> d.selected [] OTHER -> "daku"

-----------------------------------------------------------------------------
(* The palette: what it lists, what of it a query leaves, what an entry does. *)

Entry(command, of) == [command |-> command, of |-> of]

EntriesFor(d) ==
  [i \in DOMAIN d.environments |-> Entry("switch", d.environments[i].id)]
  \o (IF d.selected = NoOne THEN <<>>
      ELSE <<Entry("open-snow", d.selected), Entry("mute-24h", d.selected), Entry("unmute", d.selected)>>)
  \o <<Entry("reload", NoOne), Entry("copy", d.selected), Entry("add-env", NoOne),
       Entry("toggle-notifications", NoOne), Entry("toggle-digest", NoOne)>>

\* matching are the entries that contain the query, Null for a blank one.
FilterEntries(entries, matching) ==
  IF matching = Null THEN entries ELSE SelectSeq(entries, LAMBDA e : e \in matching)

\* The palette is drawn inside the detail.
PaletteOverlay(d, w, matching) ==
  IF w.palette /\ ~Removed(d, w) /\ HasSelection(d) THEN FilterEntries(EntriesFor(d), matching) ELSE Null

\* Select of the window, and of the actions that lead somewhere.
SelectEnvironment(d, w, id) ==
  IF w.pinned \notin {NoOne, id} \/ id \notin Ids(d) THEN NoOne ELSE id

\* Mutant: the mutes are of the Environment the window is pinned to.
RunPaletteCommandPinned(d, w, command, of) ==
  CASE command \in {"mute-24h", "unmute"} -> IF w.pinned = NoOne THEN Null ELSE Entry(command, w.pinned)
    [] OTHER -> Entry(command, of)

\* What it changes and of which Environment; Null if it does nothing.
RunPaletteCommand(d, w, command, of) ==
  LET selected == IF d.selected = NoOne THEN Null ELSE Entry(command, d.selected) IN
  CASE command = "switch" ->
         IF SelectEnvironment(d, w, of) = NoOne THEN Null ELSE Entry(command, of)
    [] command = "reload" -> IF w.local THEN Entry(command, NoOne) ELSE Null
    [] command = "open-snow" -> IF Linked(d) THEN selected ELSE Null
    [] command \in {"copy", "copy-context"} -> Entry(command, d.selected)
    [] command \in {"export", "mute-1h", "mute-4h", "mute-24h", "unmute"} -> selected
    [] OTHER -> Entry(command, NoOne)   \* the switches, and the new sheet

\* Enter runs the first entry that is left, and closes the palette.
EnterPalette(d, w, matching) ==
  LET left == FilterEntries(EntriesFor(d), matching) IN
  IF left = <<>> THEN [open |-> TRUE, done |-> Null]
  ELSE [open |-> FALSE, done |-> RunPaletteCommand(d, w, left[1].command, left[1].of)]

-----------------------------------------------------------------------------
(* The sidebar, its slots, and the footer. *)

SidebarMenuItem(d, row, place) ==
  [id |-> row.id, slot |-> IF place <= MostSlots THEN place ELSE Null, active |-> row.id = d.selected,
   muted |-> row.muted, dimmed |-> row.dimmed, health |-> row.health, dot |-> RowDot(row)]

\* The rows of the platforms, numbered through; the footer is part of it.
RenderSidebar(d, now) ==
  LET groups == SidebarPlatforms(d, now)
      rows == FlattenSeq([i \in DOMAIN groups |-> groups[i].rows])
  IN  [header |-> IF WorstHealth(d, now) = Null THEN "grey" ELSE StatusColor(WorstHealth(d, now)),
       rows   |-> [i \in DOMAIN rows |-> SidebarMenuItem(d, rows[i], i)]]

FooterShown(d, w) ==
  CASE w.flash # Null    -> <<"flash", w.flash>>
    [] w.exported # Null -> <<"exported", w.exported>>
    [] OTHER             -> <<IF d.connected THEN "connected" ELSE "disconnected">>

Screen(d, w, now) ==
  [title   |-> Title(d, w),
   banner  |-> ~d.connected,
   sidebar |-> IF w.pinned = NoOne THEN RenderSidebar(d, now) ELSE Null,
   footer  |-> IF w.pinned = NoOne THEN FooterShown(d, w) ELSE Null,
   detail  |-> Detail(d, w, now)]

\* A key counts along the flat list, not along the platforms.
SelectSlot(d, w, slot, now) ==
  IF w.pinned # NoOne \/ slot > Len(Sidebar(d, now)) THEN NoOne
  ELSE SelectEnvironment(d, w, Sidebar(d, now)[slot].id)

\* reflect_ambient_health: the dot of the menu bar, the badge of the Dock.
ReflectAmbientHealth(d, now) ==
  LET worst == WorstHealth(d, now)  troubled == TroubledCount(d, now) IN
  [dot   |-> IF ~d.connected \/ worst = Null THEN "grey" ELSE StatusColor(worst),
   badge |-> IF d.connected /\ troubled > 0 THEN troubled ELSE Null]

-----------------------------------------------------------------------------
(* What is announced.  A gate has                                            *)
(*   master, muted, allowed : the switches, and the one of the first cause   *)
(*   quiet  : [start, end] in hours, or Null;   hour : of now                *)

\* Mutant: a window over midnight is empty.
ContainsHourPlain(quiet, hour) == quiet.start <= hour /\ hour < quiet.end

\* A window may pass midnight; one with an hour that is none is no window.
ContainsHour(quiet, hour) ==
  /\ quiet.start <= 23 /\ quiet.end <= 23
  /\ IF quiet.start <= quiet.end THEN quiet.start <= hour /\ hour < quiet.end
     ELSE quiet.start <= hour \/ hour < quiet.end

GateAllows(gate) ==
  /\ gate.master /\ ~gate.muted /\ gate.allowed
  /\ gate.quiet = Null \/ ~ContainsHour(gate.quiet, gate.hour)

ShouldNotify(event, gate, boot, seen) ==
  event.kind = "health" /\ event.at >= boot /\ [at |-> event.at, kind |-> event.kind] \notin seen
  /\ GateAllows(gate)

\* The news of a batch, and the last of them that may be announced.
SelectNotification(events, boot, seen) ==
  LET key(e) == [at |-> e.at, kind |-> e.kind]
      fresh == SelectSeq(events, LAMBDA e : key(e) \notin seen)
      health == SelectSeq(fresh, LAMBDA e : e.kind = "health" /\ e.at >= boot)
  IN  [record |-> {key(e) : e \in Range(fresh)},
       fire   |-> IF health = <<>> THEN Null ELSE health[Len(health)]]

\* The body names the health there is now and the first three causes.
NotificationBodyGrouped(d, id) ==
  LET lines == HealthExplainFor(d, id) IN
  [word |-> SummaryOf(d, id).health, lines |-> SubSeq(lines, 1, IF Len(lines) > 3 THEN 3 ELSE Len(lines)),
   back |-> lines = <<>>]

\* The checks of the menu: of Quiet Hours Off, and of 22 to 7.
SetAppMenus(quiet) ==
  [off |-> quiet = Null, night |-> quiet # Null /\ quiet = [start |-> 22, end |-> 7]]

-----------------------------------------------------------------------------
(* Exports and the footer.  The result is the directories by the second they *)
(* are of, the texts of the footer and the timers that clear them.           *)

Files == <<"snapshots.json", "trends.csv", "summary.md">>

Desk ==
  [now |-> 1, dirs |-> [t \in 1 .. LastSecond |-> {}], flash |-> Null, exported |-> Null, timers |-> {},
   failed |-> {}, torn |-> {}]

Timed(desk, text, secs) == [text |-> text, at |-> desk.now + secs, from |-> desk.now]

\* The files that were written when the next one failed.
Written(n) == {Files[i] : i \in 1 .. n}

Flash(desk, text, secs) ==
  [desk EXCEPT !.flash = [text |-> text, from |-> desk.now],
               !.timers = @ \union {Timed(desk, "flash", secs)}]

Exported(desk) ==
  [desk EXCEPT !.dirs[desk.now] = Written(3), !.exported = desk.now,
               !.timers = @ \union {Timed(desk, "exported", ExportedFor)}]

\* Mutant: what was written before the failure stays.
ExportFailsKeeping(desk, n, removed) ==
  Flash([desk EXCEPT !.dirs[desk.now] = @ \union Written(n), !.failed = @ \union {desk.now}], "failed", FailedFor)

\* The directory of this second goes with all that is in it, if it can.
ExportFails(desk, n, removed) ==
  Flash([desk EXCEPT !.dirs[desk.now] = IF removed THEN {} ELSE @ \union Written(n),
                     !.failed = @ \union {desk.now},
                     !.torn = IF removed THEN @ ELSE @ \union {desk.now}], "failed", FailedFor)

\* The desktop ends while it exports, and is started again.
ExportDies(desk, n) ==
  [desk EXCEPT !.dirs[desk.now] = @ \union Written(n), !.torn = @ \union {desk.now},
               !.flash = Null, !.exported = Null, !.timers = {}]

\* A timer clears the text there is, whichever it was set for.
TimerFires(desk, timer) ==
  [desk EXCEPT !.timers = @ \ {timer},
               !.flash = IF timer.text = "flash" THEN Null ELSE @,
               !.exported = IF timer.text = "exported" THEN Null ELSE @]
=============================================================================
