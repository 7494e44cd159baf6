----------------------------- MODULE ScreenRules -----------------------------
(***************************************************************************)
(* The sheet and the windows, judged.                                      *)
(***************************************************************************)
EXTENDS SheetForm, Screens, Judged

SaveSheet ==
  Judge("sheet",
    LET problems == Problems(input.sheet, input.list)
        sent     == ValidateSheet(input.sheet, input.list)
        view     == [a \in BOOLEAN |-> EnvSheetView(input.sheet, input.list, a)]
    IN  IF problems # {} THEN [problems |-> problems, view |-> view, sent |-> Unset, list |-> input.list]
        ELSE [problems |-> {}, view |-> view, sent |-> sent,
              list |-> IF DaemonAccepts(sent.config, sent.blob)
                       THEN Loaded(Upserted(input.list, sent.config)) ELSE input.list])

NameSheet == Judge("label", DeriveIdFromLabel(input.label))

ShowWindow ==
  Judge("window",
    LET d == input.d  w == input.window
        entries == PaletteOverlay(d, w, input.matching)
    IN  [screen  |-> Screen(d, w, input.now),
         ambient |-> ReflectAmbientHealth(d, input.now),
         slots   |-> [k \in 1 .. MostSlots |-> SelectSlot(d, w, k, input.now)],
         entries |-> entries,
         effects |-> IF entries = Null THEN <<>>
                     ELSE [i \in DOMAIN entries |->
                             RunPaletteCommand(d, w, entries[i].command, entries[i].of)],
         enter   |-> EnterPalette(d, w, input.matching),
         bodies  |-> [id \in Ids(d) |-> NotificationBodyGrouped(d, id)]])

Announce ==
  Judge("notice",
    LET chosen == SelectNotification(input.events, input.boot, input.seen) IN
    [chosen |-> chosen,
     posted |-> chosen.fire # Null /\ ShouldNotify(chosen.fire, input.gate, input.boot, {}),
     again  |-> SelectNotification(input.events, input.boot, input.seen \union chosen.record).fire,
     hushed |-> {h \in 0 .. 23 : ~GateAllows([input.gate EXCEPT !.hour = h])},
     checks |-> SetAppMenus(input.gate.quiet)])

Desks(step) == Judged("desk") /\ result' = step /\ UNCHANGED input

UseDesk ==
  \/ Judge("desk", Desk)
  \/ Judged("desk") /\ result.now < LastSecond /\ Desks([result EXCEPT !.now = @ + 1])
  \/ Desks(Flash(result, "copied", CopiedFor))
  \/ Desks(Exported(result))
  \/ \E n \in 0 .. 2 :
       \/ \E removed \in BOOLEAN : Desks(ExportFails(result, n, removed))
       \/ Desks(ExportDies(result, n))
  \/ Judged("desk") /\ \E t \in result.timers : t.at <= result.now /\ Desks(TimerFires(result, t))

-----------------------------------------------------------------------------
Stored == input.list[CHOOSE i \in DOMAIN input.list : input.list[i].id = input.sheet.editing]

\* What the sheet cannot show: a count that is off but not by default comes
\* back as the default, a missing ceiling of Availability as 5000 ms, and an
\* ms-ceiling that is off as none.
Reshaped(f, n) ==
  CASE f \in DOMAIN CountDefaults /\ n = U64Max -> CountDefaults[f]
    [] f = "rtt" /\ n = Unset -> 5000
    [] f \in {"txn", "probe_rtt"} /\ n = U64Max -> Unset
    [] OTHER -> n

\* An edit that touches nothing sends what is stored, but for the values the
\* sheet cannot show, and never a credential (EnvSheet::edit, validate_sheet).
UntouchedEditsAreKept ==
  Judged("sheet") /\ ~input.touched /\ result.problems = {} =>
    LET c == result.sent.config IN
    /\ c.thresholds = [f \in DOMAIN ThresholdDefaults |-> Reshaped(f, Stored.thresholds[f])]
    /\ "p,q" \notin ToSet(Stored.drift) => ToSet(c.drift) = ToSet(Stored.drift)
    /\ [c EXCEPT !.thresholds = 0, !.drift = 0] = [Stored EXCEPT !.thresholds = 0, !.drift = 0]
    /\ result.sent.blob = Unset

\* What the sheet lets pass the daemon does not refuse; the list keeps one
\* entry of an id, a new Environment has one of its own and stands last if no
\* stored order is above the length of the list; a number that was typed is
\* saved, and of a credential both halves or none (validate_sheet, save_environment).
SheetAndDaemonAgree ==
  Judged("sheet") /\ result.problems = {} =>
    LET c == result.sent.config
        fresh == input.sheet.editing = Unset
        pair  == input.sheet.secrets
    IN  /\ DaemonAccepts(c, result.sent.blob)
        /\ \A i, j \in DOMAIN result.list : i # j => result.list[i].id # result.list[j].id
        /\ fresh => Len(result.list) = Len(input.list) + 1
        /\ fresh /\ (\A i \in DOMAIN input.list : input.list[i].sortOrder <= Len(input.list)) =>
             result.list[Len(result.list)] = c
        /\ ~fresh => Len(result.list) = Len(input.list)
        /\ \A f \in DOMAIN ThresholdDefaults :
             input.sheet.thresholds[f].is = "number" => c.thresholds[f] = input.sheet.thresholds[f].number
        /\ result.sent.blob = Unset <=> {pair[1], pair[2]} \subseteq {"", " "}
        /\ result.sent.blob # Unset => {pair[1], pair[2]} \intersect {"", " "} = {}

\* The hint that Save will overwrite an Environment is shown exactly when Save
\* is refused for its id; the values called effective are those that are sent,
\* and none are while the thresholds are refused; the part that is folded away
\* hides a problem only if it was opened and typed in before, or if the stored
\* ids of the drift cannot be read back (env_sheet_view, validate_sheet).
SheetShowsWhatItSends ==
  Judged("sheet") =>
    LET open == result.view[TRUE]  folded == result.view[FALSE] IN
    /\ open.hint <=> "id" \in result.problems
    /\ folded.hint = open.hint
    /\ open.effective = <<>> <=> "thresholds" \in result.problems
    /\ result.problems = {} => open.effective = <<result.sent.config.thresholds>>
    /\ ~input.touched => result.problems \subseteq {"drift"}
    /\ folded.rows \subseteq open.rows /\ folded.fields \subseteq open.fields

\* An id made of a label is an id, unless it is too long; it has no two dashes
\* together and none at an end, and makes itself (derive_id_from_label).
DerivedIdsAreIds ==
  Judged("label") =>
    /\ Len(result) <= IdLimit => ~EnvironmentIdError(result)
    /\ result[1] # "-" /\ result[Len(result)] # "-"
    /\ \A i \in 1 .. Len(result) - 1 : ~(result[i] = "-" /\ result[i + 1] = "-")
    /\ DeriveIdFromLabel(result) = result

-----------------------------------------------------------------------------
ShownCards ==
  LET g == result.screen.detail.groups IN g.problems \o g.chips \o g.unread \o g.healthy

Detailed == Judged("window") /\ result.screen.detail.kind = "detail"

\* Every card of the platform stands in one group, only healthy ones are folded
\* away, and then there is the toggle that brings them back; what is called a
\* cause of the trouble, and what Investigate leads to, is never folded
\* (render, first_problem_signal_id).
EveryCardHasItsPlace ==
  Detailed =>
    LET detail == result.screen.detail
        g == detail.groups
        ids == [i \in DOMAIN ShownCards |-> ShownCards[i].id]
        causes == Range(DegradedVotingIds(input.d, detail.of))
    IN  /\ Cardinality(Range(ids)) = Len(ids)
        /\ Len(ids) + g.folded = Len(SignalIdsFor(PlatformOf(input.d, detail.of)))
        /\ g.folded > 0 => g.toggle /\ g.problems # <<>> /\ ~input.window.expanded
        /\ causes \subseteq Range(ids)
        /\ causes \ {"mid_ecc"} \subseteq {c.id : c \in Range(g.problems)}
        /\ \A c \in Range(g.healthy) : c.status = "healthy"
        /\ detail.actions.investigate \in causes \union {NoOne}
        /\ detail.headline # Null => detail.headline.affected = Cardinality(causes)

\* Silence that was chosen is a solid grey dot and takes the colour off, a
\* missing reading is a hollow one, and over a lost connection nothing has a
\* colour.  A chip that waits or is unknown has a solid one all the same, and
\* the Drill-in keeps the colour of a muted card (signal_card, context_chip,
\* sidebar_menu_item, drill_in_region).
SilenceIsNotBlindness ==
  Judged("window") =>
    LET s == result.screen
        grey(hollow) == [color |-> "grey", hollow |-> hollow]
    IN  /\ Detailed => \A c \in Range(ShownCards) :
             /\ c.muted => c.dot = grey(FALSE) /\ c.border \notin {"degraded", "down"}
             /\ ~c.muted /\ ~input.d.connected => c.dot = grey(TRUE)
             /\ ~c.muted /\ c.dot.color = "grey" /\ ~c.dot.hollow =>
                  ~IsVotingSignal(c.id) /\ c.status \in {"Waiting", "unknown"}
             /\ c.dot.hollow => c.dot.color = "grey"
        /\ s.sidebar # Null => \A r \in Range(s.sidebar.rows) :
             /\ r.muted => r.dot = grey(FALSE)
             /\ ~r.muted => (r.dot.hollow <=> r.dimmed)
        /\ ~input.d.connected =>
             /\ s.banner /\ result.ambient = [dot |-> "grey", badge |-> Null]
             /\ Detailed => s.detail.header.color = "grey" /\ s.detail.header.tag = Null
             /\ Detailed /\ s.detail.drill # Null => s.detail.drill.color = "grey"
             /\ s.sidebar # Null => s.sidebar.header = "grey"
        /\ result.ambient.badge # Null => result.ambient.dot \in {"degraded", "down"}

PlatformsStandTogether(es) ==
  \A i, j, k \in DOMAIN es : i < j /\ j < k /\ es[i].platform = es[k].platform => es[j].platform = es[i].platform

\* A number in the sidebar is the key that selects its row, as long as the
\* Environments of a platform stand together; a detached window has neither,
\* shows its own Environment, and nothing of another when that is removed
\* (render_sidebar, select_slot, render).
KeysAndWindowsStandFirm ==
  Judged("window") =>
    LET s == result.screen  w == input.window IN
    /\ s.sidebar # Null =>
         /\ Len(s.sidebar.rows) = Len(input.d.environments)
         /\ PlatformsStandTogether(input.d.environments) =>
              \A r \in Range(s.sidebar.rows) : r.slot # Null => result.slots[r.slot] = r.id
    /\ w.pinned # NoOne =>
         /\ s.title = w.pinned /\ s.sidebar = Null
         /\ \A k \in DOMAIN result.slots : result.slots[k] = NoOne
         /\ w.pinned \in Ids(input.d) \/ (s.detail.kind = "removed" /\ result.entries = Null)
         /\ Detailed => s.detail.of = w.pinned

\* An entry of the palette acts on what it names or not at all, and that only
\* for another Environment in a detached window, for a daemon that is not ours,
\* and for an address that may not be opened; Enter does what the first entry
\* does (palette_matches, run_palette_entry).
PaletteActsAsItSays ==
  Judged("window") /\ result.entries # Null =>
    LET es == result.entries IN
    /\ \A i \in DOMAIN es :
         \/ result.effects[i] = es[i]
         \/ /\ result.effects[i] = Null
            /\ \/ es[i].command = "switch" /\ input.window.pinned \notin {NoOne, es[i].of}
               \/ es[i].command = "reload" /\ ~input.window.local
               \/ es[i].command = "open-snow" /\ ~Linked(input.d)
    /\ es # <<>> => result.enter = [open |-> FALSE, done |-> result.effects[1]]

\* The word of a notification and its lines agree: it tells of a way back only
\* for an Environment without a cause, which a degraded one never is.
BodiesNameCauses ==
  Judged("window") =>
    \A e \in Range(input.d.environments) :
      LET b == result.bodies[e.id] IN
      /\ b.word = "degraded" \/ b.word = "down" => ~b.back
      /\ Len(b.lines) <= 3

\* A batch is announced exactly if one of its events may be, it is the last
\* of those, and never a second time.  Quiet Hours Off is checked only when no
\* hour is quiet, 22 to 7 exactly when those are, and no hours keep a whole day
\* quiet (select_notification, should_notify, set_app_menus_with_prefs).
NoticesAgree ==
  Judged("notice") =>
    LET loud == {i \in DOMAIN input.events :
                   ShouldNotify(input.events[i], input.gate, input.boot, input.seen)}
        on == input.gate.master /\ ~input.gate.muted /\ input.gate.allowed
    IN  /\ result.posted <=> loud # {}
        /\ result.posted => \E i \in loud : result.chosen.fire = input.events[i] /\ \A j \in loud : j <= i
        /\ result.again = Null
        /\ on =>
             /\ result.checks.off => result.hushed = {}
             /\ result.checks.night => result.hushed = 0 .. 6 \union {22, 23}
             /\ result.hushed # 0 .. 23

\* The directory of a second has the whole export or nothing, but after a
\* failure that could not be cleaned up or an end of the desktop; the footer
\* names a whole one unless another export of its second failed; and every
\* text in the footer has its own timer waiting (export_snapshot, flash).
ExportsAreWhole ==
  Judged("desk") =>
    /\ \A t \in DOMAIN result.dirs : result.dirs[t] \in {{}, Written(3)} \/ t \in result.torn
    /\ result.exported # Null =>
         /\ result.dirs[result.exported] = Written(3) \/ result.exported \in result.failed
         /\ \E t \in result.timers : t.text = "exported" /\ t.from = result.exported
    /\ result.flash # Null =>
         \E t \in result.timers : t.text = "flash" /\ t.from = result.flash.from

ScreenJudges == SaveSheet \/ NameSheet \/ ShowWindow \/ Announce \/ UseDesk

ScreensAreExact ==
  /\ UntouchedEditsAreKept /\ SheetAndDaemonAgree /\ SheetShowsWhatItSends /\ DerivedIdsAreIds
  /\ EveryCardHasItsPlace /\ SilenceIsNotBlindness /\ KeysAndWindowsStandFirm
  /\ PaletteActsAsItSays /\ BodiesNameCauses /\ NoticesAgree /\ ExportsAreWhole
=============================================================================
