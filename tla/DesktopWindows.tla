--------------------------- MODULE DesktopWindows ---------------------------
(***************************************************************************)
(* The windows of the desktop: the main one and one detached for a single  *)
(* Environment, each reading its own copy of what the daemon publishes,    *)
(* over one set of desktop settings.  The main window posts notifications  *)
(* and the weekly digest; both paint the menu bar and the Dock badge.  The *)
(* sheet of the main window changes the list of Environments, for which    *)
(* the daemon is restarted.                                                *)
(*                                                                         *)
(* An event is the number of its transition.  The reads of a window are    *)
(* what apply keeps of a message; the cards are Dashboard's.               *)
(***************************************************************************)
EXTENDS Naturals, Sequences, SequencesExt, FiniteSets, FiniteSetsExt, Functions

CONSTANTS
  MaxIds,         \* the Environments there may be are 1 .. MaxIds, in sidebar order
  Pinned,         \* the one whose window is detached
  PublishLimit,   \* the events published of an Environment
  SeenCap,        \* NOTIFY_SEEN_CAP
  Backlog,        \* the messages a window may not have read when the next publish comes
  Able,           \* what the Operator does in the run
  MaxEvents, MaxClicks, MaxBoots, MaxCuts, MaxWeeks,   \* its bounds
  None

ASSUME DesktopAssumption ==
  /\ MaxIds \in Nat /\ Pinned \in 1 .. MaxIds
  /\ PublishLimit \in Nat \ {0} /\ SeenCap \in Nat /\ Backlog \in Nat
  /\ Able \subseteq {"select", "mute", "toggle", "detach", "sheet"}
  /\ MaxEvents \in Nat

Ids == 1 .. MaxIds
Windows == {"main", "detached"}
Settings == [master : BOOLEAN, mutes : SUBSET Ids, digest : BOOLEAN, sent : Nat]
Kinds == {"test", "save", "delete"}
Requests == [kind : Kinds, id : Ids, number : Nat]
Sheets == [busy : BOOLEAN, editing : Ids \union {None}, armed : BOOLEAN]

VARIABLES
  stored,      \* the Environments in environments.json
  served,      \* those the daemon that runs has read
  bad,         \* those that are degraded or down
  log,         \* log[i]: the transitions of i, oldest first
  cache,       \* what the daemon has published, which it replays
  queue,       \* queue[w]: the messages on their way to a window; None: it is closed
  view,        \* view[w]: its DashboardState
  seen,        \* notify_seen of the main window
  boot,        \* its boot_now
  settings,    \* the desktop settings all windows share
  disk,        \* app.json
  painted,     \* the menu bar and the badge
  sheet,       \* the sheet of the main window, or None
  pending,     \* the requests of sheets that have not been answered
  week,        \* the week, and whether its digest slot is open
  clicks, boots, cuts,
  posted,      \* history: what was posted since the boot
  again,       \* history: what was posted when it or a newer one had been
  left,        \* history: the Environments the window has seen leave the list
  hushed,      \* history: those whose transition a gate kept quiet
  digests,     \* history: the weeks a digest was sent in, newest last
  lost,        \* history: a write of app.json has failed
  stray        \* history: a window was closed that had painted something else

daemon  == <<stored, served, bad, log, cache>>
shared  == <<settings, disk, lost>>
main    == <<seen, boot, posted, again, left, hushed, digests>>
dialog  == <<sheet, pending>>
bounds  == <<clicks, boots, cuts>>
screen  == <<painted, stray>>
vars == <<daemon, queue, view, main, shared, screen, dialog, week, bounds>>

Blank == [connected |-> FALSE, list |-> {}, bad |-> {}, selected |-> None,
          mutes |-> {}, painted |-> None, dirty |-> TRUE]

Views == [connected : BOOLEAN, list : SUBSET Ids, bad : SUBSET Ids, selected : Ids \union {None},
          mutes : SUBSET Ids, painted : (BOOLEAN \X Nat) \union {None}, dirty : BOOLEAN]

Events == SUBSET (1 .. MaxEvents)

Messages == [kind : {"lost", "client"}]
            \union [kind : {"list"}, list : SUBSET Ids, bad : SUBSET Ids]
            \union [kind : {"events"}, id : Ids, events : Events]

Caches == UNION {[list : {ids}, bad : SUBSET ids, events : [ids -> Events]] : ids \in SUBSET Ids}

ASSUME NoneAssumption ==
  None \notin Ids /\ None \notin Sheets /\ None \notin Caches /\ None \notin Seq(Messages)

TypeOK ==
  /\ stored \subseteq Ids /\ served \subseteq Ids /\ bad \subseteq Ids
  /\ log \in [Ids -> Events] /\ cache \in Caches \union {None}
  /\ queue \in [Windows -> Seq(Messages) \union {None}] /\ view \in [Windows -> Views]
  /\ settings \in Settings /\ disk \in Settings /\ lost \in BOOLEAN
  /\ sheet \in Sheets \union {None} /\ pending \subseteq Requests /\ clicks \in Nat
  /\ seen \subseteq Ids \X (1 .. MaxEvents) /\ Cardinality(seen) <= SeenCap
  /\ boot \in Nat /\ posted \subseteq Ids \X (1 .. MaxEvents) /\ again \subseteq posted
  /\ left \subseteq Ids
  /\ week \in [number : Nat, slot : BOOLEAN] /\ digests \in Seq(Nat)

Init ==
  /\ stored = Ids /\ served = Ids /\ bad = {}
  /\ log = [i \in Ids |-> {}] /\ cache = None
  /\ queue = [w \in Windows |-> IF w = "main" THEN <<[kind |-> "client"]>> ELSE None]
  /\ view = [w \in Windows |-> Blank]
  /\ seen = {} /\ boot = 1
  /\ settings = [master |-> TRUE, mutes |-> {}, digest |-> TRUE, sent |-> 0]
  /\ disk = settings /\ painted = None
  /\ sheet = None /\ pending = {}
  /\ week = [number |-> 1, slot |-> FALSE]
  /\ clicks = 0 /\ boots = 0 /\ cuts = 0
  /\ posted = {} /\ again = {} /\ left = {} /\ hushed = {} /\ digests = <<>> /\ lost = FALSE /\ stray = FALSE

-----------------------------------------------------------------------------
(* The daemon: a transition is in the log before the next publish shows it. *)

Count == Cardinality(UNION {log[i] : i \in Ids})

Transition(i) ==
  /\ i \in served /\ Count < MaxEvents
  /\ bad' = IF i \in bad THEN bad \ {i} ELSE bad \union {i}
  /\ log' = [log EXCEPT ![i] = @ \union {Count + 1}]
  /\ UNCHANGED <<stored, served, cache, queue, view, main, shared, screen, dialog, week, bounds>>

Newest(events) ==
  {e \in events : Cardinality({f \in events : f > e}) < PublishLimit}

\* The messages of one publish, in the order they are sent: the list, then
\* Environment by Environment.
Published(c) ==
  <<[kind |-> "list", list |-> c.list, bad |-> c.bad]>>
    \o LET ids == SetToSeq(c.list)
       IN  [n \in DOMAIN ids |-> [kind |-> "events", id |-> ids[n], events |-> c.events[ids[n]]]]

Sent(messages) ==
  queue' = [w \in Windows |-> IF queue[w] = None THEN None ELSE queue[w] \o messages]

Publish ==
  /\ \A w \in Windows : queue[w] # None => Len(queue[w]) <= Backlog
  /\ LET now == [list |-> served, bad |-> bad \intersect served,
                 events |-> [i \in served |-> Newest(log[i])]]
     IN  cache' = now /\ Sent(Published(now))
  /\ UNCHANGED <<stored, served, bad, log, view, main, shared, screen, dialog, week, bounds>>

\* A connection that is lost and found again replays what was published.
Replay == <<[kind |-> "client"]>> \o IF cache = None THEN <<>> ELSE Published(cache)

Cut ==
  /\ cuts < MaxCuts /\ cuts' = cuts + 1
  /\ Sent(<<[kind |-> "lost"]>> \o Replay)
  /\ UNCHANGED <<daemon, view, main, shared, screen, dialog, week, clicks, boots>>

-----------------------------------------------------------------------------
(* A window takes a message. *)

Selects(v, i) == IF i \in v.list THEN [v EXCEPT !.selected = i] ELSE v

\* apply: a selection that left the list goes to the first Environment of it.
Apply(v, m) ==
  CASE m.kind = "lost"   -> [v EXCEPT !.connected = FALSE]
    [] m.kind = "client" -> [v EXCEPT !.connected = TRUE]
    [] m.kind = "events" -> v
    [] m.kind = "list"   ->
         [v EXCEPT !.list = m.list, !.bad = m.bad,
            !.selected = IF @ \in m.list THEN @
                         ELSE IF m.list = {} THEN None ELSE Min(m.list)]

\* Mutant: the detached window is left where apply put it.
ReceivedLoosely(w, m) == [Apply(view[w], m) EXCEPT !.dirty = TRUE]

\* The detached window selects its own Environment again after every message.
Received(w, m) ==
  LET v == [Apply(view[w], m) EXCEPT !.dirty = TRUE] IN
  IF w = "detached" /\ m.kind \in {"list", "events"} THEN Selects(v, Pinned) ELSE v

\* Mutant: the first new transition of the batch is posted.
SelectNotificationFirst(i, events) ==
  LET fresh == {e \in events : <<i, e>> \notin seen /\ e >= boot}
  IN  IF fresh = {} THEN None ELSE Min(fresh)

\* The latest transition of the batch that is new and not of before the boot.
SelectNotification(i, events) ==
  LET fresh == {e \in events : <<i, e>> \notin seen /\ e >= boot}
  IN  IF fresh = {} THEN None ELSE Max(fresh)

\* Mutant: only what was posted is remembered.
RememberPosted(i, events) ==
  LET e == SelectNotification(i, events)
  IN  IF e = None THEN seen ELSE seen \union {<<i, e>>}

\* Mutant: past the cap the oldest are kept.
RememberOldest(i, events) ==
  LET known == {k \in seen \union {<<i, e>> : e \in events} : k[1] \in view["main"].list}
  IN  {k \in known : Cardinality({q \in known : q[2] < k[2]}) < SeenCap}

\* All of it is remembered, of the Environments there are, the newest SeenCap.
Remember(i, events) ==
  LET known == {k \in seen \union {<<i, e>> : e \in events} : k[1] \in view["main"].list}
  IN  {k \in known : Cardinality({q \in known : q[2] > k[2]}) < SeenCap}

\* The master switch and the mutes, as the window last read them.  The switch
\* of a Signal and the quiet hours may have any value at the time.
Gates(i) == settings.master /\ i \notin view["main"].mutes

\* The transition was posted, or a newer one of the Environment was.
Announced(i, e) == \E p \in posted : p[1] = i /\ p[2] >= e

NoteHealthEvents(i, events) ==
  /\ seen' = Remember(i, events)
  /\ LET e == SelectNotification(i, events) IN
     IF e = None THEN UNCHANGED <<posted, again, hushed>>
     ELSE \/ /\ Gates(i) /\ posted' = posted \union {<<i, e>>}
             /\ again' = IF Announced(i, e) THEN again \union {<<i, e>>} ELSE again
             /\ UNCHANGED hushed
          \/ hushed' = hushed \union {i} /\ UNCHANGED <<posted, again>>
  /\ UNCHANGED <<boot, left, digests>>

\* Settings are written whole after every change, and a write may fail.
Persist(s) ==
  /\ settings' = s
  /\ \/ disk' = s /\ UNCHANGED lost
     \/ ~lost /\ lost' = TRUE /\ UNCHANGED disk

\* Mutant: the mark stays in memory.
WeeklyDigestUnsaved ==
  IF week.slot /\ settings.digest /\ settings.sent # week.number
  THEN /\ settings' = [settings EXCEPT !.sent = week.number] /\ UNCHANGED <<disk, lost>>
       /\ digests' = Append(digests, week.number)
  ELSE UNCHANGED <<shared, digests>>

\* The mark is stored before the digests are asked for.
MaybeSendWeeklyDigest ==
  IF week.slot /\ settings.digest /\ settings.sent # week.number
  THEN /\ Persist([settings EXCEPT !.sent = week.number])
       /\ digests' = Append(digests, week.number)
  ELSE UNCHANGED <<shared, digests>>

Receive(w) ==
  /\ queue[w] \notin {None, <<>>}
  /\ LET m == Head(queue[w]) IN
     /\ queue' = [queue EXCEPT ![w] = Tail(@)]
     /\ view' = [view EXCEPT ![w] = Received(w, m)]
     /\ IF w = "main" /\ m.kind = "events" THEN NoteHealthEvents(m.id, m.events) /\ UNCHANGED shared
        ELSE IF w = "main" /\ m.kind = "list"
        THEN /\ left' = left \union (view[w].list \ m.list)
             /\ MaybeSendWeeklyDigest
             /\ UNCHANGED <<seen, boot, posted, again, hushed>>
        ELSE UNCHANGED <<main, shared>>
  /\ UNCHANGED <<daemon, screen, dialog, week, bounds>>

-----------------------------------------------------------------------------
(* A window paints. *)

Ambient(v) == <<v.connected, Cardinality(v.bad \ v.mutes)>>

\* The settings of the other windows are read first, and what the menu bar
\* shows is set when it differs from what this window last set.
Render(w) ==
  /\ queue[w] # None /\ view[w].dirty
  /\ LET v == [view[w] EXCEPT !.mutes = settings.mutes, !.dirty = FALSE] IN
     IF v.painted = Ambient(v)
     THEN view' = [view EXCEPT ![w] = v] /\ UNCHANGED screen
     ELSE /\ view' = [view EXCEPT ![w] = [v EXCEPT !.painted = Ambient(v)]]
          /\ painted' = Ambient(v)
          /\ stray' = (stray /\ w # "main")
  /\ UNCHANGED <<daemon, queue, main, shared, dialog, week, bounds>>

\* The freshness tick.
Tick(w) ==
  /\ queue[w] # None /\ ~view[w].dirty
  /\ view[w].mutes # settings.mutes
  /\ view' = [view EXCEPT ![w].dirty = TRUE]
  /\ UNCHANGED <<daemon, queue, main, shared, screen, dialog, week, bounds>>

-----------------------------------------------------------------------------
(* The Operator. *)

Click(doing) ==
  /\ doing \in Able /\ clicks < MaxClicks
  /\ clicks' = clicks + 1 /\ UNCHANGED <<boots, cuts>>

\* By the sidebar, a slot, a notification or the palette; the detached window
\* refuses another Environment than its own.
SelectEnvironment(w, i) ==
  /\ Click("select") /\ queue[w] # None /\ i # view[w].selected
  /\ w = "main" \/ i = Pinned
  /\ view' = [view EXCEPT ![w] = [Selects(@, i) EXCEPT !.dirty = TRUE]]
  /\ UNCHANGED <<daemon, queue, main, shared, screen, dialog, week>>

\* The header of a removed Environment is not drawn, nor its buttons.
HasHeader(w) ==
  /\ queue[w] # None /\ view[w].selected # None
  /\ w = "main" \/ Pinned \in view[w].list

MuteSelected(w) ==
  /\ Click("mute") /\ HasHeader(w)
  /\ LET i == view[w].selected IN
     /\ view' = [view EXCEPT ![w].mutes = @ \union {i}, ![w].dirty = TRUE]
     /\ Persist([settings EXCEPT !.mutes = @ \union {i}])
  /\ UNCHANGED <<daemon, queue, main, screen, dialog, week>>

UnmuteSelected(w) ==
  /\ Click("mute") /\ HasHeader(w)
  /\ LET i == view[w].selected IN
     /\ view' = [view EXCEPT ![w].mutes = @ \ {i}, ![w].dirty = TRUE]
     /\ Persist([settings EXCEPT !.mutes = @ \ {i}])
  /\ UNCHANGED <<daemon, queue, main, screen, dialog, week>>

\* A mute runs out everywhere at the same time.
MuteExpires(i) ==
  /\ i \in settings.mutes
  /\ settings' = [settings EXCEPT !.mutes = @ \ {i}]
  /\ disk' = [disk EXCEPT !.mutes = @ \ {i}]
  /\ view' = [w \in Windows |-> [view[w] EXCEPT !.mutes = @ \ {i}, !.dirty = TRUE]]
  /\ UNCHANGED <<daemon, queue, main, screen, dialog, week, bounds, lost>>

Toggle(w) ==
  /\ Click("toggle") /\ queue[w] # None
  /\ \/ Persist([settings EXCEPT !.master = ~@])
     \/ Persist([settings EXCEPT !.digest = ~@])
  /\ view' = [view EXCEPT ![w].dirty = TRUE]
  /\ UNCHANGED <<daemon, queue, main, screen, dialog, week>>

Detach ==
  /\ Click("detach") /\ queue["detached"] = None /\ view["main"].selected = Pinned
  /\ queue' = [queue EXCEPT !["detached"] = Replay]
  /\ view' = [view EXCEPT !["detached"] = [Blank EXCEPT !.mutes = settings.mutes]]
  /\ UNCHANGED <<daemon, main, shared, screen, dialog, week>>

\* The main window hides instead, and goes on.
CloseDetached ==
  /\ Click("detach") /\ queue["detached"] # None
  /\ queue' = [queue EXCEPT !["detached"] = None]
  /\ view' = [view EXCEPT !["detached"] = Blank]
  /\ stray' = (stray \/ painted # view["main"].painted)
  /\ UNCHANGED <<daemon, main, shared, painted, dialog, week>>

-----------------------------------------------------------------------------
(* The sheet. *)

OpenSheet(editing) ==
  /\ Click("sheet")
  /\ sheet' = [busy |-> FALSE, editing |-> editing, armed |-> FALSE]
  /\ UNCHANGED <<daemon, queue, view, main, shared, screen, pending, week>>

OpenAddSheet == OpenSheet(None)
OpenEditSheet == view["main"].selected # None /\ OpenSheet(view["main"].selected)

\* Cancel works while a request is out.
CancelSheet ==
  /\ Click("sheet") /\ sheet # None
  /\ sheet' = None
  /\ UNCHANGED <<daemon, queue, view, main, shared, screen, pending, week>>

\* What the rules refuse is not sent: an id to add must be new to the window.
SheetIds == IF sheet.editing # None THEN {sheet.editing} ELSE Ids \ view["main"].list

SheetRpc(kind) ==
  \E i \in SheetIds :
    /\ sheet' = [sheet EXCEPT !.busy = TRUE]
    /\ pending' = pending \union {[kind |-> kind, id |-> i, number |-> clicks]}

SubmitSheet ==
  /\ Click("sheet") /\ sheet # None /\ ~sheet.busy
  /\ \/ SheetRpc("test")
     \/ SheetRpc("save")
     \/ sheet.editing # None /\ ~sheet.armed
          /\ sheet' = [sheet EXCEPT !.armed = TRUE] /\ UNCHANGED pending
     \/ sheet.editing # None /\ sheet.armed /\ SheetRpc("delete")
  /\ UNCHANGED <<daemon, queue, view, main, shared, screen, week>>

Noticed == IF sheet = None THEN None ELSE [sheet EXCEPT !.busy = FALSE]

\* Mutant: an error leaves the sheet as it is.
AnswerErrorOnly(r) == sheet' = sheet /\ UNCHANGED <<daemon, queue>>

AnswerError(r) == sheet' = Noticed /\ UNCHANGED <<daemon, queue>>

AnswerTest(r) == r.kind = "test" /\ sheet' = Noticed /\ UNCHANGED <<daemon, queue>>

\* The daemon has written; the window closes the sheet it shows, and has the
\* daemon restarted, which reads the list and has published nothing yet.
AnswerWrite(r) ==
  /\ r.kind \in {"save", "delete"}
  /\ stored' = IF r.kind = "save" THEN stored \union {r.id} ELSE stored \ {r.id}
  /\ served' = stored' /\ cache' = None
  /\ Sent(<<[kind |-> "lost"], [kind |-> "client"]>>)
  /\ sheet' = None
  /\ UNCHANGED <<bad, log>>

\* An answer is applied to whichever sheet is open.
Answer ==
  \E r \in pending :
    /\ pending' = pending \ {r}
    /\ AnswerTest(r) \/ AnswerWrite(r) \/ AnswerError(r)
    /\ view' = [view EXCEPT !["main"].dirty = TRUE]
    /\ UNCHANGED <<main, shared, screen, week, bounds>>

-----------------------------------------------------------------------------
(* The desktop ends and is started again; so do the weeks. *)

Restart ==
  /\ boots < MaxBoots /\ boots' = boots + 1
  /\ queue' = [w \in Windows |-> IF w = "main" THEN Replay ELSE None]
  /\ settings' = disk
  /\ view' = [w \in Windows |-> [Blank EXCEPT !.mutes = disk.mutes]]
  /\ seen' = {} /\ boot' = Count + 1
  /\ posted' = {} /\ again' = {} /\ left' = {} /\ hushed' = {}
  /\ sheet' = None /\ pending' = {}
  /\ painted' = None /\ stray' = FALSE
  /\ UNCHANGED <<daemon, disk, lost, digests, week, clicks, cuts>>

Weekday ==
  /\ \/ ~week.slot /\ week.number <= MaxWeeks /\ week' = [week EXCEPT !.slot = TRUE]
     \/ week.slot /\ week.number < MaxWeeks /\ week' = [number |-> week.number + 1, slot |-> FALSE]
  /\ UNCHANGED <<daemon, queue, view, main, shared, screen, dialog, bounds>>

-----------------------------------------------------------------------------
Next ==
  \/ \E i \in Ids : Transition(i) \/ MuteExpires(i)
  \/ Publish \/ Cut
  \/ \E w \in Windows : Receive(w) \/ Render(w) \/ Tick(w)
  \/ \E w \in Windows, i \in Ids : SelectEnvironment(w, i)
  \/ \E w \in Windows : MuteSelected(w) \/ UnmuteSelected(w) \/ Toggle(w)
  \/ Detach \/ CloseDetached
  \/ OpenAddSheet \/ OpenEditSheet \/ CancelSheet \/ SubmitSheet \/ Answer
  \/ Restart \/ Weekday

Spec == Init /\ [][Next]_vars
FairSpec ==
  /\ Spec
  /\ WF_vars(Publish) /\ WF_vars(Answer)
  /\ \A w \in Windows : WF_vars(Receive(w)) /\ WF_vars(Render(w) \/ Tick(w))

-----------------------------------------------------------------------------
(* Properties. *)

\* A window shows an Environment that is in the list it was sent, the detached
\* one its own whenever that is there, whatever list, reload or lost connection
\* came in between; and a sheet that waits has an answer on its way, whichever
\* sheet was cancelled before (listen_dashboard, select_environment, sheet_rpc).
WindowsStandFirm ==
  /\ TypeOK
  /\ \A w \in Windows :
       IF view[w].list = {} THEN view[w].selected = None ELSE view[w].selected \in view[w].list
  /\ Pinned \in view["detached"].list => view["detached"].selected = Pinned
  /\ sheet # None /\ sheet.busy => pending # {}

\* No transition is posted that is of before the boot, nor one twice or after a
\* newer one of its Environment, over reconnects and replays, unless the
\* Environment has left the list since, or the transition has been forgotten:
\* NOTIFY_SEEN_CAP newer ones have been.  And no week's digest is sent twice,
\* over restarts, unless a write of app.json has failed (note_health_events,
\* maybe_send_weekly_digest).
AnnouncedOnce ==
  [][/\ \A p \in posted' : p[2] >= boot'
     /\ \A p \in again' : p[1] \in left' \/ Count' >= p[2] + SeenCap
     /\ digests' # digests =>
          digests'[Len(digests')] \notin Range(digests) \/ lost]_vars

\* Every transition of after the boot is announced, by itself or by a newer
\* one, unless a gate was closed or the Environment was removed.
EverythingIsAnnounced ==
  \A i \in served : \A e \in log[i] :
    e >= boot => Announced(i, e) \/ i \in hushed \/ i \in left

\* Every open window is connected and shows the list on the disk, the health
\* the daemon gives and the mutes of whichever window set them, and the menu
\* bar shows what the main window does, unless a detached window was closed
\* over something else that it had painted.
WindowsAgree ==
  /\ served = stored
  /\ \A w \in Windows : queue[w] # None =>
       /\ view[w].connected /\ view[w].list = stored
       /\ view[w].bad = bad \intersect stored /\ view[w].mutes = settings.mutes
  /\ painted = Ambient(view["main"]) \/ stray

\* When the Operator and the Environments come to rest, the windows come to
\* agree, no transition stays unannounced, and no sheet waits for ever.
DesktopSettles ==
  <>[](WindowsAgree /\ EverythingIsAnnounced /\ (sheet = None \/ ~sheet.busy))
=============================================================================
