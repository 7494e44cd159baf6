---------------------------- MODULE HealthEvents ----------------------------
(***************************************************************************)
(* The health-event log of one Environment: the daemon's collector thread  *)
(* publishes after every tick, and each publish turns the snapshot rows    *)
(* into a health, advances the persisted publish state and records the     *)
(* events that follow from it.  Every SQL statement is its own implicit    *)
(* transaction, so the daemon can stop, or a statement can fail, between   *)
(* any two of them; a restarted daemon publishes the stored rows before    *)
(* its first tick.                                                         *)
(***************************************************************************)
EXTENDS SignalRules, EventTable, Integers, Sequences, FiniteSets

CONSTANTS
  NoValue,        \* no health precedes the streak / the event
  Observable,     \* Observable[s]: the rows a probe of Signal s can leave
  InitialRows,    \* the snapshot tables the database can hold at first start
  Notes,          \* annotations an Operator may write
  NoNote,         \* the event is not annotated
  StopPoints,     \* the program points at which the daemon may stop
  MaxPerSecond,   \* publishes that may start within one second
  MaxPublishes,   \* bound: publishes
  MaxStops,       \* bound: stops of the daemon
  MaxErrors       \* bound: failed SQL statements

ASSUME HealthAssumption ==
  /\ NoValue \notin Healths /\ InitialRows \subseteq RowTables
  /\ MaxPublishes \in Nat /\ MaxStops \in Nat /\ MaxErrors \in Nat

INSTANCE Streaks

NoState == [missing |-> TRUE]

PublishState == [streak : Streak(Healths), build : Builds \union {NoBuild}]

Event == [at : Nat, kind : {"health", "build"}, from : Healths \union {NoValue},
          to : Healths, build : Builds \union {NoBuild},
          note : Notes \union {NoNote}]

Points == {"down", "due", "record_health", "record_build", "store", "bootstrap",
           "prune", "prune_rows", "idle"}

VARIABLES
  snaps,      \* signal_snapshots: the rows of this Environment
  state,      \* dashboard_publish_state: NoState or the stored record
  log,        \* health_events: a set of rows with key <<at, kind>>
  pc,         \* where the collector thread is
  decided,    \* what the running publish decided from the rows
  now,        \* the second in which the running publish started
  inSecond,   \* publishes that started in this second
  publishes, stops, errors,
  recent,     \* history: the healths of the last three stored publishes
  confirmed,  \* history: the last health two publishes in a row agreed on
  emitted,    \* history: health events inserted during the current streak
  cuts,       \* history: publishes of this streak cut short after such an insertion
  astray      \* history: what befell the build events since the last insertion

tables  == <<snaps, state, log>>
history == <<recent, confirmed, emitted, cuts, astray>>
bounds  == <<publishes, stops, errors>>
vars    == <<tables, pc, decided, now, inSecond, bounds, history>>

TypeOK ==
  /\ snaps \in RowTables
  /\ state = NoState \/ state \in PublishState
  /\ log \subseteq Event
  /\ pc \in Points
  /\ decided \in [health : Healths, build : Builds \union {NoBuild}]
  /\ now \in Nat /\ inSecond \in Nat
  /\ publishes \in Nat /\ stops \in Nat /\ errors \in Nat
  /\ recent \in Seq(Healths) /\ Len(recent) <= 3
  /\ confirmed \in Healths \union {NoValue}
  /\ emitted \in Nat /\ cuts \in Nat
  /\ astray \subseteq {"collided", "cut", "pruned"}

Init ==
  /\ snaps \in InitialRows
  /\ state = NoState
  /\ log = {}
  /\ pc = "due"
  /\ decided = Decide(snaps)
  /\ now = 0 /\ inSecond = 0
  /\ publishes = 0 /\ stops = 0 /\ errors = 0
  /\ recent = <<>> /\ confirmed = NoValue
  /\ emitted = 0 /\ cuts = 0 /\ astray = {}

-----------------------------------------------------------------------------
(* The statements of the health_events table. *)

\* Mutant: INSERT OR REPLACE.
InsertReplaces(rows, e) == {r \in rows : r.at # e.at \/ r.kind # e.kind} \union {e}

\* ON CONFLICT(environment_id, observed_at, kind) DO NOTHING.
Insert(rows, e) ==
  IF \E r \in rows : r.at = e.at /\ r.kind = e.kind THEN rows ELSE rows \union {e}

HealthEvent(from, to) ==
  [at |-> now, kind |-> "health", from |-> from, to |-> to,
   build |-> NoBuild, note |-> NoNote]

BuildEvent(from, to, build) ==
  [at |-> now, kind |-> "build", from |-> from, to |-> to,
   build |-> build, note |-> NoNote]

OfKind(kind) == {e \in log : e.kind = kind}

-----------------------------------------------------------------------------
(* The collector thread. *)

\* A tick leaves fresh rows for some Signals; a Signal whose write failed, or
\* that is not due this tick, keeps the row it had.
Tick ==
  /\ pc = "idle"
  /\ \E S \in SUBSET Signals :
       \E fresh \in {f \in [S -> Snapshot] : \A s \in S : f[s] \in Observable[s]} :
         snaps' = [s \in S \union DOMAIN snaps |-> IF s \in S THEN fresh[s] ELSE snaps[s]]
  /\ pc' = "due"
  /\ UNCHANGED <<state, log, decided, now, inSecond, bounds, history>>

PublishStart ==
  /\ pc = "due"
  /\ publishes < MaxPublishes
  /\ \/ now' = now + 1 /\ inSecond' = 1
     \/ now' = now /\ inSecond < MaxPerSecond /\ inSecond' = inSecond + 1
  /\ decided' = Decide(snaps)
  /\ pc' = IF state = NoState THEN "store" ELSE "record_health"
  /\ publishes' = publishes + 1
  /\ UNCHANGED <<tables, stops, errors, history>>

\* Cold start stays quiet: waiting never emits, and waiting to healthy is the
\* first real poll, not a recovery.
AnnouncesChange(st, v) ==
  /\ Confirms(st, v)
  /\ v # "waiting"
  /\ ~(Bump(st, v).previous = "waiting" /\ v = "healthy")

RecordHealth ==
  /\ pc = "record_health"
  /\ IF AnnouncesChange(state.streak, decided.health)
     THEN /\ log' = Insert(log, HealthEvent(Bump(state.streak, decided.health).previous,
                                            decided.health))
          /\ emitted' = IF log' = log THEN emitted ELSE emitted + 1
     ELSE UNCHANGED <<log, emitted>>
  /\ pc' = "record_build"
  /\ UNCHANGED <<snaps, state, decided, now, inSecond, bounds, recent, confirmed, cuts, astray>>

\* The insertion of a build event, which a build event of the same second drops.
InsertBuild(from) ==
  /\ log' = Insert(log, BuildEvent(from, decided.health, decided.build))
  /\ astray' = IF log' = log THEN astray \union {"collided"} ELSE {}

\* Mutant: only the first build after an unreadable one is an event.
RecordBuildOnce ==
  /\ pc = "record_build"
  /\ IF decided.build # NoBuild /\ state.build = NoBuild
     THEN InsertBuild(state.streak.last)
     ELSE UNCHANGED <<log, astray>>
  /\ pc' = "store"
  /\ UNCHANGED <<snaps, state, decided, now, inSecond, bounds, recent, confirmed, emitted, cuts>>

RecordBuild ==
  /\ pc = "record_build"
  /\ IF decided.build \notin {NoBuild, state.build}
     THEN InsertBuild(state.streak.last)
     ELSE UNCHANGED <<log, astray>>
  /\ pc' = "store"
  /\ UNCHANGED <<snaps, state, decided, now, inSecond, bounds, recent, confirmed, emitted, cuts>>

LastThree(h, v) == IF Len(h) < 3 THEN Append(h, v) ELSE Append(Tail(h), v)

\* store_publish_state, with the history of what has been published so far.
StoreState ==
  /\ pc = "store"
  /\ state' = [streak |-> IF state = NoState
                          THEN FirstStreak(decided.health)
                          ELSE Bump(state.streak, decided.health),
               build  |-> decided.build]
  /\ pc' = IF state = NoState /\ decided.build # NoBuild THEN "bootstrap" ELSE "prune"
  /\ recent' = LastThree(recent, decided.health)
  /\ confirmed' = IF recent # <<>> /\ recent[Len(recent)] = decided.health
                  THEN decided.health
                  ELSE confirmed
  /\ IF state'.streak.count = 1
     THEN emitted' = 0 /\ cuts' = 0
     ELSE UNCHANGED <<emitted, cuts>>
  /\ UNCHANGED <<snaps, log, decided, now, inSecond, bounds, astray>>

\* The first publish ever stores its state before it records the build.
RecordBootstrap ==
  /\ pc = "bootstrap"
  /\ InsertBuild(NoValue)
  /\ pc' = "prune"
  /\ UNCHANGED <<snaps, state, decided, now, inSecond, bounds, recent, confirmed, emitted, cuts>>

\* The history of a prune that takes the last build event.
Forgotten ==
  /\ astray' = IF OfKind("build") # {} /\ OfKind("build")' = {}
               THEN astray \union {"pruned"} ELSE astray
  /\ UNCHANGED <<recent, confirmed, emitted, cuts>>

\* The two DELETEs of prune_health_events: by age, then by number.
Prune ==
  /\ pc = "prune"
  /\ log' = Aged(log, now)
  /\ Forgotten
  /\ pc' = "prune_rows"
  /\ UNCHANGED <<snaps, state, decided, now, inSecond, bounds>>

PruneRows ==
  /\ pc = "prune_rows"
  /\ log' \in NewestRows(log, MaxEvents)
  /\ Forgotten
  /\ pc' = "idle"
  /\ UNCHANGED <<snaps, state, decided, now, inSecond, bounds>>

\* The history of a publish cut short between the insertion of an event and the
\* storing of what it follows from, or before the event of the first build.
CutShort ==
  /\ cuts' = IF /\ pc \in {"record_build", "store"} /\ state # NoState
                /\ AnnouncesChange(state.streak, decided.health)
             THEN cuts + 1 ELSE cuts
  /\ astray' = IF \/ pc = "bootstrap"
                  \/ pc = "store" /\ state # NoState /\ decided.build \notin {NoBuild, state.build}
               THEN astray \union {"cut"} ELSE astray
  /\ UNCHANGED <<recent, confirmed, emitted>>

\* Any statement of the publish fails: the publish returns the error, the loop
\* logs it and goes on to the next tick.
PublishFails ==
  /\ pc \in {"record_health", "record_build", "store", "bootstrap", "prune", "prune_rows"}
  /\ errors < MaxErrors
  /\ errors' = errors + 1
  /\ CutShort
  /\ pc' = "idle"
  /\ UNCHANGED <<tables, decided, now, inSecond, publishes, stops>>

-----------------------------------------------------------------------------
(* The rest of the daemon. *)

Stop ==
  /\ pc \in StopPoints
  /\ stops < MaxStops
  /\ stops' = stops + 1
  /\ CutShort
  /\ pc' = "down"
  /\ UNCHANGED <<tables, decided, now, inSecond, publishes, errors>>

\* Startup prunes as well as it can, then the loop publishes the stored rows
\* before it ticks.
Start ==
  /\ pc = "down"
  /\ log' \in StartupPruned(log, now)
  /\ Forgotten
  /\ pc' = "due"
  /\ UNCHANGED <<snaps, state, decided, now, inSecond, bounds>>

\* A request thread attaches or clears a note while the collector runs.
Annotate ==
  /\ pc # "down"
  /\ \E e \in log, n \in Notes \union {NoNote} :
       log' = (log \ {e}) \union {[e EXCEPT !.note = n]}
  /\ UNCHANGED <<snaps, state, pc, decided, now, inSecond, bounds, history>>

\* The bound on publishes is reached: nothing the model cares about follows.
Done ==
  /\ pc = "due" /\ publishes = MaxPublishes
  /\ UNCHANGED vars

Collector ==
  Tick \/ PublishStart \/ RecordHealth \/ RecordBuild \/ StoreState
    \/ RecordBootstrap \/ Prune \/ PruneRows

Next == Collector \/ PublishFails \/ Stop \/ Start \/ Annotate \/ Done

Spec == Init /\ [][Next]_vars

-----------------------------------------------------------------------------
(* Properties. *)

Newest(kind) == CHOOSE e \in OfKind(kind) : \A f \in OfKind(kind) : e.at >= f.at

\* The timeline's newest health event names the health the Environment is in,
\* whenever that health has been published twice in a row: flaps, restarts,
\* failed statements, repeated publishes and pruning never leave the log
\* telling of a health the Environment has left for good.
NewestEventIsStable ==
  /\ state # NoState
  /\ state.streak.count >= 2 /\ state.streak.last # "waiting"
  /\ OfKind("health") # {}
  => Newest("health").to = state.streak.last

\* Whatever failed, was pruned or restarted, every variable has its type and
\* the newest event names the health the Environment has settled on.
LogIsSound == TypeOK /\ NewestEventIsStable

\* What three successive published healths say must be announced, stated over
\* the history and not over the stored streak.
ConfirmedChange(h) ==
  /\ Len(h) = 3
  /\ h[2] = h[3] /\ h[1] # h[2]
  /\ h[3] # "waiting" /\ ~(h[1] = "waiting" /\ h[3] = "healthy")

\* The incremental streak agrees with the history across restarts and failed
\* statements: a publish inserts a health event only if it completes a
\* confirmed change, and a publish that completes one is not stored unless
\* the log holds its event.
EventIffConfirmedChange ==
  [][/\ RecordHealth /\ log' # log => ConfirmedChange(LastThree(recent, decided.health))
     /\ StoreState /\ ConfirmedChange(recent') =>
          \E e \in log : e.at = now /\ e.kind = "health" /\ e.to = decided.health]_vars

\* A change is announced once: while the published health stays the same the log
\* gains one health event, and another one only for a publish that was cut short
\* after it had inserted the event and before it had stored the streak.
RepeatsAreCaused == emitted <= 1 + cuts

\* A single flap is not an event: a health event announces a health other than
\* the last one two publishes in a row agreed on.
FlapIsNotAnEvent ==
  [][\A e \in log' \ log : e.kind = "health" /\ RecordHealth => e.to # confirmed]_vars

\* The build the publish state remembers is the build of the newest build event,
\* unless something has happened since that event that accounts for it: the event
\* of a later build met another one of its second, or a publish was cut short
\* between the insertion of an event and the storing of its build.  There is no
\* build event at all only where the first publish was cut short or the last event
\* was pruned.
BuildsAreAccountedFor ==
  state # NoState /\ state.build # NoBuild /\ pc \notin {"store", "bootstrap"} =>
    IF OfKind("build") = {}
    THEN astray \cap {"pruned", "cut"} # {}
    ELSE \/ Newest("build").build = state.build
         \/ astray \cap {"collided", "cut"} # {}

\* Both: nothing is announced again, and no build goes without its event, but for
\* a cause (record_health_and_build_events).
LogIsExplained == RepeatsAreCaused /\ BuildsAreAccountedFor

\* The first build ever seen is recorded as a bootstrap event, without a from.
FirstBuildIsBootstrap ==
  \A e \in OfKind("build") : (\A f \in OfKind("build") : f.at >= e.at) => e.from = NoValue

\* A note stays on its event until the Operator rewrites it or the event is
\* pruned: publishing the same event again never touches it.
NoteSurvives ==
  [][\A e \in log : e.note # NoNote =>
       \/ e \in log'
       \/ Annotate
       \/ ~\E f \in log' : f.at = e.at /\ f.kind = e.kind]_vars
=============================================================================
