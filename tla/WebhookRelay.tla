---------------------------- MODULE WebhookRelay ----------------------------
(***************************************************************************)
(* Delivery of one Environment's health events to the webhook.  Three      *)
(* processes share the database: the collector thread, which records the   *)
(* events of a publish one statement at a time and then spawns a relay     *)
(* thread; the relay thread, which posts the events above its mark and     *)
(* advances a mark in memory and a cursor in the database; and the         *)
(* webhook-requeue command, run by an Operator in a process of its own.    *)
(***************************************************************************)
EXTENDS EventTable, Integers, FiniteSets

CONSTANTS
  Backfill,          \* BACKFILL_SECS: older events are passed over
  Receiver,          \* what the webhook may do: a subset of {"accepts", "refuses"}
  RequeueWhen,       \* when the Operator requeues: a subset of {"up", "down"}
  MaxTime,           \* bound: the last second
  MaxPending,        \* bound: relay threads spawned and not yet running
  MaxCrashes,        \* bound: stops of the daemon
  MaxErrors,         \* bound: failed statements
  MaxRequeues        \* bound: requeue commands

ASSUME RelayAssumption ==
  /\ Backfill \in Nat
  /\ RequeueWhen \subseteq {"up", "down"}
  /\ MaxTime \in Nat /\ MaxPending \in Nat
  /\ MaxCrashes \in Nat /\ MaxErrors \in Nat /\ MaxRequeues \in Nat

NoMark == -1  \* no row in webhook_cursor, no entry in last_sent

Kinds  == {"health", "build"}
Events == [at : Nat, kind : Kinds]

VARIABLES
  now,        \* the clock, in seconds
  up,         \* is the daemon running?
  events,     \* health_events
  cursor,     \* webhook_cursor.last_sent
  dead,       \* webhook_dead_letters
  publisher,  \* collector thread: "idle", "health", "build", "prune", "prune_rows", "spawn"
  stamp,      \* the time of the running publish
  pending,    \* relay threads spawned and not yet running
  relay,      \* "idle" (in_flight is false), "load", "next", "post", "bury", "advance"
  mem,        \* last_sent: the mark in the memory of the daemon
  batch,      \* events this pass has still to handle
  current,    \* the event being handled
  passTime,   \* the time at which this pass started
  requeue,    \* the command: "idle", "reset", "clear"
  letters,    \* the dead letters the command read
  crashes, errors, requeues,
  posted,     \* history: events the receiver acknowledged
  repeats,    \* history: acknowledgements of events acknowledged before
  seed,       \* history: where the cursor stood first, or was seeded
  lastAt,     \* history: the time of the newest event recorded
  parted,     \* history: events a pass took without, though they share its second
  lost,       \* history: refused events whose letter could not be written
  beside,     \* history: has the daemon run during this command?
  raced       \* history: letters a command beside the daemon deleted

database == <<events, cursor, dead>>
pass     == <<relay, mem, batch, current, passTime>>
command  == <<requeue, letters>>
bounds   == <<crashes, errors, requeues>>
causes   == <<parted, lost, beside, raced>>
history  == <<posted, repeats, seed, lastAt, causes>>
vars     == <<now, up, database, publisher, stamp, pending, pass, command,
              bounds, history>>

TypeOK ==
  /\ now \in Nat /\ up \in BOOLEAN
  /\ events \subseteq Events /\ dead \subseteq Events
  /\ cursor \in Nat \union {NoMark} /\ mem \in Nat \union {NoMark}
  /\ publisher \in {"idle", "health", "build", "prune", "prune_rows", "spawn"}
  /\ stamp \in Nat /\ pending \in Nat
  /\ relay \in {"idle", "load", "next", "post", "bury", "advance"}
  /\ batch \subseteq Events /\ current \in Events /\ passTime \in Nat
  /\ requeue \in {"idle", "reset", "clear"} /\ letters \subseteq Events
  /\ crashes \in Nat /\ errors \in Nat /\ requeues \in Nat
  /\ posted \subseteq Events /\ repeats \in Nat
  /\ seed \in Nat \union {NoMark} /\ lastAt \in Nat
  /\ parted \subseteq Events /\ lost \subseteq Events /\ raced \subseteq Events
  /\ beside \in BOOLEAN

\* A fresh database, or one that an earlier run has left with a cursor.
Init ==
  /\ now = 1 /\ up = TRUE
  /\ events = {} /\ cursor \in {NoMark, 0} /\ dead = {}
  /\ publisher = "idle" /\ stamp = 1 /\ pending = 0
  /\ relay = "idle" /\ mem = NoMark /\ batch = {} /\ passTime = 1
  /\ current = [at |-> 0, kind |-> "health"]
  /\ requeue = "idle" /\ letters = {}
  /\ crashes = 0 /\ errors = 0 /\ requeues = 0
  /\ posted = {} /\ repeats = 0 /\ seed = cursor /\ lastAt = 0
  /\ parted = {} /\ lost = {} /\ raced = {} /\ beside = FALSE

Clock ==
  /\ now < MaxTime
  /\ now' = now + 1
  /\ UNCHANGED <<up, database, publisher, stamp, pending, pass, command, bounds, history>>

-----------------------------------------------------------------------------
(* The collector thread: a publish records its health event, then its build  *)
(* event, prunes, and fires a relay thread it does not wait for.             *)

PublishStart ==
  /\ up /\ publisher = "idle"
  /\ stamp' = now
  /\ publisher' = "health"
  /\ UNCHANGED <<now, up, database, pending, pass, command, bounds, history>>

\* The mark, or the pass under way, is already past a sibling of this second.
TooLate ==
  stamp = lastAt /\ (mem >= stamp \/ cursor >= stamp \/ \E b \in batch : b.at = stamp)

\* A publish has an event of this kind to record, or it has none.  INSERT OR
\* IGNORE: an event of this second and kind that is there stays.
RecordEvent(kind, next) ==
  /\ up /\ publisher = kind
  /\ publisher' = next
  /\ \/ LET e == [at |-> stamp, kind |-> kind]
        IN  /\ e \notin events
            /\ events' = events \union {e} /\ lastAt' = stamp
            /\ parted' = IF TooLate THEN parted \union {e} ELSE parted
     \/ UNCHANGED <<events, lastAt, parted>>
  /\ UNCHANGED <<now, up, cursor, dead, stamp, pending, pass, command, bounds,
                 posted, repeats, seed, lost, beside, raced>>

RecordHealth == RecordEvent("health", "build")
RecordBuild  == RecordEvent("build", "prune")

\* A statement fails: the publish gives up, the closure still spawns the relay.
PublishFails ==
  /\ up /\ publisher \in {"health", "build", "prune", "prune_rows"}
  /\ errors < MaxErrors /\ errors' = errors + 1
  /\ publisher' = "spawn"
  /\ UNCHANGED <<now, up, database, stamp, pending, pass, command, crashes, requeues, history>>

\* The two statements of a prune: by age, then by number of rows.
PruneEvents ==
  /\ up /\ publisher = "prune"
  /\ events' = Aged(events, stamp)
  /\ publisher' = "prune_rows"
  /\ UNCHANGED <<now, up, cursor, dead, stamp, pending, pass, command, bounds, history>>

PruneRows ==
  /\ up /\ publisher = "prune_rows"
  /\ events' \in NewestRows(events, MaxEvents)
  /\ publisher' = "spawn"
  /\ UNCHANGED <<now, up, cursor, dead, stamp, pending, pass, command, bounds, history>>

\* Mutant: the closure forgets to spawn the relay.
SpawnNothing ==
  /\ up /\ publisher = "spawn"
  /\ publisher' = "idle"
  /\ UNCHANGED <<now, up, database, stamp, pending, pass, command, bounds, history>>

SpawnRelay ==
  /\ up /\ publisher = "spawn"
  /\ publisher' = "idle"
  /\ pending' = IF pending < MaxPending THEN pending + 1 ELSE pending
  /\ UNCHANGED <<now, up, database, stamp, pass, command, bounds, history>>

-----------------------------------------------------------------------------
(* The relay thread. *)

\* Mutant: an overlapping pass takes over the one in flight.
RelayStartOverlaps ==
  /\ up /\ pending > 0
  /\ pending' = pending - 1
  /\ relay' = "load" /\ passTime' = now
  /\ UNCHANGED <<now, up, database, publisher, stamp, mem, batch, current, command,
                 bounds, history>>

\* A thread that finds another pass in flight returns without a pass.
RelayStart ==
  /\ up /\ pending > 0
  /\ pending' = pending - 1
  /\ IF relay = "idle"
     THEN relay' = "load" /\ passTime' = now
     ELSE UNCHANGED <<relay, passTime>>
  /\ UNCHANGED <<now, up, database, publisher, stamp, mem, batch, current, command,
                 bounds, history>>

Mark == IF mem > cursor THEN mem ELSE cursor

\* Mutant: start a day back instead.
RelaySeedBackfilled ==
  /\ relay = "load" /\ Mark = NoMark
  /\ LET start == passTime - 86400
     IN  cursor' = start /\ mem' = start /\ seed' = start
  /\ relay' = "idle"
  /\ UNCHANGED <<now, up, events, dead, publisher, stamp, pending, batch, current,
                 passTime, command, bounds, posted, repeats, lastAt, causes>>

\* The cursor is missing in memory and in the database: start at now, so that
\* a webhook configured late does not receive the whole log.
RelaySeed ==
  /\ relay = "load" /\ Mark = NoMark
  /\ cursor' = passTime /\ mem' = passTime /\ seed' = passTime
  /\ relay' = "idle"
  /\ UNCHANGED <<now, up, events, dead, publisher, stamp, pending, batch, current,
                 passTime, command, bounds, posted, repeats, lastAt, causes>>

\* The query is limited, and the limit may fall between two siblings.
RelayLoad ==
  /\ relay = "load" /\ Mark # NoMark
  /\ \E rows \in NewestRows(events, MaxEvents) :
       /\ batch' = {e \in rows : e.at > Mark}
       /\ parted' = parted \union {e \in events \ rows : \E b \in batch' : b.at = e.at}
  /\ relay' = "next"
  /\ UNCHANGED <<now, up, database, publisher, stamp, pending, mem, current, passTime,
                 command, bounds, posted, repeats, seed, lastAt, lost, beside, raced>>

\* A statement fails here, or failed at an Environment visited earlier.
RelayFails ==
  /\ relay = "load"
  /\ errors < MaxErrors /\ errors' = errors + 1
  /\ relay' = "idle"
  /\ UNCHANGED <<now, up, database, publisher, stamp, pending, mem, batch, current,
                 passTime, command, crashes, requeues, history>>

\* Mutant: newest first.
BeforeNewestFirst(e, f) == e.at > f.at \/ (e.at = f.at /\ (e.kind = "build" \/ f.kind = "health"))

\* The order of posting: (observed_at, kind).
Before(e, f) == e.at < f.at \/ (e.at = f.at /\ (e.kind = "build" \/ f.kind = "health"))

Expired(e, t) == t - e.at > Backfill

RelayNext ==
  /\ relay = "next" /\ batch # {}
  /\ \E e \in batch :
       /\ \A f \in batch : Before(e, f)
       /\ current' = e
       /\ relay' = IF Expired(e, passTime) THEN "advance" ELSE "post"
  /\ UNCHANGED <<now, up, database, publisher, stamp, pending, mem, batch, passTime,
                 command, bounds, history>>

RelayEnd ==
  /\ relay = "next" /\ batch = {}
  /\ relay' = "idle"
  /\ UNCHANGED <<now, up, database, publisher, stamp, pending, mem, batch, current,
                 passTime, command, bounds, history>>

PostAccepted ==
  /\ relay = "post" /\ "accepts" \in Receiver
  /\ relay' = "advance"
  /\ posted' = posted \union {current}
  /\ repeats' = IF current \in posted THEN repeats + 1 ELSE repeats
  /\ UNCHANGED <<now, up, database, publisher, stamp, pending, mem, batch, current,
                 passTime, command, bounds, seed, lastAt, causes>>

\* The post and its immediate retry both fail.
PostRefused ==
  /\ relay = "post" /\ "refuses" \in Receiver
  /\ relay' = "bury"
  /\ UNCHANGED <<now, up, database, publisher, stamp, pending, mem, batch, current,
                 passTime, command, bounds, posted, repeats, seed, lastAt, causes>>

\* Mutant: the relay advances past a refused event without a letter.
BuryNothing ==
  /\ relay = "bury"
  /\ relay' = "advance"
  /\ UNCHANGED <<now, up, database, publisher, stamp, pending, mem, batch, current,
                 passTime, command, bounds, history>>

\* The letter is inserted, then the table pruned to its newest rows, where a
\* letter may give way to its sibling.  Either statement may fail.  The result is
\* ignored: the relay advances all the same.
Bury ==
  /\ relay = "bury"
  /\ relay' = "advance"
  /\ LET written == dead \union {current}
     IN  \/ /\ dead' \in NewestRows(written, MaxEvents)
            /\ parted' = parted \union {d \in written \ dead' : \E l \in dead' : l.at = d.at}
            /\ UNCHANGED <<errors, lost>>
         \/ /\ errors < MaxErrors /\ errors' = errors + 1
            /\ \/ dead' = written /\ UNCHANGED lost
               \/ dead' = dead /\ lost' = lost \union {current}
            /\ UNCHANGED parted
  /\ UNCHANGED <<now, up, events, cursor, publisher, stamp, pending, mem, batch, current,
                 passTime, command, crashes, requeues, posted, repeats, seed, lastAt,
                 beside, raced>>

\* The mark in memory moves first; a failed cursor statement ends the pass, and
\* a sibling it had still to handle is below the mark of the next one.
Advance ==
  /\ relay = "advance"
  /\ mem' = current.at
  /\ \/ /\ cursor' = current.at
        /\ batch' = batch \ {current}
        /\ relay' = "next"
        /\ UNCHANGED <<errors, parted>>
     \/ /\ errors < MaxErrors /\ errors' = errors + 1
        /\ parted' = parted \union {b \in batch \ {current} : b.at = current.at}
        /\ batch' = {} /\ relay' = "idle"
        /\ UNCHANGED cursor
  /\ UNCHANGED <<now, up, events, dead, publisher, stamp, pending, current, passTime,
                 command, crashes, requeues, posted, repeats, seed, lastAt,
                 lost, beside, raced>>

-----------------------------------------------------------------------------
(* The daemon process. *)

\* A pass that dies between two siblings leaves the second at the cursor.
Crash ==
  /\ up /\ crashes < MaxCrashes
  /\ crashes' = crashes + 1
  /\ up' = FALSE
  /\ publisher' = "idle" /\ pending' = 0
  /\ relay' = "idle" /\ mem' = NoMark /\ batch' = {}
  /\ parted' = parted \union {b \in batch : b.at = cursor}
  /\ UNCHANGED <<now, database, stamp, current, passTime, command, errors, requeues,
                 posted, repeats, seed, lastAt, lost, beside, raced>>

\* Startup prunes the log before the collector runs.
Start ==
  /\ ~up
  /\ requeue = "idle" \/ "up" \in RequeueWhen
  /\ up' = TRUE
  /\ events' \in StartupPruned(events, now)
  /\ beside' = (beside \/ requeue # "idle")
  /\ UNCHANGED <<now, cursor, dead, publisher, stamp, pending, pass, command, bounds,
                 posted, repeats, seed, lastAt, parted, lost, raced>>

-----------------------------------------------------------------------------
(* webhook-requeue. *)

RequeueRead ==
  /\ requeue = "idle" /\ requeues < MaxRequeues
  /\ (IF up THEN "up" ELSE "down") \in RequeueWhen
  /\ dead # {}
  /\ letters' = dead
  /\ requeue' = "reset"
  /\ requeues' = requeues + 1
  /\ beside' = up
  /\ UNCHANGED <<now, up, database, publisher, stamp, pending, pass, crashes, errors,
                 posted, repeats, seed, lastAt, parted, lost, raced>>

\* Mutant: the cursor is put on the oldest letter, not below it.
RequeueResetOnto ==
  /\ requeue = "reset"
  /\ \E oldest \in letters :
       /\ \A e \in letters : oldest.at <= e.at
       /\ cursor' = oldest.at
  /\ requeue' = "clear"
  /\ UNCHANGED <<now, up, events, dead, publisher, stamp, pending, pass, letters, bounds, history>>

RequeueReset ==
  /\ requeue = "reset"
  /\ \E oldest \in letters :
       /\ \A e \in letters : oldest.at <= e.at
       /\ cursor' = oldest.at - 1
  /\ requeue' = "clear"
  /\ UNCHANGED <<now, up, events, dead, publisher, stamp, pending, pass, letters, bounds, history>>

\* Every letter is deleted, whether its event is still in the log or not.  Beside a
\* daemon the mark in memory stands above the cursor that was reset, and a letter
\* written since the command read them goes unread.
RequeueClear ==
  /\ requeue = "clear"
  /\ dead' = {}
  /\ letters' = {}
  /\ requeue' = "idle"
  /\ raced' = IF beside THEN raced \union dead ELSE raced
  /\ UNCHANGED <<now, up, events, cursor, publisher, stamp, pending, pass, bounds,
                 posted, repeats, seed, lastAt, parted, lost, beside>>

\* The reset or the delete fails: the command ends there.
RequeueFails ==
  /\ requeue # "idle"
  /\ errors < MaxErrors /\ errors' = errors + 1
  /\ requeue' = "idle" /\ letters' = {}
  /\ UNCHANGED <<now, up, database, publisher, stamp, pending, pass, crashes, requeues, history>>

-----------------------------------------------------------------------------
Publisher ==
  PublishStart \/ RecordHealth \/ RecordBuild \/ PublishFails \/ PruneEvents \/ PruneRows
  \/ SpawnRelay

Pass ==
  \/ RelaySeed \/ RelayLoad \/ RelayFails \/ RelayNext \/ RelayEnd
  \/ PostAccepted \/ PostRefused \/ Bury \/ Advance

Requeue == RequeueRead \/ RequeueReset \/ RequeueClear \/ RequeueFails

Next == Clock \/ Publisher \/ RelayStart \/ Pass \/ Crash \/ Start \/ Requeue

Spec == Init /\ [][Next]_vars

\* The collector publishes again and again while the daemon runs, a spawned
\* thread, a running pass and a running command are scheduled, a post ends by its
\* timeout, and the desktop restarts a daemon that stopped.  Nothing is assumed of
\* the clock, of what the receiver answers, or of the Operator.
FairSpec ==
  /\ Spec
  /\ WF_vars(Publisher) /\ WF_vars(RelayStart) /\ WF_vars(Pass) /\ WF_vars(Start)
  /\ WF_vars(requeue # "idle" /\ Requeue)

-----------------------------------------------------------------------------
(* Properties. *)

\* What became of an event the relay passed: the receiver has it, a dead letter
\* stands for it, or it is too old to be posted.
Settled(e) == e \in posted \/ e \in dead \/ Expired(e, now)

\* Later events have pushed e out of every query and every prune.
Shadowed(e) ==
  \E newer \in SUBSET events :
    Cardinality(newer) = MaxEvents /\ \A f \in newer : f.at > e.at

\* The cursor is a second, and what shares a second can be parted; the write of
\* a letter is not waited for; and a requeue is not kept from a running daemon.
Unlucky(e) == e \in parted \/ e \in lost \/ e \in raced

\* No event is skipped without a cause: whatever crashed, failed or was requeued,
\* each event of the log that the persisted cursor has passed, above the point
\* where it was seeded, is one the running pass has in hand, was acknowledged,
\* stands in the dead letters, is too old, has left every query, or fell to one of
\* the three ways in which the relay lets go of an event.
SkipsHaveACause ==
  \A e \in events :
    seed < e.at /\ e.at <= cursor => e \in batch \/ Settled(e) \/ Shadowed(e) \/ Unlucky(e)

\* Passes coalesce and a restart resumes: only a requeue moves the cursor back.
CursorNeverRewinds == [][RequeueReset \/ cursor' >= cursor]_vars

\* At-least-once, and hardly more: until an Operator requeues, an event is
\* acknowledged again only because the daemon died, and then only the post it was
\* handling and those whose cursor statement had failed since the cursor last moved.
RepeatsAreBounded == requeues = 0 => repeats <= crashes + errors

\* The backlog drains: every recorded event is settled in the end, and again when
\* a requeue has deleted its letter ("the relay reposts the surviving events"),
\* unless it predates the seed, left the log, or was let go.
EventuallySettled ==
  \A t \in 1..MaxTime, k \in Kinds :
    LET e == [at |-> t, kind |-> k]
    IN  e \in events ~> (e \notin events \/ Settled(e) \/ e.at <= seed \/ Unlucky(e))

\* "a crash between two posts can skip the sibling": ordering by (observed_at,
\* kind) is there so that the events a dying pass still had to handle are above
\* the cursor the next pass starts from.
CrashSkipsNothing == [][Crash => \A e \in batch : e.at > cursor \/ Settled(e)]_vars

\* "successfully POSTed events advance a per-Environment high-water mark [...]
\* a failed POST retries on later ticks".
OnlyDeliveryAdvances ==
  \A e \in events : seed < e.at /\ e.at <= cursor => e \in posted \/ Expired(e, now)
=============================================================================
