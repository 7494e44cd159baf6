------------------------ MODULE WebhookRelayProofs ------------------------
(***************************************************************************)
(* What holds of the webhook relay for every bound, retention and backfill *)
(* window: its variables keep their types, only a requeue moves the cursor *)
(* back, each repeated post has a crash or an error to blame, and no event *)
(* is skipped without a cause.                                             *)
(***************************************************************************)
EXTENDS WebhookRelay, FiniteSetTheorems, TLAPS

Passing == {"next", "post", "bury", "advance"}
Holding == {"post", "bury", "advance"}

-----------------------------------------------------------------------------
(* Types. *)

LEMMA NewestSubset ==
  ASSUME NEW rows, NEW n, NEW kept \in NewestRows(rows, n)
  PROVE  kept \subseteq rows
BY DEF NewestRows

\* Pruning takes the oldest: what is newer than a kept event is kept.
UpTo(rows, kept) ==
  kept \subseteq rows /\ \A e \in kept, f \in rows : e.at < f.at => f \in kept

LEMMA PruneRule ==
  ASSUME NEW rows \in SUBSET Events, NEW t \in Nat
  PROVE  /\ UpTo(rows, Aged(rows, t))
         /\ \A kept \in NewestRows(rows, MaxEvents) : UpTo(rows, kept)
         /\ \A kept \in StartupPruned(rows, t) : UpTo(rows, kept)
<1> USE EventTableAssumption DEF Events
<1>1. UpTo(rows, Aged(rows, t)) /\ UpTo(rows, rows)
  BY DEF UpTo, Aged
<1>2. ASSUME NEW table \in SUBSET Events, NEW kept \in NewestRows(table, MaxEvents)
      PROVE  UpTo(table, kept)
  BY <1>2 DEF UpTo, NewestRows
<1>3. ASSUME NEW kept \in Pruned(rows, t) PROVE UpTo(rows, kept)
  <2>1. UpTo(Aged(rows, t), kept)
    BY <1>2, <1>3 DEF Pruned, Aged
  <2> QED BY <1>1, <2>1 DEF UpTo, Aged
<1> QED BY <1>1, <1>2, <1>3 DEF StartupPruned

\* Every step keeps the types.
LEMMA TypeStep == TypeOK /\ [Next]_vars => TypeOK'
<1> SUFFICES ASSUME TypeOK, [Next]_vars PROVE TypeOK'
  OBVIOUS
<1> USE RelayAssumption, EventTableAssumption
<1> USE DEF TypeOK, NoMark
<1>1. CASE Clock
  BY <1>1 DEF Clock, database, pass, command, bounds, history, causes
<1>2. CASE PublishStart
  BY <1>2 DEF PublishStart, database, pass, command, bounds, history, causes
<1>3. ASSUME NEW kind \in Kinds, NEW next \in {"build", "prune"}, RecordEvent(kind, next)
      PROVE  TypeOK'
  <2>1. [at |-> stamp, kind |-> kind] \in Events
    BY <1>3 DEF Events
  <2> QED
    BY <1>3, <2>1 DEF RecordEvent, pass, command, bounds
<1>4. CASE PublishFails
  BY <1>4 DEF PublishFails, database, pass, command, history, causes
<1>5. CASE PruneEvents
  BY <1>5 DEF PruneEvents, Aged, pass, command, bounds, history, causes
<1>24. CASE PruneRows
  BY <1>24, NewestSubset DEF PruneRows, pass, command, bounds, history, causes
<1>6. CASE SpawnRelay
  BY <1>6 DEF SpawnRelay, database, pass, command, bounds, history, causes
<1>7. CASE RelayStart
  BY <1>7 DEF RelayStart, database, command, bounds, history, causes
<1>8. CASE RelaySeed
  BY <1>8 DEF RelaySeed, command, bounds, causes
<1>9. CASE RelayLoad
  <2>1. PICK rows \in NewestRows(events, MaxEvents) :
          /\ batch' = {e \in rows : e.at > Mark}
          /\ parted' = parted \union {e \in events \ rows : \E b \in batch' : b.at = e.at}
    BY <1>9 DEF RelayLoad
  <2>2. batch' \subseteq Events /\ parted' \subseteq Events
    BY <2>1, NewestSubset
  <2> QED
    BY <1>9, <2>2 DEF RelayLoad, database, command, bounds
<1>10. CASE RelayFails
  BY <1>10 DEF RelayFails, database, command, history, causes
<1>11. CASE RelayNext
  BY <1>11 DEF RelayNext, database, command, bounds, history, causes
<1>12. CASE RelayEnd
  BY <1>12 DEF RelayEnd, database, command, bounds, history, causes
<1>13. CASE PostAccepted
  BY <1>13 DEF PostAccepted, database, command, bounds, causes
<1>14. CASE PostRefused
  BY <1>14 DEF PostRefused, database, command, bounds, causes
<1>15. CASE Bury
  <2>1. dead' \subseteq Events /\ parted' \subseteq Events /\ lost' \subseteq Events
    <3>1. CASE dead' \in NewestRows(dead \union {current}, MaxEvents)
      BY <1>15, <3>1, NewestSubset DEF Bury
    <3> QED BY <1>15, <3>1 DEF Bury
  <2>2. errors' \in Nat
    BY <1>15 DEF Bury
  <2> QED
    BY <1>15, <2>1, <2>2, Zenon DEF Bury, command
<1>16. CASE Advance
  <2>1. batch' \subseteq Events /\ parted' \subseteq Events /\ errors' \in Nat
    BY <1>16 DEF Advance
  <2>2. cursor' \in Nat \union {NoMark} /\ mem' \in Nat \union {NoMark}
    BY <1>16 DEF Advance, Events
  <2>3. relay' \in {"next", "idle"}
    BY <1>16 DEF Advance
  <2> QED
    BY <1>16, <2>1, <2>2, <2>3 DEF Advance, command
<1>17. CASE Crash
  <2>1. up' \in BOOLEAN
    BY <1>17, Zenon DEF Crash
  <2>2. crashes' \in Nat /\ pending' \in Nat /\ batch' \subseteq Events /\ parted' \subseteq Events
    BY <1>17 DEF Crash
  <2> QED
    BY <1>17, <2>1, <2>2, Zenon DEF Crash, database, command
<1>18. CASE Start
  <2>1. events' \subseteq Events
    BY <1>18, PruneRule DEF Start, UpTo
  <2> QED
    BY <1>18, <2>1 DEF Start, pass, command, bounds
<1>19. CASE RequeueRead
  BY <1>19 DEF RequeueRead, database, pass
<1>20. CASE RequeueReset
  <2>1. PICK oldest \in letters : cursor' = oldest.at - 1
    BY <1>20 DEF RequeueReset
  <2>2. cursor' \in Nat \union {NoMark}
    BY <2>1 DEF Events
  <2> QED
    BY <1>20, <2>2 DEF RequeueReset, pass, bounds, history, causes
<1>21. CASE RequeueClear
  BY <1>21 DEF RequeueClear, pass, bounds
<1>22. CASE RequeueFails
  BY <1>22 DEF RequeueFails, database, pass, history, causes
<1>23. CASE UNCHANGED vars
  BY <1>23 DEF vars, database, pass, command, bounds, history, causes
<1> QED
  BY <1>1, <1>2, <1>3, <1>4, <1>5, <1>6, <1>7, <1>8, <1>9, <1>10, <1>11, <1>12, <1>13,
     <1>14, <1>15, <1>16, <1>17, <1>18, <1>19, <1>20, <1>21, <1>22, <1>23, <1>24
  DEF Next, Publisher, Pass, Requeue, RecordHealth, RecordBuild, Kinds

LEMMA InitType == Init => TypeOK
<1> SUFFICES ASSUME Init PROVE TypeOK
  OBVIOUS
<1>1. cursor \in Nat \union {NoMark} /\ mem \in Nat \union {NoMark} /\ seed \in Nat \union {NoMark}
  BY DEF Init, NoMark
<1>2. current \in Events
  BY DEF Init, Events, Kinds
<1> QED
  BY <1>1, <1>2 DEF Init, TypeOK

\* The variables keep their types, whatever the bounds.
THEOREM TypeCorrect == Spec => []TypeOK
<1> QED
  BY InitType, TypeStep, PTL DEF Spec

-----------------------------------------------------------------------------
(* The cursor. *)

\* The requeue command runs while the daemon does not.
Offline ==
  /\ requeue # "idle" => ~up
  /\ ~up => relay = "idle"

\* A running pass handles the oldest first, and what it has still to handle lies
\* at or above the cursor.
InHand == relay \in Holding => current \in batch /\ \A b \in batch : Before(current, b)

Ahead ==
  /\ InHand
  /\ relay \in Passing => \A b \in batch : cursor <= b.at

LEMMA OfflineStep ==
  ASSUME "up" \notin RequeueWhen
  PROVE  TypeOK /\ Offline /\ [Next]_vars => Offline'
<1> SUFFICES ASSUME TypeOK, Offline, [Next]_vars PROVE Offline'
  OBVIOUS
<1> USE DEF Offline
<1>1. CASE Clock \/ PublishStart \/ RecordHealth \/ RecordBuild \/ PublishFails
           \/ PruneEvents \/ PruneRows \/ SpawnRelay \/ UNCHANGED vars
  BY <1>1 DEF Clock, PublishStart, RecordHealth, RecordBuild, RecordEvent, PublishFails,
     PruneEvents, PruneRows, SpawnRelay, vars, pass, command
<1>2. CASE RelayStart \/ Pass
  <2>1. up
    BY <1>2 DEF Pass, RelayStart, RelaySeed, RelayLoad, RelayFails, RelayNext, RelayEnd,
       PostAccepted, PostRefused, Bury, Advance
  <2>2. up' = up /\ requeue' = requeue
    BY <1>2 DEF Pass, RelayStart, RelaySeed, RelayLoad, RelayFails, RelayNext, RelayEnd,
       PostAccepted, PostRefused, Bury, Advance, command
  <2> QED
    BY <2>1, <2>2
<1>3. CASE Crash \/ Start
  BY <1>3 DEF Crash, Start, pass, command
<1>4. CASE RequeueRead
  <2>1. ~up
    BY <1>4 DEF RequeueRead
  <2> QED
    BY <1>4, <2>1 DEF RequeueRead, pass
<1>5. CASE RequeueReset \/ RequeueClear \/ RequeueFails
  BY <1>5 DEF RequeueReset, RequeueClear, RequeueFails, pass
<1> QED
  BY <1>1, <1>2, <1>3, <1>4, <1>5 DEF Next, Publisher, Requeue

LEMMA InHandStep == TypeOK /\ InHand /\ [Next]_vars => InHand'
<1> SUFFICES ASSUME TypeOK, InHand, [Next]_vars PROVE InHand'
  OBVIOUS
<1> USE DEF InHand, Holding, TypeOK
<1>1. CASE Clock \/ PublishStart \/ RecordHealth \/ RecordBuild \/ PublishFails
           \/ PruneEvents \/ PruneRows \/ SpawnRelay \/ Start \/ Requeue \/ UNCHANGED vars
  BY <1>1 DEF Clock, PublishStart, RecordHealth, RecordBuild, RecordEvent, PublishFails,
     PruneEvents, PruneRows, SpawnRelay, Start, Requeue, RequeueRead, RequeueReset,
     RequeueClear, RequeueFails, vars, pass
<1>2. CASE RelayStart \/ RelaySeed \/ RelayLoad \/ RelayFails \/ RelayEnd \/ Advance \/ Crash
  BY <1>2 DEF RelayStart, RelaySeed, RelayLoad, RelayFails, RelayEnd, Advance, Crash
<1>3. CASE RelayNext
  BY <1>3 DEF RelayNext
<1>4. CASE PostAccepted \/ PostRefused \/ Bury
  BY <1>4 DEF PostAccepted, PostRefused, Bury
<1> QED
  BY <1>1, <1>2, <1>3, <1>4 DEF Next, Publisher, Pass

\* A pass never holds an event below the cursor.
LEMMA AheadStep == TypeOK /\ Offline /\ Ahead /\ [Next]_vars => Ahead'
<1> SUFFICES ASSUME TypeOK, Offline, Ahead, [Next]_vars,
                    relay' \in Passing, NEW b \in batch'
             PROVE  cursor' <= b.at
  BY InHandStep DEF Ahead
<1> USE DEF Ahead, Passing, Holding, TypeOK, NoMark
<1>1. CASE Clock \/ PublishStart \/ RecordHealth \/ RecordBuild \/ PublishFails
           \/ PruneEvents \/ PruneRows \/ SpawnRelay \/ Start \/ RequeueRead \/ RequeueClear
           \/ RequeueFails \/ UNCHANGED vars
  BY <1>1 DEF Clock, PublishStart, RecordHealth, RecordBuild, RecordEvent, PublishFails,
     PruneEvents, PruneRows, SpawnRelay, Start, RequeueRead, RequeueClear, RequeueFails,
     vars, database, pass, command, bounds, history
<1>2. CASE RelayStart \/ RelaySeed \/ RelayFails \/ RelayEnd \/ Crash
  BY <1>2 DEF RelayStart, RelaySeed, RelayFails, RelayEnd, Crash, database
<1>3. CASE RelayLoad
  <2>1. b \in Events /\ b.at > Mark
    BY <1>3, NewestSubset DEF RelayLoad
  <2> QED
    BY <1>3, <2>1 DEF RelayLoad, Mark, database, Events
<1>4. CASE RelayNext
  BY <1>4 DEF RelayNext, database
<1>5. CASE PostAccepted \/ PostRefused \/ Bury
  BY <1>5 DEF PostAccepted, PostRefused, Bury, database
<1>6. CASE Advance
  <2>1. \A c \in batch : current.at <= c.at
    BY <1>6 DEF Advance, InHand, Before, Events
  <2>2. cursor' = current.at /\ batch' = batch \ {current}
    BY <1>6 DEF Advance
  <2> QED
    BY <2>1, <2>2
<1>7. CASE RequeueReset
  BY <1>7 DEF RequeueReset, Offline, pass
<1> QED
  BY <1>1, <1>2, <1>3, <1>4, <1>5, <1>6, <1>7
  DEF Next, Publisher, Pass, Requeue

\* A step that is not a requeue leaves the cursor at or above where it was.
LEMMA CursorStep ==
  TypeOK /\ Ahead /\ [Next]_vars => [RequeueReset \/ cursor' >= cursor]_vars
<1> SUFFICES ASSUME TypeOK, Ahead, Next, ~RequeueReset PROVE cursor' >= cursor
  OBVIOUS
<1> USE DEF TypeOK, NoMark
<1>1. CASE RelaySeed
  BY <1>1 DEF RelaySeed, Mark
<1>2. CASE Advance
  BY <1>2 DEF Advance, Ahead, InHand, Holding, Passing, Events
<1>3. CASE UNCHANGED cursor
  BY <1>3
<1> QED
  BY <1>1, <1>2, <1>3
  DEF Next, Publisher, Pass, Requeue, Clock, PublishStart, RecordHealth, RecordBuild,
      RecordEvent, PublishFails, PruneEvents, PruneRows, SpawnRelay, RelayStart, RelayLoad, RelayFails,
      RelayNext, RelayEnd, PostAccepted, PostRefused, Bury, Crash, Start, RequeueRead,
      RequeueClear, RequeueFails, database

\* Restarts, coalesced passes and failed cursor statements never take the relay
\* back to events it has passed, if a requeue waits for the daemon to stop.
THEOREM CursorMonotone ==
  ASSUME "up" \notin RequeueWhen
  PROVE  Spec => CursorNeverRewinds
<1>1. Init => TypeOK /\ Offline /\ Ahead
  BY InitType DEF Init, Offline, Ahead, InHand, Passing, Holding
<1>2. TypeOK /\ Offline /\ Ahead /\ [Next]_vars => (TypeOK /\ Offline /\ Ahead)'
  BY TypeStep, OfflineStep, AheadStep
<1> QED
  BY <1>1, <1>2, CursorStep, PTL DEF Spec, CursorNeverRewinds

-----------------------------------------------------------------------------
(* The skips. *)

Excused(e) == Settled(e) \/ Shadowed(e) \/ Unlucky(e)

\* The events that the database, the running pass or the command knows.
Known == events \union dead \union batch \union letters

Idle ==
  /\ ~up => relay = "idle" /\ mem = NoMark
  /\ relay \notin Passing => batch = {}

\* A command beside which no daemon has run reads, resets and deletes the same
\* letters, and puts the cursor below them before it deletes them.
Letters ==
  requeue # "idle" /\ ~beside =>
    ~up /\ letters = dead /\ (requeue = "clear" => \A l \in dead : cursor < l.at)

Clocks ==
  /\ lastAt <= stamp /\ stamp <= now /\ passTime <= now /\ seed <= passTime
  /\ \A e \in Known : e.at <= lastAt
  /\ mem <= lastAt \/ mem <= seed
  /\ cursor <= lastAt \/ cursor <= seed

\* What is newer than an event of the log is in the log.
Suffix == \A e \in events, f \in Known : e.at < f.at => f \in events

\* But for what the running pass has in hand, all is excused up to the mark, up to
\* what a pass has still to handle, and, because a requeue may put the cursor
\* there, below every dead letter.
BelowMark ==
  \A e \in events \ batch : seed < e.at /\ e.at <= Mark => Excused(e)
BelowBatch ==
  \A e \in events \ batch, b \in batch : seed < e.at /\ e.at <= b.at => Excused(e)
BelowLetters ==
  \A e \in events, l \in dead \union letters : seed < e.at /\ e.at < l.at => Excused(e)

\* What a pass has in hand is above the cursor, or excused, or shares the second
\* of the cursor and is next.
AboveCursor ==
  \A b \in batch \intersect events :
    seed < b.at =>
      \/ b.at > cursor \/ Excused(b)
      \/ b.at = cursor /\ \A c \in batch : b.at <= c.at

CurrentExcused ==
  relay = "advance" /\ current \in events => Excused(current)

SkipInv ==
  /\ TypeOK /\ InHand /\ Idle /\ Letters
  /\ Clocks /\ Suffix
  /\ BelowMark /\ BelowBatch /\ BelowLetters /\ AboveCursor /\ CurrentExcused

-----------------------------------------------------------------------------
(* What a step does to the events that are known and to those excused. *)

\* A step records one event, no older than any other, and parts it from its
\* sibling if it comes too late; or it prunes the log; or it leaves the log alone.
\* In the last two cases nothing new is known.
Recorded ==
  /\ stamp >= lastAt /\ lastAt' = stamp
  /\ \E e \in Events :
       /\ e.at = stamp /\ events' = events \union {e}
       /\ TooLate => e \in parted'
  /\ UNCHANGED <<now, dead, posted, cursor, mem, seed, relay, batch, current, letters>>
Dropped ==
  UpTo(events, events') /\ UNCHANGED <<now, dead, batch, posted, lastAt, letters>>
Kept == events' = events /\ Known' \subseteq Known /\ lastAt' = lastAt

LEMMA LogStep ==
  TypeOK /\ InHand /\ Clocks /\ [Next]_vars => Recorded \/ Dropped \/ Kept
<1> SUFFICES ASSUME TypeOK, InHand, Clocks, [Next]_vars PROVE Recorded \/ Dropped \/ Kept
  OBVIOUS
<1>1. ASSUME NEW kind \in Kinds, NEW next \in {"build", "prune"}, RecordEvent(kind, next)
      PROVE  Recorded \/ Kept
  <2> DEFINE e == [at |-> stamp, kind |-> kind]
  <2>1. UNCHANGED <<now, dead, posted, cursor, mem, seed, relay, batch, current, letters>>
    BY <1>1 DEF RecordEvent, pass, command
  <2>2. CASE UNCHANGED <<events, lastAt, parted>>
    BY <2>1, <2>2 DEF Kept, Known
  <2>3. CASE /\ events' = events \union {e} /\ lastAt' = stamp
             /\ parted' = IF TooLate THEN parted \union {e} ELSE parted
    <3>1. e \in Events /\ e.at = stamp
      BY <1>1 DEF Events, TypeOK
    <3>2. TooLate => e \in parted'
      BY <2>3
    <3>3. stamp >= lastAt
      BY DEF Clocks, TypeOK
    <3> HIDE DEF e
    <3> QED
      BY <2>1, <2>3, <3>1, <3>2, <3>3 DEF Recorded
  <2> QED
    BY <1>1, <2>2, <2>3 DEF RecordEvent
<1>2. CASE PruneEvents \/ PruneRows \/ Start
  <2>1. UpTo(events, events')
    BY <1>2, PruneRule DEF PruneEvents, PruneRows, Start, TypeOK
  <2> QED
    BY <1>2, <2>1 DEF PruneEvents, PruneRows, Start, Dropped, pass, command, history
<1>3. CASE RelayLoad
  BY <1>3, NewestSubset DEF RelayLoad, Kept, Known, database, command
<1>4. CASE Bury
  <2>1. dead' \subseteq dead \union {current}
    BY <1>4, NewestSubset DEF Bury
  <2> QED
    BY <1>4, <2>1 DEF Bury, Kept, Known, InHand, Holding, command
<1>5. CASE Advance
  BY <1>5 DEF Advance, Kept, Known, command
<1>6. CASE Clock \/ PublishStart \/ PublishFails \/ SpawnRelay \/ RelayStart \/ RelaySeed
           \/ RelayFails \/ RelayNext \/ RelayEnd \/ PostAccepted \/ PostRefused \/ Crash
           \/ RequeueRead \/ RequeueReset \/ RequeueClear \/ RequeueFails \/ UNCHANGED vars
  BY <1>6
  DEF Clock, PublishStart, PublishFails, SpawnRelay, RelayStart, RelaySeed, RelayFails,
      RelayNext, RelayEnd, PostAccepted, PostRefused, Crash, RequeueRead, RequeueReset,
      RequeueClear, RequeueFails, vars, database, pass, command, history, Kept, Known
<1> QED
  BY <1>1, <1>2, <1>3, <1>4, <1>5, <1>6
  DEF Next, Publisher, Pass, Requeue, RecordHealth, RecordBuild, Kinds

\* The newer events that shadow a kept event are kept with it.
LEMMA ShadowStep ==
  ASSUME TypeOK, Recorded \/ Dropped \/ Kept, NEW e \in events, e \in events', Shadowed(e)
  PROVE  Shadowed(e)'
<1>1. PICK newer \in SUBSET events :
        Cardinality(newer) = MaxEvents /\ \A f \in newer : f.at > e.at
  BY DEF Shadowed
<1>2. newer \subseteq events'
  <2>1. CASE Recorded \/ Kept
    BY <2>1 DEF Recorded, Kept
  <2>2. CASE Dropped
    BY <1>1, <2>2 DEF Dropped, UpTo, TypeOK, Events
  <2> QED
    BY <2>1, <2>2
<1> QED
  BY <1>1, <1>2 DEF Shadowed

\* A letter goes into the table, or is lost, or newer letters of newer events push
\* it out, or a sibling's does.
LEMMA BuryExcuses ==
  ASSUME TypeOK, InHand, Suffix, Bury, NEW e \in events, e \in dead \union {current}
  PROVE  Excused(e)'
<1> USE DEF TypeOK, Events
<1> DEFINE written == dead \union {current}
<1>0. events' = events /\ current \in batch
  BY DEF Bury, InHand, Holding
<1>1. CASE e \in dead' \/ e \in lost'
  BY <1>1 DEF Excused, Settled, Unlucky
<1>2. CASE /\ dead' \in NewestRows(written, MaxEvents) /\ e \notin dead'
           /\ parted' = parted \union {d \in written \ dead' : \E l \in dead' : l.at = d.at}
  <2>1. Cardinality(dead') = MaxEvents /\ dead' \subseteq written
    BY <1>2 DEF NewestRows
  <2>2. CASE \E l \in dead' : l.at = e.at
    BY <1>2, <2>2 DEF Excused, Unlucky
  <2>3. CASE \A l \in dead' : l.at # e.at
    <3>1. \A l \in dead' : l.at > e.at
      BY <1>0, <1>2, <2>1, <2>3 DEF NewestRows
    <3>2. dead' \subseteq events'
      BY <1>0, <2>1, <3>1 DEF Suffix, Known
    <3> QED
      BY <2>1, <3>1, <3>2 DEF Excused, Shadowed
  <2> QED
    BY <2>2, <2>3
<1> QED
  BY <1>1, <1>2 DEF Bury

\* The clock goes on, and the histories grow.
LEMMA HistoryStep ==
  ASSUME TypeOK, [Next]_vars
  PROVE  /\ now' >= now /\ now' \in Nat /\ posted \subseteq posted'
         /\ parted \subseteq parted' /\ lost \subseteq lost' /\ raced \subseteq raced'
<1> USE DEF TypeOK
<1>1. CASE Clock \/ Publisher \/ RelayStart \/ UNCHANGED vars
  BY <1>1 DEF Publisher, Clock, PublishStart, RecordHealth, RecordBuild, RecordEvent,
     PublishFails, PruneEvents, PruneRows, SpawnRelay, RelayStart, vars, history, causes
<1>2. CASE Pass
  BY <1>2 DEF Pass, RelaySeed, RelayLoad, RelayFails, RelayNext, RelayEnd, PostAccepted,
     PostRefused, Bury, Advance, history, causes
<1>3. CASE Crash \/ Start \/ Requeue
  BY <1>3 DEF Crash, Start, Requeue, RequeueRead, RequeueReset, RequeueClear, RequeueFails,
     history, causes
<1> QED
  BY <1>1, <1>2, <1>3 DEF Next

\* What has been excused stays excused, but for the letters that a command deletes
\* while no daemon runs.
LEMMA ExcusedStep ==
  ASSUME TypeOK, InHand, Suffix, Clocks, [Next]_vars, RequeueClear => beside,
         NEW e \in events, e \in events', Excused(e)
  PROVE  Excused(e)'
<1>1. CASE Shadowed(e)
  BY <1>1, LogStep, ShadowStep DEF Excused
<1>2. CASE Expired(e, now)
  BY <1>2, HistoryStep, RelayAssumption DEF Excused, Settled, Expired, TypeOK, Events
<1>3. CASE e \in posted \/ Unlucky(e)
  BY <1>3, HistoryStep DEF Excused, Settled, Unlucky
<1>4. CASE e \in dead
  <2>1. CASE Bury
    BY <1>4, <2>1, BuryExcuses
  <2>2. CASE RequeueClear
    BY <1>4, <2>2 DEF RequeueClear, Excused, Unlucky
  <2>3. CASE ~Bury /\ ~RequeueClear
    <3>1. dead' = dead
      BY <2>3 DEF Next, Publisher, Pass, Requeue, Clock, PublishStart, RecordHealth,
         RecordBuild, RecordEvent, PublishFails, PruneEvents, PruneRows, SpawnRelay,
         RelayStart, RelaySeed, RelayLoad, RelayFails, RelayNext, RelayEnd, PostAccepted,
         PostRefused, Advance, Crash, Start, RequeueRead, RequeueReset, RequeueFails, vars,
         database
    <3> QED
      BY <1>4, <3>1 DEF Excused, Settled
  <2> QED
    BY <2>1, <2>2, <2>3
<1> QED
  BY <1>1, <1>2, <1>3, <1>4 DEF Excused, Settled

\* Such a command deletes letters only above the cursor it has put below them.
LEMMA ExcusedClear ==
  ASSUME TypeOK, Letters, RequeueClear, ~beside, NEW e \in events, e.at <= cursor, Excused(e)
  PROVE  Excused(e)'
<1>1. e \notin dead
  BY DEF Letters, RequeueClear, TypeOK, Events, NoMark
<1>2. UNCHANGED <<events, posted, now, parted, lost>> /\ raced' = raced
  BY DEF RequeueClear
<1> QED
  BY <1>1, <1>2 DEF Excused, Settled, Shadowed, Expired, Unlucky

-----------------------------------------------------------------------------
(* Each part of the invariant is preserved. *)

LEMMA IdleStep == TypeOK /\ Idle /\ [Next]_vars => Idle'
<1> SUFFICES ASSUME TypeOK, Idle, [Next]_vars PROVE Idle'
  OBVIOUS
<1> USE DEF Idle, Passing
<1>1. CASE Clock \/ PublishStart \/ RecordHealth \/ RecordBuild \/ PublishFails
           \/ PruneEvents \/ PruneRows \/ SpawnRelay \/ Requeue \/ UNCHANGED vars
  BY <1>1 DEF Clock, PublishStart, RecordHealth, RecordBuild, RecordEvent, PublishFails,
     PruneEvents, PruneRows, SpawnRelay, Requeue, RequeueRead, RequeueReset, RequeueClear,
     RequeueFails, vars, pass
<1>2. CASE Pass \/ RelayStart
  <2>1. up /\ up' = up
    BY <1>2 DEF Pass, RelayStart, RelaySeed, RelayLoad, RelayFails, RelayNext, RelayEnd,
       PostAccepted, PostRefused, Bury, Advance
  <2>2. relay' \notin Passing => batch' = {}
    BY <1>2 DEF Pass, RelayStart, RelaySeed, RelayLoad, RelayFails, RelayNext, RelayEnd,
       PostAccepted, PostRefused, Bury, Advance, TypeOK
  <2> QED
    BY <2>1, <2>2
<1>3. CASE Crash
  BY <1>3 DEF Crash
<1>4. CASE Start
  BY <1>4 DEF Start, pass
<1> QED
  BY <1>1, <1>2, <1>3, <1>4 DEF Next, Publisher

LEMMA LettersStep == TypeOK /\ Idle /\ Letters /\ [Next]_vars => Letters'
<1> SUFFICES ASSUME TypeOK, Idle, Letters, [Next]_vars PROVE Letters'
  OBVIOUS
<1> USE DEF Letters
<1>1. CASE Clock \/ PublishStart \/ RecordHealth \/ RecordBuild \/ PublishFails
           \/ PruneEvents \/ PruneRows \/ SpawnRelay \/ UNCHANGED vars
  BY <1>1 DEF Clock, PublishStart, RecordHealth, RecordBuild, RecordEvent, PublishFails,
     PruneEvents, PruneRows, SpawnRelay, vars, database, command, history, causes
<1>2. CASE Pass \/ RelayStart
  <2>1. up /\ requeue' = requeue /\ beside' = beside
    BY <1>2 DEF Pass, RelayStart, RelaySeed, RelayLoad, RelayFails, RelayNext, RelayEnd,
       PostAccepted, PostRefused, Bury, Advance, Idle, command, history, causes
  <2> QED
    BY <2>1
<1>3. CASE Crash
  BY <1>3 DEF Crash, database, command
<1>4. CASE Start
  BY <1>4 DEF Start, command
<1>5. CASE RequeueRead
  BY <1>5 DEF RequeueRead, database
<1>6. CASE RequeueReset
  <2>1. requeue = "reset" /\ requeue' = "clear" /\ UNCHANGED <<dead, letters, up, beside>>
    BY <1>6 DEF RequeueReset, history, causes
  <2>2. PICK oldest \in letters :
          (\A e \in letters : oldest.at <= e.at) /\ cursor' = oldest.at - 1
    BY <1>6 DEF RequeueReset
  <2>3. \A l \in letters : cursor' < l.at
    BY <2>2 DEF TypeOK, Events
  <2> QED
    BY <2>1, <2>3
<1>7. CASE RequeueClear \/ RequeueFails
  BY <1>7 DEF RequeueClear, RequeueFails
<1> QED
  BY <1>1, <1>2, <1>3, <1>4, <1>5, <1>6, <1>7 DEF Next, Publisher, Requeue

LEMMA ClocksStep == TypeOK /\ InHand /\ Clocks /\ [Next]_vars => Clocks'
<1> SUFFICES ASSUME TypeOK, InHand, Clocks, [Next]_vars PROVE Clocks'
  OBVIOUS
<1> USE DEF TypeOK, Events, Kinds, NoMark
<1>1. \A e \in Known' : e.at <= lastAt'
  <2>1. CASE Recorded
    BY <2>1 DEF Recorded, Clocks, Known
  <2>2. CASE Dropped \/ Kept
    BY <2>2 DEF Dropped, UpTo, Kept, Clocks, Known
  <2> QED
    BY <2>1, <2>2, LogStep
<1>2. lastAt' <= stamp' /\ stamp' <= now' /\ passTime' <= now' /\ seed' <= passTime'
  BY DEF Clocks, Next, Publisher, Pass, Requeue, Clock, PublishStart, RecordHealth,
     RecordBuild, RecordEvent, PublishFails, PruneEvents, PruneRows, SpawnRelay, RelayStart,
     RelaySeed, RelayLoad, RelayFails, RelayNext, RelayEnd, PostAccepted, PostRefused, Bury,
     Advance, Crash, Start, RequeueRead, RequeueReset, RequeueClear, RequeueFails, vars, pass,
     history
<1>3. lastAt' >= lastAt /\ seed' >= seed
  BY DEF Clocks, Next, Publisher, Pass, Requeue, Clock, PublishStart, RecordHealth,
     RecordBuild, RecordEvent, PublishFails, PruneEvents, PruneRows, SpawnRelay, RelayStart,
     RelaySeed, RelayLoad, RelayFails, RelayNext, RelayEnd, PostAccepted, PostRefused, Bury,
     Advance, Crash, Start, RequeueRead, RequeueReset, RequeueClear, RequeueFails, vars,
     history
<1>4. lastAt' \in Nat /\ seed' \in Nat \union {NoMark}
  BY TypeStep
<1>5. /\ mem' <= lastAt' \/ mem' <= seed'
      /\ cursor' <= lastAt' \/ cursor' <= seed'
  <2>1. CASE RelaySeed
    BY <2>1 DEF RelaySeed
  <2>2. CASE Advance
    <3>1. current.at <= lastAt
      BY <2>2 DEF Advance, InHand, Holding, Clocks, Known
    <3> QED
      BY <2>2, <3>1, <1>3, <1>4 DEF Advance, Clocks
  <2>3. CASE RequeueReset
    <3>1. PICK oldest \in letters : cursor' = oldest.at - 1
      BY <2>3 DEF RequeueReset
    <3>2. oldest.at <= lastAt
      BY DEF Clocks, Known
    <3>3. cursor' <= lastAt'
      BY <3>1, <3>2, <1>3, <1>4
    <3> QED
      BY <2>3, <3>3, <1>3, <1>4 DEF RequeueReset, Clocks, pass
  <2>4. CASE Crash
    BY <2>4, <1>3, <1>4 DEF Crash, Clocks, database
  <2>5. CASE UNCHANGED <<mem, cursor>>
    BY <2>5, <1>3, <1>4 DEF Clocks
  <2> QED
    BY <2>1, <2>2, <2>3, <2>4, <2>5
    DEF Next, Publisher, Pass, Requeue, Clock, PublishStart, RecordHealth, RecordBuild,
        RecordEvent, PublishFails, PruneEvents, PruneRows, SpawnRelay, RelayStart, RelayLoad,
        RelayFails, RelayNext, RelayEnd, PostAccepted, PostRefused, Bury, Start, RequeueRead,
        RequeueClear, RequeueFails, vars, database, pass
<1> QED
  BY <1>1, <1>2, <1>5 DEF Clocks

LEMMA SuffixStep == TypeOK /\ InHand /\ Clocks /\ Suffix /\ [Next]_vars => Suffix'
<1> SUFFICES ASSUME TypeOK, InHand, Clocks, Suffix, [Next]_vars PROVE Suffix'
  OBVIOUS
<1> USE DEF TypeOK, Events, Kinds
<1>1. CASE Recorded
  <2>1. PICK new \in Events : new.at = stamp /\ events' = events \union {new}
    BY <1>1 DEF Recorded
  <2>2. \A e \in Known : e.at <= new.at
    BY <1>1, <2>1 DEF Recorded, Clocks, Known
  <2>3. Known' = Known \union {new}
    BY <1>1, <2>1 DEF Recorded, Known
  <2> QED
    BY <2>1, <2>2, <2>3 DEF Suffix, Known
<1>2. CASE Dropped
  BY <1>2 DEF Dropped, UpTo, Suffix, Known
<1>3. CASE Kept
  BY <1>3 DEF Kept, Suffix
<1> QED
  BY <1>1, <1>2, <1>3, LogStep

\* An event of the log was there before, or it is the newest that is known, and is
\* excused if its second has been passed.
LEMMA OldOrNew ==
  ASSUME SkipInv, [Next]_vars, NEW e \in events'
  PROVE  \/ e \in events
         \/ /\ \A f \in Known : f.at <= e.at
            /\ seed < e.at /\ e.at <= Mark => Excused(e)'
            /\ \A b \in batch : e.at <= b.at => Excused(e)'
            /\ UNCHANGED <<now, dead, posted, cursor, mem, seed, relay, batch, current, letters>>
<1> USE DEF SkipInv, TypeOK, Events, NoMark
<1>1. CASE Recorded /\ e \notin events
  <2>1. e.at = stamp /\ stamp >= lastAt /\ (TooLate => e \in parted')
        /\ UNCHANGED <<now, dead, posted, cursor, mem, seed, relay, batch, current, letters>>
    BY <1>1 DEF Recorded
  <2>2. TooLate => Excused(e)'
    BY <2>1 DEF Excused, Unlucky
  <2>3. \A f \in Known : f.at <= e.at
    BY <2>1 DEF Clocks, Known
  <2>4. ASSUME seed < e.at, e.at <= Mark PROVE TooLate
    BY <2>1, <2>4 DEF TooLate, Mark, Clocks
  <2>5. ASSUME NEW b \in batch, e.at <= b.at PROVE TooLate
    BY <2>1, <2>3, <2>5 DEF TooLate, Clocks, Known
  <2> QED
    BY <2>1, <2>2, <2>3, <2>4, <2>5
<1>2. CASE Dropped \/ Kept
  BY <1>2 DEF Dropped, UpTo, Kept
<1> QED
  BY <1>1, <1>2, LogStep

\* What a step needs of the events that were there before.
LEMMA Carried ==
  ASSUME SkipInv, [Next]_vars, NEW e \in events, e \in events', Excused(e)
  PROVE  /\ (RequeueClear => beside) => Excused(e)'
         /\ e.at <= cursor => Excused(e)'
<1>1. (RequeueClear => beside) => Excused(e)'
  BY ExcusedStep DEF SkipInv
<1>2. RequeueClear /\ ~beside /\ e.at <= cursor => Excused(e)'
  BY ExcusedClear DEF SkipInv
<1> QED
  BY <1>1, <1>2

\* A command that deletes letters while no daemon runs finds no pass.
LEMMA ClearAlone ==
  ASSUME SkipInv, RequeueClear, ~beside
  PROVE  /\ ~up /\ relay = "idle" /\ mem = NoMark /\ batch = {}
         /\ UNCHANGED <<up, relay, mem, batch, current, cursor, seed, events>>
         /\ dead' = {} /\ letters' = {}
BY DEF SkipInv, RequeueClear, Letters, Idle, Passing, pass

\* An advancing pass has the oldest of its batch in hand.
LEMMA AdvanceRule ==
  ASSUME TypeOK, InHand, Advance
  PROVE  /\ events' = events /\ seed' = seed /\ ~RequeueClear /\ mem' = current.at
         /\ current \in batch /\ current \in Events
         /\ \A b \in batch : current.at <= b.at
<1>1. relay = "advance" /\ relay' # relay /\ UNCHANGED <<events, seed>> /\ mem' = current.at
  BY DEF Advance
<1>2. current \in batch /\ \A b \in batch : Before(current, b)
  BY <1>1 DEF InHand, Holding
<1>3. current \in Events /\ \A b \in batch : current.at <= b.at
  BY <1>2 DEF Before, TypeOK, Events
<1> QED
  BY <1>1, <1>2, <1>3 DEF RequeueClear, pass

\* Where a pass advances, what it leaves behind is excused.
LEMMA AdvanceExcuses ==
  ASSUME SkipInv, Advance, NEW e \in events, seed < e.at, e.at <= current.at,
         e \notin batch \/ e = current
  PROVE  Excused(e)
<1>1. current \in batch /\ relay = "advance"
  BY DEF SkipInv, Advance, InHand, Holding
<1> QED
  BY <1>1 DEF SkipInv, CurrentExcused, BelowBatch

LEMMA BelowMarkStep == SkipInv /\ [Next]_vars => BelowMark'
<1> SUFFICES ASSUME SkipInv, [Next]_vars,
                    NEW e \in events', e \notin batch', seed' < e.at, e.at <= Mark'
             PROVE  Excused(e)'
  BY DEF BelowMark
<1> USE DEF SkipInv
<1>0. e \in Events /\ TypeOK'
  BY TypeStep DEF TypeOK
<1>1. CASE e \notin events
  BY <1>0, <1>1, OldOrNew DEF Mark
<1>2. CASE RelaySeed
  BY <1>0, <1>2 DEF RelaySeed, Mark, TypeOK, Events
<1>3. CASE e \in events /\ Advance
  <2>0. /\ events' = events /\ seed' = seed /\ ~RequeueClear /\ mem' = current.at
        /\ current \in batch /\ current \in Events
        /\ \A b \in batch : current.at <= b.at
    BY <1>3, AdvanceRule
  <2>1. CASE cursor' = current.at /\ batch' = batch \ {current}
    <3>1. e.at <= current.at /\ (e \notin batch \/ e = current)
      BY <2>0, <2>1 DEF Mark
    <3> QED
      BY <1>3, <2>0, <3>1, AdvanceExcuses, Carried
  <2>2. CASE /\ cursor' = cursor /\ batch' = {}
             /\ parted' = parted \union {b \in batch \ {current} : b.at = current.at}
    <3>1. CASE e \notin batch \/ e = current
      <4>1. e.at <= current.at \/ e.at <= cursor
        BY <2>0, <2>2 DEF Mark
      <4>2. CASE e.at <= current.at
        BY <1>3, <2>0, <3>1, <4>2, AdvanceExcuses, Carried
      <4>3. CASE e.at <= cursor /\ e \notin batch
        <5>1. e.at <= Mark
          BY <1>0, <4>3 DEF Mark, TypeOK, Events, NoMark
        <5> QED
          BY <1>3, <2>0, <4>3, <5>1, Carried DEF BelowMark
      <4>4. CASE e = current
        BY <1>0, <4>4, <4>2 DEF Events
      <4> QED BY <3>1, <4>1, <4>2, <4>3, <4>4
    <3>2. CASE e \in batch \ {current} /\ e.at = current.at
      BY <2>2, <3>2 DEF Excused, Unlucky
    <3>3. CASE e \in batch \ {current} /\ e.at # current.at
      <4>1. current.at < e.at
        BY <1>0, <2>0, <3>3 DEF Events
      <4>2. e.at <= cursor
        BY <1>0, <2>0, <2>2, <4>1 DEF Mark, TypeOK, Events, NoMark
      <4>3. Excused(e)
        BY <1>0, <1>3, <2>0, <3>3, <4>1, <4>2 DEF AboveCursor, TypeOK, Events, NoMark
      <4> QED
        BY <1>3, <2>0, <4>3, Carried
    <3> QED BY <3>1, <3>2, <3>3
  <2> QED
    BY <1>3, <2>1, <2>2 DEF Advance
<1>4. CASE e \in events /\ RequeueReset
  <2>1. PICK oldest \in letters : cursor' = oldest.at - 1
    BY <1>4 DEF RequeueReset
  <2>2. UNCHANGED <<mem, batch, seed, events>> /\ ~RequeueClear
    BY <1>4 DEF RequeueReset, RequeueClear, pass, history
  <2>3. oldest \in Events /\ (e.at <= mem \/ e.at < oldest.at)
    BY <1>0, <2>1, <2>2 DEF Mark, TypeOK, Events, NoMark
  <2>4. CASE e.at <= mem
    <3>1. e.at <= Mark
      BY <1>0, <2>4 DEF Mark, TypeOK, Events, NoMark
    <3> QED
      BY <1>4, <2>2, <3>1, Carried DEF BelowMark
  <2>5. CASE e.at < oldest.at
    BY <1>4, <2>2, <2>5, Carried DEF BelowLetters
  <2> QED
    BY <2>3, <2>4, <2>5
<1>5. CASE e \in events /\ RequeueClear
  <2>1. UNCHANGED <<mem, cursor, seed, batch>> /\ e.at <= Mark
    BY <1>5 DEF RequeueClear, Mark, pass
  <2>2. Excused(e)
    BY <1>5, <2>1 DEF BelowMark
  <2>3. ~beside => e.at <= cursor
    BY <1>0, <1>5, <2>1, ClearAlone DEF Mark, TypeOK, Events, NoMark
  <2> QED
    BY <1>5, <2>2, <2>3, Carried
<1>6. CASE e \in events /\ Crash
  <2>1. e.at <= cursor /\ e.at <= Mark /\ seed < e.at
    BY <1>0, <1>6 DEF Crash, database, Mark, TypeOK, Events, NoMark
  <2>2. CASE e \notin batch
    BY <1>6, <2>1, <2>2, Carried DEF BelowMark
  <2>3. CASE e \in batch /\ e.at = cursor
    BY <1>6, <2>3 DEF Crash, Excused, Unlucky
  <2>4. CASE e \in batch /\ e.at # cursor
    <3>1. Excused(e)
      BY <1>0, <1>6, <2>1, <2>4 DEF AboveCursor, TypeOK, Events, NoMark
    <3> QED
      BY <1>6, <2>1, <3>1, Carried
  <2> QED BY <2>2, <2>3, <2>4
<1>7. CASE e \in events /\ RelayLoad
  <2>1. UNCHANGED <<mem, cursor, seed, events>> /\ batch = {} /\ ~RequeueClear
    BY <1>7 DEF RelayLoad, RequeueClear, Idle, Passing, database, pass
  <2>2. Excused(e)
    BY <1>7, <2>1 DEF BelowMark, Mark
  <2> QED
    BY <1>7, <2>1, <2>2, Carried
<1>8. CASE e \in events /\ UNCHANGED <<mem, cursor, seed, batch>> /\ ~RequeueClear
  <2>1. Excused(e)
    BY <1>8 DEF BelowMark, Mark
  <2> QED
    BY <1>8, <2>1, Carried
<1> QED
  BY <1>1, <1>2, <1>3, <1>4, <1>5, <1>6, <1>7, <1>8
  DEF Next, Publisher, Pass, Requeue, Clock, PublishStart, RecordHealth, RecordBuild,
      RecordEvent, PublishFails, PruneEvents, PruneRows, SpawnRelay, RelayStart, RelayFails,
      RelayNext, RelayEnd, PostAccepted, PostRefused, Bury, Start, RequeueRead,
      RequeueFails, RequeueClear, vars, database, pass, history

LEMMA BelowBatchStep == SkipInv /\ [Next]_vars => BelowBatch'
<1> SUFFICES ASSUME SkipInv, [Next]_vars,
                    NEW e \in events', NEW b \in batch',
                    seed' < e.at, e \notin batch', e.at <= b.at
             PROVE  Excused(e)'
  BY DEF BelowBatch
<1> USE DEF SkipInv
<1>0. e \in Events /\ b \in Events
  BY TypeStep DEF TypeOK
<1>1. CASE e \notin events
  BY <1>0, <1>1, OldOrNew
<1>2. CASE e \in events /\ RelayLoad
  <2>1. PICK rows \in NewestRows(events, MaxEvents) :
          /\ batch' = {r \in rows : r.at > Mark}
          /\ parted' = parted \union {r \in events \ rows : \E c \in batch' : c.at = r.at}
    BY <1>2 DEF RelayLoad
  <2>2. UNCHANGED <<events, seed>> /\ ~RequeueClear /\ batch = {}
    <3>1. relay' # relay /\ UNCHANGED <<events, seed>> /\ batch = {}
      BY <1>2 DEF RelayLoad, Idle, Passing, database
    <3> QED
      BY <3>1 DEF RequeueClear, pass
  <2>3. CASE e.at <= Mark
    <3>1. Excused(e)
      BY <1>2, <2>2, <2>3 DEF BelowMark
    <3> QED
      BY <1>2, <2>2, <3>1, Carried
  <2>4. CASE ~(e.at <= Mark)
    <3>0. e \notin rows
      BY <1>0, <2>1, <2>4 DEF Mark, TypeOK, Events, NoMark
    <3>1. Cardinality(rows) = MaxEvents /\ rows \subseteq events
      BY <1>2, <2>1, <3>0 DEF NewestRows
    <3>2. CASE \E r \in rows : r.at = e.at
      <4>1. PICK r \in rows : r.at = e.at
        BY <3>2
      <4>2. r \in batch'
        BY <1>0, <2>1, <2>4, <4>1 DEF Mark, TypeOK, Events, NoMark
      <4> QED
        BY <1>2, <2>1, <3>0, <4>1, <4>2 DEF Excused, Unlucky
    <3>3. CASE \A r \in rows : r.at # e.at
      <4>1. \A r \in rows : r.at > e.at
        BY <1>0, <1>2, <2>1, <3>0, <3>1, <3>3 DEF NewestRows, TypeOK, Events
      <4> QED
        BY <2>2, <3>1, <4>1 DEF Excused, Shadowed
    <3> QED
      BY <3>2, <3>3
  <2> QED
    BY <2>3, <2>4
<1>3. CASE e \in events /\ Advance
  <2>1. batch' = batch \ {current} /\ seed' = seed /\ ~RequeueClear
        /\ current \in batch /\ current.at <= b.at
    BY <1>3, AdvanceRule DEF Advance
  <2>2. Excused(e)
    BY <1>3, <2>1 DEF BelowBatch, CurrentExcused, Advance
  <2> QED
    BY <1>3, <2>1, <2>2, Carried
<1>4. CASE RelaySeed \/ Crash
  BY <1>4 DEF RelaySeed, Crash, Idle, Passing
<1>5. CASE RequeueClear /\ ~beside
  BY <1>5, ClearAlone
<1>6. CASE e \in events /\ UNCHANGED <<batch, seed>> /\ (RequeueClear => beside)
  <2>1. Excused(e)
    BY <1>6 DEF BelowBatch
  <2> QED
    BY <1>6, <2>1, Carried
<1> QED
  BY <1>1, <1>2, <1>3, <1>4, <1>5, <1>6
  DEF Next, Publisher, Pass, Requeue, Clock, PublishStart, RecordHealth, RecordBuild,
      RecordEvent, PublishFails, PruneEvents, PruneRows, SpawnRelay, RelayStart, RelayFails,
      RelayNext, RelayEnd, PostAccepted, PostRefused, Bury, Start, RequeueRead,
      RequeueReset, RequeueFails, RequeueClear, vars, pass, history

LEMMA BelowLettersStep == SkipInv /\ [Next]_vars => BelowLetters'
<1> SUFFICES ASSUME SkipInv, [Next]_vars,
                    NEW e \in events', NEW l \in dead' \union letters',
                    seed' < e.at, e.at < l.at
             PROVE  Excused(e)'
  BY DEF BelowLetters
<1> USE DEF SkipInv
<1>0. e \in Events /\ l \in Events
  BY TypeStep DEF TypeOK
<1>1. CASE e \notin events
  BY <1>0, <1>1, OldOrNew DEF Known, Events
<1>2. seed < e.at
  <2>1. seed <= seed'
    BY DEF Clocks, TypeOK, NoMark, Next, Publisher, Pass, Requeue, Clock, PublishStart,
       RecordHealth, RecordBuild, RecordEvent, PublishFails, PruneEvents, PruneRows,
       SpawnRelay, RelayStart, RelaySeed, RelayLoad, RelayFails, RelayNext, RelayEnd,
       PostAccepted, PostRefused, Bury, Advance, Crash, Start, RequeueRead, RequeueReset,
       RequeueClear, RequeueFails, vars, history
  <2> QED
    BY <1>0, <2>1, TypeStep DEF TypeOK, Events, NoMark
<1>3. CASE e \in events /\ l \in dead \union letters /\ (RequeueClear => beside)
  BY <1>2, <1>3, Carried DEF BelowLetters
<1>4. CASE RequeueClear /\ ~beside
  BY <1>4, ClearAlone
<1>5. CASE e \in events /\ Bury
  <2>1. l \in dead \union letters \/ l = current
    BY <1>5, NewestSubset DEF Bury, command
  <2>2. ~RequeueClear
    BY <1>5 DEF Bury, RequeueClear
  <2>3. CASE l = current
    <3>1. current \in batch /\ e \notin batch
      BY <1>0, <1>5, <2>3 DEF Bury, InHand, Holding, Before, Events
    <3>2. Excused(e)
      BY <1>0, <1>2, <1>5, <2>3, <3>1 DEF BelowBatch, Events
    <3> QED
      BY <1>5, <2>2, <3>2, Carried
  <2> QED
    BY <1>3, <1>5, <2>1, <2>2, <2>3
<1>6. CASE ~Bury /\ (RequeueClear => beside)
  <2>1. l \in dead \union letters
    BY <1>6 DEF Next, Publisher, Pass, Requeue, Clock, PublishStart, RecordHealth,
       RecordBuild, RecordEvent, PublishFails, PruneEvents, PruneRows, SpawnRelay,
       RelayStart, RelaySeed, RelayLoad, RelayFails, RelayNext, RelayEnd, PostAccepted,
       PostRefused, Advance, Crash, Start, RequeueRead, RequeueReset, RequeueClear,
       RequeueFails, vars, database, command
  <2> QED
    BY <1>1, <1>3, <1>6, <2>1
<1> QED
  BY <1>1, <1>4, <1>5, <1>6

LEMMA AboveCursorStep == SkipInv /\ [Next]_vars => AboveCursor'
<1> SUFFICES ASSUME SkipInv, [Next]_vars,
                    NEW b \in batch', b \in events', seed' < b.at
             PROVE  \/ b.at > cursor' \/ Excused(b)'
                    \/ b.at = cursor' /\ \A c \in batch' : b.at <= c.at
  BY DEF AboveCursor
<1> USE DEF SkipInv
<1>0. b \in Events /\ TypeOK'
  BY TypeStep DEF TypeOK
<1>1. CASE b \notin events /\ b \in batch
  <2>1. b.at <= b.at
    BY <1>0 DEF Events
  <2> QED
    BY <1>1, <2>1, OldOrNew
<1>2. CASE RelayLoad
  <2>1. b.at > Mark /\ cursor' = cursor
    BY <1>2 DEF RelayLoad, database
  <2> QED
    BY <1>0, <2>1 DEF Mark, TypeOK, Events, NoMark
<1>3. CASE Advance
  <2>1. /\ current \in batch /\ b \in batch /\ cursor' = current.at /\ batch' \subseteq batch
        /\ current.at <= b.at /\ \A c \in batch : current.at <= c.at
    BY <1>3 DEF Advance, InHand, Holding, Before, TypeOK, Events
  <2> QED
    BY <1>0, <2>1 DEF TypeOK, Events
<1>4. CASE RelaySeed \/ Crash
  BY <1>4 DEF RelaySeed, Crash, Idle, Passing
<1>5. CASE RequeueReset /\ b \in events
  <2>1. PICK oldest \in letters : cursor' = oldest.at - 1
    BY <1>5 DEF RequeueReset
  <2>2. oldest \in Events /\ seed' = seed /\ ~RequeueClear
    BY <1>5, <2>1 DEF RequeueReset, RequeueClear, TypeOK, history
  <2>3. CASE b.at < oldest.at
    BY <1>5, <2>2, <2>3, Carried DEF BelowLetters
  <2>4. CASE ~(b.at < oldest.at)
    BY <1>0, <2>1, <2>2, <2>4 DEF Events
  <2> QED BY <2>3, <2>4
<1>6. CASE RequeueClear /\ ~beside
  BY <1>6, ClearAlone
<1>7. CASE b \in events /\ UNCHANGED <<cursor, batch, seed>> /\ (RequeueClear => beside)
  BY <1>7, Carried DEF AboveCursor
<1> QED
  BY <1>1, <1>2, <1>3, <1>4, <1>5, <1>6, <1>7
  DEF Next, Publisher, Pass, Requeue, Clock, PublishStart, RecordHealth, RecordBuild,
      RecordEvent, PublishFails, PruneEvents, PruneRows, SpawnRelay, RelayStart, RelayFails,
      RelayNext, RelayEnd, PostAccepted, PostRefused, Bury, Start, RequeueRead,
      RequeueReset, RequeueFails, RequeueClear, vars, database, pass, history

LEMMA CurrentStep == SkipInv /\ [Next]_vars => CurrentExcused'
<1> SUFFICES ASSUME SkipInv, [Next]_vars, relay' = "advance", current' \in events'
             PROVE  Excused(current)'
  BY DEF CurrentExcused
<1> USE DEF SkipInv
<1>1. CASE PostAccepted
  BY <1>1 DEF PostAccepted, Excused, Settled
<1>2. CASE Bury
  BY <1>2, BuryExcuses DEF Bury
<1>3. CASE RelayNext
  <2>1. Expired(current', passTime) /\ now' = now /\ current' \in Events
    BY <1>3 DEF RelayNext, TypeOK
  <2>2. Expired(current', now')
    BY <2>1, RelayAssumption DEF Expired, Clocks, TypeOK, Events
  <2> QED
    BY <2>2 DEF Excused, Settled, Expired
<1>4. CASE relay = "advance" /\ current' = current /\ (RequeueClear => beside)
  <2>1. current \in batch /\ current \in events' /\ current.at <= current.at
    BY <1>4 DEF InHand, Holding, TypeOK, Events
  <2>2. CASE current \notin events
    <3>1. Excused(current)'
      BY <2>1, <2>2, OldOrNew
    <3> QED BY <1>4, <3>1
  <2>3. CASE current \in events
    <3>1. Excused(current)
      BY <1>4, <2>3 DEF CurrentExcused
    <3> QED
      BY <1>4, <2>1, <2>3, <3>1, Carried
  <2> QED BY <2>2, <2>3
<1>5. CASE RequeueClear /\ ~beside
  BY <1>5, ClearAlone
<1> QED
  BY <1>1, <1>2, <1>3, <1>4, <1>5
  DEF Next, Publisher, Pass, Requeue, Clock, PublishStart, RecordHealth, RecordBuild,
      RecordEvent, PublishFails, PruneEvents, PruneRows, SpawnRelay, RelayStart, RelaySeed,
      RelayLoad, RelayFails, RelayEnd, PostRefused, Advance, Crash, Start, RequeueRead,
      RequeueReset, RequeueFails, RequeueClear, vars, pass

\* No event the cursor has passed goes without delivery, letter, age or a cause:
\* whatever stops, fails, shares a second, is pruned or is requeued, and when.
THEOREM RelaySkipsForACause == Spec => []SkipsHaveACause
<1>1. Init => SkipInv
  BY InitType
  DEF Init, SkipInv, NoMark, InHand, Passing, Holding, Idle, Letters, Clocks, Known, Suffix,
      BelowMark, BelowBatch, BelowLetters, AboveCursor, CurrentExcused
<1>2. SkipInv /\ [Next]_vars => SkipInv'
  BY TypeStep, InHandStep, IdleStep, LettersStep, ClocksStep, SuffixStep, BelowMarkStep,
     BelowBatchStep, BelowLettersStep, AboveCursorStep, CurrentStep
  DEF SkipInv
<1>3. SkipInv => SkipsHaveACause
  BY DEF SkipInv, SkipsHaveACause, BelowMark, Mark, Excused, TypeOK, Events, NoMark
<1> QED
  BY <1>1, <1>2, <1>3, PTL DEF Spec

-----------------------------------------------------------------------------
(* The repeats. *)

\* What may be acknowledged again: the database does not know that it was
\* acknowledged, or the running pass has still to post it.
Exposed == {e \in posted : e.at > cursor \/ e \in batch}

\* The event that is being settled costs a crash or an error to be posted again.
Owed == IF relay = "advance" THEN Exposed \ {current} ELSE Exposed

Unrequeued ==
  /\ requeue = "idle" /\ Offline /\ Ahead
  /\ IsFiniteSet(posted)
  /\ repeats + Cardinality(Owed) <= crashes + errors

RepeatInv == TypeOK /\ (requeues = 0 => Unrequeued)

\* A smaller set costs no more, and one element less costs one less.
LEMMA CostRule ==
  ASSUME NEW S, IsFiniteSet(S), NEW T \in SUBSET S
  PROVE  /\ IsFiniteSet(T) /\ Cardinality(T) \in Nat /\ Cardinality(S) \in Nat
         /\ Cardinality(T) <= Cardinality(S)
         /\ \A x \in S : Cardinality(S \ {x}) = Cardinality(S) - 1
<1>1. IsFiniteSet(T) /\ Cardinality(T) <= Cardinality(S)
  BY FS_Subset
<1>2. Cardinality(T) \in Nat /\ Cardinality(S) \in Nat
  BY <1>1, FS_CardinalityType
<1>3. ASSUME NEW x \in S PROVE Cardinality(S \ {x}) = Cardinality(S) - 1
  BY FS_RemoveElement
<1> QED BY <1>1, <1>2, <1>3

LEMMA OwedType ==
  ASSUME IsFiniteSet(posted)
  PROVE  IsFiniteSet(Exposed) /\ IsFiniteSet(Owed)
         /\ Cardinality(Exposed) \in Nat /\ Cardinality(Owed) \in Nat
<1>1. Exposed \subseteq posted /\ Owed \subseteq posted
  BY DEF Exposed, Owed
<1> QED BY <1>1, CostRule

\* Without a requeue the pass is ahead of the cursor.
LEMMA AheadAlone ==
  ASSUME TypeOK, requeue = "idle", Offline, Ahead, [Next]_vars, requeues' = requeues
  PROVE  requeue' = "idle" /\ Offline' /\ Ahead'
<1>1. ~RequeueRead
  BY DEF RequeueRead, TypeOK
<1>2. ~RequeueReset /\ ~RequeueClear /\ ~RequeueFails
  BY DEF RequeueReset, RequeueClear, RequeueFails
<1>3. CASE Pass \/ RelayStart
  <2>1. up
    BY <1>3 DEF Offline, Pass, RelayStart, RelaySeed, RelayLoad, RelayFails, RelayNext,
       RelayEnd, PostAccepted, PostRefused, Bury, Advance
  <2>2. up' = up /\ requeue' = requeue
    BY <1>3 DEF Pass, RelayStart, RelaySeed, RelayLoad, RelayFails, RelayNext, RelayEnd,
       PostAccepted, PostRefused, Bury, Advance, command
  <2> QED BY <2>1, <2>2, AheadStep DEF Offline
<1>4. CASE Clock \/ Publisher \/ Start \/ UNCHANGED vars
  <2>1. requeue' = requeue /\ relay' = relay /\ (up' = up \/ up')
    BY <1>4 DEF Clock, Publisher, PublishStart, RecordHealth, RecordBuild, RecordEvent,
       PublishFails, PruneEvents, PruneRows, SpawnRelay, Start, vars, pass, command
  <2> QED BY <2>1, AheadStep DEF Offline
<1>5. CASE Crash
  <2>1. requeue' = requeue /\ relay' = "idle"
    BY <1>5 DEF Crash, command
  <2> QED BY <2>1, AheadStep DEF Offline
<1> QED BY <1>1, <1>2, <1>3, <1>4, <1>5 DEF Next, Requeue

\* Where nothing is acknowledged, no more can be acknowledged again than before,
\* and the event that is being settled by a crash or an error.
LEMMA ExposedStep ==
  ASSUME TypeOK, requeue = "idle", Offline, Ahead, [Next]_vars, requeues' = requeues,
         ~PostAccepted
  PROVE  /\ Exposed' \subseteq Exposed
         /\ \/ Owed' \subseteq Owed
            \/ /\ relay = "advance" /\ <<crashes', errors'>> \in {<<crashes + 1, errors>>, <<crashes, errors + 1>>}
         /\ posted' = posted /\ repeats' = repeats
         /\ crashes' >= crashes /\ errors' >= errors
<1>1. posted' = posted /\ repeats' = repeats /\ crashes' >= crashes /\ errors' >= errors
  BY DEF TypeOK, Next, Publisher, Pass, Requeue, Clock, PublishStart, RecordHealth,
     RecordBuild, RecordEvent, PublishFails, PruneEvents, PruneRows, SpawnRelay, RelayStart, RelaySeed,
     RelayLoad, RelayFails, RelayNext, RelayEnd, PostRefused, Bury, Advance, Crash, Start,
     RequeueRead, RequeueReset, RequeueClear, RequeueFails, vars, bounds, history
<1>2. ~RequeueReset
  BY DEF RequeueReset
<1>3. CASE RelaySeed
  <2>1. cursor = NoMark /\ batch' = batch /\ relay = "load" /\ relay' = "idle"
        /\ cursor' \in Nat
    BY <1>3 DEF RelaySeed, Mark, TypeOK, NoMark
  <2>2. Exposed' \subseteq Exposed
    BY <1>1, <2>1 DEF Exposed, TypeOK, Events, NoMark
  <2> QED BY <1>1, <2>1, <2>2 DEF Owed
<1>4. CASE RelayLoad
  <2>1. cursor' = cursor /\ relay = "load" /\ relay' = "next" /\ \A b \in batch' : b.at > Mark
    BY <1>4 DEF RelayLoad, database
  <2>2. \A b \in batch' : b.at > cursor
    BY <2>1, <1>4, TypeStep DEF Mark, TypeOK, Events, NoMark
  <2>3. Exposed' \subseteq Exposed
    BY <1>1, <2>1, <2>2 DEF Exposed
  <2> QED BY <1>1, <2>1, <2>3 DEF Owed
<1>5. CASE Advance
  <2>1. relay = "advance" /\ current \in batch /\ crashes' = crashes
    BY <1>5 DEF Advance, Ahead, InHand, Holding
  <2>2. \/ /\ cursor' = current.at /\ batch' = batch \ {current} /\ relay' = "next"
        \/ /\ cursor' = cursor /\ batch' = {} /\ relay' = "idle" /\ errors' = errors + 1
    BY <1>5 DEF Advance
  <2>3. cursor <= current.at
    BY <2>1 DEF Ahead, Passing
  <2>4. Exposed' \subseteq Exposed
    BY <1>1, <2>1, <2>2, <2>3 DEF Exposed, TypeOK, Events, NoMark
  <2>5. cursor' = current.at /\ batch' = batch \ {current} => current \notin Exposed'
    BY DEF Exposed, TypeOK, Events, NoMark
  <2> QED BY <1>1, <2>1, <2>2, <2>4, <2>5 DEF Owed
<1>6. CASE Crash
  <2>1. cursor' = cursor /\ batch' = {} /\ relay' = "idle" /\ crashes' = crashes + 1
        /\ errors' = errors
    BY <1>6 DEF Crash, database
  <2>2. Exposed' \subseteq Exposed
    BY <1>1, <2>1 DEF Exposed
  <2> QED BY <1>1, <2>1, <2>2 DEF Owed
<1>7. CASE UNCHANGED <<cursor, batch>> /\ (relay = "advance" => UNCHANGED <<relay, current>>)
  <2>1. Exposed' \subseteq Exposed
    BY <1>1, <1>7 DEF Exposed
  <2> QED BY <1>1, <1>7, <2>1 DEF Owed
<1> QED
  BY <1>2, <1>3, <1>4, <1>5, <1>6, <1>7
  DEF Next, Publisher, Pass, Requeue, Clock, PublishStart, RecordHealth, RecordBuild,
      RecordEvent, PublishFails, PruneEvents, PruneRows, SpawnRelay, RelayStart, RelayFails, RelayNext,
      RelayEnd, PostRefused, Bury, Start, RequeueRead, RequeueClear, RequeueFails,
      vars, database, pass

LEMMA RepeatStep == RepeatInv /\ [Next]_vars => RepeatInv'
<1> SUFFICES ASSUME RepeatInv, [Next]_vars, requeues' = 0 PROVE Unrequeued'
  BY TypeStep DEF RepeatInv
<1>1. requeues = 0 /\ requeues' = requeues
  BY DEF RepeatInv, TypeOK, Next, Publisher, Pass, Requeue, Clock, PublishStart,
     RecordHealth, RecordBuild, RecordEvent, PublishFails, PruneEvents, PruneRows, SpawnRelay, RelayStart,
     RelaySeed, RelayLoad, RelayFails, RelayNext, RelayEnd, PostAccepted, PostRefused, Bury,
     Advance, Crash, Start, RequeueRead, RequeueReset, RequeueClear, RequeueFails, vars, bounds
<1>2. TypeOK /\ Unrequeued
  BY <1>1 DEF RepeatInv
<1>3. requeue' = "idle" /\ Offline' /\ Ahead'
  BY <1>1, <1>2, AheadAlone DEF Unrequeued
<1>4. /\ repeats \in Nat /\ crashes \in Nat /\ errors \in Nat
      /\ repeats' \in Nat /\ crashes' \in Nat /\ errors' \in Nat
  BY <1>2, TypeStep DEF TypeOK
<1>5. /\ IsFiniteSet(Owed) /\ IsFiniteSet(Exposed)
      /\ Cardinality(Exposed) \in Nat /\ Cardinality(Owed) \in Nat
      /\ repeats + Cardinality(Owed) <= crashes + errors
  BY <1>2, OwedType DEF Unrequeued
<1>6. CASE PostAccepted
  <2>1. /\ relay = "post" /\ relay' = "advance" /\ posted' = posted \union {current}
        /\ UNCHANGED <<cursor, batch, current, crashes, errors>>
        /\ repeats' = IF current \in posted THEN repeats + 1 ELSE repeats
    BY <1>6 DEF PostAccepted, database, bounds
  <2>2. current \in batch
    BY <1>2, <2>1 DEF Unrequeued, Ahead, InHand, Holding
  <2>3. IsFiniteSet(posted')
    BY <1>2, <2>1, FS_AddElement DEF Unrequeued
  <2>4. Owed = Exposed /\ Owed' = Exposed \ {current}
    BY <2>1 DEF Owed, Exposed
  <2>5. CASE current \in posted
    <3>1. current \in Exposed
      BY <2>2, <2>5 DEF Exposed
    <3>2. Cardinality(Owed') = Cardinality(Owed) - 1
      BY <1>5, <2>4, <3>1, CostRule
    <3>3. repeats' + Cardinality(Owed') <= crashes' + errors'
      BY <1>4, <1>5, <2>1, <2>5, <3>2
    <3> QED BY <1>3, <2>3, <3>3 DEF Unrequeued
  <2>6. CASE current \notin posted
    <3>1. Owed' = Owed
      BY <2>4, <2>6 DEF Exposed
    <3>2. repeats' + Cardinality(Owed') <= crashes' + errors'
      BY <1>5, <2>1, <2>6, <3>1
    <3> QED BY <1>3, <2>3, <3>2 DEF Unrequeued
  <2> QED BY <2>5, <2>6
<1>7. CASE ~PostAccepted
  <2>1. /\ Exposed' \subseteq Exposed
        /\ \/ Owed' \subseteq Owed
           \/ /\ relay = "advance" /\ <<crashes', errors'>> \in {<<crashes + 1, errors>>, <<crashes, errors + 1>>}
        /\ posted' = posted /\ repeats' = repeats
        /\ crashes' >= crashes /\ errors' >= errors
    BY <1>1, <1>2, <1>7, ExposedStep DEF Unrequeued
  <2>2. IsFiniteSet(posted')
    BY <1>2, <2>1 DEF Unrequeued
  <2>3. CASE Owed' \subseteq Owed
    <3>1. Cardinality(Owed') <= Cardinality(Owed) /\ Cardinality(Owed') \in Nat
      BY <1>5, <2>3, CostRule
    <3>2. repeats' + Cardinality(Owed') <= crashes' + errors'
      BY <1>4, <1>5, <2>1, <3>1
    <3> QED BY <1>3, <2>2, <3>2 DEF Unrequeued
  <2>4. CASE /\ relay = "advance" /\ <<crashes', errors'>> \in {<<crashes + 1, errors>>, <<crashes, errors + 1>>}
    <3>1. Owed' \subseteq Exposed
      BY <2>1 DEF Owed
    <3>2. Cardinality(Owed') <= Cardinality(Exposed) /\ Cardinality(Owed') \in Nat
      BY <1>5, <3>1, CostRule
    <3>3. Cardinality(Exposed) <= Cardinality(Owed) + 1
      <4>1. CASE current \in Exposed
        BY <1>5, <2>4, <4>1, CostRule DEF Owed
      <4>2. CASE current \notin Exposed
        <5>1. Owed = Exposed
          BY <2>4, <4>2 DEF Owed
        <5> QED BY <1>5, <5>1
      <4> QED BY <4>1, <4>2
    <3>4. repeats' + Cardinality(Owed') <= crashes' + errors'
      BY <1>4, <1>5, <2>1, <2>4, <3>2, <3>3
    <3> QED BY <1>3, <2>2, <3>4 DEF Unrequeued
  <2> QED BY <2>1, <2>3, <2>4
<1> QED BY <1>6, <1>7

\* Until an Operator requeues, an acknowledged event is posted again only for a
\* crash or a failed statement, whatever shares a second, ages or is pruned.
THEOREM RepeatsAreFew == Spec => []RepeatsAreBounded
<1>1. Init => RepeatInv
  <2> SUFFICES ASSUME Init PROVE RepeatInv
    OBVIOUS
  <2>1. TypeOK /\ requeue = "idle" /\ Offline /\ Ahead
    BY InitType DEF Init, Offline, Ahead, InHand, Passing, Holding
  <2>2. posted = {} /\ Owed = {}
    BY DEF Init, Owed, Exposed
  <2>3. IsFiniteSet(posted) /\ Cardinality(Owed) = 0
    BY <2>2, FS_EmptySet
  <2>4. repeats = 0 /\ crashes = 0 /\ errors = 0
    BY DEF Init
  <2> QED BY <2>1, <2>3, <2>4 DEF RepeatInv, Unrequeued
<1>2. RepeatInv => RepeatsAreBounded
  <2> SUFFICES ASSUME RepeatInv, requeues = 0 PROVE repeats <= crashes + errors
    BY DEF RepeatsAreBounded
  <2>1. IsFiniteSet(posted) /\ repeats + Cardinality(Owed) <= crashes + errors
    BY DEF RepeatInv, Unrequeued
  <2>2. Cardinality(Owed) \in Nat
    BY <2>1, OwedType
  <2>3. repeats \in Nat /\ crashes \in Nat /\ errors \in Nat
    BY DEF RepeatInv, TypeOK
  <2> QED BY <2>1, <2>2, <2>3
<1> QED
  BY <1>1, <1>2, RepeatStep, PTL DEF Spec
=============================================================================
