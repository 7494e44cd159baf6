-------------------------- MODULE HealthEventsProofs --------------------------
(* Theorems about HealthEvents: for any rows, publishes, stops, restarts,     *)
(* failed statements, notes and prunings, an event is exactly a confirmed     *)
(* change, and the newest one names the health that lasts, or the build.      *)
EXTENDS HealthEvents, TLAPS

\* The healths stored last are those of a streak that is new, or came after
\* another health, or has lasted.
Agrees(k, h) ==
  \/ /\ k.count = 1 /\ k.previous = NoValue
     /\ h = <<k.last>>
  \/ /\ k.count = 1 /\ k.previous \in Healths \ {k.last}
     /\ h = <<k.previous, k.last>> \/ \E a \in Healths : h = <<a, k.previous, k.last>>
  \/ /\ k.count >= 2 /\ k.previous # k.last
     /\ h = <<k.last, k.last>> \/ \E a \in Healths : h = <<a, k.last, k.last>>

Remembered ==
  IF state = NoState THEN recent = <<>> ELSE Agrees(state.streak, recent)

\* An event is not of the future, and alone of its kind in its second.
Keyed ==
  /\ \A e \in log : e.at <= now
  /\ \A e, f \in log : e.at = f.at /\ e.kind = f.kind => e = f

Deciding == {"record_health", "record_build", "store"}

\* The rows never go away again, so waiting is the first health if it is one.
Awake ==
  /\ pc \in Deciding => (decided.health = "waiting" <=> DOMAIN snaps = {})
  /\ pc \in {"record_health", "record_build"} => state # NoState
  /\ state # NoState =>
       IF state.streak.last = "waiting"
       THEN state.streak.previous = NoValue
       ELSE DOMAIN snaps # {}

Grounded == TypeOK /\ Remembered /\ Keyed /\ Awake

\* The health events without what Annotate may change.
Marks == {[at |-> e.at, to |-> e.to] : e \in OfKind("health")}

\* A streak that no event announces: the first one, or the first real poll.
Unannounced(k) ==
  k.previous = NoValue \/ (k.previous = "waiting" /\ k.last = "healthy")

IsNewest(m) == m \in Marks /\ \A n \in Marks : m.at >= n.at

\* The health that has lasted is the one that the newest event announced.
Newness ==
  /\ state = NoState \/ Unannounced(state.streak) => Marks = {}
  /\ Marks # {} => \E m \in Marks : IsNewest(m)
  /\ state # NoState /\ state.streak.count >= 2 =>
       \A m \in Marks : IsNewest(m) => m.to = state.streak.last

\* What an event of this second says, which stands in the way of another one.
SameSecond ==
  /\ inSecond <= 2
  /\ pc \in Deciding => inSecond >= 1
  /\ \A m \in Marks : m.at = now =>
       /\ inSecond \in {1, 2}
       /\ pc = "record_health" => inSecond = 2
       /\ inSecond = 1 \/ pc = "record_health" => m.to = state.streak.last
       /\ inSecond = 1 /\ pc \in {"record_build", "store"} => m.to = decided.health

\* What a confirmed change is stored after.
Inserted ==
  pc \in {"record_build", "store"} /\ state # NoState
    /\ AnnouncesChange(state.streak, decided.health) =>
      \E m \in Marks : m.at = now /\ m.to = decided.health

Told == Newness /\ SameSecond /\ Inserted

\* The streak has not been announced, or it has and was not stored.
Fresh ==
  /\ state # NoState /\ state.streak.count = 1
  /\ ~(pc \in {"record_build", "store"} /\ AnnouncesChange(state.streak, decided.health))

Announced ==
  /\ state = NoState => emitted = 0
  /\ emitted <= 1 + cuts
  /\ Fresh => emitted <= cuts

\* The build events without what Annotate may change.
BuildMarks == {[at |-> e.at, build |-> e.build] : e \in OfKind("build")}

IsNewestBuild(m) == m \in BuildMarks /\ \A n \in BuildMarks : m.at >= n.at

\* The build change of this publish is in the log, and not yet in the state.
Underway == pc = "store" /\ state # NoState /\ decided.build \notin {NoBuild, state.build}

\* The build that the newest event names if nothing has gone astray.
Expected == IF Underway THEN decided.build ELSE state.build

Accounted ==
  /\ BuildMarks # {} => \E m \in BuildMarks : IsNewestBuild(m)
  /\ state = NoState \/ pc = "bootstrap" => BuildMarks = {}
  /\ pc = "bootstrap" => state # NoState /\ state.build = decided.build
  /\ state # NoState /\ Expected # NoBuild /\ astray \cap {"collided", "cut"} = {} =>
       \A m \in BuildMarks : IsNewestBuild(m) => m.build = Expected
  /\ state # NoState /\ Expected # NoBuild /\ astray \cap {"pruned", "cut"} = {} =>
       pc = "bootstrap" \/ BuildMarks # {}

-----------------------------------------------------------------------------
(* Streaks. *)

LEMMA NoStateIsNone == NoState \notin Streak(Healths)
BY DEF NoState, Streak

LEMMA StreakType ==
  ASSUME NEW k \in Streak(Healths), NEW v \in Healths
  PROVE  /\ Bump(k, v) \in Streak(Healths) /\ FirstStreak(v) \in Streak(Healths)
         /\ k.count \in Nat /\ k.last \in Healths /\ k.previous \in Healths \union {NoValue}
         /\ Bump(k, v).last = v /\ FirstStreak(v).last = v
         /\ FirstStreak(v).count = 1 /\ FirstStreak(v).previous = NoValue
         /\ v = k.last => Bump(k, v).count = k.count + 1 /\ Bump(k, v).previous = k.previous
         /\ v # k.last => Bump(k, v).count = 1 /\ Bump(k, v).previous = k.last
BY DEF Streak, Bump, FirstStreak

LEMMA StreakTypeOfFirst ==
  ASSUME NEW v \in Healths PROVE FirstStreak(v) \in Streak(Healths)
BY DEF Streak, FirstStreak

LEMMA TripleRule ==
  ASSUME NEW S, NEW n \in Seq(S), Len(n) = 3 PROVE n = <<n[1], n[2], n[3]>>
OBVIOUS

LEMMA PairRule ==
  ASSUME NEW S, NEW n \in Seq(S), Len(n) = 2 PROVE n = <<n[1], n[2]>>
OBVIOUS

LEMMA AppendToOne ==
  ASSUME NEW b, NEW v PROVE Append(<<b>>, v) = <<b, v>>
<1> PICK S : S = {b, v}
  OBVIOUS
<1> PICK q : q = <<b>>
  OBVIOUS
<1> PICK n : n = Append(q, v)
  OBVIOUS
<1>1. q \in Seq(S) /\ v \in S /\ Len(q) = 1 /\ q[1] = b
  OBVIOUS
<1>2. n \in Seq(S) /\ Len(n) = 2 /\ n[2] = v /\ n[1] = q[1]
  BY <1>1
<1> QED BY <1>1, <1>2, PairRule

LEMMA AppendToTwo ==
  ASSUME NEW b, NEW c, NEW v PROVE Append(<<b, c>>, v) = <<b, c, v>>
<1> PICK S : S = {b, c, v}
  OBVIOUS
<1> PICK q : q = <<b, c>>
  OBVIOUS
<1> PICK n : n = Append(q, v)
  OBVIOUS
<1>1. q \in Seq(S) /\ v \in S /\ Len(q) = 2 /\ q[1] = b /\ q[2] = c
  OBVIOUS
<1>2. n \in Seq(S) /\ Len(n) = 3 /\ n[3] = v /\ n[1] = q[1] /\ n[2] = q[2]
  BY <1>1
<1> QED BY <1>1, <1>2, TripleRule

LEMMA LastThreeRule ==
  ASSUME NEW v
  PROVE  /\ LastThree(<<>>, v) = <<v>>
         /\ \A c : LastThree(<<c>>, v) = <<c, v>>
         /\ \A b, c : LastThree(<<b, c>>, v) = <<b, c, v>>
         /\ \A a, b, c : LastThree(<<a, b, c>>, v) = <<b, c, v>>
<1>1. LastThree(<<>>, v) = <<v>>
  BY DEF LastThree
<1>2. ASSUME NEW c PROVE LastThree(<<c>>, v) = <<c, v>>
  <2>1. LastThree(<<c>>, v) = Append(<<c>>, v)
    BY DEF LastThree
  <2> QED BY <2>1, AppendToOne
<1>3. ASSUME NEW b, NEW c PROVE LastThree(<<b, c>>, v) = <<b, c, v>>
  <2>1. LastThree(<<b, c>>, v) = Append(<<b, c>>, v)
    BY DEF LastThree
  <2> QED BY <2>1, AppendToTwo
<1>4. ASSUME NEW a, NEW b, NEW c PROVE LastThree(<<a, b, c>>, v) = <<b, c, v>>
  <2>1. LastThree(<<a, b, c>>, v) = Append(Tail(<<a, b, c>>), v)
    BY DEF LastThree
  <2>2. Tail(<<a, b, c>>) = <<b, c>>
    OBVIOUS
  <2> QED BY <2>1, <2>2, AppendToTwo
<1> QED BY <1>1, <1>2, <1>3, <1>4

LEMMA FirstAgrees ==
  ASSUME NEW v \in Healths PROVE Agrees(FirstStreak(v), LastThree(<<>>, v))
BY LastThreeRule DEF Agrees, FirstStreak

LEMMA LastThreeType ==
  ASSUME NEW r \in Seq(Healths), Len(r) <= 3, NEW w \in Healths
  PROVE  LastThree(r, w) \in Seq(Healths) /\ Len(LastThree(r, w)) <= 3
<1>1. CASE Len(r) < 3
  <2>1. LastThree(r, w) = Append(r, w)
    BY <1>1 DEF LastThree
  <2>2. Append(r, w) \in Seq(Healths) /\ Len(Append(r, w)) = Len(r) + 1
    OBVIOUS
  <2>3. Len(r) \in Nat
    OBVIOUS
  <2> QED BY <1>1, <2>1, <2>2, <2>3
<1>2. CASE Len(r) = 3
  <2>1. r = <<r[1], r[2], r[3]>> /\ r[2] \in Healths /\ r[3] \in Healths
    BY <1>2, TripleRule
  <2>2. LastThree(r, w) = <<r[2], r[3], w>>
    BY <2>1, LastThreeRule
  <2> QED BY <2>1, <2>2
<1>3. Len(r) < 3 \/ Len(r) = 3
  <2>1. Len(r) \in Nat
    OBVIOUS
  <2>2. \A n \in Nat : n <= 3 => n < 3 \/ n = 3
    OBVIOUS
  <2> QED BY <2>1, <2>2
<1> QED BY <1>1, <1>2, <1>3

\* What a streak and the healths remembered become together: a change is
\* announced exactly when the last three healths say so, and then it is the
\* second publish of a streak that nothing announced.
LEMMA Together ==
  ASSUME NEW k \in Streak(Healths), NEW h, Agrees(k, h), NEW v \in Healths
  PROVE  /\ Agrees(Bump(k, v), LastThree(h, v))
         /\ AnnouncesChange(k, v) <=> ConfirmedChange(LastThree(h, v))
         /\ AnnouncesChange(k, v) <=>
              v = k.last /\ k.count = 1 /\ v # "waiting" /\ ~Unannounced(k)
<1> PICK n : n = LastThree(h, v)
  OBVIOUS
<1> PICK b : b = Bump(k, v)
  OBVIOUS
<1>1. /\ k.count \in Nat /\ k.previous \in Healths \union {NoValue} /\ b.last = v
      /\ k.last \in Healths /\ k.last # NoValue /\ v # NoValue
      /\ v = k.last => b.count = k.count + 1 /\ b.previous = k.previous
      /\ v # k.last => b.count = 1 /\ b.previous = k.last
  BY StreakType, HealthAssumption
<1>2. AnnouncesChange(k, v) <=>
        /\ v = k.last /\ b.count = 2 /\ b.previous \notin {NoValue, v}
        /\ v # "waiting" /\ ~(b.previous = "waiting" /\ v = "healthy")
  BY DEF AnnouncesChange, Confirms
<1>3. ConfirmedChange(n) <=>
        /\ Len(n) = 3 /\ n[2] = n[3] /\ n[1] # n[2]
        /\ n[3] # "waiting" /\ ~(n[1] = "waiting" /\ n[3] = "healthy")
  BY DEF ConfirmedChange
<1>4. CASE k.count = 1 /\ k.previous = NoValue
  <2>1. n = <<k.last, v>>
    <3>1. h = <<k.last>>
      BY <1>4, HealthAssumption DEF Agrees
    <3> QED BY <3>1, LastThreeRule
  <2>2. Agrees(b, n)
    BY <1>1, <1>4, <2>1 DEF Agrees
  <2>3. ~AnnouncesChange(k, v) /\ ~ConfirmedChange(n)
    BY <1>1, <1>2, <1>3, <1>4, <2>1
  <2> QED BY <1>4, <2>2, <2>3 DEF Unannounced
<1>5. CASE k.count = 1 /\ k.previous # NoValue
  <2>1. n = <<k.previous, k.last, v>> /\ k.previous \in Healths \ {k.last}
    BY <1>1, <1>5, LastThreeRule DEF Agrees
  <2>2. Agrees(b, n)
    BY <1>1, <1>5, <2>1 DEF Agrees
  <2>3. ConfirmedChange(n) <=>
          v = k.last /\ v # "waiting" /\ ~(k.previous = "waiting" /\ v = "healthy")
    BY <1>3, <2>1
  <2>4. AnnouncesChange(k, v) <=>
          v = k.last /\ v # "waiting" /\ ~(k.previous = "waiting" /\ v = "healthy")
    BY <1>1, <1>2, <1>5, <2>1
  <2> QED BY <1>5, <2>2, <2>3, <2>4 DEF Unannounced
<1>6. CASE k.count >= 2
  <2>1. n = <<k.last, k.last, v>>
    <3>1. h = <<k.last, k.last>> \/ \E a \in Healths : h = <<a, k.last, k.last>>
      BY <1>6 DEF Agrees
    <3> QED BY <3>1, LastThreeRule
  <2>2. Agrees(b, n)
    BY <1>1, <1>6, <2>1 DEF Agrees
  <2>3. ~AnnouncesChange(k, v)
    BY <1>1, <1>2, <1>6
  <2>4. ~ConfirmedChange(n)
    BY <1>3, <2>1
  <2> QED BY <1>6, <2>2, <2>3, <2>4
<1> QED BY <1>1, <1>4, <1>5, <1>6 DEF Agrees

\* Only an Environment without any row waits.
LEMMA DecideType ==
  ASSUME NEW rows \in RowTables
  PROVE  /\ Decide(rows) \in [health : Healths, build : Builds \union {NoBuild}]
         /\ Decide(rows).health = "waiting" <=> DOMAIN rows = {}
<1>1. PICK S \in SUBSET Signals : rows \in [S -> Snapshot]
  BY DEF RowTables
<1>2. Reachability(rows) \in Reachabilities
  BY <1>1 DEF Reachability, Snapshot, Reachabilities
<1>3. DOMAIN rows = {} => Reachability(rows) = "reachable"
  BY DEF Reachability
<1>4. PICK x : x = HealthRollup(Reachability(rows), rows)
  OBVIOUS
<1>5. x \in Healths /\ (x = "waiting" <=> DOMAIN rows = {})
  <2>1. CASE Reachability(rows) = "unreachable"
    BY <1>3, <1>4, <2>1 DEF HealthRollup, Healths
  <2>2. CASE Reachability(rows) = "asleep"
    BY <1>3, <1>4, <2>2 DEF HealthRollup, Healths
  <2>3. CASE Reachability(rows) = "reachable" /\ DOMAIN rows = {}
    BY <1>4, <2>3 DEF HealthRollup, Healths
  <2>4. CASE Reachability(rows) = "reachable" /\ DOMAIN rows # {}
    BY <1>4, <2>4 DEF HealthRollup, Healths
  <2> QED BY <1>2, <2>1, <2>2, <2>3, <2>4 DEF Reachabilities
<1>6. Availability \in DOMAIN rows => rows[Availability].build \in Builds \union {NoBuild}
  BY <1>1 DEF Snapshot
<1> QED BY <1>4, <1>5, <1>6 DEF Decide

-----------------------------------------------------------------------------
(* What is true without any assumption on the clock. *)

LEMMA InitGrounded == Init => Grounded
<1> SUFFICES ASSUME Init PROVE Grounded
  OBVIOUS
<1>1. snaps \in RowTables
  BY HealthAssumption DEF Init
<1>2. decided \in [health : Healths, build : Builds \union {NoBuild}]
  BY <1>1, DecideType DEF Init
<1>3. TypeOK
  BY <1>1, <1>2 DEF Init, TypeOK, Points
<1> QED BY <1>3 DEF Init, Grounded, Remembered, Keyed, Awake, Deciding

LEMMA PointSteps ==
  ASSUME Grounded, PublishFails \/ Stop PROVE Grounded'
<1>1. /\ UNCHANGED <<snaps, state, log, decided, now, inSecond, publishes, recent, confirmed, emitted>>
      /\ pc' \in {"idle", "down"} /\ stops' \in Nat /\ errors' \in Nat
      /\ cuts' \in {cuts, cuts + 1} /\ astray' \subseteq astray \union {"cut"}
  BY DEF PublishFails, Stop, CutShort, tables, Grounded, TypeOK
<1>2. TypeOK'
  BY <1>1 DEF Grounded, TypeOK, Points
<1> QED BY <1>1, <1>2 DEF Grounded, Remembered, Keyed, Awake, Deciding

LEMMA TickStep ==
  ASSUME Grounded, Tick PROVE Grounded'
<1>1. PICK S \in SUBSET Signals :
        \E fresh \in {f \in [S -> Snapshot] : \A s \in S : f[s] \in Observable[s]} :
          snaps' = [s \in S \union DOMAIN snaps |-> IF s \in S THEN fresh[s] ELSE snaps[s]]
  BY DEF Tick
<1>2. PICK fresh \in [S -> Snapshot] :
        snaps' = [s \in S \union DOMAIN snaps |-> IF s \in S THEN fresh[s] ELSE snaps[s]]
  BY <1>1
<1>3. PICK T \in SUBSET Signals : snaps \in [T -> Snapshot]
  BY DEF Grounded, TypeOK, RowTables
<1>4. snaps' \in [S \union T -> Snapshot] /\ DOMAIN snaps \subseteq DOMAIN snaps'
  BY <1>2, <1>3
<1>5. snaps' \in RowTables
  <2>1. S \union T \in SUBSET Signals
    OBVIOUS
  <2> QED BY <1>4, <2>1 DEF RowTables
<1>6. /\ pc' = "due"
      /\ UNCHANGED <<state, log, decided, now, inSecond, publishes, stops, errors,
                     recent, confirmed, emitted, cuts, astray>>
  BY DEF Tick, bounds, history
<1>7. TypeOK'
  BY <1>5, <1>6 DEF Grounded, TypeOK, Points
<1>8. DOMAIN snaps # {} => DOMAIN snaps' # {}
  BY <1>4
<1> QED BY <1>6, <1>7, <1>8 DEF Grounded, Remembered, Keyed, Awake, Deciding

LEMMA PublishStep ==
  ASSUME Grounded, PublishStart PROVE Grounded'
<1>1. /\ decided' = Decide(snaps)
      /\ pc' = IF state = NoState THEN "store" ELSE "record_health"
      /\ publishes' = publishes + 1
      /\ now' \in {now, now + 1} /\ inSecond' \in {1, inSecond + 1}
      /\ UNCHANGED <<snaps, state, log, stops, errors, recent, confirmed, emitted, cuts, astray>>
  BY DEF PublishStart, tables, history
<1>2. /\ decided' \in [health : Healths, build : Builds \union {NoBuild}]
      /\ decided'.health = "waiting" <=> DOMAIN snaps = {}
  BY <1>1, DecideType DEF Grounded, TypeOK
<1>3. now' \in Nat /\ inSecond' \in Nat /\ publishes' \in Nat
  BY <1>1 DEF Grounded, TypeOK
<1>4. pc' \in Points
  BY <1>1 DEF Points
<1>5. TypeOK'
  BY <1>1, <1>2, <1>3, <1>4 DEF Grounded, TypeOK
<1>6. Keyed'
  <2>1. \A e \in log : e.at \in Nat /\ e.at <= now
    BY DEF Grounded, TypeOK, Event, Keyed
  <2>2. now \in Nat
    BY DEF Grounded, TypeOK
  <2> QED BY <1>1, <2>1, <2>2 DEF Grounded, Keyed
<1> QED BY <1>1, <1>2, <1>5, <1>6 DEF Grounded, Remembered, Awake, Deciding

\* An event that is inserted is of now, and yields to another of its key.
LEMMA InsertRule ==
  ASSUME Grounded, NEW e \in Event, e.at = now, log' = Insert(log, e), UNCHANGED now
  PROVE  log' \subseteq Event /\ Keyed' /\ log \subseteq log'
<1>1. now \in Nat /\ now <= now
  BY DEF Grounded, TypeOK
<1>2. CASE \E r \in log : r.at = e.at /\ r.kind = e.kind
  BY <1>2 DEF Insert, Grounded, Keyed, TypeOK
<1>3. CASE ~\E r \in log : r.at = e.at /\ r.kind = e.kind
  <2>1. log' = log \union {e}
    BY <1>3 DEF Insert
  <2> QED BY <1>1, <1>3, <2>1 DEF Grounded, Keyed, TypeOK
<1> QED BY <1>2, <1>3

LEMMA StateType ==
  ASSUME Grounded, state # NoState
  PROVE  state.streak \in Streak(Healths) /\ Agrees(state.streak, recent)
BY DEF Grounded, TypeOK, PublishState, Remembered

LEMMA DecidedType ==
  ASSUME Grounded
  PROVE  decided.health \in Healths /\ decided.build \in Builds \union {NoBuild}
BY DEF Grounded, TypeOK

LEMMA RecordHealthStep ==
  ASSUME Grounded, RecordHealth PROVE Grounded'
<1> DEFINE k == state.streak
           v == decided.health
<1>1. /\ pc = "record_health" /\ pc' = "record_build"
      /\ UNCHANGED <<snaps, state, decided, now, inSecond, publishes, stops, errors,
                     recent, confirmed, cuts, astray>>
  BY DEF RecordHealth, bounds
<1>2. k \in Streak(Healths) /\ state # NoState /\ v \in Healths /\ now \in Nat
  BY <1>1, StateType, DecidedType DEF Grounded, TypeOK, Awake
<1>3. log' \subseteq Event /\ Keyed' /\ emitted' \in Nat
  <2>1. CASE AnnouncesChange(k, v)
    <3>1. PICK e : e = HealthEvent(Bump(k, v).previous, v)
      OBVIOUS
    <3>2. Bump(k, v).previous \in Healths \union {NoValue}
      BY <1>2, StreakType
    <3>3. e \in Event /\ e.at = now
      BY <1>2, <3>1, <3>2 DEF HealthEvent, Event
    <3>4. log' = Insert(log, e) /\ emitted' \in {emitted, emitted + 1}
      BY <2>1, <3>1 DEF RecordHealth
    <3> QED BY <1>1, <3>3, <3>4, InsertRule DEF Grounded, TypeOK
  <2>2. CASE ~AnnouncesChange(k, v)
    <3>1. log' = log /\ emitted' = emitted
      BY <2>2 DEF RecordHealth
    <3> QED BY <1>1, <3>1 DEF Grounded, TypeOK, Keyed
  <2> QED BY <2>1, <2>2
<1>4. TypeOK'
  BY <1>1, <1>3 DEF Grounded, TypeOK, Points
<1> QED BY <1>1, <1>2, <1>3, <1>4 DEF Grounded, Remembered, Awake, Deciding

LEMMA BuildSteps ==
  ASSUME Grounded, RecordBuild \/ RecordBootstrap PROVE Grounded'
<1>1. /\ \/ pc = "record_build" /\ pc' = "store"
         \/ pc = "bootstrap" /\ pc' = "prune"
      /\ UNCHANGED <<snaps, state, decided, now, inSecond, publishes, stops, errors,
                     recent, confirmed, emitted, cuts>>
      /\ astray' \in {astray, astray \union {"collided"}, {}}
  BY DEF RecordBuild, RecordBootstrap, InsertBuild, bounds
<1>2. log' \subseteq Event /\ Keyed'
  <2>1. CASE log' = log
    BY <1>1, <2>1 DEF Grounded, TypeOK, Keyed
  <2>2. CASE log' # log
    <3>1. PICK f, e : /\ log' = Insert(log, e) /\ e = BuildEvent(f, decided.health, decided.build)
                      /\ f \in Healths \union {NoValue}
      <4>1. CASE RecordBuild
        <5>1. state # NoState
          BY <4>1 DEF RecordBuild, Grounded, Awake
        <5>2. state.streak.last \in Healths
          BY <5>1, StateType, StreakType, DecidedType
        <5> QED BY <2>2, <4>1, <5>2 DEF RecordBuild, InsertBuild
      <4>2. CASE RecordBootstrap
        BY <4>2 DEF RecordBootstrap, InsertBuild
      <4> QED BY <4>1, <4>2
    <3>2. e \in Event /\ e.at = now
      BY <3>1, DecidedType DEF BuildEvent, Event, Grounded, TypeOK
    <3> QED BY <1>1, <3>1, <3>2, InsertRule
  <2> QED BY <2>1, <2>2
<1>3. TypeOK'
  BY <1>1, <1>2 DEF Grounded, TypeOK, Points
<1> QED BY <1>1, <1>2, <1>3 DEF Grounded, Remembered, Awake, Deciding

LEMMA StoreStep ==
  ASSUME Grounded, StoreState PROVE Grounded'
<1> DEFINE v == decided.health
<1> PICK b : b = IF state = NoState THEN FirstStreak(v) ELSE Bump(state.streak, v)
  OBVIOUS
<1>1. /\ pc = "store" /\ pc' \in {"bootstrap", "prune"}
      /\ UNCHANGED <<snaps, log, decided, now, inSecond, publishes, stops, errors, astray>>
      /\ state' = [streak |-> b, build |-> decided.build]
      /\ recent' = LastThree(recent, v)
      /\ confirmed' \in {confirmed, v}
      /\ emitted' \in {0, emitted} /\ cuts' \in {0, cuts}
  BY DEF StoreState, bounds
<1>2. v \in Healths /\ (v = "waiting" <=> DOMAIN snaps = {})
  BY <1>1, DecidedType DEF Grounded, Awake, Deciding
<1>3. b \in Streak(Healths) /\ b.last = v /\ Agrees(b, recent')
  <2>1. CASE state = NoState
    BY <1>1, <1>2, <2>1, FirstAgrees, StreakTypeOfFirst, StreakType
       DEF Grounded, Remembered, FirstStreak
  <2>2. CASE state # NoState
    BY <1>1, <1>2, <2>2, StateType, StreakType, Together
  <2> QED BY <2>1, <2>2
<1>4. state' \in PublishState /\ state' # NoState /\ state'.streak = b
  BY <1>1, <1>3, DecidedType DEF PublishState, NoState
<1>5. b.last = "waiting" => b.previous = NoValue
  <2>1. CASE state = NoState
    BY <2>1 DEF FirstStreak
  <2>2. CASE state # NoState
    <3>1. state.streak \in Streak(Healths)
      BY <2>2, StateType
    <3>2. CASE v = state.streak.last
      BY <1>2, <1>3, <2>2, <3>1, <3>2, StreakType DEF Grounded, Awake
    <3>3. CASE v # state.streak.last
      <4>1. v = "waiting" => state.streak.last = "waiting"
        BY <1>2, <2>2 DEF Grounded, Awake
      <4> QED BY <1>3, <3>3, <4>1
    <3> QED BY <3>2, <3>3
  <2> QED BY <2>1, <2>2
<1>6. recent' \in Seq(Healths) /\ Len(recent') <= 3
  BY <1>1, <1>2, LastThreeType DEF Grounded, TypeOK
<1>7. TypeOK'
  BY <1>1, <1>2, <1>4, <1>6 DEF Grounded, TypeOK, Points
<1>8. Remembered' /\ Awake'
  BY <1>1, <1>2, <1>3, <1>4, <1>5 DEF Remembered, Awake, Deciding
<1> QED BY <1>1, <1>7, <1>8 DEF Grounded, Keyed

\* Neither DELETE of a prune takes an event and leaves an older one.
LEMMA PruneRule ==
  ASSUME NEW rows, \A e \in rows : e.at \in Nat, NEW t \in Nat,
         NEW kept, \/ kept = Aged(rows, t) \/ kept \in NewestRows(rows, MaxEvents)
                   \/ kept \in StartupPruned(rows, t)
  PROVE  kept \subseteq rows /\ \A e \in kept, f \in rows \ kept : f.at <= e.at
<1> DEFINE Upward(old, new) == new \subseteq old /\ \A e \in new, f \in old \ new : f.at <= e.at
<1>1. Upward(rows, Aged(rows, t))
  BY EventTableAssumption DEF Aged
<1>2. ASSUME NEW old, \A e \in old : e.at \in Nat, NEW new \in NewestRows(old, MaxEvents)
      PROVE  Upward(old, new)
  BY <1>2 DEF NewestRows
<1>3. ASSUME NEW new \in Pruned(rows, t) PROVE Upward(rows, new)
  <2>1. \A e \in Aged(rows, t) : e.at \in Nat
    BY <1>1
  <2>2. Upward(Aged(rows, t), new)
    BY <1>2, <1>3, <2>1 DEF Pruned
  <2>3. ASSUME NEW e \in new, NEW f \in rows \ new PROVE f.at <= e.at
    BY <1>1, <2>2, <2>3
  <2> QED BY <1>1, <2>2, <2>3
<1>4. Upward(rows, rows)
  OBVIOUS
<1>5. Upward(rows, kept)
  <2>1. CASE kept = Aged(rows, t)
    BY <1>1, <2>1
  <2>2. CASE kept \in NewestRows(rows, MaxEvents)
    BY <1>2, <2>2
  <2>3. CASE kept \in StartupPruned(rows, t)
    <3>1. kept \in Pruned(rows, t) \/ kept = rows \/ kept = Aged(rows, t)
      BY <2>3 DEF StartupPruned
    <3> QED BY <1>1, <1>3, <1>4, <3>1
  <2> QED BY <2>1, <2>2, <2>3
<1> QED BY <1>5

\* What every prune, of a publish or of a startup, leaves.
LEMMA PruneKeeps ==
  ASSUME Grounded, Prune \/ PruneRows \/ Start
  PROVE  /\ log' \subseteq log
         /\ \A e \in log', f \in log \ log' : f.at <= e.at
         /\ pc \in {"prune", "prune_rows", "down"} /\ pc' \in {"prune_rows", "idle", "due"}
         /\ UNCHANGED <<snaps, state, decided, now, inSecond, publishes, stops, errors,
                        recent, confirmed, emitted, cuts>>
         /\ astray' = IF OfKind("build") # {} /\ OfKind("build")' = {}
                      THEN astray \union {"pruned"} ELSE astray
<1>1. now \in Nat /\ \A e \in log : e.at \in Nat
  BY DEF Grounded, TypeOK, Event
<1>2. \/ log' = Aged(log, now) \/ log' \in NewestRows(log, MaxEvents)
      \/ log' \in StartupPruned(log, now)
  BY DEF Prune, PruneRows, Start
<1>3. log' \subseteq log /\ \A e \in log', f \in log \ log' : f.at <= e.at
  BY <1>1, <1>2, PruneRule
<1> QED BY <1>3 DEF Prune, PruneRows, Start, Forgotten, bounds

LEMMA PruneSteps ==
  ASSUME Grounded, Prune \/ PruneRows \/ Start PROVE Grounded' /\ log' \subseteq log
<1>1. /\ log' \subseteq log /\ pc' \in {"prune_rows", "idle", "due"}
      /\ UNCHANGED <<snaps, state, decided, now, inSecond, publishes, stops, errors,
                     recent, confirmed, emitted, cuts>>
      /\ astray' \in {astray, astray \union {"pruned"}}
  BY PruneKeeps
<1>2. TypeOK'
  BY <1>1 DEF Grounded, TypeOK, Points
<1> QED BY <1>1, <1>2 DEF Grounded, Remembered, Keyed, Awake, Deciding

\* A note leaves the rest of its event alone.
LEMMA AnnotateRule ==
  ASSUME Grounded, Annotate
  PROVE  \E e \in log, a \in Event :
           /\ log' = (log \ {e}) \union {a}
           /\ a.at = e.at /\ a.kind = e.kind /\ a.to = e.to
<1>1. PICK e \in log, n \in Notes \union {NoNote} :
        log' = (log \ {e}) \union {[e EXCEPT !.note = n]}
  BY DEF Annotate
<1>2. PICK a : a = [e EXCEPT !.note = n]
  OBVIOUS
<1>3. e \in Event
  BY DEF Grounded, TypeOK
<1>4. a \in Event /\ a.at = e.at /\ a.kind = e.kind /\ a.to = e.to
  BY <1>2, <1>3 DEF Event
<1> QED BY <1>1, <1>2, <1>4

LEMMA AnnotateStep ==
  ASSUME Grounded, Annotate PROVE Grounded'
<1>1. PICK e \in log, a \in Event :
           /\ log' = (log \ {e}) \union {a}
           /\ a.at = e.at /\ a.kind = e.kind /\ a.to = e.to
  BY AnnotateRule
<1>2. UNCHANGED <<snaps, state, pc, decided, now, inSecond, publishes, stops, errors,
                  recent, confirmed, emitted, cuts, astray>>
  BY DEF Annotate, bounds, history
<1>3. TypeOK'
  BY <1>1, <1>2 DEF Grounded, TypeOK
<1>4. Keyed'
  <2>1. ASSUME NEW f \in log' PROVE \E d \in log : d.at = f.at /\ d.kind = f.kind /\ (f # a => d = f) /\ (d = e => f = a)
    BY <1>1
  <2>2. \A f \in log' : f.at <= now
    BY <2>1 DEF Grounded, Keyed
  <2>3. ASSUME NEW f \in log', NEW g \in log', f.at = g.at, f.kind = g.kind PROVE f = g
    BY <1>1, <2>3 DEF Grounded, Keyed
  <2> QED BY <1>2, <2>2, <2>3 DEF Keyed
<1> QED BY <1>2, <1>3, <1>4 DEF Grounded, Remembered, Awake, Deciding

LEMMA GroundedStep ==
  ASSUME Grounded, [Next]_vars PROVE Grounded'
<1>1. CASE Collector
  BY <1>1, TickStep, PublishStep, RecordHealthStep, BuildSteps, StoreStep, PruneSteps
     DEF Collector
<1>2. CASE UNCHANGED vars
  BY <1>2 DEF vars, tables, history, bounds, Grounded, TypeOK, Remembered, Keyed, Awake, Deciding
<1> QED BY <1>1, <1>2, PointSteps, PruneSteps, AnnotateStep DEF Next, Done

-----------------------------------------------------------------------------
(* The health events, where at most two publishes share a second. *)

\* The poll interval is 30 seconds at least, so one daemon publishes twice in a
\* second at most: at startup and after a fast first tick, or after a tick that
\* overran and the fast one that follows it.
AtMostTwo == MaxPerSecond \in 0 .. 2

LEMMA MarksType ==
  ASSUME Grounded
  PROVE  /\ \A m \in Marks : m.at \in Nat /\ m.at <= now
         /\ \A m, n \in Marks : m.at = n.at => m = n
<1>1. ASSUME NEW m \in Marks
      PROVE \E e \in log : e.kind = "health" /\ m = [at |-> e.at, to |-> e.to] /\ m.at = e.at
  BY DEF Marks, OfKind
<1>2. \A e \in log : e.at \in Nat /\ e.at <= now
  BY DEF Grounded, Keyed, TypeOK, Event
<1>3. \A m \in Marks : m.at \in Nat /\ m.at <= now
  BY <1>1, <1>2
<1>4. ASSUME NEW m \in Marks, NEW n \in Marks, m.at = n.at PROVE m = n
  <2>1. PICK e \in log : e.kind = "health" /\ m = [at |-> e.at, to |-> e.to] /\ m.at = e.at
    BY <1>1
  <2>2. PICK f \in log : f.kind = "health" /\ n = [at |-> f.at, to |-> f.to] /\ n.at = f.at
    BY <1>1
  <2>3. e = f
    BY <1>4, <2>1, <2>2 DEF Grounded, Keyed
  <2> QED BY <2>1, <2>2, <2>3
<1> QED BY <1>3, <1>4

LEMMA InitTold == Init => Told
<1> SUFFICES ASSUME Init PROVE Told
  OBVIOUS
<1>1. Marks = {}
  BY DEF Init, Marks, OfKind
<1> QED BY <1>1 DEF Init, Told, Newness, SameSecond, Inserted, Deciding

\* Notes and builds are not what the health events say.
LEMMA SameMarks ==
  ASSUME Grounded,
         \/ log' = log
         \/ Annotate
         \/ \E f, v, b : log' = Insert(log, BuildEvent(f, v, b))
  PROVE  Marks' = Marks
<1>1. CASE log' = log
  BY <1>1 DEF Marks, OfKind
<1>2. CASE Annotate
  <2>1. PICK e \in log, a \in Event :
           /\ log' = (log \ {e}) \union {a}
           /\ a.at = e.at /\ a.kind = e.kind /\ a.to = e.to
    BY <1>2, AnnotateRule
  <2>2. ASSUME NEW f \in log', f.kind = "health"
        PROVE  \E g \in log : g.kind = "health" /\ g.at = f.at /\ g.to = f.to
    BY <2>1, <2>2
  <2>3. ASSUME NEW f \in log, f.kind = "health"
        PROVE  \E g \in log' : g.kind = "health" /\ g.at = f.at /\ g.to = f.to
    BY <2>1, <2>3
  <2>4. Marks' \subseteq Marks
    BY <2>2 DEF Marks, OfKind
  <2>5. Marks \subseteq Marks'
    BY <2>3 DEF Marks, OfKind
  <2> QED BY <2>4, <2>5
<1>3. CASE \E f, v, b : log' = Insert(log, BuildEvent(f, v, b))
  <2>1. PICK f, v, b : log' = Insert(log, BuildEvent(f, v, b))
    BY <1>3
  <2>2. PICK e : e = BuildEvent(f, v, b)
    OBVIOUS
  <2>3. e.kind # "health" /\ log' \in {log, log \union {e}}
    BY <2>1, <2>2 DEF BuildEvent, Insert
  <2>4. {g \in log' : g.kind = "health"} = {g \in log : g.kind = "health"}
    BY <2>3
  <2>5. OfKind("health")' = OfKind("health")
    BY <2>4 DEF OfKind
  <2> QED BY <2>5 DEF Marks
<1> QED BY <1>1, <1>2, <1>3

LEMMA KeptNewness ==
  ASSUME Newness, Marks' = Marks, state' = state PROVE Newness'
<1>1. \A m : IsNewest(m)' <=> IsNewest(m)
  BY DEF IsNewest
<1> QED BY <1>1 DEF Newness

LEMMA ToldKept ==
  ASSUME Grounded, Told,
         PublishFails \/ Stop \/ Tick \/ Annotate \/ RecordBuild \/ RecordBootstrap
  PROVE  Told'
<1>1. /\ UNCHANGED <<state, decided, now, inSecond>>
      /\ \/ pc' \in {"idle", "down", "due", "prune"}
         \/ pc' = pc
         \/ pc = "record_build" /\ pc' = "store"
  BY DEF PublishFails, Stop, Tick, Annotate, RecordBuild, RecordBootstrap, tables
<1>2. Marks' = Marks
  <2>1. CASE RecordBuild
    <3>1. log' = log \/ \E f, v, b : log' = Insert(log, BuildEvent(f, v, b))
      BY <2>1 DEF RecordBuild, InsertBuild
    <3> QED BY <3>1, SameMarks
  <2>2. CASE RecordBootstrap
    <3>1. \E f, v, b : log' = Insert(log, BuildEvent(f, v, b))
      BY <2>2 DEF RecordBootstrap, InsertBuild
    <3> QED BY <3>1, SameMarks
  <2>3. CASE PublishFails \/ Stop \/ Tick
    <3>1. log' = log
      BY <2>3 DEF PublishFails, Stop, Tick, tables
    <3> QED BY <3>1, SameMarks
  <2> QED BY <2>1, <2>2, <2>3, SameMarks
<1>3. Newness'
  BY <1>1, <1>2, KeptNewness DEF Told
<1>4. SameSecond'
  BY <1>1, <1>2 DEF Told, SameSecond, Deciding
<1>5. Inserted'
  BY <1>1, <1>2 DEF Told, Inserted
<1> QED BY <1>3, <1>4, <1>5 DEF Told

LEMMA ToldPublish ==
  ASSUME AtMostTwo, Grounded, Told, PublishStart PROVE Told'
<1>1. /\ UNCHANGED <<state, log>>
      /\ pc' = IF state = NoState THEN "store" ELSE "record_health"
      /\ \/ now' = now + 1 /\ inSecond' = 1
         \/ now' = now /\ inSecond < MaxPerSecond /\ inSecond' = inSecond + 1
  BY DEF PublishStart, tables
<1>2. Marks' = Marks
  BY <1>1, SameMarks
<1>3. now \in Nat /\ inSecond \in Nat /\ MaxPerSecond \in {0, 1, 2}
  BY DEF Grounded, TypeOK, AtMostTwo
<1>4. ASSUME NEW m \in Marks, m.at = now'
      PROVE  now' = now /\ inSecond = 1 /\ inSecond' = 2
             /\ m.to = state.streak.last
  <2>1. m.at \in Nat /\ m.at <= now
    BY MarksType
  <2>2. now' = now /\ inSecond < 2 /\ inSecond' = inSecond + 1
    BY <1>1, <1>3, <1>4, <2>1
  <2>3. inSecond \in {1, 2}
    BY <1>4, <2>2 DEF Told, SameSecond
  <2>4. inSecond = 1
    BY <2>2, <2>3
  <2>5. m.to = state.streak.last
    BY <1>4, <2>2, <2>4 DEF Told, SameSecond
  <2> QED BY <2>2, <2>4, <2>5
<1>5. inSecond' <= 2 /\ inSecond' >= 1
  BY <1>1, <1>3
<1>6. SameSecond'
  BY <1>1, <1>2, <1>4, <1>5 DEF SameSecond
<1>7. Inserted'
  BY <1>1 DEF Inserted
<1> QED BY <1>1, <1>2, <1>6, <1>7, KeptNewness DEF Told

\* An event is recorded in the second publish of its streak, and is the newest
\* one: no other event is in its way but one that says the same.
LEMMA ToldHealth ==
  ASSUME Grounded, Told, RecordHealth PROVE Told'
<1> DEFINE k == state.streak
           v == decided.health
<1>1. /\ pc = "record_health" /\ pc' = "record_build"
      /\ UNCHANGED <<state, decided, now, inSecond>>
  BY DEF RecordHealth
<1>2. k \in Streak(Healths) /\ state # NoState /\ v \in Healths /\ now \in Nat
  BY <1>1, StateType, DecidedType DEF Grounded, TypeOK, Awake
<1>3. inSecond \in {1, 2}
  BY <1>1 DEF Told, SameSecond, Deciding, Grounded, TypeOK
<1>4. AnnouncesChange(k, v) => v = k.last /\ k.count = 1 /\ ~Unannounced(k)
  BY <1>2, StateType, Together
<1>5. CASE Marks' = Marks /\ (AnnouncesChange(k, v) => \E m \in Marks : m.at = now)
  <2>1. Newness'
    BY <1>1, <1>5, KeptNewness DEF Told
  <2>2. \A m \in Marks : m.at = now => inSecond = 2 /\ m.to = k.last
    BY <1>1 DEF Told, SameSecond
  <2>3. SameSecond'
    BY <1>1, <1>3, <1>5, <2>2 DEF SameSecond
  <2>4. Inserted'
    BY <1>1, <1>4, <1>5, <2>2 DEF Inserted
  <2> QED BY <2>1, <2>3, <2>4 DEF Told
<1>6. CASE AnnouncesChange(k, v) /\ Marks' = Marks \union {[at |-> now, to |-> v]}
           /\ ~\E m \in Marks : m.at = now
  <2> PICK new : new = [at |-> now, to |-> v]
    OBVIOUS
  <2>1. new.at = now /\ new.to = v
    OBVIOUS
  <2>2. Marks' = Marks \union {new}
    BY <1>6, <2>1
  <2>3. IsNewest(new)'
    <3>1. ASSUME NEW n \in Marks' PROVE new.at >= n.at
      BY <1>2, <2>1, <2>2, <3>1, MarksType
    <3> QED BY <2>2, <3>1 DEF IsNewest
  <2>4. Newness'
    <3>1. k.count = 1 /\ ~Unannounced(k) /\ ~(k.count >= 2)
      BY <1>2, <1>4, <1>6
    <3>2. \E m \in Marks' : IsNewest(m)'
      BY <2>2, <2>3
    <3> QED BY <1>1, <1>2, <3>1, <3>2 DEF Newness
  <2>5. \A m \in Marks' : m.at = now => m.to = v
    BY <1>6, <2>1, <2>2
  <2>6. SameSecond'
    BY <1>1, <1>3, <1>4, <1>6, <2>5 DEF SameSecond
  <2>7. Inserted'
    BY <1>1, <2>1, <2>2 DEF Inserted
  <2> QED BY <2>4, <2>6, <2>7 DEF Told
<1>7. CASE ~AnnouncesChange(k, v)
  <2>1. log' = log
    BY <1>7 DEF RecordHealth
  <2> QED BY <1>5, <1>7, <2>1, SameMarks
<1>8. CASE AnnouncesChange(k, v)
  <2>1. PICK e : e = HealthEvent(Bump(k, v).previous, v)
    OBVIOUS
  <2>2. e.at = now /\ e.kind = "health" /\ e.to = v
    BY <2>1 DEF HealthEvent
  <2>3. log' = Insert(log, e)
    BY <1>8, <2>1 DEF RecordHealth
  <2>4. CASE \E r \in log : r.at = now /\ r.kind = "health"
    <3>1. log' = log
      BY <2>2, <2>3, <2>4 DEF Insert
    <3>2. PICK r \in log : r.at = now /\ r.kind = "health"
      BY <2>4
    <3>3. [at |-> r.at, to |-> r.to] \in Marks
      BY <3>2 DEF Marks, OfKind
    <3>4. \E m \in Marks : m.at = now
      BY <3>2, <3>3
    <3> QED BY <1>5, <3>1, <3>4, SameMarks
  <2>5. CASE ~\E r \in log : r.at = now /\ r.kind = "health"
    <3>1. log' = log \union {e}
      BY <2>2, <2>3, <2>5 DEF Insert
    <3>2. {g \in log' : g.kind = "health"} = {g \in log : g.kind = "health"} \union {e}
      BY <2>2, <3>1
    <3>3. OfKind("health")' = OfKind("health") \union {e}
      BY <3>2 DEF OfKind
    <3>4. Marks' = Marks \union {[at |-> e.at, to |-> e.to]}
      BY <3>3 DEF Marks
    <3>5. ~\E m \in Marks : m.at = now
      BY <2>5 DEF Marks, OfKind
    <3> QED BY <1>6, <1>8, <2>2, <3>4, <3>5
  <2> QED BY <2>4, <2>5
<1> QED BY <1>7, <1>8

LEMMA ToldStore ==
  ASSUME Grounded, Told, StoreState PROVE Told'
<1> DEFINE k == state.streak
           v == decided.health
<1> PICK b : b = IF state = NoState THEN FirstStreak(v) ELSE Bump(k, v)
  OBVIOUS
<1>1. /\ pc = "store" /\ pc' \in {"bootstrap", "prune"}
      /\ UNCHANGED <<log, decided, now, inSecond>>
      /\ state'.streak = b /\ state' # NoState
  BY DEF StoreState, NoState
<1>2. v \in Healths /\ now \in Nat
  BY DecidedType DEF Grounded, TypeOK
<1>3. Marks' = Marks /\ \A m : IsNewest(m)' <=> IsNewest(m)
  <2>1. Marks' = Marks
    BY <1>1, SameMarks
  <2> QED BY <2>1 DEF IsNewest
<1>4. b.last = v
  <2>1. CASE state = NoState
    BY <2>1 DEF FirstStreak
  <2>2. CASE state # NoState
    BY <1>2, <2>2, StateType, StreakType
  <2> QED BY <2>1, <2>2
<1>5. SameSecond'
  BY <1>1, <1>3, <1>4 DEF Told, SameSecond, Deciding
<1>6. Inserted'
  BY <1>1 DEF Inserted
<1>7. CASE state = NoState
  <2>1. Marks = {}
    BY <1>7 DEF Told, Newness
  <2> QED BY <1>1, <1>3, <1>5, <1>6, <2>1 DEF Told, Newness
<1>8. CASE state # NoState
  <2>1. /\ k \in Streak(Healths) /\ k.count \in Nat /\ b = Bump(k, v)
        /\ v = k.last => b.count = k.count + 1 /\ b.previous = k.previous
        /\ v # k.last => b.count = 1 /\ b.previous = k.last
        /\ k.last \in Healths /\ k.last # NoValue
    BY <1>2, <1>8, StateType, StreakType, HealthAssumption
  <2>2. k.last = "waiting" => k.previous = NoValue
    BY <1>8 DEF Grounded, Awake
  <2>3. Unannounced(b) => Unannounced(k)
    <3>1. CASE v = k.last
      BY <1>4, <2>1, <3>1 DEF Unannounced
    <3>2. CASE v # k.last
      BY <1>4, <2>1, <2>2, <3>2 DEF Unannounced
    <3> QED BY <3>1, <3>2
  <2>4. Unannounced(b) => Marks = {}
    BY <1>8, <2>3 DEF Told, Newness
  <2>5. ASSUME b.count >= 2, NEW m \in Marks, IsNewest(m) PROVE m.to = b.last
    <3>1. v = k.last /\ k.count >= 1
      BY <2>1, <2>5
    <3>2. CASE k.count >= 2
      BY <1>4, <1>8, <2>5, <3>1, <3>2 DEF Told, Newness
    <3>3. CASE k.count = 1
      <4>1. ~Unannounced(k)
        BY <1>8, <2>5 DEF Told, Newness
      <4>2. v # "waiting"
        BY <2>2, <3>1, <4>1 DEF Unannounced
      <4>3. AnnouncesChange(k, v)
        BY <1>2, <1>8, <3>1, <3>3, <4>1, <4>2, StateType, Together
      <4>4. PICK n \in Marks : n.at = now /\ n.to = v
        BY <1>1, <1>8, <4>3 DEF Told, Inserted
      <4>5. m.at >= n.at /\ m.at <= now /\ m.at \in Nat
        BY <2>5, <4>4, MarksType DEF IsNewest
      <4>6. m = n
        BY <1>2, <4>4, <4>5, MarksType
      <4> QED BY <1>4, <4>4, <4>6
    <3>4. k.count = 1 \/ k.count >= 2
      BY <2>1, <3>1
    <3> QED BY <3>2, <3>3, <3>4
  <2>6. Marks # {} => \E m \in Marks : IsNewest(m)
    BY DEF Told, Newness
  <2>7. Newness'
    BY <1>1, <1>3, <2>4, <2>5, <2>6 DEF Newness
  <2> QED BY <1>5, <1>6, <2>7 DEF Told
<1> QED BY <1>7, <1>8

\* Pruning leaves the newest health event, or none.
LEMMA ToldPrune ==
  ASSUME Grounded, Told, Prune \/ PruneRows \/ Start PROVE Told'
<1>1. pc' \in {"prune_rows", "idle", "due"} /\ UNCHANGED <<state, decided, now, inSecond>>
  BY PruneKeeps
<1>2. log' \subseteq log
  BY PruneKeeps
<1>3. ASSUME NEW e \in log', NEW f \in log, f \notin log' PROVE f.at <= e.at
  BY <1>3, PruneKeeps
<1>4. Marks' \subseteq Marks
  BY <1>2 DEF Marks, OfKind
<1>5. ASSUME NEW m \in Marks', NEW n \in Marks, n \notin Marks' PROVE n.at <= m.at
  <2>1. PICK e \in log' : m = [at |-> e.at, to |-> e.to]
    BY <1>5 DEF Marks, OfKind
  <2>2. PICK f \in log : f.kind = "health" /\ n = [at |-> f.at, to |-> f.to]
    BY <1>5 DEF Marks, OfKind
  <2>3. f \notin log'
    BY <1>5, <2>2 DEF Marks, OfKind
  <2> QED BY <1>3, <2>1, <2>2, <2>3
<1>6. ASSUME NEW m \in Marks', IsNewest(m)' PROVE IsNewest(m)
  <2>1. ASSUME NEW n \in Marks PROVE m.at >= n.at
    <3>1. CASE n \in Marks'
      BY <1>6, <3>1 DEF IsNewest
    <3>2. CASE n \notin Marks'
      BY <1>4, <1>5, <3>2, MarksType
    <3> QED BY <3>1, <3>2
  <2> QED BY <1>4, <2>1 DEF IsNewest
<1>7. ASSUME NEW m0 \in Marks' PROVE \E m \in Marks' : IsNewest(m)'
  <2>1. PICK m \in Marks : IsNewest(m)
    BY <1>4 DEF Told, Newness
  <2>2. CASE m \in Marks'
    BY <1>4, <2>1, <2>2 DEF IsNewest
  <2>3. CASE m \notin Marks'
    <3>1. m.at <= m0.at
      BY <1>5, <2>3
    <3>2. ASSUME NEW n \in Marks' PROVE m0.at >= n.at
      <4>1. n.at \in Nat /\ m0.at \in Nat /\ m.at \in Nat /\ m.at >= n.at
        BY <1>4, <2>1, MarksType DEF IsNewest
      <4> QED BY <3>1, <4>1
    <3> QED BY <3>2 DEF IsNewest
  <2> QED BY <2>2, <2>3
<1>8. Newness'
  <2>1. state = NoState \/ Unannounced(state.streak) => Marks' = {}
    BY <1>4 DEF Told, Newness
  <2>2. state # NoState /\ state.streak.count >= 2 =>
          \A m \in Marks' : IsNewest(m)' => m.to = state.streak.last
    BY <1>4, <1>6 DEF Told, Newness
  <2> QED BY <1>1, <1>7, <2>1, <2>2 DEF Newness
<1>9. SameSecond' /\ Inserted'
  BY <1>1, <1>4 DEF Told, SameSecond, Inserted, Deciding
<1> QED BY <1>8, <1>9 DEF Told

LEMMA ToldStep ==
  ASSUME AtMostTwo, Grounded, Told, [Next]_vars PROVE Told'
<1>1. CASE Collector
  BY <1>1, ToldKept, ToldPublish, ToldHealth, ToldStore, ToldPrune DEF Collector
<1>2. CASE UNCHANGED vars
  <2>1. UNCHANGED <<state, log, pc, decided, now, inSecond>>
    BY <1>2 DEF vars, tables
  <2>2. Marks' = Marks
    BY <2>1, SameMarks
  <2>3. SameSecond' /\ Inserted'
    BY <2>1, <2>2 DEF Told, SameSecond, Inserted
  <2> QED BY <2>1, <2>2, <2>3, KeptNewness DEF Told
<1> QED BY <1>1, <1>2, ToldKept, ToldPrune DEF Next, Done

-----------------------------------------------------------------------------
(* How often a change is announced. *)

LEMMA InitAnnounced == Init => Announced
BY DEF Init, Announced, Fresh

LEMMA AnnouncedStep ==
  ASSUME Grounded, Announced, [Next]_vars PROVE Announced'
<1> DEFINE k == state.streak
           v == decided.health
<1>1. emitted \in Nat /\ cuts \in Nat /\ (state # NoState => k.count \in Nat)
  BY StateType, StreakType, DecidedType DEF Grounded, TypeOK
<1>2. CASE PublishFails \/ Stop
  <2>1. /\ UNCHANGED <<state, decided, emitted>> /\ pc' \in {"idle", "down"}
        /\ cuts' = IF /\ pc \in {"record_build", "store"} /\ state # NoState
                      /\ AnnouncesChange(k, v)
                   THEN cuts + 1 ELSE cuts
    BY <1>2 DEF PublishFails, Stop, CutShort, tables
  <2>2. emitted <= 1 + cuts /\ (state = NoState => emitted = 0)
    BY DEF Announced
  <2>3. CASE pc \in {"record_build", "store"} /\ state # NoState /\ AnnouncesChange(k, v)
    <3>1. cuts' = cuts + 1
      BY <2>1, <2>3
    <3>2. emitted' <= 1 + cuts' /\ emitted' <= cuts'
      BY <1>1, <2>1, <2>2, <3>1
    <3> QED BY <2>1, <2>2, <3>2 DEF Announced
  <2>4. CASE ~(pc \in {"record_build", "store"} /\ state # NoState /\ AnnouncesChange(k, v))
    <3>1. cuts' = cuts /\ (Fresh' => Fresh)
      BY <2>1, <2>4 DEF Fresh
    <3> QED BY <2>1, <3>1 DEF Announced
  <2> QED BY <2>3, <2>4
<1>3. CASE Tick \/ PublishStart \/ RecordBootstrap \/ Prune \/ PruneRows \/ Start
  <2>1. /\ UNCHANGED <<state, emitted, cuts>>
        /\ pc \notin {"record_build", "store"}
    BY <1>3, PruneKeeps DEF Tick, PublishStart, RecordBootstrap, tables, history
  <2>2. Fresh' => Fresh
    BY <2>1 DEF Fresh
  <2> QED BY <2>1, <2>2 DEF Announced
<1>4. CASE RecordBuild \/ Annotate \/ UNCHANGED vars
  <2>1. /\ UNCHANGED <<state, decided, emitted, cuts>>
        /\ pc' = pc \/ (pc = "record_build" /\ pc' = "store")
    BY <1>4 DEF RecordBuild, Annotate, vars, tables, history
  <2>2. AnnouncesChange(k, v)' <=> AnnouncesChange(k, v)
    BY <2>1
  <2>3. Fresh' => Fresh
    BY <2>1, <2>2 DEF Fresh
  <2> QED BY <2>1, <2>3 DEF Announced
<1>5. CASE RecordHealth
  <2>1. /\ pc = "record_health" /\ pc' = "record_build" /\ UNCHANGED <<state, decided, cuts>>
        /\ state # NoState
    BY <1>5 DEF RecordHealth, Grounded, Awake
  <2>2. AnnouncesChange(k, v)' <=> AnnouncesChange(k, v)
    BY <2>1
  <2>3. CASE AnnouncesChange(k, v)
    <3>1. k.count = 1
      BY <2>1, <2>3, StateType, DecidedType, Together
    <3>2. emitted' \in {emitted, emitted + 1}
      BY <1>5, <2>3 DEF RecordHealth
    <3>3. Fresh /\ ~Fresh'
      BY <2>1, <2>2, <2>3, <3>1 DEF Fresh
    <3>4. emitted <= cuts
      BY <3>3 DEF Announced
    <3>5. emitted' <= 1 + cuts'
      BY <1>1, <2>1, <3>2, <3>4
    <3> QED BY <2>1, <3>3, <3>5 DEF Announced
  <2>4. CASE ~AnnouncesChange(k, v)
    <3>1. emitted' = emitted
      BY <1>5, <2>4 DEF RecordHealth
    <3>2. Fresh' => Fresh
      BY <2>1 DEF Fresh
    <3> QED BY <2>1, <3>1, <3>2 DEF Announced
  <2> QED BY <2>3, <2>4
<1>6. CASE StoreState
  <2> PICK b : b = IF state = NoState THEN FirstStreak(v) ELSE Bump(k, v)
    OBVIOUS
  <2>1. /\ pc' \in {"bootstrap", "prune"}
        /\ state' # NoState /\ state'.streak = b
        /\ IF b.count = 1 THEN emitted' = 0 /\ cuts' = 0 ELSE UNCHANGED <<emitted, cuts>>
    BY <1>6 DEF StoreState, NoState
  <2>2. CASE b.count = 1
    <3>1. emitted' <= cuts' /\ emitted' <= 1 + cuts'
      BY <2>1, <2>2
    <3> QED BY <2>1, <3>1 DEF Announced
  <2>3. CASE b.count # 1
    <3>1. ~Fresh'
      BY <2>1, <2>3 DEF Fresh
    <3> QED BY <2>1, <2>3, <3>1 DEF Announced
  <2> QED BY <2>2, <2>3
<1> QED BY <1>2, <1>3, <1>4, <1>5, <1>6 DEF Next, Collector, Done

-----------------------------------------------------------------------------
(* The build events. *)

LEMMA BuildMarksType ==
  ASSUME Grounded
  PROVE  \A m \in BuildMarks : m.at \in Nat /\ m.at <= now
<1>1. ASSUME NEW m \in BuildMarks
      PROVE \E e \in log : m.at = e.at
  BY DEF BuildMarks, OfKind
<1>2. \A e \in log : e.at \in Nat /\ e.at <= now
  BY DEF Grounded, Keyed, TypeOK, Event
<1> QED BY <1>1, <1>2

LEMMA InitAccounted == Init => Accounted
<1> SUFFICES ASSUME Init PROVE Accounted
  OBVIOUS
<1>1. BuildMarks = {}
  BY DEF Init, BuildMarks, OfKind
<1> QED BY <1>1 DEF Init, Accounted

\* Notes and health events are not what the build events say.
LEMMA SameBuildMarks ==
  ASSUME Grounded,
         \/ log' = log
         \/ Annotate
         \/ \E f, v : log' = Insert(log, HealthEvent(f, v))
  PROVE  BuildMarks' = BuildMarks
<1>1. CASE log' = log
  BY <1>1 DEF BuildMarks, OfKind
<1>2. CASE Annotate
  <2>1. PICK e \in log, n \in Notes \union {NoNote} :
          log' = (log \ {e}) \union {[e EXCEPT !.note = n]}
    BY <1>2 DEF Annotate
  <2>2. PICK a : a = [e EXCEPT !.note = n]
    OBVIOUS
  <2>3. e \in Event
    BY DEF Grounded, TypeOK
  <2>4. a.at = e.at /\ a.kind = e.kind /\ a.build = e.build /\ log' = (log \ {e}) \union {a}
    BY <2>1, <2>2, <2>3 DEF Event
  <2>5. ASSUME NEW f \in log', f.kind = "build"
        PROVE  \E g \in log : g.kind = "build" /\ g.at = f.at /\ g.build = f.build
    BY <2>4, <2>5
  <2>6. ASSUME NEW f \in log, f.kind = "build"
        PROVE  \E g \in log' : g.kind = "build" /\ g.at = f.at /\ g.build = f.build
    BY <2>4, <2>6
  <2>7. BuildMarks' \subseteq BuildMarks
    BY <2>5 DEF BuildMarks, OfKind
  <2>8. BuildMarks \subseteq BuildMarks'
    BY <2>6 DEF BuildMarks, OfKind
  <2> QED BY <2>7, <2>8
<1>3. CASE \E f, v : log' = Insert(log, HealthEvent(f, v))
  <2>1. PICK f, v : log' = Insert(log, HealthEvent(f, v))
    BY <1>3
  <2>2. PICK e : e = HealthEvent(f, v)
    OBVIOUS
  <2>3. e.kind # "build" /\ log' \in {log, log \union {e}}
    BY <2>1, <2>2 DEF HealthEvent, Insert
  <2>4. {g \in log' : g.kind = "build"} = {g \in log : g.kind = "build"}
    BY <2>3
  <2>5. OfKind("build")' = OfKind("build")
    BY <2>4 DEF OfKind
  <2> QED BY <2>5 DEF BuildMarks
<1> QED BY <1>1, <1>2, <1>3

\* A step that leaves the build events, and what is expected of the newest one,
\* or that is a cut, leaves them accounted for.
LEMMA AccountedKept ==
  ASSUME Accounted, BuildMarks' = BuildMarks, UNCHANGED <<state, decided>>,
         pc' # "bootstrap" \/ pc = "bootstrap",
         \/ "cut" \in astray'
         \/ Expected' = Expected /\ astray' = astray /\ (pc = "bootstrap" => pc' = "bootstrap")
  PROVE  Accounted'
<1>1. \A m : IsNewestBuild(m)' <=> IsNewestBuild(m)
  BY DEF IsNewestBuild
<1> QED BY <1>1 DEF Accounted

LEMMA AccountedCut ==
  ASSUME Grounded, Accounted, PublishFails \/ Stop PROVE Accounted'
<1>1. /\ UNCHANGED <<state, log, decided>> /\ pc' \in {"idle", "down"}
      /\ astray' = IF \/ pc = "bootstrap"
                      \/ pc = "store" /\ state # NoState /\ decided.build \notin {NoBuild, state.build}
                   THEN astray \union {"cut"} ELSE astray
  BY DEF PublishFails, Stop, CutShort, tables
<1>2. BuildMarks' = BuildMarks
  BY <1>1, SameBuildMarks
<1>3. CASE pc = "bootstrap" \/ Underway
  <2>1. "cut" \in astray'
    BY <1>1, <1>3 DEF Underway
  <2> QED BY <1>1, <1>2, <2>1, AccountedKept
<1>4. CASE ~(pc = "bootstrap" \/ Underway)
  <2>1. astray' = astray /\ Expected' = Expected
    BY <1>1, <1>4 DEF Underway, Expected
  <2> QED BY <1>1, <1>2, <1>4, <2>1, AccountedKept
<1> QED BY <1>3, <1>4

LEMMA AccountedElsewhere ==
  ASSUME Grounded, Accounted, Tick \/ Annotate \/ RecordHealth \/ UNCHANGED vars
  PROVE  Accounted'
<1>1. /\ UNCHANGED <<state, decided, astray>>
      /\ \/ pc = "idle" /\ pc' = "due"
         \/ pc' = pc
         \/ pc = "record_health" /\ pc' = "record_build"
  BY DEF Tick, Annotate, RecordHealth, vars, tables, history
<1>2. BuildMarks' = BuildMarks
  <2>1. CASE RecordHealth
    <3>1. log' = log \/ \E f, v : log' = Insert(log, HealthEvent(f, v))
      BY <2>1 DEF RecordHealth
    <3> QED BY <3>1, SameBuildMarks
  <2>2. CASE Tick \/ UNCHANGED vars
    <3>1. log' = log
      BY <2>2 DEF Tick, vars, tables
    <3> QED BY <3>1, SameBuildMarks
  <2>3. CASE Annotate
    BY <2>3, SameBuildMarks
  <2> QED BY <2>1, <2>2, <2>3
<1>3. Expected' = Expected
  BY <1>1 DEF Expected, Underway
<1> QED BY <1>1, <1>2, <1>3, AccountedKept

LEMMA AccountedPublish ==
  ASSUME Grounded, Accounted, PublishStart PROVE Accounted'
<1>1. /\ UNCHANGED <<state, log, astray>> /\ pc = "due"
      /\ pc' = IF state = NoState THEN "store" ELSE "record_health"
  BY DEF PublishStart, tables, history
<1>2. BuildMarks' = BuildMarks
  BY <1>1, SameBuildMarks
<1>3. \A m : IsNewestBuild(m)' <=> IsNewestBuild(m)
  BY <1>2 DEF IsNewestBuild
<1>4. state # NoState => Expected' = state.build /\ Expected = state.build
  BY <1>1 DEF Expected, Underway
<1> QED BY <1>1, <1>2, <1>3, <1>4 DEF Accounted

\* An event that is inserted is the newest one: nothing is in its way.
LEMMA BuildInserted ==
  ASSUME Grounded, NEW f, log' = Insert(log, BuildEvent(f, decided.health, decided.build)),
         UNCHANGED now, \A m \in BuildMarks : m.at # now
  PROVE  \E new \in BuildMarks' :
           /\ new.at = now /\ new.build = decided.build
           /\ BuildMarks' = BuildMarks \union {new}
           /\ IsNewestBuild(new)' /\ \A m \in BuildMarks' : IsNewestBuild(m)' => m = new
<1> PICK e : e = BuildEvent(f, decided.health, decided.build)
  OBVIOUS
<1> PICK new : new = [at |-> now, build |-> decided.build]
  OBVIOUS
<1>1. /\ e.at = now /\ e.kind = "build" /\ e.build = decided.build
      /\ new.at = now /\ new.build = decided.build
  BY DEF BuildEvent
<1>2. ~\E r \in log : r.at = now /\ r.kind = "build"
  <2>1. SUFFICES ASSUME NEW r \in log, r.at = now, r.kind = "build" PROVE FALSE
    OBVIOUS
  <2>2. [at |-> r.at, build |-> r.build] \in BuildMarks
    BY <2>1 DEF BuildMarks, OfKind
  <2> QED BY <2>1, <2>2
<1>3. log' = log \union {e}
  BY <1>1, <1>2 DEF Insert
<1>4. {g \in log' : g.kind = "build"} = {g \in log : g.kind = "build"} \union {e}
  BY <1>1, <1>3
<1>5. OfKind("build")' = OfKind("build") \union {e}
  BY <1>4 DEF OfKind
<1>6. BuildMarks' = BuildMarks \union {new}
  <2>1. BuildMarks' = BuildMarks \union {[at |-> e.at, build |-> e.build]}
    BY <1>5 DEF BuildMarks
  <2> QED BY <1>1, <2>1
<1>7. \A m \in BuildMarks : m.at \in Nat /\ m.at < now
  <2>1. \A m \in BuildMarks : m.at \in Nat /\ m.at <= now /\ m.at # now
    BY BuildMarksType
  <2> QED BY <2>1 DEF Grounded, TypeOK
<1>8. now \in Nat
  BY DEF Grounded, TypeOK
<1>9. IsNewestBuild(new)'
  <2>1. ASSUME NEW n \in BuildMarks' PROVE new.at >= n.at
    BY <1>1, <1>6, <1>7, <1>8, <2>1
  <2> QED BY <1>6, <2>1 DEF IsNewestBuild
<1>10. ASSUME NEW m \in BuildMarks', IsNewestBuild(m)' PROVE m = new
  <2>1. m.at >= new.at
    BY <1>6, <1>10 DEF IsNewestBuild
  <2> QED BY <1>1, <1>6, <1>7, <1>8, <1>10, <2>1
<1> QED BY <1>1, <1>6, <1>9, <1>10

\* An insertion that changes nothing met an event of this second.
LEMMA BuildCollided ==
  ASSUME Grounded, NEW f, log' = Insert(log, BuildEvent(f, decided.health, decided.build)),
         \E m \in BuildMarks : m.at = now
  PROVE  log' = log
<1>1. PICK m \in BuildMarks : m.at = now
  OBVIOUS
<1>2. PICK r \in log : r.kind = "build" /\ m = [at |-> r.at, build |-> r.build]
  BY DEF BuildMarks, OfKind
<1>3. r.at = now
  BY <1>1, <1>2
<1> QED BY <1>2, <1>3 DEF Insert, BuildEvent

\* A build event that is inserted is the newest one, and nothing is astray.
LEMMA AccountedInsert ==
  ASSUME Grounded, NEW f, InsertBuild(f), UNCHANGED now,
         ~\E m \in BuildMarks : m.at = now,
         state' # NoState, Expected' = decided.build, pc' # "bootstrap"
  PROVE  Accounted'
<1>1. PICK new \in BuildMarks' :
         /\ new.at = now /\ new.build = decided.build
         /\ BuildMarks' = BuildMarks \union {new}
         /\ IsNewestBuild(new)' /\ \A m \in BuildMarks' : IsNewestBuild(m)' => m = new
  BY BuildInserted DEF InsertBuild
<1> QED BY <1>1 DEF Accounted

LEMMA AccountedRecord ==
  ASSUME Grounded, Accounted, RecordBuild PROVE Accounted'
<1>1. /\ pc = "record_build" /\ pc' = "store"
      /\ UNCHANGED <<state, decided, now>>
      /\ state # NoState
  BY DEF RecordBuild, Grounded, Awake
<1>2. CASE decided.build \in {NoBuild, state.build}
  <2>1. log' = log /\ astray' = astray
    BY <1>2 DEF RecordBuild
  <2>2. BuildMarks' = BuildMarks
    BY <2>1, SameBuildMarks
  <2>3. Expected' = Expected
    BY <1>1, <1>2 DEF Expected, Underway
  <2> QED BY <1>1, <2>1, <2>2, <2>3, AccountedKept
<1>3. CASE decided.build \notin {NoBuild, state.build}
  <2>1. InsertBuild(state.streak.last)
    BY <1>3 DEF RecordBuild
  <2>2. Expected' = decided.build
    BY <1>1, <1>3 DEF Expected, Underway
  <2>3. CASE ~\E m \in BuildMarks : m.at = now
    BY <1>1, <2>1, <2>2, <2>3, AccountedInsert
  <2>4. CASE \E m \in BuildMarks : m.at = now
    <3>1. log' = log /\ "collided" \in astray'
      BY <2>1, <2>4, BuildCollided DEF InsertBuild
    <3>2. BuildMarks' = BuildMarks /\ BuildMarks # {}
      BY <2>4, <3>1, SameBuildMarks
    <3>3. \A m : IsNewestBuild(m)' <=> IsNewestBuild(m)
      BY <3>2 DEF IsNewestBuild
    <3> QED BY <1>1, <3>1, <3>2, <3>3 DEF Accounted
  <2> QED BY <2>3, <2>4
<1> QED BY <1>2, <1>3

LEMMA AccountedBootstrap ==
  ASSUME Grounded, Accounted, RecordBootstrap PROVE Accounted'
<1>1. /\ pc = "bootstrap" /\ pc' = "prune"
      /\ UNCHANGED <<state, decided, now>>
      /\ InsertBuild(NoValue)
  BY DEF RecordBootstrap
<1>2. /\ state # NoState /\ state.build = decided.build
      /\ BuildMarks = {}
  BY <1>1 DEF Accounted
<1>3. Expected' = decided.build
  BY <1>1, <1>2 DEF Expected, Underway
<1> QED BY <1>1, <1>2, <1>3, AccountedInsert

LEMMA AccountedStore ==
  ASSUME Grounded, Accounted, StoreState PROVE Accounted'
<1>1. /\ pc = "store"
      /\ pc' = IF state = NoState /\ decided.build # NoBuild THEN "bootstrap" ELSE "prune"
      /\ UNCHANGED <<log, decided, astray>>
      /\ state'.build = decided.build /\ state' # NoState
  BY DEF StoreState, NoState
<1>2. BuildMarks' = BuildMarks
  BY <1>1, SameBuildMarks
<1>3. \A m : IsNewestBuild(m)' <=> IsNewestBuild(m)
  BY <1>2 DEF IsNewestBuild
<1>4. Expected' = decided.build
  BY <1>1 DEF Expected, Underway
<1>5. state # NoState => decided.build \in {NoBuild, Expected}
  BY <1>1 DEF Expected, Underway
<1> QED BY <1>1, <1>2, <1>3, <1>4, <1>5 DEF Accounted

LEMMA AccountedPrune ==
  ASSUME Grounded, Accounted, Prune \/ PruneRows \/ Start PROVE Accounted'
<1>1. /\ pc \in {"prune", "prune_rows", "down"} /\ pc' \in {"prune_rows", "idle", "due"}
      /\ UNCHANGED <<state, decided>>
      /\ astray' = IF OfKind("build") # {} /\ OfKind("build")' = {}
                   THEN astray \union {"pruned"} ELSE astray
  BY PruneKeeps
<1>2. log' \subseteq log
  BY PruneKeeps
<1>3. ASSUME NEW e \in log', NEW f \in log, f \notin log' PROVE f.at <= e.at
  BY <1>3, PruneKeeps
<1>4. BuildMarks' \subseteq BuildMarks
  BY <1>2 DEF BuildMarks, OfKind
<1>5. ASSUME NEW m \in BuildMarks', NEW n \in BuildMarks, n \notin BuildMarks' PROVE n.at <= m.at
  <2>1. PICK e \in log' : m = [at |-> e.at, build |-> e.build]
    BY <1>5 DEF BuildMarks, OfKind
  <2>2. PICK f \in log : f.kind = "build" /\ n = [at |-> f.at, build |-> f.build]
    BY <1>5 DEF BuildMarks, OfKind
  <2>3. f \notin log'
    BY <1>5, <2>2 DEF BuildMarks, OfKind
  <2> QED BY <1>3, <2>1, <2>2, <2>3
<1>6. ASSUME NEW m \in BuildMarks', IsNewestBuild(m)' PROVE IsNewestBuild(m)
  <2>1. ASSUME NEW n \in BuildMarks PROVE m.at >= n.at
    <3>1. CASE n \in BuildMarks'
      BY <1>6, <3>1 DEF IsNewestBuild
    <3>2. CASE n \notin BuildMarks'
      BY <1>4, <1>5, <3>2, BuildMarksType
    <3> QED BY <3>1, <3>2
  <2> QED BY <1>4, <2>1 DEF IsNewestBuild
<1>7. ASSUME NEW m0 \in BuildMarks' PROVE \E m \in BuildMarks' : IsNewestBuild(m)'
  <2>1. PICK m \in BuildMarks : IsNewestBuild(m)
    BY <1>4 DEF Accounted
  <2>2. CASE m \in BuildMarks'
    BY <1>4, <2>1, <2>2 DEF IsNewestBuild
  <2>3. CASE m \notin BuildMarks'
    <3>1. m.at <= m0.at
      BY <1>5, <2>3
    <3>2. ASSUME NEW n \in BuildMarks' PROVE m0.at >= n.at
      <4>1. n.at \in Nat /\ m0.at \in Nat /\ m.at \in Nat /\ m.at >= n.at
        BY <1>4, <2>1, BuildMarksType DEF IsNewestBuild
      <4> QED BY <3>1, <4>1
    <3> QED BY <3>2 DEF IsNewestBuild
  <2> QED BY <2>2, <2>3
<1>8. (OfKind("build") = {} <=> BuildMarks = {}) /\ (OfKind("build") = {} <=> BuildMarks = {})'
  BY DEF BuildMarks
<1>9. astray' = astray \/ (astray' = astray \union {"pruned"} /\ BuildMarks' = {})
  BY <1>1, <1>8
<1>10. BuildMarks # {} /\ BuildMarks' = {} => "pruned" \in astray'
  BY <1>1, <1>8
<1>11. Expected' = Expected
  BY <1>1 DEF Expected, Underway
<1> QED BY <1>1, <1>4, <1>6, <1>7, <1>9, <1>10, <1>11 DEF Accounted

LEMMA AccountedStep ==
  ASSUME Grounded, Accounted, [Next]_vars PROVE Accounted'
BY AccountedCut, AccountedElsewhere, AccountedPublish, AccountedRecord, AccountedBootstrap,
   AccountedStore, AccountedPrune DEF Next, Collector, Done

LEMMA AccountedRule ==
  ASSUME Grounded, Accounted PROVE BuildsAreAccountedFor
<1> SUFFICES ASSUME state # NoState, state.build # NoBuild, pc \notin {"store", "bootstrap"}
             PROVE  IF OfKind("build") = {}
                    THEN astray \cap {"pruned", "cut"} # {}
                    ELSE \/ Newest("build").build = state.build
                         \/ astray \cap {"collided", "cut"} # {}
  BY DEF BuildsAreAccountedFor
<1>1. Expected = state.build
  BY DEF Expected, Underway
<1>2. CASE OfKind("build") = {}
  <2>1. BuildMarks = {}
    BY <1>2 DEF BuildMarks
  <2> QED BY <1>1, <1>2, <2>1 DEF Accounted
<1>3. CASE OfKind("build") # {}
  <2>1. ASSUME NEW e \in OfKind("build")
        PROVE  [at |-> e.at, build |-> e.build] \in BuildMarks
    BY DEF BuildMarks
  <2>2. PICK m \in BuildMarks : IsNewestBuild(m)
    BY <1>3, <2>1 DEF Accounted
  <2>3. PICK f \in OfKind("build") : m = [at |-> f.at, build |-> f.build]
    BY DEF BuildMarks
  <2>4. \A g \in OfKind("build") : f.at >= g.at
    BY <2>1, <2>2, <2>3 DEF IsNewestBuild
  <2>5. PICK e \in OfKind("build") : /\ e = Newest("build")
                                     /\ \A g \in OfKind("build") : e.at >= g.at
    BY <2>3, <2>4 DEF Newest
  <2>6. PICK n : n = [at |-> e.at, build |-> e.build]
    OBVIOUS
  <2>7. n \in BuildMarks /\ n.at = e.at /\ n.build = e.build
    BY <2>1, <2>6
  <2>8. ASSUME NEW p \in BuildMarks PROVE n.at >= p.at
    <3>1. PICK g \in OfKind("build") : p = [at |-> g.at, build |-> g.build]
      BY DEF BuildMarks
    <3>2. p.at = g.at
      BY <3>1
    <3> QED BY <2>5, <2>7, <3>2
  <2>9. IsNewestBuild(n)
    BY <2>7, <2>8 DEF IsNewestBuild
  <2> QED BY <1>1, <1>3, <2>5, <2>7, <2>9 DEF Accounted
<1> QED BY <1>2, <1>3

-----------------------------------------------------------------------------
(* The theorems. *)

\* Whatever the rows, stops, failures and notes, the rows, the publish state,
\* the log and the history keep their types, the stored streak agrees with the
\* healths published, and no two events of a kind share a second.
THEOREM AlwaysGrounded == Spec => []Grounded
<1>1. Grounded /\ [Next]_vars => Grounded'
  BY GroundedStep
<1> QED BY <1>1, InitGrounded, PTL DEF Spec

\* While no more than two publishes share a second, a health event is in the log
\* before the change it announces is stored, and the newest one is of the streak
\* that lasts.
THEOREM AlwaysTold ==
  ASSUME AtMostTwo PROVE Spec => [](Grounded /\ Told)
<1>1. Init => Grounded /\ Told
  BY InitGrounded, InitTold
<1>2. Grounded /\ Told /\ [Next]_vars => (Grounded /\ Told)'
  BY AtMostTwo, GroundedStep, ToldStep
<1> QED BY <1>1, <1>2, PTL DEF Spec

LEMMA NewestRule ==
  ASSUME Grounded, Newness PROVE NewestEventIsStable
<1> SUFFICES ASSUME state # NoState, state.streak.count >= 2, OfKind("health") # {}
             PROVE  Newest("health").to = state.streak.last
  BY DEF NewestEventIsStable
<1>1. ASSUME NEW e \in OfKind("health")
      PROVE  [at |-> e.at, to |-> e.to] \in Marks
  BY DEF Marks
<1>2. PICK m \in Marks : IsNewest(m)
  BY <1>1 DEF Newness
<1>3. PICK f \in OfKind("health") : m = [at |-> f.at, to |-> f.to]
  BY DEF Marks
<1>4. \A g \in OfKind("health") : f.at >= g.at
  BY <1>1, <1>2, <1>3 DEF IsNewest
<1>5. PICK e \in OfKind("health") : /\ e = Newest("health")
                                    /\ \A g \in OfKind("health") : e.at >= g.at
  BY <1>3, <1>4 DEF Newest
<1>6. PICK n : n = [at |-> e.at, to |-> e.to]
  OBVIOUS
<1>7. n \in Marks /\ n.at = e.at /\ n.to = e.to
  BY <1>1, <1>6
<1>8. ASSUME NEW p \in Marks PROVE n.at >= p.at
  <2>1. PICK g \in OfKind("health") : p = [at |-> g.at, to |-> g.to]
    BY DEF Marks
  <2>2. p.at = g.at
    BY <2>1
  <2> QED BY <1>5, <1>7, <2>2
<1>9. IsNewest(n)
  BY <1>7, <1>8 DEF IsNewest
<1> QED BY <1>5, <1>7, <1>9 DEF Newness

\* While no more than two publishes share a second, whatever failed, was pruned
\* or restarted, the newest health event names the health that has been
\* published twice in a row, and every variable keeps its type.
THEOREM NewestEventLasts ==
  ASSUME AtMostTwo PROVE Spec => []LogIsSound
<1>1. Grounded /\ Told => LogIsSound
  BY NewestRule DEF Grounded, Told, LogIsSound
<1>2. Spec => [](Grounded /\ Told)
  BY AtMostTwo, AlwaysTold
<1> QED BY <1>1, <1>2, PTL

LEMMA EventStep ==
  ASSUME Grounded, Told
  PROVE  /\ RecordHealth /\ log' # log => ConfirmedChange(LastThree(recent, decided.health))
         /\ StoreState /\ ConfirmedChange(recent') =>
              \E e \in log : e.at = now /\ e.kind = "health" /\ e.to = decided.health
<1> DEFINE k == state.streak
           v == decided.health
<1>1. v \in Healths
  BY DecidedType
<1>2. state # NoState => (AnnouncesChange(k, v) <=> ConfirmedChange(LastThree(recent, v)))
  BY <1>1, StateType, Together
<1>3. ASSUME RecordHealth, log' # log PROVE ConfirmedChange(LastThree(recent, v))
  <2>1. state # NoState /\ AnnouncesChange(k, v)
    BY <1>3 DEF RecordHealth, Grounded, Awake
  <2> QED BY <1>2, <2>1
<1>4. ASSUME StoreState, ConfirmedChange(recent')
      PROVE  \E e \in log : e.at = now /\ e.kind = "health" /\ e.to = v
  <2>1. pc = "store" /\ recent' = LastThree(recent, v)
    BY <1>4 DEF StoreState
  <2>2. state # NoState
    <3>1. SUFFICES ASSUME state = NoState PROVE FALSE
      OBVIOUS
    <3>2. recent' = <<v>>
      BY <2>1, <3>1, LastThreeRule DEF Grounded, Remembered
    <3>3. Len(<<v>>) # 3
      OBVIOUS
    <3> QED BY <1>4, <3>2, <3>3 DEF ConfirmedChange
  <2>3. AnnouncesChange(k, v)
    BY <1>2, <1>4, <2>1, <2>2
  <2>4. PICK m \in Marks : m.at = now /\ m.to = v
    BY <2>1, <2>2, <2>3 DEF Told, Inserted
  <2>5. PICK e \in log : e.kind = "health" /\ m = [at |-> e.at, to |-> e.to]
    BY DEF Marks, OfKind
  <2>6. m.at = e.at /\ m.to = e.to
    BY <2>5
  <2> QED BY <2>4, <2>5, <2>6
<1> QED BY <1>3, <1>4

\* While no more than two publishes share a second, a publish inserts a health
\* event only where the last three healths make a confirmed change, and none
\* that completes one is stored before its event is in the log.
THEOREM EventsAreConfirmedChanges ==
  ASSUME AtMostTwo PROVE Spec => EventIffConfirmedChange
<1>1. Grounded /\ Told /\ [Next]_vars =>
        [/\ RecordHealth /\ log' # log => ConfirmedChange(LastThree(recent, decided.health))
         /\ StoreState /\ ConfirmedChange(recent') =>
              \E e \in log : e.at = now /\ e.kind = "health" /\ e.to = decided.health]_vars
  BY EventStep
<1>2. Spec => [](Grounded /\ Told)
  BY AtMostTwo, AlwaysTold
<1>3. Spec => [][Next]_vars
  BY DEF Spec
<1> QED BY <1>1, <1>2, <1>3, PTL DEF EventIffConfirmedChange

LEMMA NoteStep ==
  ASSUME Grounded, [Next]_vars, NEW e \in log, e \notin log', ~Annotate
  PROVE  ~\E f \in log' : f.at = e.at /\ f.kind = e.kind
<1>1. log' \subseteq log \/ log \subseteq log'
  <2>1. CASE Prune \/ PruneRows \/ Start
    BY <2>1, PruneSteps
  <2>2. CASE RecordHealth \/ RecordBuild \/ RecordBootstrap
    BY <2>2 DEF RecordHealth, RecordBuild, RecordBootstrap, InsertBuild, Insert
  <2>3. CASE Tick \/ PublishStart \/ StoreState \/ PublishFails \/ Stop \/ UNCHANGED vars
    BY <2>3 DEF Tick, PublishStart, StoreState, PublishFails, Stop, vars, tables
  <2> QED BY <2>1, <2>2, <2>3 DEF Next, Collector, Done
<1> QED BY <1>1 DEF Grounded, Keyed

\* An Operator's note stays on its event until an Operator rewrites it or the
\* event is pruned: no publish replaces an event it finds in the log.
THEOREM NotesAreKept == Spec => NoteSurvives
<1>1. Grounded /\ [Next]_vars =>
        [\A e \in log : e.note # NoNote =>
           \/ e \in log'
           \/ Annotate
           \/ ~\E f \in log' : f.at = e.at /\ f.kind = e.kind]_vars
  BY NoteStep
<1>2. Spec => [][Next]_vars
  BY DEF Spec
<1> QED BY <1>1, <1>2, AlwaysGrounded, PTL DEF NoteSurvives

\* Whatever stops, fails or restarts, a change is announced once, and again only
\* for a publish that was cut short between the insertion of its event and the
\* storing of its streak.
LEMMA ChangesRepeatForACause == Spec => []RepeatsAreCaused
<1>1. Init => Grounded /\ Announced
  BY InitGrounded, InitAnnounced
<1>2. Grounded /\ Announced /\ [Next]_vars => (Grounded /\ Announced)'
  BY GroundedStep, AnnouncedStep
<1>3. Announced => RepeatsAreCaused
  BY DEF Announced, RepeatsAreCaused
<1> QED BY <1>1, <1>2, <1>3, PTL DEF Spec

\* Whatever stops, fails, restarts, is pruned or shares a second, the newest build
\* event names the build that the publish state remembers, or one of the things
\* that can part them has happened since: a later event met another of its second,
\* a publish was cut short after its insertion, or the last event was pruned.
LEMMA BuildsAreLoggedOrExplained == Spec => []BuildsAreAccountedFor
<1>1. Init => Grounded /\ Accounted
  BY InitGrounded, InitAccounted
<1>2. Grounded /\ Accounted /\ [Next]_vars => (Grounded /\ Accounted)'
  BY GroundedStep, AccountedStep
<1>3. Grounded /\ Accounted => BuildsAreAccountedFor
  BY AccountedRule
<1> QED BY <1>1, <1>2, <1>3, PTL DEF Spec

\* Without any condition on stops, failures, prunes or the second: a change is
\* announced again only for a publish that was cut short, and the newest build
\* event names the build that the publish state remembers unless something has
\* parted them since.
THEOREM ChangesAndBuildsAreExplained == Spec => []LogIsExplained
<1>1. RepeatsAreCaused /\ BuildsAreAccountedFor => LogIsExplained
  BY DEF LogIsExplained
<1> QED BY <1>1, ChangesRepeatForACause, BuildsAreLoggedOrExplained, PTL

=============================================================================
