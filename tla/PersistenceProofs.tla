--------------------------- MODULE PersistenceProofs ---------------------------
(* Theorems about SignalEvents and StateStore.  For any Signals, publishes,  *)
(* stops and failed statements, the log of Signals follows the confirmed     *)
(* changes, and the newest event of a Signal names the state that lasts; and *)
(* for any threads, binaries and migrations, however the opens of one file   *)
(* meet, every migration runs once.                                          *)
EXTENDS SignalEvents, StateStore, FiniteSetTheorems, TLAPS

-----------------------------------------------------------------------------
(* SignalEvents. *)

\* The states stored last are those of a streak that is new, or came after
\* another state, or has lasted.
Agrees(k, h) ==
  \/ /\ k.count = 1 /\ k.previous = NoValue
     /\ h = <<k.last>>
  \/ /\ k.count = 1 /\ k.previous \in Observed \ {k.last}
     /\ h = <<k.previous, k.last>> \/ \E a \in Observed : h = <<a, k.previous, k.last>>
  \/ /\ k.count >= 2 /\ k.previous # k.last
     /\ h = <<k.last, k.last>> \/ \E a \in Observed : h = <<a, k.last, k.last>>

Remembered ==
  \A s \in Signals :
    IF streaks[s] = NoState THEN recent[s] = <<>> ELSE Agrees(streaks[s], recent[s])

\* The Signal that is being visited was observed, and is not visited again.
Visited ==
  /\ pc \in {"record", "store"} => votes[current] \in Observed /\ current \notin todo
  /\ pc = "record" => streaks[current] # NoState

\* What a confirmed change is stored after.
Inserted ==
  pc = "store" /\ streaks[current] # NoState /\ Confirms(streaks[current], votes[current]) =>
    [signal |-> current, at |-> now, from |-> Bump(streaks[current], votes[current]).previous,
     to |-> votes[current]] \in log

\* A Signal has one event a second, and none yet of this second if this
\* publish has still to record it.
Dated ==
  \A e \in log :
    /\ e.at <= now
    /\ e.at = now => e.signal \notin todo /\ ~(pc = "record" /\ e.signal = current)
    /\ \A f \in log : e.signal = f.signal /\ e.at = f.at => e = f

IsNewest(e) == e \in log /\ \A f \in Of(e.signal) : e.at >= f.at

\* A Signal has no event before it had two states; then one is the newest, and
\* names the state that has lasted.
Newness ==
  \A s \in Signals :
    /\ streaks[s] = NoState \/ streaks[s].previous = NoValue => Of(s) = {}
    /\ Of(s) # {} => \E e \in Of(s) : IsNewest(e)
    /\ streaks[s] # NoState /\ streaks[s].count >= 2 =>
         \A e \in Of(s) : IsNewest(e) => e.to = streaks[s].last

Typed == TypeOK /\ streaks \in [Signals -> Streak(Observed) \union {NoState}]

IInv == Typed /\ Remembered /\ Visited /\ Inserted /\ Dated /\ Newness

-----------------------------------------------------------------------------
(* Streaks.                                                                *)

LEMMA NoStateIsNone == NoState \notin Streak(Observed)
BY DEF NoState, Streak

LEMMA StreakType ==
  ASSUME NEW k \in Streak(Observed), NEW v \in Observed
  PROVE  /\ Bump(k, v) \in Streak(Observed) /\ FirstStreak(v) \in Streak(Observed)
         /\ k.count \in Nat /\ k.last \in Observed /\ k.previous \in Observed \union {NoValue}
         /\ Bump(k, v).last = v /\ FirstStreak(v).last = v
         /\ FirstStreak(v).count = 1 /\ FirstStreak(v).previous = NoValue
         /\ v = k.last => Bump(k, v).count = k.count + 1 /\ Bump(k, v).previous = k.previous
         /\ v # k.last => Bump(k, v).count = 1 /\ Bump(k, v).previous = k.last
BY DEF Streak, Bump, FirstStreak

LEMMA StreakTypeOfFirst ==
  ASSUME NEW v \in Observed PROVE FirstStreak(v) \in Streak(Observed)
BY DEF Streak, FirstStreak

LEMMA TripleRule ==
  ASSUME NEW S, NEW n \in Seq(S), Len(n) = 3 PROVE n = <<n[1], n[2], n[3]>>
OBVIOUS

LEMMA PairRule ==
  ASSUME NEW S, NEW n \in Seq(S), Len(n) = 2 PROVE n = <<n[1], n[2]>>
OBVIOUS

LEMMA AppendToOne ==
  ASSUME NEW b, NEW v PROVE Append(<<b>>, v) = <<b, v>>
<1> PICK S : S = {b, v}
  OBVIOUS
<1> PICK q : q = <<b>>
  OBVIOUS
<1> PICK n : n = Append(q, v)
  OBVIOUS
<1>1. q \in Seq(S) /\ v \in S /\ Len(q) = 1 /\ q[1] = b
  OBVIOUS
<1>2. n \in Seq(S) /\ Len(n) = 2 /\ n[2] = v /\ n[1] = q[1]
  BY <1>1
<1> QED BY <1>1, <1>2, PairRule

LEMMA AppendToTwo ==
  ASSUME NEW b, NEW c, NEW v PROVE Append(<<b, c>>, v) = <<b, c, v>>
<1> PICK S : S = {b, c, v}
  OBVIOUS
<1> PICK q : q = <<b, c>>
  OBVIOUS
<1> PICK n : n = Append(q, v)
  OBVIOUS
<1>1. q \in Seq(S) /\ v \in S /\ Len(q) = 2 /\ q[1] = b /\ q[2] = c
  OBVIOUS
<1>2. n \in Seq(S) /\ Len(n) = 3 /\ n[3] = v /\ n[1] = q[1] /\ n[2] = q[2]
  BY <1>1
<1> QED BY <1>1, <1>2, TripleRule

LEMMA LastThreeRule ==
  ASSUME NEW v
  PROVE  /\ LastThree(<<>>, v) = <<v>>
         /\ \A c : LastThree(<<c>>, v) = <<c, v>>
         /\ \A b, c : LastThree(<<b, c>>, v) = <<b, c, v>>
         /\ \A a, b, c : LastThree(<<a, b, c>>, v) = <<b, c, v>>
<1>1. LastThree(<<>>, v) = <<v>>
  BY DEF LastThree
<1>2. ASSUME NEW c PROVE LastThree(<<c>>, v) = <<c, v>>
  <2>1. LastThree(<<c>>, v) = Append(<<c>>, v)
    BY DEF LastThree
  <2> QED BY <2>1, AppendToOne
<1>3. ASSUME NEW b, NEW c PROVE LastThree(<<b, c>>, v) = <<b, c, v>>
  <2>1. LastThree(<<b, c>>, v) = Append(<<b, c>>, v)
    BY DEF LastThree
  <2> QED BY <2>1, AppendToTwo
<1>4. ASSUME NEW a, NEW b, NEW c PROVE LastThree(<<a, b, c>>, v) = <<b, c, v>>
  <2>1. LastThree(<<a, b, c>>, v) = Append(Tail(<<a, b, c>>), v)
    BY DEF LastThree
  <2>2. Tail(<<a, b, c>>) = <<b, c>>
    OBVIOUS
  <2> QED BY <2>1, <2>2, AppendToTwo
<1> QED BY <1>1, <1>2, <1>3, <1>4

LEMMA FirstAgrees ==
  ASSUME NEW v \in Observed PROVE Agrees(FirstStreak(v), LastThree(<<>>, v))
BY LastThreeRule DEF Agrees, FirstStreak

\* What a streak and the states remembered become together: a change is
\* confirmed exactly when the last three states say so.
LEMMA Together ==
  ASSUME NEW k \in Streak(Observed), NEW h, Agrees(k, h), NEW v \in Observed
  PROVE  /\ Agrees(Bump(k, v), LastThree(h, v))
         /\ Confirms(k, v) <=> ConfirmedChange(LastThree(h, v))
         /\ Confirms(k, v) => /\ Bump(k, v).previous = LastThree(h, v)[1]
                              /\ Bump(k, v).previous \in Observed
                              /\ k.count = 1 /\ v = k.last /\ k.previous # NoValue
<1> PICK n : n = LastThree(h, v)
  OBVIOUS
<1> PICK b : b = Bump(k, v)
  OBVIOUS
<1>1. /\ k.count \in Nat /\ k.previous \in Observed \union {NoValue} /\ b.last = v
      /\ k.last \in Observed /\ k.last # NoValue /\ v # NoValue
      /\ v = k.last => b.count = k.count + 1 /\ b.previous = k.previous
      /\ v # k.last => b.count = 1 /\ b.previous = k.last
  BY StreakType, SignalAssumption
<1>2. Confirms(k, v) <=> v = k.last /\ b.count = 2 /\ b.previous \notin {NoValue, v}
  BY DEF Confirms
<1>3. ConfirmedChange(n) <=> Len(n) = 3 /\ n[2] = n[3] /\ n[1] # n[2]
  BY DEF ConfirmedChange
<1>4. CASE k.count = 1 /\ k.previous = NoValue
  <2>1. n = <<k.last, v>>
    <3>1. h = <<k.last>>
      BY <1>4, SignalAssumption DEF Agrees
    <3> QED BY <3>1, LastThreeRule
  <2>2. Agrees(b, n)
    BY <1>1, <1>4, <2>1 DEF Agrees
  <2>3. ~Confirms(k, v) /\ ~ConfirmedChange(n)
    BY <1>1, <1>2, <1>3, <1>4, <2>1
  <2> QED BY <2>2, <2>3
<1>5. CASE k.count = 1 /\ k.previous # NoValue
  <2>1. n = <<k.previous, k.last, v>> /\ k.previous \in Observed \ {k.last}
    BY <1>1, <1>5, LastThreeRule DEF Agrees
  <2>2. Agrees(b, n)
    BY <1>1, <1>5, <2>1 DEF Agrees
  <2>3. ConfirmedChange(n) <=> v = k.last
    BY <1>3, <2>1
  <2>4. Confirms(k, v) <=> v = k.last
    BY <1>1, <1>2, <1>5, <2>1
  <2>5. n[1] = k.previous
    BY <2>1
  <2> QED BY <1>1, <1>5, <2>1, <2>2, <2>3, <2>4, <2>5
<1>6. CASE k.count >= 2
  <2>1. n = <<k.last, k.last, v>>
    <3>1. h = <<k.last, k.last>> \/ \E a \in Observed : h = <<a, k.last, k.last>>
      BY <1>6 DEF Agrees
    <3> QED BY <3>1, LastThreeRule
  <2>2. Agrees(b, n)
    BY <1>1, <1>6, <2>1 DEF Agrees
  <2>3. ~Confirms(k, v)
    BY <1>1, <1>2, <1>6
  <2>4. ~ConfirmedChange(n)
    BY <1>3, <2>1
  <2> QED BY <2>2, <2>3, <2>4
<1> QED BY <1>1, <1>4, <1>5, <1>6 DEF Agrees

-----------------------------------------------------------------------------
(* The invariant.                                                          *)

LEMMA InitIInv == Init => IInv
<1> SUFFICES ASSUME Init PROVE IInv
  OBVIOUS
<1>1. Typed
  BY DEF Init, Typed, TypeOK, SignalStates
<1>2. Remembered /\ Visited /\ Inserted /\ Dated
  BY DEF Init, Remembered, Visited, Inserted, Dated
<1>3. Newness
  BY DEF Init, Newness, Of
<1> QED BY <1>1, <1>2, <1>3 DEF IInv

\* Where neither log nor streaks change, what they say stays true.
LEMMA LogKept ==
  ASSUME IInv, UNCHANGED <<streaks, log, recent>> PROVE Remembered' /\ Newness'
<1>1. \A s : Of(s)' = Of(s)
  BY DEF Of
<1>2. \A e : IsNewest(e)' <=> IsNewest(e)
  BY DEF IsNewest, Of
<1>3. Remembered'
  BY DEF IInv, Remembered
<1>4. ASSUME NEW s \in Signals
      PROVE  /\ streaks'[s] = NoState \/ streaks'[s].previous = NoValue => Of(s)' = {}
             /\ Of(s)' # {} => \E e \in Of(s)' : IsNewest(e)'
             /\ streaks'[s] # NoState /\ streaks'[s].count >= 2 =>
                  \A e \in Of(s)' : IsNewest(e)' => e.to = streaks'[s].last
  BY <1>2 DEF IInv, Newness, Of
<1> QED BY <1>3, <1>4 DEF Newness

\* Neither DELETE of a prune takes an event and leaves an older one.
LEMMA PruneRule ==
  ASSUME NEW rows, \A e \in rows : e.at \in Nat, NEW t \in Nat,
         NEW kept, \/ kept = Aged(rows, t) \/ kept \in NewestRows(rows, MaxEvents)
                   \/ kept \in StartupPruned(rows, t)
  PROVE  kept \subseteq rows /\ \A e \in kept, f \in rows \ kept : f.at <= e.at
<1> DEFINE Upward(old, new) == new \subseteq old /\ \A e \in new, f \in old \ new : f.at <= e.at
<1>1. Upward(rows, Aged(rows, t))
  BY EventTableAssumption DEF Aged
<1>2. ASSUME NEW old, \A e \in old : e.at \in Nat, NEW new \in NewestRows(old, MaxEvents)
      PROVE  Upward(old, new)
  BY <1>2 DEF NewestRows
<1>3. ASSUME NEW new \in Pruned(rows, t) PROVE Upward(rows, new)
  <2>1. \A e \in Aged(rows, t) : e.at \in Nat
    BY <1>1
  <2>2. Upward(Aged(rows, t), new)
    BY <1>2, <1>3, <2>1 DEF Pruned
  <2>3. ASSUME NEW e \in new, NEW f \in rows \ new PROVE f.at <= e.at
    BY <1>1, <2>2, <2>3
  <2> QED BY <1>1, <2>2, <2>3
<1>4. Upward(rows, rows)
  OBVIOUS
<1>5. Upward(rows, kept)
  <2>1. CASE kept = Aged(rows, t)
    BY <1>1, <2>1
  <2>2. CASE kept \in NewestRows(rows, MaxEvents)
    BY <1>2, <2>2
  <2>3. CASE kept \in StartupPruned(rows, t)
    <3>1. kept \in Pruned(rows, t) \/ kept = rows \/ kept = Aged(rows, t)
      BY <2>3 DEF StartupPruned
    <3> QED BY <1>1, <1>3, <1>4, <3>1
  <2> QED BY <2>1, <2>2, <2>3
<1> QED BY <1>5

\* Pruning leaves the newest event of a Signal, or none.
LEMMA PruneKept ==
  ASSUME IInv, UNCHANGED <<streaks, recent>>,
         \/ log' = Aged(log, now) \/ log' \in NewestRows(log, MaxEvents)
         \/ log' \in StartupPruned(log, now)
  PROVE  Remembered' /\ Newness' /\ log' \subseteq log
<1>0. now \in Nat /\ \A e \in log : e.at \in Nat
  BY DEF IInv, Typed, TypeOK, Event
<1>1. log' \subseteq log
  BY <1>0, PruneRule
<1>2. \A e \in log' : e \in Event
  BY <1>1 DEF IInv, Typed, TypeOK
<1>3. ASSUME NEW e \in log', NEW f \in log, f \notin log' PROVE f.at <= e.at
  BY <1>0, <1>3, PruneRule
<1>4. ASSUME NEW e \in log', IsNewest(e)' PROVE IsNewest(e)
  BY <1>1, <1>3, <1>4 DEF IsNewest, Of
<1>5. ASSUME NEW s \in Signals, Of(s)' # {} PROVE \E e \in Of(s)' : IsNewest(e)'
  <2>1. PICK e \in log' : e.signal = s
    BY <1>5 DEF Of
  <2>2. PICK m \in Of(s) : IsNewest(m)
    BY <1>1, <2>1 DEF IInv, Newness, Of
  <2>3. CASE m \in log'
    BY <1>1, <2>2, <2>3 DEF IsNewest, Of
  <2>4. CASE m \notin log'
    <3>1. m.at <= e.at /\ m \in log /\ m.signal = s
      BY <1>3, <2>2, <2>4 DEF Of
    <3>2. ASSUME NEW f \in log', f.signal = s PROVE e.at >= f.at
      <4>1. m.at >= f.at
        BY <1>1, <2>2, <3>1, <3>2 DEF IsNewest, Of
      <4>2. e.at \in Nat /\ f.at \in Nat /\ m.at \in Nat
        BY <1>1, <1>2, <3>1 DEF Event, IInv, Typed, TypeOK
      <4> QED BY <3>1, <4>1, <4>2
    <3> QED BY <2>1, <3>2 DEF IsNewest, Of
  <2> QED BY <2>3, <2>4
<1>6. ASSUME NEW s \in Signals
      PROVE  /\ streaks'[s] = NoState \/ streaks'[s].previous = NoValue => Of(s)' = {}
             /\ streaks'[s] # NoState /\ streaks'[s].count >= 2 =>
                  \A e \in Of(s)' : IsNewest(e)' => e.to = streaks'[s].last
  <2>1. Of(s)' \subseteq Of(s)
    BY <1>1 DEF Of
  <2> QED BY <1>4, <2>1 DEF IInv, Newness, Of
<1> QED BY <1>1, <1>5, <1>6 DEF IInv, Remembered, Newness

LEMMA StartStep ==
  ASSUME IInv, PublishStart \/ Start PROVE IInv'
<1>2. Remembered' /\ Newness' /\ log' \subseteq log
  <2>1. CASE PublishStart
    BY <2>1, LogKept DEF PublishStart
  <2>2. CASE Start
    BY <2>2, PruneKept DEF Start
  <2> QED BY <2>1, <2>2
<1>1. Typed'
  BY <1>2 DEF PublishStart, Start, bounds, IInv, Typed, TypeOK
<1>3. Visited' /\ Inserted'
  BY DEF PublishStart, Start, Visited, Inserted
<1>4. Dated'
  <2>1. \A e \in log : e.at \in Nat /\ e.at <= now
    BY DEF IInv, Typed, TypeOK, Event, Dated
  <2>2. now \in Nat
    BY DEF IInv, Typed, TypeOK
  <2>3. \/ now' = now + 1
        \/ now' = now /\ pc' = "idle" /\ todo' = todo
    BY DEF PublishStart, Start
  <2> QED BY <1>2, <2>1, <2>2, <2>3 DEF IInv, Dated
<1> QED BY <1>1, <1>2, <1>3, <1>4 DEF IInv

LEMMA WalkStep ==
  ASSUME IInv, Visit \/ PruneSignals \/ PruneRows \/ PublishFails \/ Stop PROVE IInv'
<1>1. CASE Visit
  <2>1. PICK s \in todo :
          /\ todo' = todo \ {s}
          /\ IF votes[s] = "skipped" THEN UNCHANGED <<pc, current>>
             ELSE /\ current' = s
                  /\ pc' = IF streaks[s] = NoState THEN "store" ELSE "record"
    BY <1>1 DEF Visit
  <2>2. pc = "walk" /\ UNCHANGED <<votes, streaks, log, now, bounds, recent>> /\ s \in Signals
    BY <1>1 DEF Visit, IInv, Typed, TypeOK
  <2>3. Typed'
    BY <2>1, <2>2 DEF IInv, Typed, TypeOK, bounds
  <2>4. Visited'
    BY <2>1, <2>2 DEF IInv, Typed, TypeOK, Visited, Observed
  <2>5. Inserted'
    BY <2>1, <2>2 DEF Inserted
  <2>6. Dated'
    BY <2>1, <2>2 DEF IInv, Dated
  <2> QED BY <2>2, <2>3, <2>4, <2>5, <2>6, LogKept DEF IInv
<1>2. CASE PruneSignals \/ PruneRows
  <2>1. Remembered' /\ Newness' /\ log' \subseteq log
    BY <1>2, PruneKept DEF PruneSignals, PruneRows
  <2>2. Typed' /\ Visited' /\ Inserted'
    BY <1>2, <2>1 DEF PruneSignals, PruneRows, IInv, Typed, TypeOK, Visited, Inserted, bounds
  <2>3. Dated'
    BY <1>2, <2>1 DEF PruneSignals, PruneRows, IInv, Dated
  <2> QED BY <2>1, <2>2, <2>3 DEF IInv
<1>3. CASE PublishFails \/ Stop
  <2>1. UNCHANGED <<streaks, log, recent>>
    BY <1>3 DEF PublishFails, Stop
  <2>2. Typed' /\ Visited' /\ Inserted'
    BY <1>3 DEF PublishFails, Stop, IInv, Typed, TypeOK, Visited, Inserted
  <2>3. Dated'
    BY <1>3 DEF PublishFails, Stop, IInv, Dated
  <2> QED BY <2>1, <2>2, <2>3, LogKept DEF IInv
<1> QED BY <1>1, <1>2, <1>3

\* A recorded change is the newest event of its Signal, whose streak is new.
LEMMA RecordStep ==
  ASSUME IInv, RecordSignal PROVE IInv'
<1> DEFINE k == streaks[current]
           v == votes[current]
<1> PICK new : new = [signal |-> current, at |-> now, from |-> Bump(k, v).previous, to |-> v]
  OBVIOUS
<1>1. /\ pc = "record" /\ pc' = "store"
      /\ UNCHANGED <<votes, streaks, todo, current, now, bounds, recent>>
      /\ log' = IF Confirms(k, v) THEN log \union {new} ELSE log
  BY DEF RecordSignal
<1>2. /\ v \in Observed /\ current \in Signals /\ current \notin todo
      /\ k \in Streak(Observed) /\ k # NoState /\ now \in Nat
  BY <1>1 DEF IInv, Typed, TypeOK, Visited
<1>3. Visited' /\ Inserted' /\ Remembered'
  BY <1>1, <1>2 DEF IInv, Visited, Inserted, Remembered
<1>4. CASE ~Confirms(k, v)
  <2>1. log' = log
    BY <1>1, <1>4
  <2>2. Typed' /\ Dated'
    BY <1>1, <2>1 DEF IInv, Typed, TypeOK, Dated, bounds
  <2> QED BY <1>1, <1>3, <2>1, <2>2, LogKept DEF IInv
<1>5. CASE Confirms(k, v)
  <2>1. log' = log \union {new}
    BY <1>1, <1>5
  <2>2. k.count = 1 /\ k.previous # NoValue /\ Bump(k, v).previous \in Observed
    <3>1. Agrees(k, recent[current])
      BY <1>2 DEF IInv, Remembered
    <3> QED BY <1>2, <1>5, <3>1, Together
  <2>3. new \in Event
    BY <1>2, <2>2 DEF Event
  <2>4. Typed'
    BY <1>1, <2>1, <2>3 DEF IInv, Typed, TypeOK, bounds
  <2>5. \A e \in log : e.at <= now /\ (e.at = now => e.signal # current /\ e.signal \notin todo)
    BY <1>1 DEF IInv, Dated
  <2>6. Dated'
    BY <1>1, <1>2, <2>1, <2>5 DEF IInv, Dated
  <2>7. ASSUME NEW s \in Signals, s # current
        PROVE  Of(s)' = Of(s)
    BY <2>1, <2>7 DEF Of
  <2>8. IsNewest(new)'
    <3>1. new \in log' /\ new.signal = current /\ new.at = now
      BY <2>1
    <3>2. ASSUME NEW f \in log' PROVE new.at >= f.at
      <4>1. f = new \/ (f \in log /\ f.at \in Nat /\ f.at <= now)
        BY <2>1, <2>5, <3>2 DEF IInv, Typed, TypeOK, Event
      <4> QED BY <1>2, <3>1, <4>1
    <3> QED BY <3>1, <3>2 DEF IsNewest, Of
  <2>9. ASSUME NEW s \in Signals, NEW e \in Of(s), s # current
        PROVE  IsNewest(e)' <=> IsNewest(e)
    <3>1. e.signal = s /\ e \in log /\ e \in log'
      BY <2>1, <2>9 DEF Of
    <3> QED BY <2>7, <2>9, <3>1 DEF IsNewest
  <2>10. ASSUME NEW s \in Signals
        PROVE  /\ streaks'[s] = NoState \/ streaks'[s].previous = NoValue => Of(s)' = {}
               /\ Of(s)' # {} => \E e \in Of(s)' : IsNewest(e)'
               /\ streaks'[s] # NoState /\ streaks'[s].count >= 2 =>
                    \A e \in Of(s)' : IsNewest(e)' => e.to = streaks'[s].last
    <3>1. CASE s = current
      <4>1. new \in Of(s)'
        BY <2>1, <3>1 DEF Of
      <4> QED BY <1>1, <1>2, <2>2, <2>8, <3>1, <4>1
    <3>2. CASE s # current
      BY <1>1, <2>7, <2>9, <3>2 DEF IInv, Newness
    <3> QED BY <3>1, <3>2
  <2>11. Newness'
    BY <2>10 DEF Newness
  <2> QED BY <1>3, <2>4, <2>6, <2>11 DEF IInv
<1> QED BY <1>4, <1>5

\* The stored streak goes on with the state observed.
LEMMA StoreStep ==
  ASSUME IInv, StoreSignal PROVE IInv'
<1> DEFINE k == streaks[current]
           v == votes[current]
           b == IF k = NoState THEN FirstStreak(v) ELSE Bump(k, v)
<1>1. /\ pc = "store" /\ pc' = "walk"
      /\ UNCHANGED <<votes, log, todo, current, now, bounds>>
      /\ streaks' = [streaks EXCEPT ![current] = b]
      /\ recent' = [recent EXCEPT ![current] = LastThree(recent[current], v)]
  BY DEF StoreSignal
<1>2. /\ v \in Observed /\ current \in Signals
      /\ k = NoState \/ k \in Streak(Observed)
      /\ streaks \in [Signals -> Streak(Observed) \union {NoState}]
      /\ recent \in [Signals -> Seq(Observed)]
  BY <1>1 DEF IInv, Typed, TypeOK, Visited
<1>3. b \in Streak(Observed) /\ b # NoState
  <2>1. CASE k = NoState
    BY <1>2, <2>1, StreakTypeOfFirst, NoStateIsNone
  <2>2. CASE k # NoState
    BY <1>2, <2>2, StreakType, NoStateIsNone
  <2> QED BY <2>1, <2>2
<1>4. /\ streaks'[current] = b /\ recent'[current] = LastThree(recent[current], v)
      /\ \A s \in Signals : s # current => streaks'[s] = streaks[s] /\ recent'[s] = recent[s]
  BY <1>1, <1>2
<1>5. Typed'
  <2>1. streaks' \in [Signals -> Streak(Observed) \union {NoState}]
    BY <1>1, <1>2, <1>3
  <2>2. LastThree(recent[current], v) \in Seq(Observed)
    BY <1>2 DEF LastThree
  <2>3. recent' \in [Signals -> Seq(Observed)]
    BY <1>1, <1>2, <2>2
  <2> QED BY <1>1, <2>1, <2>3 DEF IInv, Typed, TypeOK, bounds
<1>6. Visited' /\ Inserted'
  BY <1>1 DEF Visited, Inserted
<1>7. Dated'
  BY <1>1 DEF IInv, Dated
<1>8. Remembered'
  <2>1. Agrees(b, LastThree(recent[current], v))
    <3>1. CASE k = NoState
      BY <1>2, <3>1, FirstAgrees DEF IInv, Remembered
    <3>2. CASE k # NoState
      BY <1>2, <3>2, Together DEF IInv, Remembered
    <3> QED BY <3>1, <3>2
  <2> QED BY <1>3, <1>4, <2>1 DEF IInv, Remembered
<1>9. Newness'
  <2>1. \A s : Of(s)' = Of(s)
    BY <1>1 DEF Of
  <2>2. \A e : IsNewest(e)' <=> IsNewest(e)
    BY <1>1 DEF IsNewest, Of
  <2>3. k = NoState => b.previous = NoValue /\ b.count = 1 /\ Of(current) = {}
    BY <1>2 DEF IInv, Newness, FirstStreak
  <2>4. ASSUME k # NoState
        PROVE  /\ b.previous = NoValue => Of(current) = {}
               /\ b.count >= 2 => \A e \in Of(current) : IsNewest(e) => e.to = b.last
    <3>1. /\ k \in Streak(Observed) /\ k.count \in Nat /\ k.last # NoValue /\ b.last = v
          /\ v = k.last => b.count = k.count + 1 /\ b.previous = k.previous
          /\ v # k.last => b.count = 1 /\ b.previous = k.last
      BY <1>2, <2>4, StreakType, SignalAssumption
    <3>2. Agrees(k, recent[current])
      BY <1>2, <2>4 DEF IInv, Remembered
    <3>3. b.previous = NoValue => Of(current) = {}
      BY <1>2, <2>4, <3>1 DEF IInv, Newness
    <3>4. ASSUME b.count >= 2, NEW e \in Of(current), IsNewest(e) PROVE e.to = b.last
      <4>1. v = k.last /\ k.count >= 1
        BY <3>1, <3>4
      <4>2. CASE k.count >= 2
        BY <1>2, <2>4, <3>1, <3>4, <4>1, <4>2 DEF IInv, Newness
      <4>3. CASE k.previous = NoValue
        BY <1>2, <3>4, <4>3 DEF IInv, Newness
      <4>4. CASE k.count < 2 /\ k.previous # NoValue
        <5>1. k.count = 1 /\ k.previous \in Observed \ {k.last}
          BY <3>1, <3>2, <4>1, <4>4 DEF Agrees
        <5>2. Confirms(k, v)
          <6>1. Bump(k, v).count = 2 /\ Bump(k, v).previous = k.previous
            BY <2>4, <3>1, <4>1, <5>1
          <6> QED BY <4>1, <5>1, <6>1, SignalAssumption DEF Confirms
        <5>3. PICK f \in log : f.signal = current /\ f.at = now /\ f.to = v
          BY <1>1, <2>4, <5>2 DEF IInv, Inserted
        <5>4. e \in log /\ e.signal = current /\ e.at >= f.at /\ e.at <= now
          BY <3>4, <5>3 DEF IsNewest, Of, IInv, Dated
        <5>5. e.at \in Nat /\ f.at \in Nat /\ now \in Nat
          BY <5>3, <5>4 DEF IInv, Typed, TypeOK, Event
        <5>6. e = f
          BY <5>3, <5>4, <5>5 DEF IInv, Dated
        <5> QED BY <3>1, <5>3, <5>6
      <4> QED BY <3>1, <4>1, <4>2, <4>3, <4>4
    <3> QED BY <3>3, <3>4
  <2>5. ASSUME NEW s \in Signals
        PROVE  /\ streaks'[s] = NoState \/ streaks'[s].previous = NoValue => Of(s) = {}
               /\ Of(s) # {} => \E e \in Of(s) : IsNewest(e)
               /\ streaks'[s] # NoState /\ streaks'[s].count >= 2 =>
                    \A e \in Of(s) : IsNewest(e) => e.to = streaks'[s].last
    <3>1. CASE s = current
      BY <1>3, <1>4, <2>3, <2>4, <3>1 DEF IInv, Newness
    <3>2. CASE s # current
      BY <1>4, <3>2 DEF IInv, Newness
    <3> QED BY <3>1, <3>2
  <2> QED BY <2>1, <2>2, <2>5 DEF Newness
<1> QED BY <1>5, <1>6, <1>7, <1>8, <1>9 DEF IInv

LEMMA Invariance == IInv /\ [Next]_vars => IInv'
<1> SUFFICES ASSUME IInv, [Next]_vars PROVE IInv'
  OBVIOUS
<1>1. CASE UNCHANGED vars
  <2>1. Typed' /\ Visited' /\ Inserted' /\ Dated'
    BY <1>1 DEF vars, bounds, IInv, Typed, TypeOK, Visited, Inserted, Dated
  <2>2. Remembered' /\ Newness'
    BY <1>1, LogKept DEF vars
  <2> QED BY <2>1, <2>2 DEF IInv
<1>2. CASE Done
  BY <1>1, <1>2 DEF Done
<1>3. CASE PublishStart \/ Start
  BY <1>3, StartStep
<1>4. CASE Visit \/ PruneSignals \/ PruneRows \/ PublishFails \/ Stop
  BY <1>4, WalkStep
<1>5. CASE RecordSignal
  BY <1>5, RecordStep
<1>6. CASE StoreSignal
  BY <1>6, StoreStep
<1> QED BY <1>1, <1>2, <1>3, <1>4, <1>5, <1>6 DEF Next

-----------------------------------------------------------------------------
(* What follows from it.                                                   *)

\* However ticks are skipped, statements fail and the daemon restarts, every
\* variable has its type and a state that lasted is the one the newest event
\* of the Signal names (persist_signal_events).
THEOREM NewestIsStable == Spec => []LogIsSound
<1>1. IInv => LogIsSound
  <2> SUFFICES ASSUME IInv, NEW s \in Signals, streaks[s] # NoState,
                      streaks[s].count >= 2, Of(s) # {}
               PROVE  Newest(s).to = streaks[s].last
    BY DEF LogIsSound, NewestSignalEventIsStable, IInv, Typed
  <2>1. PICK m \in Of(s) : IsNewest(m)
    BY DEF IInv, Newness
  <2>2. \A f \in Of(s) : m.at >= f.at
    BY <2>1 DEF IsNewest, Of
  <2>3. Newest(s) \in Of(s) /\ \A f \in Of(s) : Newest(s).at >= f.at
    BY <2>2 DEF Newest
  <2>4. IsNewest(Newest(s))
    BY <2>3 DEF IsNewest, Of
  <2> QED BY <2>3, <2>4 DEF IInv, Newness
<1> QED BY <1>1, InitIInv, Invariance, PTL DEF Spec

\* A Signal gets an event exactly when the last three states observed of it
\* make a confirmed change, for any number of skips, failures and restarts in
\* between (the streak kept in signal_publish_state).
THEOREM SkipsLeaveNoTrace == Spec => SkipsAreInvisible
<1> DEFINE A == /\ RecordSignal /\ log' # log =>
                     ConfirmedChange(LastThree(recent[current], votes[current]))
                /\ StoreSignal /\ ConfirmedChange(recent'[current]) =>
                     \E e \in Of(current) : e.at = now /\ e.to = votes[current]
                                            /\ e.from = recent'[current][1]
<1>1. IInv /\ [Next]_vars => [A]_vars
  <2> SUFFICES ASSUME IInv PROVE A
    OBVIOUS
  <2>1. ASSUME RecordSignal, log' # log
        PROVE  ConfirmedChange(LastThree(recent[current], votes[current]))
    <3>1. /\ Confirms(streaks[current], votes[current])
          /\ votes[current] \in Observed /\ current \in Signals
          /\ streaks[current] # NoState /\ streaks[current] \in Streak(Observed)
      BY <2>1 DEF RecordSignal, IInv, Visited, Typed, TypeOK
    <3> QED BY <3>1, Together DEF IInv, Remembered
  <2>2. ASSUME StoreSignal, ConfirmedChange(recent'[current])
        PROVE  \E e \in Of(current) : e.at = now /\ e.to = votes[current]
                                      /\ e.from = recent'[current][1]
    <3>1. /\ pc = "store" /\ votes[current] \in Observed /\ current \in Signals
          /\ recent'[current] = LastThree(recent[current], votes[current])
      BY <2>2 DEF StoreSignal, IInv, Visited, Typed, TypeOK
    <3>2. streaks[current] # NoState
      <4>1. SUFFICES ASSUME streaks[current] = NoState PROVE FALSE
        OBVIOUS
      <4>2. recent'[current] = <<votes[current]>>
        BY <3>1, <4>1, LastThreeRule DEF IInv, Remembered
      <4> QED BY <2>2, <4>2 DEF ConfirmedChange
    <3>3. streaks[current] \in Streak(Observed) /\ Agrees(streaks[current], recent[current])
      BY <3>1, <3>2 DEF IInv, Typed, TypeOK, Remembered
    <3>4. /\ Confirms(streaks[current], votes[current])
          /\ Bump(streaks[current], votes[current]).previous = recent'[current][1]
      BY <2>2, <3>1, <3>3, Together
    <3> QED BY <3>1, <3>2, <3>4 DEF IInv, Inserted, Of
  <2> QED BY <2>1, <2>2
<1>2. Spec => [][A]_vars
  BY <1>1, InitIInv, Invariance, PTL DEF Spec
<1> QED BY <1>2 DEF SkipsAreInvisible

-----------------------------------------------------------------------------
(* StateStore: any threads and migrations, and a file of any age. *)

OpenPoints ==
  {"closed", "ensure", "wal", "check", "begin", "recheck", "run", "ran", "open", "failed"}

StoreInput ==
  /\ input.kind = "store" /\ input.applied \in Nat
  /\ input.process \in [Threads -> {"daemon", "command"}]
  /\ input.known \in [{"daemon", "command"} -> Nat]

StoreSpec == StoreInput /\ result = Pending /\ [][StoreSteps]_<<input, result>>

Migrations == [number : Nat, name : {"x"} \union {input.name[p] : p \in {"daemon", "command"}}]

StoreFiles ==
  [file : BOOLEAN, wal : BOOLEAN, lock : Threads \union {NoThread}, sql : Seq(Nat),
   rows : SUBSET Migrations, pc : [Threads -> OpenPoints], at : [Threads -> Nat]]

Numbers(rows) == {r.number : r \in rows}

\* What has run is a prefix of the migrations, and the table names each once.
Migrated(s) ==
  /\ \A i \in 1 .. Len(s.sql) : s.sql[i] = i
  /\ Numbers(s.rows) = 1 .. Len(s.sql)
  /\ \A q, r \in s.rows : q.number = r.number => q = r

\* A thread between BEGIN and COMMIT has the lock, is at the next migration
\* when it runs one, and has passed none that has not run.
Held(s, t) ==
  /\ 1 <= s.at[t] /\ s.at[t] <= Len(s.sql) + 1
  /\ s.pc[t] \in {"recheck", "run", "ran"} => s.lock = t
  /\ s.pc[t] \in {"run", "ran"} => s.at[t] = Len(s.sql) + 1
  /\ s.pc[t] = "open" => s.at[t] > input.known[input.process[t]]
  /\ s.pc[t] \in {"check", "begin", "recheck", "run", "ran", "open"} => s.wal

Kept(s) == s \in StoreFiles /\ Migrated(s) /\ \A t \in Threads : Held(s, t)

StoreInv == StoreInput /\ (result # Pending => Kept(result))

LEMMA NewFileIsKept ==
  ASSUME StoreInput
  PROVE  Kept(Store(input.applied))
<1> DEFINE n == input.applied
           s == Store(n)
<1>1. n \in Nat
  BY DEF StoreInput
<1>2. s.sql = [i \in 1 .. n |-> i] /\ s.sql \in Seq(Nat) /\ Len(s.sql) = n
  BY <1>1 DEF Store
<1>3. s.rows = {[number |-> i, name |-> "x"] : i \in 1 .. n} /\ s.rows \subseteq Migrations
  BY <1>1 DEF Store, Migrations
<1>4. s \in StoreFiles
  BY <1>1, <1>2, <1>3 DEF Store, StoreFiles, OpenPoints
<1>5. Numbers(s.rows) = 1 .. n /\ \A q, r \in s.rows : q.number = r.number => q = r
  <2>1. \A i \in 1 .. n : [number |-> i, name |-> "x"] \in s.rows /\ [number |-> i, name |-> "x"].number = i
    BY <1>3
  <2>2. \A r \in s.rows : r.number \in 1 .. n /\ r = [number |-> r.number, name |-> "x"]
    BY <1>3
  <2> HIDE DEF s
  <2> QED BY <2>1, <2>2 DEF Numbers
<1>6. \A t \in Threads : s.pc[t] = "closed" /\ s.at[t] = 1
  BY DEF Store
<1> HIDE DEF s
<1>7. \A t \in Threads : Held(s, t)
  BY <1>1, <1>2, <1>6 DEF Held
<1>8. Migrated(s)
  BY <1>1, <1>2, <1>5 DEF Migrated
<1>9. Kept(s)
  BY <1>4, <1>7, <1>8 DEF Kept
<1> QED BY <1>9 DEF s

\* A thread goes from one point to another and changes no more than its
\* place, the lock it has, the file and the mode.
Goes(t, to, a, l, f, w) ==
  result' = [result EXCEPT !.pc[t] = to, !.at[t] = a, !.lock = l, !.file = f, !.wal = w]

May(t, to, a, l, f, w) ==
  /\ to \in OpenPoints /\ a \in Nat /\ l \in Threads \union {NoThread} /\ f \in BOOLEAN /\ w \in BOOLEAN
  /\ result.wal => w
  /\ l = result.lock \/ result.lock = NoThread \/ (result.lock = t /\ l = NoThread)
  /\ 1 <= a /\ a <= Len(result.sql) + 1
  /\ to \in {"recheck", "run", "ran"} => l = t
  /\ to \in {"run", "ran"} => a = Len(result.sql) + 1
  /\ to = "open" => a > input.known[input.process[t]]
  /\ to \in {"check", "begin", "recheck", "run", "ran", "open"} => w

LEMMA ThreadMoves ==
  ASSUME StoreInput, Kept(result), NEW t \in Threads,
         NEW to, NEW a, NEW l, NEW f, NEW w, Goes(t, to, a, l, f, w), May(t, to, a, l, f, w)
  PROVE  Kept(result')
<1>1. result \in StoreFiles /\ Migrated(result) /\ \A u \in Threads : Held(result, u)
  BY DEF Kept
<1>2. /\ result' \in StoreFiles /\ result'.sql = result.sql /\ result'.rows = result.rows
      /\ result'.lock = l /\ result'.wal = w
      /\ result'.pc[t] = to /\ result'.at[t] = a
      /\ \A u \in Threads \ {t} : result'.pc[u] = result.pc[u] /\ result'.at[u] = result.at[u]
  BY <1>1 DEF StoreFiles, Goes, May
<1>3. Migrated(result')
  BY <1>1, <1>2 DEF Migrated
<1>4. Held(result', t)
  BY <1>2 DEF Held, May
<1>5. ASSUME NEW u \in Threads \ {t} PROVE Held(result', u)
  <2>1. Held(result, u)
    BY <1>1
  <2>2. result.lock = u => l = u
    BY ThreadAssumption DEF May
  <2> QED BY <1>2, <2>1, <2>2 DEF Held, May
<1> QED BY <1>2, <1>3, <1>4, <1>5 DEF Kept

LEMMA CommitKeeps ==
  ASSUME StoreInput, Kept(result), NEW t \in Threads, Commit(t)
  PROVE  Kept(result')
<1> DEFINE n == Len(result.sql)
           p == input.process[t]
           r == [number |-> result.at[t], name |-> input.name[p]]
<1>1. result \in StoreFiles /\ Migrated(result) /\ \A u \in Threads : Held(result, u)
  BY DEF Kept
<1>2. /\ result.pc[t] = "ran" /\ UNCHANGED input
      /\ result' = [result EXCEPT !.sql = Append(@, result.at[t]), !.rows = @ \union {r},
                                  !.lock = NoThread, !.pc[t] = "check", !.at[t] = @ + 1]
  BY DEF Commit, At
<1>3. n \in Nat /\ result.at[t] = n + 1 /\ result.sql \in Seq(Nat)
  BY <1>1, <1>2 DEF Held, StoreFiles
<1>4. p \in {"daemon", "command"} /\ r \in Migrations /\ r.number = n + 1
  BY <1>3 DEF StoreInput, Migrations
<1> HIDE DEF r
<1>5. /\ result' \in StoreFiles /\ result'.sql = Append(result.sql, n + 1)
      /\ result'.rows = result.rows \union {r}
      /\ result'.lock = NoThread /\ result'.wal = result.wal
      /\ result'.pc[t] = "check" /\ result'.at[t] = n + 2
      /\ \A u \in Threads \ {t} : result'.pc[u] = result.pc[u] /\ result'.at[u] = result.at[u]
  <2> DEFINE q == Append(result.sql, n + 1)
             rows == result.rows \union {r}
             m == n + 2
  <2>1. q \in Seq(Nat) /\ rows \in SUBSET Migrations
    BY <1>1, <1>3, <1>4 DEF StoreFiles
  <2>2. result' = [result EXCEPT !.sql = q, !.rows = rows, !.lock = NoThread,
                                 !.pc[t] = "check", !.at[t] = m]
    BY <1>1, <1>2, <1>3 DEF StoreFiles
  <2>4. m \in Nat
    BY <1>3
  <2> HIDE DEF q, rows, m
  <2>3. /\ result' \in StoreFiles /\ result'.sql = q /\ result'.rows = rows
        /\ result'.lock = NoThread /\ result'.wal = result.wal
        /\ result'.pc[t] = "check" /\ result'.at[t] = m
        /\ \A u \in Threads \ {t} : result'.pc[u] = result.pc[u] /\ result'.at[u] = result.at[u]
    BY <1>1, <2>1, <2>2, <2>4 DEF StoreFiles, OpenPoints
  <2> QED BY <2>3 DEF q, rows, m
<1>6. /\ Len(result'.sql) = n + 1 /\ result'.sql[n + 1] = n + 1
      /\ \A i \in 1 .. n : result'.sql[i] = result.sql[i]
  BY <1>3, <1>5
<1>7. Migrated(result')
  <2>1. \A i \in 1 .. n + 1 : result'.sql[i] = i
    <3>1. \A i \in 1 .. n : result.sql[i] = i
      BY <1>1 DEF Migrated
    <3>2. \A i \in 1 .. n + 1 : i \in 1 .. n \/ i = n + 1
      BY <1>3
    <3> QED BY <1>6, <3>1, <3>2
  <2>2. Numbers(result.rows) = 1 .. n
    BY <1>1 DEF Migrated
  <2>3. Numbers(result'.rows) = 1 .. n + 1
    <3>1. Numbers(result'.rows) = Numbers(result.rows) \union {n + 1}
      BY <1>4, <1>5 DEF Numbers
    <3> QED BY <1>3, <2>2, <3>1
  <2>4. \A q \in result.rows : q.number # n + 1
    <3>1. \A q \in result.rows : q.number \in 1 .. n
      BY <2>2 DEF Numbers
    <3> QED BY <1>3, <3>1
  <2>5. \A q, s \in result'.rows : q.number = s.number => q = s
    BY <1>1, <1>4, <1>5, <2>4 DEF Migrated
  <2> QED BY <1>6, <2>1, <2>3, <2>5 DEF Migrated
<1>8. Held(result', t)
  BY <1>1, <1>2, <1>3, <1>5, <1>6 DEF Held
<1>9. ASSUME NEW u \in Threads \ {t} PROVE Held(result', u)
  <2>1. Held(result, u) /\ result.lock = t /\ result.at[u] \in Nat
    BY <1>1, <1>2 DEF Held, StoreFiles
  <2> QED BY <1>3, <1>5, <1>6, <2>1 DEF Held
<1> QED BY <1>5, <1>7, <1>8, <1>9 DEF Kept

LEMMA CrashKeeps ==
  ASSUME StoreInput, Kept(result), NEW p \in {"daemon", "command"}, Crash(p)
  PROVE  Kept(result')
<1> DEFINE l == IF result.lock # NoThread /\ input.process[result.lock] = p THEN NoThread ELSE result.lock
<1>1. result \in StoreFiles /\ Migrated(result) /\ \A u \in Threads : Held(result, u)
  BY DEF Kept
<1>2. result' = [result EXCEPT
       !.pc = [t \in Threads |-> IF input.process[t] = p THEN "closed" ELSE result.pc[t]],
       !.lock = l]
  BY <1>1 DEF Crash, StoreFiles
<1>3. l \in Threads \union {NoThread}
  BY <1>1 DEF StoreFiles
<1> HIDE DEF l
<1>4. /\ result' \in StoreFiles /\ result'.sql = result.sql /\ result'.rows = result.rows
      /\ result'.wal = result.wal /\ result'.lock = l /\ result'.at = result.at
      /\ \A t \in Threads : result'.pc[t] = IF input.process[t] = p THEN "closed" ELSE result.pc[t]
  BY <1>1, <1>2, <1>3 DEF StoreFiles, OpenPoints
<1>5. Migrated(result')
  BY <1>1, <1>4 DEF Migrated
<1>6. ASSUME NEW t \in Threads PROVE Held(result', t)
  <2>1. Held(result, t)
    BY <1>1
  <2>2. result.lock = t /\ input.process[t] # p => l = t
    BY DEF l
  <2> QED BY <1>4, <2>1, <2>2 DEF Held
<1> QED BY <1>4, <1>5, <1>6 DEF Kept

LEMMA AppliedRule ==
  ASSUME Kept(result), NEW t \in Threads
  PROVE  /\ Applied(t) <=> result.at[t] \in 1 .. Len(result.sql)
         /\ Range(result.sql) = 1 .. Len(result.sql)
         /\ result.at[t] \in Nat /\ Len(result.sql) \in Nat
<1>1. result \in StoreFiles /\ Migrated(result)
  BY DEF Kept
<1>2. Numbers(result.rows) = 1 .. Len(result.sql)
  BY <1>1 DEF Migrated
<1>3. Applied(t) <=> result.at[t] \in Numbers(result.rows)
  BY DEF Applied, Numbers
<1>4. result.sql \in Seq(Nat) /\ DOMAIN result.sql = 1 .. Len(result.sql)
  BY <1>1 DEF StoreFiles
<1>5. Range(result.sql) = 1 .. Len(result.sql)
  BY <1>1, <1>4 DEF Range, Migrated
<1> QED BY <1>1, <1>2, <1>3, <1>4, <1>5 DEF StoreFiles

LEMMA ThreadStep ==
  ASSUME StoreInput, Kept(result), NEW t \in Threads,
         \/ Enter(t) \/ EnsureDakuDir(t) \/ SetWal(t) \/ Check(t) \/ Begin(t) \/ Recheck(t)
         \/ Run(t) \/ Close(t)
  PROVE  Kept(result')
<1> DEFINE n == Len(result.sql)
           here == result.pc[t]
           a == result.at[t]
           lock == result.lock
           file == result.file
           wal == result.wal
<1>1. /\ result \in StoreFiles /\ a \in Nat /\ n \in Nat
      /\ lock \in Threads \union {NoThread} /\ file \in BOOLEAN /\ wal \in BOOLEAN
  BY AppliedRule DEF Kept, StoreFiles
<1>2. /\ 1 <= a /\ a <= n + 1
      /\ here \in {"recheck", "run", "ran"} => lock = t
      /\ here \in {"run", "ran"} => a = n + 1
      /\ here \in {"check", "begin", "recheck", "run", "ran", "open"} => wal
  BY DEF Kept, Held
<1>3. Applied(t) <=> a \in 1 .. n
  BY AppliedRule
<1>4. Range(result.sql) = 1 .. n
  BY AppliedRule
<1>5. CASE Enter(t)
  <2>1. Goes(t, "ensure", 1, lock, file, wal)
    BY <1>1, <1>5 DEF Enter, At, StoreFiles, Goes
  <2>2. May(t, "ensure", 1, lock, file, wal)
    BY <1>1 DEF May, OpenPoints
  <2> QED BY <2>1, <2>2, ThreadMoves
<1>6. CASE EnsureDakuDir(t)
  <2>1. Goes(t, "wal", a, lock, TRUE, wal)
    BY <1>1, <1>6 DEF EnsureDakuDir, At, StoreFiles, Goes
  <2>2. May(t, "wal", a, lock, TRUE, wal)
    BY <1>1, <1>2 DEF May, OpenPoints
  <2> QED BY <2>1, <2>2, ThreadMoves
\* A thread that fails or closes only leaves.
<1>7. ASSUME NEW to \in {"failed", "closed"}, Moves(t, to) PROVE Kept(result')
  <2>1. Goes(t, to, a, lock, file, wal)
    BY <1>1, <1>7 DEF Moves, StoreFiles, Goes
  <2>2. May(t, to, a, lock, file, wal)
    BY <1>1, <1>2 DEF May, OpenPoints
  <2> QED BY <2>1, <2>2, ThreadMoves
<1>8. CASE SetWal(t)
  <2>1. CASE result' = [result EXCEPT !.pc[t] = "check", !.wal = TRUE]
    <3>1. Goes(t, "check", a, lock, file, TRUE)
      BY <1>1, <2>1 DEF StoreFiles, Goes
    <3>2. May(t, "check", a, lock, file, TRUE)
      BY <1>1, <1>2 DEF May, OpenPoints
    <3> QED BY <3>1, <3>2, ThreadMoves
  <2> QED BY <1>7, <1>8, <2>1 DEF SetWal
<1>9. CASE Check(t)
  <2>1. wal
    BY <1>2, <1>9 DEF Check, At
  <2>2. CASE a > input.known[input.process[t]]
    <3>1. Goes(t, "open", a, lock, file, wal)
      BY <1>1, <1>9, <2>2 DEF Check, StoreFiles, Goes
    <3>2. May(t, "open", a, lock, file, wal)
      BY <1>1, <1>2, <2>1, <2>2 DEF May, OpenPoints
    <3> QED BY <3>1, <3>2, ThreadMoves
  <2>3. CASE ~(a > input.known[input.process[t]]) /\ Applied(t)
    <3>1. Goes(t, "check", a + 1, lock, file, wal)
      BY <1>1, <1>9, <2>1, <2>3 DEF Check, At, StoreFiles, Goes
    <3>2. May(t, "check", a + 1, lock, file, wal)
      BY <1>1, <1>3, <2>1, <2>3 DEF May, OpenPoints
    <3> QED BY <3>1, <3>2, ThreadMoves
  <2>4. CASE ~(a > input.known[input.process[t]]) /\ ~Applied(t)
    <3>1. Goes(t, "begin", a, lock, file, wal)
      BY <1>1, <1>9, <2>4 DEF Check, StoreFiles, Goes
    <3>2. May(t, "begin", a, lock, file, wal)
      BY <1>1, <1>2, <2>1 DEF May, OpenPoints
    <3> QED BY <3>1, <3>2, ThreadMoves
  <2> QED BY <2>2, <2>3, <2>4
<1>10. CASE Begin(t)
  <2>1. wal
    BY <1>2, <1>10 DEF Begin, At
  <2>2. CASE lock = NoThread /\ result' = [result EXCEPT !.pc[t] = "recheck", !.lock = t]
    <3>1. Goes(t, "recheck", a, t, file, wal)
      BY <1>1, <2>2 DEF StoreFiles, Goes
    <3>2. May(t, "recheck", a, t, file, wal)
      BY <1>1, <1>2, <2>1, <2>2 DEF May, OpenPoints
    <3> QED BY <3>1, <3>2, ThreadMoves
  <2> QED BY <1>7, <1>10, <2>2 DEF Begin
<1>11. CASE Recheck(t)
  <2>1. wal /\ lock = t
    BY <1>2, <1>11 DEF Recheck, At
  <2>2. CASE Applied(t)
    <3>1. Goes(t, "check", a + 1, NoThread, file, wal)
      BY <1>1, <1>11, <2>2 DEF Recheck, StoreFiles, Goes
    <3>2. May(t, "check", a + 1, NoThread, file, wal)
      BY <1>1, <1>3, <2>1, <2>2 DEF May, OpenPoints
    <3> QED BY <3>1, <3>2, ThreadMoves
  <2>3. CASE ~Applied(t)
    <3>1. Goes(t, "run", a, lock, file, wal)
      BY <1>1, <1>11, <2>3 DEF Recheck, StoreFiles, Goes
    <3>2. May(t, "run", a, lock, file, wal)
      BY <1>1, <1>2, <1>3, <2>1, <2>3 DEF May, OpenPoints
    <3> QED BY <3>1, <3>2, ThreadMoves
  <2> QED BY <2>2, <2>3
\* The migration of the run is the next one, so that it meets nothing it made.
<1>12. CASE Run(t)
  <2>1. wal /\ lock = t /\ a = n + 1 /\ a \notin Range(result.sql)
    BY <1>1, <1>2, <1>4, <1>12 DEF Run, At
  <2>2. CASE Moves(t, "ran")
    <3>1. Goes(t, "ran", a, lock, file, wal)
      BY <1>1, <2>2 DEF Moves, StoreFiles, Goes
    <3>2. May(t, "ran", a, lock, file, wal)
      BY <1>1, <2>1 DEF May, OpenPoints
    <3> QED BY <3>1, <3>2, ThreadMoves
  <2>3. CASE result' = [result EXCEPT !.lock = NoThread, !.pc[t] = "failed"]
    <3>1. Goes(t, "failed", a, NoThread, file, wal)
      BY <1>1, <2>3 DEF StoreFiles, Goes
    <3>2. May(t, "failed", a, NoThread, file, wal)
      BY <1>1, <1>2, <2>1 DEF May, OpenPoints
    <3> QED BY <3>1, <3>2, ThreadMoves
  <2> QED BY <1>12, <2>1, <2>2, <2>3 DEF Run
<1>13. CASE Close(t)
  BY <1>7, <1>13 DEF Close
<1> QED BY <1>5, <1>6, <1>8, <1>9, <1>10, <1>11, <1>12, <1>13

LEMMA StoreInvariance == StoreSpec => []StoreInv
<1>1. StoreInput /\ result = Pending => StoreInv
  BY DEF StoreInv
<1>2. StoreInv /\ [StoreSteps]_<<input, result>> => StoreInv'
  <2> SUFFICES ASSUME StoreInv, [StoreSteps]_<<input, result>> PROVE StoreInv'
    OBVIOUS
  <2>1. CASE NewStore
    <3>1. Kept(Store(input.applied)) /\ UNCHANGED input /\ result' = Store(input.applied)
      BY <2>1, NewFileIsKept DEF StoreInv, NewStore, Judge
    <3>2. Kept(result')
      BY <3>1
    <3> QED BY <3>1, <3>2 DEF StoreInv, StoreInput, Kept, Held, StoreFiles, Migrations
  <2>2. ASSUME Judged("store"), UNCHANGED input, Kept(result) => Kept(result') PROVE StoreInv'
    <3>1. Kept(result')
      BY <2>2 DEF StoreInv, Judged
    <3> QED BY <2>2, <3>1 DEF StoreInv, StoreInput, Kept, Held, StoreFiles, Migrations
  <2>3. ASSUME NEW t \in Threads,
               \/ Enter(t) \/ EnsureDakuDir(t) \/ SetWal(t) \/ Check(t) \/ Begin(t) \/ Recheck(t)
               \/ Run(t) \/ Close(t)
        PROVE  StoreInv'
    <3>1. Judged("store") /\ UNCHANGED input
      BY <2>3 DEF Enter, EnsureDakuDir, SetWal, Check, Begin, Recheck, Run, Close, At
    <3> QED BY <2>2, <2>3, <3>1, ThreadStep DEF StoreInv
  <2>4. ASSUME NEW t \in Threads, Commit(t) PROVE StoreInv'
    <3>1. Judged("store") /\ UNCHANGED input
      BY <2>4 DEF Commit, At
    <3> QED BY <2>2, <2>4, <3>1, CommitKeeps DEF StoreInv
  <2>5. ASSUME NEW p \in {"daemon", "command"}, Crash(p) PROVE StoreInv'
    <3>1. Judged("store") /\ UNCHANGED input
      BY <2>5 DEF Crash
    <3> QED BY <2>2, <2>5, <3>1, CrashKeeps DEF StoreInv
  <2>6. CASE UNCHANGED <<input, result>>
    BY <2>6 DEF StoreInv, StoreInput, Kept, Held, StoreFiles, Migrations
  <2> QED BY <2>1, <2>3, <2>4, <2>5, <2>6 DEF StoreSteps
<1> QED BY <1>1, <1>2, PTL DEF StoreSpec

\* However many threads of however many opens meet on a file of any age, and
\* whichever of them fails or dies: every migration runs once and in order, it
\* is in the table exactly if it has run, and a connection that was given out
\* has all that its binary knows (apply_migrations, StateStore::open).
THEOREM EachMigrationOnce == StoreSpec => []MigrationsRunOnce
<1>1. StoreInv => MigrationsRunOnce
  <2> SUFFICES ASSUME StoreInv, Judged("store") PROVE
        /\ \A i \in DOMAIN result.sql : result.sql[i] = i
        /\ {r.number : r \in result.rows} = Range(result.sql)
        /\ Cardinality(result.rows) = Len(result.sql)
        /\ \A t \in Threads :
             /\ result.pc[t] # "clash"
             /\ result.pc[t] = "open" =>
                  1 .. input.known[input.process[t]] \subseteq Range(result.sql) /\ result.wal
    BY DEF MigrationsRunOnce
  <2> DEFINE n == Len(result.sql)
  <2>1. /\ Kept(result) /\ result \in StoreFiles /\ Migrated(result)
        /\ \A t \in Threads : Held(result, t)
    BY DEF StoreInv, Judged, Kept
  <2>2. result.sql \in Seq(Nat) /\ n \in Nat /\ DOMAIN result.sql = 1 .. n
    BY <2>1 DEF StoreFiles
  <2>3. Range(result.sql) = 1 .. n /\ {r.number : r \in result.rows} = 1 .. n
    BY <2>1, <2>2 DEF Range, Migrated, Numbers
  <2>4. Cardinality(result.rows) = n
    <3> DEFINE f == [r \in result.rows |-> r.number]
    <3>1. /\ \A r \in result.rows : r.number \in 1 .. n
          /\ \A i \in 1 .. n : \E r \in result.rows : r.number = i
      BY <2>3
    <3>2. f \in Injection(result.rows, 1 .. n)
      BY <2>1, <3>1 DEF Migrated, Injection, IsInjective
    <3>3. f \in Surjection(result.rows, 1 .. n)
      BY <2>3, <3>1 DEF Surjection
    <3>4. IsFiniteSet(1 .. n) /\ Cardinality(1 .. n) = n
      BY <2>2, FS_Interval
    <3> HIDE DEF f
    <3>5. f \in Bijection(result.rows, 1 .. n)
      BY <3>2, <3>3 DEF Bijection
    <3>6. IsFiniteSet(result.rows)
      BY <3>2, <3>4, FS_Injection
    <3>7. result.rows # {} \/ n = 0
      BY <2>2, <3>1
    <3> QED BY <3>4, <3>5, <3>6, FS_Bijection DEF ExistsBijection
  <2>5. ASSUME NEW t \in Threads
        PROVE  /\ result.pc[t] # "clash"
               /\ result.pc[t] = "open" =>
                    1 .. input.known[input.process[t]] \subseteq Range(result.sql) /\ result.wal
    <3>1. result.pc[t] \in OpenPoints /\ result.at[t] \in Nat
      BY <2>1 DEF StoreFiles
    <3>2. input.known[input.process[t]] \in Nat
      BY DEF StoreInv, StoreInput
    <3>3. result.pc[t] = "open" => input.known[input.process[t]] <= n /\ result.wal
      BY <2>1, <2>2, <3>1, <3>2 DEF Held
    <3> QED BY <2>2, <2>3, <3>1, <3>2, <3>3 DEF OpenPoints
  <2> QED BY <2>1, <2>2, <2>3, <2>4, <2>5 DEF Migrated
<1> QED BY <1>1, StoreInvariance, PTL
=============================================================================
