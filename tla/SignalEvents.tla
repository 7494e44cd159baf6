---------------------------- MODULE SignalEvents ----------------------------
(***************************************************************************)
(* The per-Signal event log of one Environment.  Each publish walks the    *)
(* Environment's rows and keeps one streak per Signal; rows that were      *)
(* skipped this tick are passed over.  The walk comes after the health     *)
(* events of the same publish, so a failure there, or at an earlier        *)
(* Signal, leaves the remaining Signals one publish behind.                *)
(***************************************************************************)
EXTENDS EventTable, Integers, Sequences, FiniteSets

CONSTANTS
  Signals,
  NoValue,
  StopPoints,     \* the program points at which the daemon may stop
  MaxPublishes,   \* bound: publishes
  MaxStops,       \* bound: stops of the daemon
  MaxErrors       \* bound: publishes cut short by a failed statement

INSTANCE Streaks

SignalStates == {"healthy", "degraded", "down", "skipped"}
Observed     == SignalStates \ {"skipped"}
Event        == [signal : Signals, at : Nat, from : Observed, to : Observed]
NoState      == [missing |-> TRUE]

ASSUME SignalAssumption == NoValue \notin Observed

VARIABLES
  votes,     \* the states of the rows this publish loaded
  streaks,   \* signal_publish_state: NoState or the stored streak per Signal
  log,       \* signal_events: a set of rows with key <<signal, at>>
  pc,        \* "idle", "walk", "record", "store", "prune" or "down"
  todo,      \* Signals this publish has still to visit
  current,   \* the Signal being visited
  now,
  publishes, stops, errors,
  recent     \* history: the last three observed states stored per Signal

bounds == <<publishes, stops, errors>>
vars   == <<votes, streaks, log, pc, todo, current, now, bounds, recent>>

TypeOK ==
  /\ votes \in [Signals -> SignalStates]
  /\ \A s \in Signals : streaks[s] = NoState \/ streaks[s] \in Streak(Observed)
  /\ log \subseteq Event
  /\ pc \in {"idle", "walk", "record", "store", "prune", "down"}
  /\ todo \subseteq Signals /\ current \in Signals
  /\ now \in Nat /\ publishes \in Nat /\ stops \in Nat /\ errors \in Nat
  /\ recent \in [Signals -> Seq(Observed)]

Init ==
  /\ votes = [s \in Signals |-> "skipped"]
  /\ streaks = [s \in Signals |-> NoState]
  /\ log = {}
  /\ pc = "idle" /\ todo = {} /\ current \in Signals
  /\ now = 0 /\ publishes = 0 /\ stops = 0 /\ errors = 0
  /\ recent = [s \in Signals |-> <<>>]

-----------------------------------------------------------------------------
\* A publish loads the rows the last tick left and starts the walk.
PublishStart ==
  /\ pc = "idle"
  /\ publishes < MaxPublishes
  /\ votes' \in [Signals -> SignalStates]
  /\ now' = now + 1
  /\ todo' = Signals
  /\ pc' = "walk"
  /\ publishes' = publishes + 1
  /\ UNCHANGED <<streaks, log, current, stops, errors, recent>>

\* Mutants: a skipped row is walked like any other, or ends the streak.
VisitAll ==
  /\ pc = "walk" /\ todo # {}
  /\ \E s \in todo :
       /\ todo' = todo \ {s} /\ current' = s
       /\ pc' = IF streaks[s] = NoState THEN "store" ELSE "record"
  /\ UNCHANGED <<votes, streaks, log, now, bounds, recent>>
VisitResets ==
  /\ pc = "walk" /\ todo # {}
  /\ \E s \in todo :
       /\ todo' = todo \ {s}
       /\ IF votes[s] = "skipped"
          THEN /\ streaks' = [streaks EXCEPT ![s] = NoState]
               /\ UNCHANGED <<pc, current>>
          ELSE /\ current' = s
               /\ pc' = IF streaks[s] = NoState THEN "store" ELSE "record"
               /\ UNCHANGED streaks
  /\ UNCHANGED <<votes, log, now, bounds, recent>>

Visit ==
  /\ pc = "walk" /\ todo # {}
  /\ \E s \in todo :
       /\ todo' = todo \ {s}
       /\ IF votes[s] = "skipped"
          THEN UNCHANGED <<pc, current>>
          ELSE /\ current' = s
               /\ pc' = IF streaks[s] = NoState THEN "store" ELSE "record"
  /\ UNCHANGED <<votes, streaks, log, now, bounds, recent>>

\* ON CONFLICT(environment_id, signal_id, observed_at) DO NOTHING: one publish
\* visits a Signal once and each publish has its own second here.
RecordSignal ==
  /\ pc = "record"
  /\ log' = IF Confirms(streaks[current], votes[current])
            THEN log \union {[signal |-> current, at |-> now,
                              from |-> Bump(streaks[current], votes[current]).previous,
                              to |-> votes[current]]}
            ELSE log
  /\ pc' = "store"
  /\ UNCHANGED <<votes, streaks, todo, current, now, bounds, recent>>

LastThree(h, v) == IF Len(h) < 3 THEN Append(h, v) ELSE Append(Tail(h), v)

StoreSignal ==
  /\ pc = "store"
  /\ streaks' = [streaks EXCEPT ![current] = IF @ = NoState
                                             THEN FirstStreak(votes[current])
                                             ELSE Bump(@, votes[current])]
  /\ recent' = [recent EXCEPT ![current] = LastThree(@, votes[current])]
  /\ pc' = "walk"
  /\ UNCHANGED <<votes, log, todo, current, now, bounds>>

\* The two DELETEs of prune_signal_events: by age, then by number.
PruneSignals ==
  /\ pc = "walk" /\ todo = {}
  /\ log' = Aged(log, now)
  /\ pc' = "prune"
  /\ UNCHANGED <<votes, streaks, todo, current, now, bounds, recent>>

PruneRows ==
  /\ pc = "prune"
  /\ log' \in NewestRows(log, MaxEvents)
  /\ pc' = "idle"
  /\ UNCHANGED <<votes, streaks, todo, current, now, bounds, recent>>

\* A statement fails here, or failed before the walk began.
PublishFails ==
  /\ pc \in {"walk", "record", "store", "prune"}
  /\ errors < MaxErrors
  /\ errors' = errors + 1
  /\ pc' = "idle" /\ todo' = {}
  /\ UNCHANGED <<votes, streaks, log, current, now, publishes, stops, recent>>

Stop ==
  /\ pc \in StopPoints
  /\ stops < MaxStops
  /\ stops' = stops + 1
  /\ pc' = "down" /\ todo' = {}
  /\ UNCHANGED <<votes, streaks, log, current, now, publishes, errors, recent>>

\* Startup prunes as well as it can; the loop then publishes the stored rows.
Start ==
  /\ pc = "down"
  /\ log' \in StartupPruned(log, now)
  /\ IF publishes < MaxPublishes
     THEN /\ pc' = "walk" /\ todo' = Signals
          /\ now' = now + 1 /\ publishes' = publishes + 1
     ELSE pc' = "idle" /\ UNCHANGED <<todo, now, publishes>>
  /\ UNCHANGED <<votes, streaks, current, stops, errors, recent>>

Done == pc = "idle" /\ publishes = MaxPublishes /\ UNCHANGED vars

Next ==
  \/ PublishStart \/ Visit \/ RecordSignal \/ StoreSignal \/ PruneSignals
  \/ PruneRows \/ PublishFails \/ Stop \/ Start \/ Done

Spec == Init /\ [][Next]_vars

-----------------------------------------------------------------------------
Of(s) == {e \in log : e.signal = s}
Newest(s) == CHOOSE e \in Of(s) : \A f \in Of(s) : e.at >= f.at

\* A Signal whose observed state has been published twice in a row is in the
\* state its newest event names, whatever was skipped, failed or restarted in
\* between.  The row bound is shared by the Signals of the Environment and may
\* take every event of a Signal, never the newest one alone.
NewestSignalEventIsStable ==
  \A s \in Signals :
    streaks[s] # NoState =>
      (streaks[s].count >= 2 /\ Of(s) # {} => Newest(s).to = streaks[s].last)

\* The same, and every variable has its type (persist_signal_events).
LogIsSound == TypeOK /\ NewestSignalEventIsStable

\* Skipped ticks leave the streak untouched: events follow the sequence of
\* observed states alone.  A Signal gets an event exactly when its last three
\* observed states make a confirmed change, however many publishes skipped it,
\* were cut short or were replayed by a restart in between.
ConfirmedChange(h) == Len(h) = 3 /\ h[2] = h[3] /\ h[1] # h[2]

SkipsAreInvisible ==
  [][/\ RecordSignal /\ log' # log =>
          ConfirmedChange(LastThree(recent[current], votes[current]))
     /\ StoreSignal /\ ConfirmedChange(recent'[current]) =>
          \E e \in Of(current) : e.at = now /\ e.to = votes[current]
                                            /\ e.from = recent'[current][1]]_vars

\* A single flap is not history: an event never names the state the Signal's
\* newest event already names, since that state was left for one publish only.
SignalFlapIsNotHistory ==
  [][\A e \in log' \ log : Of(e.signal) # {} => Newest(e.signal).to # e.to]_vars
=============================================================================
