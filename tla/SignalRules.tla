---------------------------- MODULE SignalRules ----------------------------
(***************************************************************************)
(* The pure rules that turn the snapshot rows of one Environment into its  *)
(* health: which rows vote, what reachability the rows report, and the     *)
(* roll-up.  A table of rows is a function from the Signals that have a    *)
(* row to the row, so a Signal without a row is outside its DOMAIN.        *)
(***************************************************************************)

CONSTANTS
  Signals,        \* Signal ids that can have a snapshot row
  Availability,   \* the Signal that reports reachability and the build
  NonVoting,      \* Signals kept for information only
  PlatformProbes, \* Signals that are the whole Platform (http_probe, actions)
  Builds,         \* build strings the instance can report
  NoBuild         \* the build could not be read

ASSUME SignalsAssumption ==
  /\ NonVoting \subseteq Signals
  /\ PlatformProbes \subseteq Signals
  /\ NoBuild \notin Builds

Reachabilities == {"reachable", "asleep", "unreachable"}
SignalStates   == {"healthy", "degraded", "down", "skipped"}
Healths        == {"waiting", "healthy", "degraded", "down"}

Snapshot == [state : SignalStates, reach : Reachabilities,
             build : Builds \union {NoBuild}]

RowTables == UNION {[S -> Snapshot] : S \in SUBSET Signals}

\* Does this row count toward health?
Votes(s, state) == s \notin NonVoting /\ state # "skipped"

\* The reachability reported by a table of rows: the Availability row's, or,
\* on a Platform without one, what its own probes imply.
Reachability(rows) ==
  IF Availability \in DOMAIN rows
  THEN rows[Availability].reach
  ELSE IF \E s \in DOMAIN rows :
            \/ rows[s].reach = "unreachable"
            \/ s \in PlatformProbes /\ rows[s].state = "down"
       THEN "unreachable"
       ELSE "reachable"

\* Mutant: the roll-up reports the reachability word instead of its health.
HealthRollupEchoes(reach, rows) ==
  CASE reach = "unreachable" -> "unreachable"
    [] reach = "asleep"      -> "healthy"
    [] OTHER -> IF DOMAIN rows = {} THEN "waiting" ELSE "healthy"

HealthRollup(reach, rows) ==
  CASE reach = "unreachable" -> "down"
    [] reach = "asleep"      -> "healthy"
    [] reach = "reachable" /\ DOMAIN rows = {} -> "waiting"
    [] OTHER -> IF \E s \in DOMAIN rows :
                     /\ Votes(s, rows[s].state)
                     /\ rows[s].state \in {"degraded", "down"}
                THEN "degraded"
                ELSE "healthy"

\* What one publish decides about an Environment from its rows.
Decide(rows) ==
  [health |-> HealthRollup(Reachability(rows), rows),
   build  |-> IF Availability \in DOMAIN rows
              THEN rows[Availability].build
              ELSE NoBuild]
=============================================================================
