----------------------------- MODULE EventTable -----------------------------
(***************************************************************************)
(* The bounded event logs of the database.  health_events and              *)
(* signal_events are both pruned to a retention window and to a number of  *)
(* rows per Environment; the rows here are those of one Environment.       *)
(***************************************************************************)
EXTENDS Integers, FiniteSets

CONSTANTS
  Retention, \* seconds an event is kept
  MaxEvents  \* events kept per Environment

ASSUME EventTableAssumption == Retention \in Nat /\ MaxEvents \in Nat \ {0}

\* Mutant: the count bound keeps the oldest rows.
OldestRows(rows, n) ==
  {kept \in SUBSET rows :
     /\ \A k \in kept, d \in rows \ kept : k.at <= d.at
     /\ kept = rows \/ Cardinality(kept) = n
     /\ Cardinality(kept) <= n}

\* ORDER BY observed_at DESC LIMIT n, which leaves ties open: the sets of rows
\* the statement can select.
NewestRows(rows, n) ==
  {kept \in SUBSET rows :
     /\ \A k \in kept, d \in rows \ kept : k.at >= d.at
     /\ kept = rows \/ Cardinality(kept) = n
     /\ Cardinality(kept) <= n}

\* What is left of the first DELETE: the rows inside the retention window.
Aged(rows, t) == {e \in rows : e.at >= t - Retention}

\* The tables that both DELETEs can leave: of the rows inside the retention
\* window the newest MaxEvents.
Pruned(rows, t) == NewestRows(Aged(rows, t), MaxEvents)

\* A startup prunes best effort: either DELETE may fail, and neither is undone.
StartupPruned(rows, t) == Pruned(rows, t) \union {rows, Aged(rows, t)}
=============================================================================
