--------------------------- MODULE DashboardFeed ---------------------------
(***************************************************************************)
(* What the dashboard connection promises a client, without queues, pieces *)
(* or threads: per cache key it shows published state, whole and never     *)
(* older than what it showed before on the same connection.  It may miss   *)
(* versions, and a new connection starts from nothing.                     *)
(***************************************************************************)
EXTENDS Naturals

CONSTANT Keys  \* one per environment and signal series

VARIABLES
  published,  \* the newest version of each key, 0 before the first
  seen        \* the version the client shows, 0 for none

Init ==
  /\ published = [k \in Keys |-> 0]
  /\ seen = [k \in Keys |-> 0]

Publish ==
  /\ \E k \in Keys : published' = [published EXCEPT ![k] = @ + 1]
  /\ UNCHANGED seen

Show ==
  /\ \E k \in Keys :
       \E v \in seen[k] + 1 .. published[k] : seen' = [seen EXCEPT ![k] = v]
  /\ UNCHANGED published

StartOver ==
  /\ seen' = [k \in Keys |-> 0]
  /\ UNCHANGED published

Next == Publish \/ Show \/ StartOver

Spec == Init /\ [][Next]_<<published, seen>>
=============================================================================
