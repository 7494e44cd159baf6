-------------------------- MODULE MCServiceNowClient --------------------------
(* A poll and a window on one Environment, another poll on a second of its host. *)
EXTENDS ServiceNowClient, TLC

CONSTANTS c1, c2, c3, dev, test, prod, old, new

MCMayCall == [c \in Callers |-> CASE c = c1 -> {dev} [] c = c2 -> {test} [] c = c3 -> {dev}]
MCHostOf == [e \in Environments |-> IF e = prod THEN "own" ELSE "shared"]
MCAuthOf == [e \in Environments |-> IF e = test THEN "oauth" ELSE "basic"]
=============================================================================
