------------------------------- MODULE Judged -------------------------------
(***************************************************************************)
(* A pure part of the system at work: one input, judged once.  The rule    *)
(* modules extend it, each with the step that judges its kind of input and *)
(* with the properties that relate the input to what came of it.           *)
(***************************************************************************)

CONSTANT Pending    \* not judged yet

VARIABLES input, result

Judge(kind, verdict) ==
  /\ result = Pending
  /\ input.kind = kind
  /\ result' = verdict
  /\ UNCHANGED input

Judged(kind) == input.kind = kind /\ result # Pending
=============================================================================
