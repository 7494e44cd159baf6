------------------------ MODULE MCEnvironmentAdmin -------------------------
(* Model values for the run of EnvironmentAdmin: no list, a list of one       *)
(* Environment or of two.                                                     *)
EXTENDS EnvironmentAdmin, TLC

CONSTANTS i1, i2, u1, b1, t1, t2

MCInitialLists == {Missing, i1 :> u1 @@ i2 :> None, i1 :> u1 @@ i2 :> u1}
=============================================================================
