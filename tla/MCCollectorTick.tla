--------------------------- MODULE MCCollectorTick ---------------------------
(* Two Environments, one gated Signal each, and one fault.                   *)
EXTENDS CollectorTick

CONSTANTS dev, prod

MCEnvironments == <<dev, prod>>
MCSources == {prod, NoSource}
MCGroupSignals == <<"jobs">>
=============================================================================
