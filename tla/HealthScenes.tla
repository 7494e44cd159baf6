---------------------------- MODULE HealthScenes ----------------------------
(* Two instances of HealthEvents side by side in one run: a mixed scene, whose *)
(* constants the configuration gives, where the Availability row and one more  *)
(* Signal vote, and a builds scene, given here, where the only Signal reports  *)
(* outages and two builds.                                                     *)
EXTENDS HealthEvents

VARIABLE scene

Row(st, rch, bld) == [state |-> st, reach |-> rch, build |-> bld]

MCSignals == {"availability", "jobs"}
MCObservable ==
  [s \in MCSignals |->
     IF s = "availability"
     THEN {Row("healthy", "reachable", "b1"), Row("down", "unreachable", NoBuild)}
     ELSE {Row("healthy", "reachable", NoBuild), Row("degraded", "reachable", NoBuild)}]

MCAvailabilityOnly == {"availability"}
MCBuildOutages ==
  [s \in MCAvailabilityOnly |->
     {Row("healthy", "reachable", "b1"), Row("healthy", "reachable", "b2"),
      Row("down", "unreachable", NoBuild)}]

EmptyDatabase == {<<>>}

Anywhere == Points \ {"down"}

BuildsScene ==
  INSTANCE HealthEvents WITH Signals <- MCAvailabilityOnly, Observable <- MCBuildOutages,
                             Notes <- {}

ScenesInit ==
  \/ scene = "mixed" /\ Init
  \/ scene = "builds" /\ BuildsScene!Init

ScenesNext ==
  /\ \/ scene = "mixed" /\ Next
     \/ scene = "builds" /\ BuildsScene!Next
  /\ UNCHANGED scene

Scenes == ScenesInit /\ [][ScenesNext]_<<vars, scene>>
=============================================================================
