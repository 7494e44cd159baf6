---------------------------- MODULE DesktopScenes ----------------------------
(* Four instances of DesktopWindows side by side in one run.  Crowd: the       *)
(* configuration gives its constants, more transitions than are remembered.    *)
(* Alerts: transitions, mutes, a lost connection and a restart.  Desk: a       *)
(* detached window and the sheet.  Weeks: the digest, its switch and restarts. *)
EXTENDS DesktopWindows

VARIABLE scene

Desk == INSTANCE DesktopWindows WITH
  Able <- {"select", "detach", "sheet", "mute"}, MaxEvents <- 1, MaxClicks <- 4, MaxBoots <- 0,
  MaxCuts <- 0, MaxWeeks <- 0, Backlog <- 0

Alerts == INSTANCE DesktopWindows WITH
  Able <- {"mute", "select"}, MaxEvents <- 2, MaxClicks <- 2, MaxBoots <- 1, MaxCuts <- 1,
  MaxWeeks <- 0, Backlog <- 1

Weeks == INSTANCE DesktopWindows WITH
  Able <- {"toggle"}, MaxEvents <- 0, MaxClicks <- 2, MaxBoots <- 1, MaxCuts <- 1, MaxWeeks <- 2,
  Backlog <- 1

\* What holds, or happens, in the scene the behaviour started in.
Either(alerts, desk, crowd, weeks) ==
  \/ scene = "alerts" /\ alerts
  \/ scene = "desk" /\ desk
  \/ scene = "crowd" /\ crowd
  \/ scene = "weeks" /\ weeks

Scenes ==
  /\ scene \in {"alerts", "desk", "crowd", "weeks"} /\ Init
  /\ [][Either(Alerts!Next, Desk!Next, Next, Weeks!Next) /\ UNCHANGED scene]_<<vars, scene>>
  /\ WF_vars(Publish) /\ WF_vars(Answer)
  /\ \A w \in Windows : WF_vars(Receive(w)) /\ WF_vars(Render(w) \/ Tick(w))
=============================================================================
