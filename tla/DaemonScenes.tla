---------------------------- MODULE DaemonScenes ----------------------------
(* The daemon and the desktop's side of it in one run, one scene at a time:    *)
(* two instances of DashboardWire, a wide one, whose queue holds a tick and    *)
(* whose connection is lost and falls behind, and a narrow one, whose queue is *)
(* smaller than a tick of two messages; DaemonClient; and DaemonSupervisor.    *)
(* What a scene is not about stays as it began.                                *)
EXTENDS DashboardWire, DaemonClient, DaemonSupervisor

VARIABLE scene

MCKeys         == {"snapshots", "samples", "rollups"}
MCPublishOrder == <<"snapshots", "samples", "rollups">>
MCReplayOrder  == <<"snapshots", "samples", "rollups">>

\* The samples and roll-ups of a Signal fill one series in the client.
MCSeries == [snapshots |-> "snapshots", samples |-> "signal", rollups |-> "signal"]

\* In pieces: the second version of some messages is one longer than the first.
SmallPieces == [snapshots |-> <<1, 1>>, samples |-> <<2, 2>>, rollups |-> <<1, 2>>]
MCPieces    == [snapshots |-> <<1, 2>>, samples |-> <<2, 2>>, rollups |-> <<1, 2>>]

TwoOrder == <<"snapshots", "samples">>

Narrow ==
  INSTANCE DashboardWire WITH
    CacheKeys <- MCKeys, PublishOrder <- TwoOrder, ReplayOrder <- TwoOrder,
    Series <- MCSeries, Pieces <- MCPieces, Bound <- 2, MaxIncomplete <- 1,
    MaxVersion <- 2, MaxDisconnects <- 0, MaxStalls <- 0

\* What holds, or happens, in the scene the behaviour started in.
Wire(wide, narrow) ==
  \/ scene = "wide" /\ wide
  \/ scene = "narrow" /\ narrow
Client(step) == scene = "client" /\ step
Supervisor(step) == scene = "supervisor" /\ step

\* Both instances of the wire start alike.
ScenesInit ==
  /\ scene \in {"wide", "narrow", "client", "supervisor"}
  /\ WireInit /\ ClientInit /\ Init
  /\ scene # "client" => current = CHOOSE k \in Keys : TRUE

ScenesNext ==
  /\ \/ Wire(WireNext, Narrow!WireNext) /\ UNCHANGED <<clientVars, vars>>
     \/ Client(ClientNext) /\ UNCHANGED <<wireVars, vars>>
     \/ Supervisor(Next) /\ UNCHANGED <<wireVars, clientVars>>
  /\ UNCHANGED scene

\* WireFairSpec, ClientFairSpec or FairSpec, whichever the scene is about.
Scenes ==
  /\ ScenesInit /\ [][ScenesNext]_<<wireVars, clientVars, vars, scene>>
  /\ WF_wireVars(Wire(TickStart, Narrow!TickStart))
  /\ WF_wireVars(Wire(Publish, Narrow!Publish))
  /\ WF_wireVars(Wire(PublisherPush, Narrow!PublisherPush))
  /\ WF_wireVars(Wire(Connect, Narrow!Connect))
  /\ WF_wireVars(Wire(Connection, Narrow!Connection))
  /\ WF_wireVars(Wire(ResyncStart, Narrow!ResyncStart))
  /\ WF_wireVars(Wire(ResyncPush, Narrow!ResyncPush))
  /\ WF_wireVars(Wire(ResyncAck, Narrow!ResyncAck))
  /\ WF_clientVars(Client(Send)) /\ WF_clientVars(Client(Exiting))
  /\ \A s \in Subscribers : WF_clientVars(Client(Subscribe(s)))
  /\ \A r \in Requests : WF_clientVars(Client(Request(r)))
  /\ WF_vars(Supervisor(NeedsRestart /\ Monitor))
  /\ WF_vars(Supervisor(monitor # "poll" /\ Monitor))
  /\ \A c \in Clients : WF_vars(Supervisor(Noticed(c)))
  /\ \A l \in Listeners : WF_vars(Supervisor(Listener(l)))

-----------------------------------------------------------------------------
(* Properties. *)

\* With a queue that holds a tick, the client comes to show what is published
\* and stays there, whatever was dropped before.
WideConverges == scene = "wide" => Converges

\* Every call of the desktop returns (subscribe_dashboard and request).
ClientCallsReturn == scene = "client" => CallsReturn

\* Every window ends up following the daemon that runs (monitor_daemon and
\* listen_dashboard).
WindowsReconnect == scene = "supervisor" => Reconnects
=============================================================================
