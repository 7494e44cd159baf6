-------------------------- MODULE DaemonSupervisor --------------------------
(***************************************************************************)
(* The desktop's supervision of the daemon it spawned.  A monitor thread   *)
(* polls the daemon process and its connection and replaces both when one  *)
(* has ended or the executable was rebuilt; each window has a listener     *)
(* that follows one client at a time, taking the next from a channel.      *)
(* Clients are numbered in the order in which they connect.  What a client *)
(* promises a listener is DaemonClient's: the channel of a subscriber      *)
(* closes when, or if, the connection has ended.                           *)
(***************************************************************************)
EXTENDS Naturals, Sequences, FiniteSets

CONSTANTS
  Listeners,      \* windows that listen to the dashboard
  RestartsDaemon, \* do reloads and rebuilds of the executable happen?
  MaxClients,     \* bound: daemons that become ready
  MaxFailures     \* bound: spawns that fail

ASSUME SupervisorAssumption == MaxClients \in Nat \ {0} /\ MaxFailures \in Nat

VARIABLES
  processes,   \* daemon processes that are running, by client number
  open,        \* clients whose connection has not ended
  target,      \* [kind, client]: the daemon the supervisor holds
  monitor,     \* "poll", "stop", "spawn", "install", "notify"
  old,         \* the process being replaced, 0 for none
  spawned,     \* the newest client
  failures,
  listener,    \* "subscribe", "recv" or "follow"
  mailbox,     \* mailbox[l]: clients sent to l and not yet taken
  notified,    \* listeners in client_updates
  following,   \* the client l follows or followed last, 0 for none
  connected    \* does the window of l say that it is connected?

daemon   == <<processes, open>>
thread   == <<target, monitor, old, spawned, failures>>
windows  == <<listener, mailbox, notified, following, connected>>
vars     == <<daemon, thread, windows>>

Clients == 1..MaxClients
Kinds   == {"local", "restarting"}

TypeOK ==
  /\ processes \subseteq Clients /\ open \subseteq Clients
  /\ target \in [kind : Kinds, client : Clients]
  /\ monitor \in {"poll", "stop", "spawn", "install", "notify"}
  /\ old \in Clients \union {0} /\ spawned \in Clients /\ failures \in Nat
  /\ listener \in [Listeners -> {"subscribe", "recv", "follow"}]
  /\ mailbox \in [Listeners -> Seq(Clients)]
  /\ notified \subseteq Listeners
  /\ following \in [Listeners -> Clients \union {0}]
  /\ connected \in [Listeners -> BOOLEAN]

\* The desktop opens its windows after the first daemon is up.
Init ==
  /\ processes = {1} /\ open = {1}
  /\ target = [kind |-> "local", client |-> 1]
  /\ monitor = "poll" /\ old = 0 /\ spawned = 1 /\ failures = 0
  /\ listener = [l \in Listeners |-> "subscribe"]
  /\ mailbox = [l \in Listeners |-> <<>>]
  /\ notified = {}
  /\ following = [l \in Listeners |-> 0]
  /\ connected = [l \in Listeners |-> FALSE]

-----------------------------------------------------------------------------
(* The daemon and its connections. *)

\* The last daemon the bound allows does not die: nothing could replace it.
DaemonDies ==
  /\ \E c \in processes : c < MaxClients /\ processes' = processes \ {c}
  /\ UNCHANGED <<open, thread, windows>>

\* The reader thread sees the socket close or break.
ConnectionEnds ==
  /\ \E c \in open : (c \in processes => c < MaxClients) /\ open' = open \ {c}
  /\ UNCHANGED <<processes, thread, windows>>

\* reload has the current client, whichever it is, ask its daemon to shut down:
\* its connection ends, and the process is on its way out.
Reload ==
  /\ RestartsDaemon
  /\ target.client \in open /\ target.client < MaxClients
  /\ open' = open \ {target.client}
  /\ UNCHANGED <<processes, thread, windows>>

-----------------------------------------------------------------------------
(* The monitor thread. *)

\* Mutant: only the process is looked at.
NeedsRestartExited == target.kind = "restarting" \/ target.client \notin processes

NeedsRestart ==
  \/ target.kind = "restarting"
  \/ target.client \notin processes
  \/ target.client \notin open

\* Mutant: the target is empty while its daemon is replaced.
ReplaceEmpties ==
  /\ monitor = "poll"
  /\ NeedsRestart \/ (RestartsDaemon /\ target.client < MaxClients)
  /\ target' = [target EXCEPT !.kind = "empty"]
  /\ old' = target.client
  /\ monitor' = "stop"
  /\ UNCHANGED <<daemon, spawned, failures, windows>>

\* A rebuilt executable is a reason as well.
Replace ==
  /\ monitor = "poll"
  /\ NeedsRestart \/ (RestartsDaemon /\ target.client < MaxClients)
  /\ target' = [target EXCEPT !.kind = "restarting"]
  /\ old' = IF target.kind = "local" THEN target.client ELSE 0
  /\ monitor' = "stop"
  /\ UNCHANGED <<daemon, spawned, failures, windows>>

\* Mutant: the old daemon is left to exit by itself.
StopLater ==
  /\ monitor = "stop"
  /\ open' = open \ {old}
  /\ monitor' = "spawn"
  /\ UNCHANGED <<processes, target, old, spawned, failures, windows>>

\* The old process is asked to shut down, waited for, then killed.
StopOld ==
  /\ monitor = "stop"
  /\ processes' = processes \ {old} /\ open' = open \ {old}
  /\ monitor' = "spawn"
  /\ UNCHANGED <<target, old, spawned, failures, windows>>

\* A process that does not become ready, or cannot be reached, is killed and
\* the monitor backs off.
Spawn ==
  /\ monitor = "spawn"
  /\ \/ /\ spawned < MaxClients
        /\ spawned' = spawned + 1
        /\ processes' = processes \union {spawned'}
        /\ open' = open \union {spawned'}
        /\ monitor' = "install"
        /\ UNCHANGED failures
     \/ /\ failures < MaxFailures
        /\ failures' = failures + 1
        /\ monitor' = "poll"
        /\ UNCHANGED <<daemon, spawned>>
  /\ UNCHANGED <<target, old, windows>>

Install ==
  /\ monitor = "install"
  /\ target' = [kind |-> "local", client |-> spawned]
  /\ monitor' = "notify"
  /\ UNCHANGED <<daemon, old, spawned, failures, windows>>

Notify ==
  /\ monitor = "notify"
  /\ mailbox' = [l \in Listeners |->
                   IF l \in notified THEN Append(mailbox[l], spawned) ELSE mailbox[l]]
  /\ monitor' = "poll"
  /\ UNCHANGED <<daemon, target, old, spawned, failures, listener, notified,
                 following, connected>>

-----------------------------------------------------------------------------
(* The listener of a window. *)

\* Mutant: the listener is not told the client of the moment.
SubscribeForLater(l) ==
  /\ listener[l] = "subscribe"
  /\ notified' = notified \union {l}
  /\ listener' = [listener EXCEPT ![l] = "recv"]
  /\ UNCHANGED <<daemon, thread, mailbox, following, connected>>

\* Under the lock of the target: registered, and sent its client.
SubscribeClients(l) ==
  /\ listener[l] = "subscribe"
  /\ notified' = notified \union {l}
  /\ mailbox' = [mailbox EXCEPT ![l] = Append(@, target.client)]
  /\ listener' = [listener EXCEPT ![l] = "recv"]
  /\ UNCHANGED <<daemon, thread, following, connected>>

TakeClient(l) ==
  /\ listener[l] = "recv" /\ mailbox[l] # <<>>
  /\ following' = [following EXCEPT ![l] = Head(mailbox[l])]
  /\ mailbox' = [mailbox EXCEPT ![l] = Tail(@)]
  /\ connected' = [connected EXCEPT ![l] = TRUE]
  /\ listener' = [listener EXCEPT ![l] = "follow"]
  /\ UNCHANGED <<daemon, thread, notified>>

\* The channel of the dashboard closes.
LoseClient(l) ==
  /\ listener[l] = "follow" /\ following[l] \notin open
  /\ connected' = [connected EXCEPT ![l] = FALSE]
  /\ listener' = [listener EXCEPT ![l] = "recv"]
  /\ UNCHANGED <<daemon, thread, mailbox, notified, following>>

-----------------------------------------------------------------------------
Monitor     == Replace \/ StopOld \/ Spawn \/ Install \/ Notify
Listener(l) == SubscribeClients(l) \/ TakeClient(l) \/ LoseClient(l)

\* Everything works and every window follows: nothing has to happen.
Done ==
  /\ monitor = "poll" /\ ~NeedsRestart
  /\ \A l \in Listeners : listener[l] = "follow" /\ following[l] \in open
  /\ UNCHANGED vars

Next ==
  \/ DaemonDies \/ ConnectionEnds \/ Reload \/ Monitor
  \/ \E l \in Listeners : Listener(l)
  \/ Done

Spec == Init /\ [][Next]_vars

\* A client sees the end of a daemon that has died.
Noticed(c) ==
  /\ c \in open \ processes
  /\ open' = open \ {c}
  /\ UNCHANGED <<processes, thread, windows>>

\* The monitor polls again and again, a client notices that its daemon is gone,
\* and the windows run.
FairSpec ==
  /\ Spec
  /\ WF_vars(NeedsRestart /\ Monitor) /\ WF_vars(monitor # "poll" /\ Monitor)
  /\ \A c \in Clients : WF_vars(Noticed(c))
  /\ \A l \in Listeners : WF_vars(Listener(l))

-----------------------------------------------------------------------------
(* Properties. *)

\* Two daemons would poll the instances and write the one database: the next
\* is spawned only after the last has been reaped.
OneDaemon == Cardinality(processes) <= 1

\* A window that follows an ended connection, or none, has its next client on
\* the way: it is in the mailbox or the monitor has still to send it.
NextClientIsOnItsWay ==
  \A l \in Listeners :
    listener[l] # "subscribe" /\ target.kind = "local" /\ monitor = "poll" =>
      \/ following[l] = target.client
      \/ target.client \in {mailbox[l][i] : i \in DOMAIN mailbox[l]}

\* One daemon at most, the next client on its way to every window that needs
\* it, and every variable of its type (monitor_local, DaemonTarget).
OneDaemonForAll == TypeOK /\ OneDaemon /\ NextClientIsOnItsWay

\* Every window ends up following the daemon that runs, and says so.
Reconnects ==
  <>[](\A l \in Listeners : following[l] = target.client /\ connected[l])

\* "a subscriber sees either the old client followed by the new one, or the new
\* client directly": no client is sent to a window twice.
SentOnce ==
  [][\A l \in Listeners :
       mailbox'[l] # mailbox[l] /\ Len(mailbox'[l]) > Len(mailbox[l]) =>
         mailbox'[l][Len(mailbox'[l])] \notin
            {following[l]} \union {mailbox[l][i] : i \in DOMAIN mailbox[l]}]_vars
=============================================================================
