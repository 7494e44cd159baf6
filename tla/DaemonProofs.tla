---------------------------- MODULE DaemonProofs -----------------------------
(* Theorems about DaemonSupervisor, DaemonClient and DashboardWire: for any    *)
(* windows, daemons and failed spawns, two daemons never run, and a window     *)
(* always has its next client coming; for any keys, subscribers, requests and  *)
(* messages of one client, nobody is left registered, no message slips past a  *)
(* subscriber, and no call leaves an entry behind; and for any keys, message   *)
(* sizes, queue and limits, one connection shows what found room on its queue, *)
(* whole, and implements the feed.                                             *)
EXTENDS DaemonSupervisor, DaemonClient, DashboardWire, FiniteSetTheorems, WellFoundedInduction,
        TLAPS

-----------------------------------------------------------------------------
(* DaemonSupervisor. *)

\* While the monitor replaces a daemon the target names none.
Targets ==
  /\ monitor \in {"stop", "spawn", "install"} => target.kind = "restarting"
  /\ monitor = "notify" => target.kind = "local" /\ target.client = spawned
  /\ target.client <= spawned

\* The one process there may be, at each step of the monitor.
Processes ==
  /\ monitor = "stop" => processes \subseteq {old}
  /\ monitor = "spawn" => processes = {}
  /\ monitor = "install" => processes \subseteq {spawned}
  /\ monitor \in {"poll", "notify"} =>
       processes \subseteq {c \in {target.client} : target.kind = "local"}

\* A window that has subscribed is on the list, for its clients come in order.
Mails ==
  \A l \in Listeners :
    /\ listener[l] # "subscribe" => l \in notified
    /\ following[l] <= target.client
    /\ \A i \in DOMAIN mailbox[l] :
         /\ following[l] <= mailbox[l][i] /\ mailbox[l][i] <= target.client
         /\ \A j \in DOMAIN mailbox[l] : i <= j => mailbox[l][i] <= mailbox[l][j]

IInv == TypeOK /\ Targets /\ Processes /\ Mails /\ NextClientIsOnItsWay

LEMMA AppendRule ==
  ASSUME NEW S, NEW q \in Seq(S), NEW x \in S
  PROVE  /\ Append(q, x) \in Seq(S)
         /\ DOMAIN Append(q, x) = DOMAIN q \union {Len(q) + 1}
         /\ Len(q) + 1 \notin DOMAIN q
         /\ \A i \in DOMAIN q : Append(q, x)[i] = q[i] /\ i < Len(q) + 1
         /\ Append(q, x)[Len(q) + 1] = x
OBVIOUS

LEMMA TailRule ==
  ASSUME NEW S, NEW q \in Seq(S), q # <<>>
  PROVE  /\ Head(q) \in S /\ Head(q) = q[1] /\ 1 \in DOMAIN q
         /\ Tail(q) \in Seq(S)
         /\ \A i \in DOMAIN Tail(q) : i + 1 \in DOMAIN q /\ Tail(q)[i] = q[i + 1]
         /\ \A i \in DOMAIN q : i # 1 => i - 1 \in DOMAIN Tail(q) /\ Tail(q)[i - 1] = q[i]
OBVIOUS

LEMMA InitIInv == Init => IInv
<1> SUFFICES ASSUME Init PROVE IInv
  OBVIOUS
<1> USE SupervisorAssumption DEF Init
<1>1. TypeOK
  BY DEF TypeOK, Clients, Kinds
<1>2. Targets /\ Processes /\ Mails /\ NextClientIsOnItsWay
  BY DEF Targets, Processes, Mails, NextClientIsOnItsWay
<1> QED BY <1>1, <1>2 DEF IInv

\* Daemons and connections only end by themselves.
LEMMA DaemonStep == IInv /\ (DaemonDies \/ ConnectionEnds \/ Reload) => IInv'
<1> SUFFICES ASSUME IInv, DaemonDies \/ ConnectionEnds \/ Reload PROVE IInv'
  OBVIOUS
<1>1. /\ processes' \subseteq processes /\ open' \subseteq open
      /\ UNCHANGED <<thread, windows>>
  BY DEF DaemonDies, ConnectionEnds, Reload
<1>2. TypeOK'
  BY <1>1 DEF IInv, TypeOK, thread, windows
<1>3. Targets' /\ Processes'
  BY <1>1 DEF IInv, Targets, Processes, thread
<1>4. Mails' /\ NextClientIsOnItsWay'
  BY <1>1 DEF IInv, Mails, NextClientIsOnItsWay, thread, windows
<1> QED BY <1>2, <1>3, <1>4 DEF IInv

LEMMA MonitorStep == IInv /\ Monitor => IInv'
<1> SUFFICES ASSUME IInv, Monitor PROVE IInv'
  OBVIOUS
<1> USE SupervisorAssumption DEF IInv, Clients
<1>1. CASE Replace
  BY <1>1 DEF Replace, TypeOK, Targets, Processes, Mails, NextClientIsOnItsWay, Kinds, daemon, windows
<1>2. CASE StopOld
  BY <1>2 DEF StopOld, TypeOK, Targets, Processes, Mails, NextClientIsOnItsWay, windows
<1>3. CASE Spawn
  <2>1. Mails' /\ NextClientIsOnItsWay'
    BY <1>3 DEF Spawn, Targets, Mails, NextClientIsOnItsWay, windows
  <2>2. CASE spawned < MaxClients /\ spawned' = spawned + 1 /\ monitor' = "install"
             /\ processes' = processes \union {spawned'} /\ open' = open \union {spawned'}
             /\ UNCHANGED failures
    <3>1. /\ spawned' = spawned + 1 /\ spawned + 1 \in Clients
          /\ processes' = processes \union {spawned + 1} /\ open' = open \union {spawned + 1}
          /\ UNCHANGED <<target, old, failures, windows>>
      BY <1>3, <2>2 DEF Spawn, TypeOK
    <3>2. TypeOK'
      BY <2>2, <3>1 DEF TypeOK, windows
    <3>3. Targets' /\ Processes'
      BY <1>3, <2>2, <3>1 DEF Spawn, TypeOK, Targets, Processes
    <3> QED BY <2>1, <3>2, <3>3
  <2>3. CASE failures' = failures + 1 /\ monitor' = "poll" /\ UNCHANGED <<daemon, spawned>>
    <3>1. TypeOK'
      BY <1>3, <2>3 DEF Spawn, TypeOK, daemon, windows
    <3>2. Targets' /\ Processes'
      BY <1>3, <2>3 DEF Spawn, TypeOK, Targets, Processes, daemon
    <3> QED BY <2>1, <3>1, <3>2
  <2> QED BY <1>3, <2>2, <2>3 DEF Spawn
<1>4. CASE Install
  <2>1. target' = [kind |-> "local", client |-> spawned] /\ monitor' = "notify"
    BY <1>4 DEF Install
  <2>2. TypeOK'
    BY <1>4 DEF Install, TypeOK, Kinds, daemon, windows
  <2>3. Targets' /\ Processes'
    BY <1>4 DEF Install, TypeOK, Targets, Processes, daemon
  <2>4. \A c \in Nat : c <= target.client => c <= spawned
    BY DEF TypeOK, Targets
  <2>5. \A l \in Listeners :
          /\ following[l] \in Nat
          /\ \A i \in DOMAIN mailbox[l] : mailbox[l][i] \in Nat
    BY DEF TypeOK
  <2>6. Mails'
    BY <1>4, <2>1, <2>4, <2>5 DEF Install, Mails, windows
  <2>7. NextClientIsOnItsWay'
    BY <2>1 DEF NextClientIsOnItsWay
  <2> QED BY <2>2, <2>3, <2>6, <2>7
<1>5. CASE Notify
  <2> DEFINE Mail(l) == Append(mailbox[l], spawned)
  <2>1. \A l \in Listeners : mailbox[l] \in Seq(Clients) /\ spawned \in Clients
    BY DEF TypeOK
  <2>2. \A l \in Listeners :
          /\ Mail(l) \in Seq(Clients)
          /\ DOMAIN Mail(l) = DOMAIN mailbox[l] \union {Len(mailbox[l]) + 1}
          /\ \A i \in DOMAIN mailbox[l] : Mail(l)[i] = mailbox[l][i] /\ i < Len(mailbox[l]) + 1
          /\ Mail(l)[Len(mailbox[l]) + 1] = spawned
    BY <2>1, AppendRule
  <2>3. \A l \in Listeners : mailbox'[l] = IF l \in notified THEN Mail(l) ELSE mailbox[l]
    BY <1>5 DEF Notify
  <2>4. TypeOK'
    BY <1>5, <2>2 DEF Notify, TypeOK, daemon
  <2>5. Targets' /\ Processes'
    BY <1>5 DEF Notify, TypeOK, Targets, Processes, daemon
  <2>6. Mails'
    BY <1>5, <2>1, <2>2, <2>3 DEF Notify, TypeOK, Targets, Mails
  <2>7. NextClientIsOnItsWay'
    BY <1>5, <2>2, <2>3 DEF Notify, Targets, Mails, NextClientIsOnItsWay
  <2> QED BY <2>4, <2>5, <2>6, <2>7
<1> QED BY <1>1, <1>2, <1>3, <1>4, <1>5 DEF Monitor

LEMMA ListenerStep == ASSUME NEW l \in Listeners, IInv, Listener(l) PROVE IInv'
<1> USE DEF IInv
<1>0. mailbox[l] \in Seq(Clients) /\ target.client \in Clients
  BY DEF TypeOK
<1>1. CASE SubscribeClients(l)
  <2> DEFINE Mail == Append(mailbox[l], target.client)
  <2>1. /\ Mail \in Seq(Clients)
        /\ DOMAIN Mail = DOMAIN mailbox[l] \union {Len(mailbox[l]) + 1}
        /\ \A i \in DOMAIN mailbox[l] : Mail[i] = mailbox[l][i] /\ i < Len(mailbox[l]) + 1
        /\ Mail[Len(mailbox[l]) + 1] = target.client
    BY <1>0, AppendRule
  <2>2. \A m \in Listeners : mailbox'[m] = IF m = l THEN Mail ELSE mailbox[m]
    BY <1>1 DEF SubscribeClients, TypeOK
  <2>3. TypeOK'
    BY <1>1, <2>1 DEF SubscribeClients, TypeOK, daemon, thread
  <2>4. Targets' /\ Processes'
    BY <1>1 DEF SubscribeClients, Targets, Processes, daemon, thread
  <2>5. Mails'
    BY <1>1, <1>0, <2>1, <2>2 DEF SubscribeClients, TypeOK, Mails, thread, Clients
  <2>6. NextClientIsOnItsWay'
    BY <1>1, <2>1, <2>2 DEF SubscribeClients, NextClientIsOnItsWay, TypeOK, thread
  <2> QED BY <2>3, <2>4, <2>5, <2>6
<1>2. CASE TakeClient(l)
  <2> DEFINE Rest == Tail(mailbox[l])
  <2>1. /\ Head(mailbox[l]) \in Clients /\ Head(mailbox[l]) = mailbox[l][1] /\ 1 \in DOMAIN mailbox[l]
        /\ Rest \in Seq(Clients)
        /\ \A i \in DOMAIN Rest : i + 1 \in DOMAIN mailbox[l] /\ Rest[i] = mailbox[l][i + 1]
        /\ \A i \in DOMAIN mailbox[l] : i # 1 => i - 1 \in DOMAIN Rest /\ Rest[i - 1] = mailbox[l][i]
    BY <1>0, <1>2, TailRule DEF TakeClient
  <2>2. \A m \in Listeners :
          /\ mailbox'[m] = IF m = l THEN Rest ELSE mailbox[m]
          /\ following'[m] = IF m = l THEN mailbox[l][1] ELSE following[m]
          /\ listener'[m] = IF m = l THEN "follow" ELSE listener[m]
    BY <1>2, <2>1 DEF TakeClient, TypeOK
  <2>3. TypeOK'
    BY <1>2, <2>1 DEF TakeClient, TypeOK, daemon, thread
  <2>4. Targets' /\ Processes'
    BY <1>2 DEF TakeClient, Targets, Processes, daemon, thread
  <2>5. Mails'
    <3>1. \A i \in DOMAIN Rest : i \in Nat /\ i >= 1
      BY <2>1
    <3> QED BY <1>2, <2>1, <2>2, <3>1 DEF TakeClient, Mails, thread
  <2>6. NextClientIsOnItsWay'
    <3> SUFFICES ASSUME NEW m \in Listeners, listener'[m] # "subscribe",
                        target.kind = "local", monitor = "poll"
                 PROVE  \/ following'[m] = target.client
                        \/ target.client \in {mailbox'[m][i] : i \in DOMAIN mailbox'[m]}
      BY <1>2 DEF TakeClient, NextClientIsOnItsWay, thread
    <3>1. CASE m # l
      BY <3>1, <2>2 DEF NextClientIsOnItsWay
    <3>2. CASE m = l
      <4>1. CASE following[l] = target.client
        BY <3>2, <4>1, <1>0, <2>1, <2>2 DEF Mails, Clients
      <4>2. CASE \E i \in DOMAIN mailbox[l] : mailbox[l][i] = target.client
        <5> PICK i \in DOMAIN mailbox[l] : mailbox[l][i] = target.client
          BY <4>2
        <5>1. CASE i = 1
          BY <3>2, <5>1, <2>2
        <5>2. CASE i # 1
          <6>1. i - 1 \in DOMAIN Rest /\ Rest[i - 1] = target.client
            BY <5>2, <2>1
          <6>2. mailbox'[m] = Rest
            BY <3>2, <2>2
          <6> QED BY <6>1, <6>2
        <5> QED BY <5>1, <5>2
      <4> QED BY <4>1, <4>2, <3>2, <1>2 DEF TakeClient, NextClientIsOnItsWay
    <3> QED BY <3>1, <3>2
  <2> QED BY <2>3, <2>4, <2>5, <2>6
<1>3. CASE LoseClient(l)
  BY <1>3 DEF LoseClient, TypeOK, Targets, Processes, Mails, NextClientIsOnItsWay, daemon, thread
<1> QED BY <1>1, <1>2, <1>3 DEF Listener

LEMMA Invariance == Spec => []IInv
<1>1. IInv /\ UNCHANGED vars => IInv'
  BY DEF IInv, TypeOK, Targets, Processes, Mails, NextClientIsOnItsWay, vars, daemon, thread, windows
<1>2. IInv /\ [Next]_vars => IInv'
  BY <1>1, DaemonStep, MonitorStep, ListenerStep DEF Next, Done
<1> QED BY InitIInv, <1>2, PTL DEF Spec

\* At each step of the monitor there is one process at most.
LEMMA AtMostOne == IInv => OneDaemon
<1> SUFFICES ASSUME IInv PROVE Cardinality(processes) <= 1
  BY DEF OneDaemon
<1>1. PICK c : processes \subseteq {c}
  BY DEF IInv, TypeOK, Processes
<1>2. processes = {} \/ processes = {c}
  BY <1>1
<1>3. Cardinality({}) = 0 /\ Cardinality({c}) = 1
  BY FS_EmptySet, FS_Singleton
<1> QED BY <1>2, <1>3

\* Two daemons never run; a window that has subscribed follows the client of
\* the moment or finds it in its mailbox; and every variable has its type.
THEOREM OneForAll == Spec => []OneDaemonForAll
<1>1. IInv => OneDaemonForAll
  BY AtMostOne DEF IInv, OneDaemonForAll
<1> QED BY Invariance, <1>1, PTL

-----------------------------------------------------------------------------
(* DaemonClient. *)

HoldsCache == {"list", "replay", "register"}
HoldsList  == {"replay", "register"}

\* Each lock is held by the subscriber between its taking and its release.
Locks ==
  \A s \in Subscribers :
    /\ cacheLock = s <=> subscriber[s] \in HoldsCache
    /\ listLock = s <=> subscriber[s] \in HoldsList

\* A subscriber about to be registered has been sent the cache, and one that
\* is registered all of it but the message that is being forwarded.
Sent ==
  /\ \A s \in Subscribers : subscriber[s] = "register" => view[s] = cache
  /\ \A s \in registered :
       /\ reader = "read" => view[s] = cache
       /\ reader = "send" => \A k \in Keys \ {current} : view[s][k] = cache[k]

\* The flag goes up before the list is cleared.
Flagged == reader \notin {"read", "send"} => disconnected

\* An entry in the map belongs to a call that waits for its answer.
Waiting ==
  \A r \in Requests :
    /\ r \in pending => caller[r] \in {"send", "wait"} /\ answer[r] = "none"
    /\ caller[r] \in {"idle", "insert"} => answer[r] = "none"

ClientInv ==
  /\ ClientTypeOK /\ Locks /\ Sent /\ Flagged /\ NobodyLeftBehind /\ Waiting

LEMMA InitClientInv == ClientInit => ClientInv
<1> SUFFICES ASSUME ClientInit PROVE ClientInv
  OBVIOUS
<1> USE ClientAssumption DEF ClientInit
<1>1. ClientTypeOK
  BY DEF ClientTypeOK, Nothing
<1>2. Locks
  BY DEF Locks, HoldsCache, HoldsList
<1>3. Sent /\ Flagged /\ NobodyLeftBehind /\ Waiting
  BY DEF Sent, Flagged, NobodyLeftBehind, Waiting
<1> QED BY <1>1, <1>2, <1>3 DEF ClientInv

\* The reader writes no call but those in the map, and no view without the lock.
LEMMA ReaderStep == ClientInv /\ Reader => ClientInv'
<1> SUFFICES ASSUME ClientInv, Reader PROVE ClientInv'
  OBVIOUS
<1> USE ClientAssumption DEF ClientInv
<1>1. CASE Receive
  BY <1>1 DEF Receive, ClientTypeOK, Locks, Sent, Flagged, NobodyLeftBehind, Waiting, calls, HoldsCache, HoldsList
<1>2. CASE Send
  BY <1>2 DEF Send, ClientTypeOK, Locks, Sent, Flagged, NobodyLeftBehind, Waiting, calls, HoldsCache, HoldsList
<1>3. CASE Write
  BY <1>3 DEF Write, ClientTypeOK, Locks, Sent, Flagged, NobodyLeftBehind, Waiting, dashboard, HoldsCache, HoldsList
<1>4. CASE Respond
  BY <1>4 DEF Respond, ClientTypeOK, Locks, Sent, Flagged, NobodyLeftBehind, Waiting, dashboard, HoldsCache, HoldsList
<1>5. CASE End
  BY <1>5 DEF End, ClientTypeOK, Locks, Sent, Flagged, NobodyLeftBehind, Waiting, dashboard, calls, HoldsCache, HoldsList
<1>6. CASE FailPending
  BY <1>6 DEF FailPending, ClientTypeOK, Locks, Sent, Flagged, NobodyLeftBehind, Waiting, dashboard, HoldsCache, HoldsList
<1>7. CASE ClearSubscribers
  BY <1>7 DEF ClearSubscribers, ClientTypeOK, Locks, Sent, Flagged, NobodyLeftBehind, Waiting, calls, HoldsCache, HoldsList
<1>8. CASE ForgetCache
  BY <1>8 DEF ForgetCache, ClientTypeOK, Locks, Sent, Flagged, NobodyLeftBehind, Waiting, Nothing, HoldsCache, HoldsList
<1> QED BY <1>1, <1>2, <1>3, <1>4, <1>5, <1>6, <1>7, <1>8 DEF Reader, Exiting

LEMMA SubscriberStep == ASSUME NEW s \in Subscribers, ClientInv, Subscribe(s) PROVE ClientInv'
<1> USE ClientAssumption DEF ClientInv
<1>1. CASE LockCache(s)
  BY <1>1 DEF LockCache, ClientTypeOK, Locks, Sent, Flagged, NobodyLeftBehind, Waiting, calls, HoldsCache, HoldsList
<1>2. CASE LockList(s)
  BY <1>2 DEF LockList, ClientTypeOK, Locks, Sent, Flagged, NobodyLeftBehind, Waiting, calls, HoldsCache, HoldsList
<1>3. CASE ReplayCache(s)
  BY <1>3 DEF ReplayCache, ClientTypeOK, Locks, Sent, Flagged, NobodyLeftBehind, Waiting, calls, HoldsCache, HoldsList
<1>4. CASE Register(s)
  BY <1>4 DEF Register, ClientTypeOK, Locks, Sent, Flagged, NobodyLeftBehind, Waiting, calls, HoldsCache, HoldsList
<1> QED BY <1>1, <1>2, <1>3, <1>4 DEF Subscribe

LEMMA RequestStep == ASSUME NEW r \in Requests, ClientInv, Request(r) PROVE ClientInv'
<1> USE DEF ClientInv
<1>1. CASE Check(r)
  BY <1>1 DEF Check, ClientTypeOK, Locks, Sent, Flagged, NobodyLeftBehind, Waiting, dashboard
<1>2. CASE InsertPending(r)
  BY <1>2 DEF InsertPending, ClientTypeOK, Locks, Sent, Flagged, NobodyLeftBehind, Waiting, dashboard
<1>3. CASE SendRequest(r)
  BY <1>3 DEF SendRequest, ClientTypeOK, Locks, Sent, Flagged, NobodyLeftBehind, Waiting, dashboard
<1>4. CASE Answered(r)
  BY <1>4 DEF Answered, ClientTypeOK, Locks, Sent, Flagged, NobodyLeftBehind, Waiting, dashboard
<1>5. CASE TimeOut(r)
  BY <1>5 DEF TimeOut, ClientTypeOK, Locks, Sent, Flagged, NobodyLeftBehind, Waiting, dashboard
<1> QED BY <1>1, <1>2, <1>3, <1>4, <1>5 DEF Request

LEMMA ClientInvariance == ClientSpec => []ClientInv
<1>1. ClientInv /\ UNCHANGED clientVars => ClientInv'
  BY DEF ClientInv, ClientTypeOK, Locks, Sent, Flagged, NobodyLeftBehind, Waiting, clientVars, dashboard, calls
<1>2. ClientInv /\ [ClientNext]_clientVars => ClientInv'
  BY <1>1, ReaderStep, SubscriberStep, RequestStep DEF ClientNext, ClientDone
<1> QED BY InitClientInv, <1>2, PTL DEF ClientSpec

\* Once the connection is gone nobody is left registered, a call that returned
\* left nothing in the map, and every variable has its type.
THEOREM Swept == ClientSpec => []RegistriesAreSwept
<1>1. ClientInv => RegistriesAreSwept
  BY DEF ClientInv, RegistriesAreSwept, NoPendingLeak, Waiting, Ended
<1> QED BY ClientInvariance, <1>1, PTL

\* Between two messages a registered subscriber has been sent the newest
\* message of every key.
THEOREM NoneMissed == ClientSpec => []NothingSlipsPast
<1>1. ClientInv => NothingSlipsPast
  BY DEF ClientInv, NothingSlipsPast, Sent, ClientTypeOK
<1> QED BY ClientInvariance, <1>1, PTL
-----------------------------------------------------------------------------
(* DashboardWire. *)

WirePieces ==
  {p \in [key : CacheKeys, version : Versions, id : Nat, index : Nat, count : Nat] :
     /\ p.count = Pieces[p.key][p.version] /\ p.index \in 1 .. p.count
     /\ p.id > 0 <=> p.count > 1}
Items     == WirePieces \union {Notice, Ack}
Transfers == [key : CacheKeys, id : Nat, count : Nat, parts : SUBSET (Nat \X Versions)]

Carried(x) == x.key \in CacheKeys  \* a piece, and not a notice or an answer

WireTypes ==
  /\ newest \in [CacheKeys -> 0..MaxVersion]
  /\ have \in [CacheKeys -> 0..MaxVersion] /\ owed \in [CacheKeys -> 0..MaxVersion]
  /\ holder \in Threads \union {"none"}
  /\ sending \in [Threads -> Seq(WirePieces)]
  /\ ticking \in Seq(CacheKeys)
  /\ queue \in Seq(Items) /\ Len(queue) <= Bound
  /\ assembling \in Seq(Transfers) /\ Len(assembling) <= MaxIncomplete
  /\ subscribed \in BOOLEAN /\ noticeDue \in BOOLEAN
  /\ asked \in BOOLEAN /\ request \in BOOLEAN
  /\ loop \in {"drain", "notice", "read"}
  /\ resync \in {"none", "waiting", "replaying", "ack"}

\* Who sends holds the lock, and a connection asks for one resync.
Locked ==
  /\ sending["publisher"] # <<>> => holder = "publisher"
  /\ sending["resync"] # <<>> <=> resync = "replaying"
  /\ resync = "replaying" => holder = "resync"
  /\ resync # "none" => asked
  /\ request => asked /\ resync = "none"
  /\ ~subscribed =>
       /\ resync = "none" /\ queue = <<>> /\ assembling = <<>>
       /\ have = NoVersions /\ owed = NoVersions

\* The rest speaks of a queue q, of what each thread sends, snd, of the client's
\* transfers, asm, and of the versions that are newest, shown and owed.
Bounded(q, snd, new, shown) ==
  /\ \A k \in CacheKeys : shown[k] <= new[k]
  /\ \A j \in DOMAIN q : Carried(q[j]) =>
       shown[q[j].key] <= q[j].version /\ q[j].version <= new[q[j].key]
  /\ \A t \in Threads : \A j \in DOMAIN snd[t] : snd[t][j].version = new[snd[t][j].key]

\* The versions of a key come in order.
Ordered(q) ==
  \A i, j \in DOMAIN q :
    i <= j /\ Carried(q[i]) /\ Carried(q[j]) /\ q[i].key = q[j].key
    => q[i].version <= q[j].version

\* The pieces on their way.
Live(q, snd) ==
  {p \in ToSet(q) \union ToSet(snd["publisher"]) \union ToSet(snd["resync"]) : Carried(p)}

\* The pieces of a transfer are of one version, and nothing else is assembled.
OfVersion(a, v, live) ==
  /\ a.id > 0 /\ a.count = Pieces[a.key][v] /\ a.parts \subseteq (1 .. a.count) \X {v}
  /\ \A p \in live : SameTransfer(a, p) => p.version = v

Coherent(asm, live) ==
  /\ \A p, r \in live : p.id > 0 /\ SameTransfer(p, r) => p.version = r.version
  /\ \A j \in DOMAIN asm : \E v \in Versions : OfVersion(asm[j], v, live)

\* A transfer starts once.
Starts(p) == Carried(p) /\ p.id > 0 /\ p.index = 1
StartOnce(s) ==
  \A i, j \in DOMAIN s : i # j /\ Starts(s[i]) /\ Starts(s[j]) => ~SameTransfer(s[i], s[j])

Fresh(q, snd, asm) ==
  /\ StartOnce(q) /\ \A t \in Threads : StartOnce(snd[t])
  /\ \A t \in Threads : \A i \in DOMAIN q, j \in DOMAIN snd[t] :
       Starts(q[i]) /\ Starts(snd[t][j]) => ~SameTransfer(q[i], snd[t][j])
  /\ \A p \in Live(q, snd), j \in DOMAIN asm : Starts(p) => ~SameTransfer(asm[j], p)

\* What is sent are messages with all the pieces that are left of them.
Runs(s) ==
  /\ \A i \in DOMAIN s : \A d \in 0 .. s[i].count - s[i].index :
       i + d \in DOMAIN s /\ s[i + d] = [s[i] EXCEPT !.index = @ + d]
  /\ \A i \in DOMAIN s : i > 1 /\ s[i].index > 1 => s[i - 1] = [s[i] EXCEPT !.index = @ - 1]

\* The client has the pieces before p, in its youngest transfer.
Assembled(p, asm) ==
  /\ asm # <<>>
  /\ LET a == asm[Len(asm)]
     IN  SameTransfer(a, p) /\ a.parts = (1 .. p.index - 1) \X {p.version}
  /\ \A j \in DOMAIN asm : SameTransfer(asm[j], p) => j = Len(asm)

\* With n items of q ahead of it, p comes right after the piece before it, or
\* the client has it and those before.
After(p, q, n) ==
  \E l \in 1..n : q[l] = [p EXCEPT !.index = @ - 1] /\ \A m \in l + 1 .. n : ~Carried(q[m])
Follows(p, q, n, asm) ==
  p.index > 1 => \/ After(p, q, n)
                 \/ (\A m \in 1..n : ~Carried(q[m])) /\ Assembled(p, asm)

Contiguous(q, asm) == \A j \in DOMAIN q : Carried(q[j]) => Follows(q[j], q, j - 1, asm)
Continued(q, asm, snd, sub) ==
  \A t \in Threads : /\ Runs(snd[t])
                     /\ sub /\ snd[t] # <<>> => Follows(snd[t][1], q, Len(q), asm)

\* The last whole message of a key in the queue is the one owed, if there is any.
Ends(x, k) == x.key = k /\ IsLast(x)
Settled(q, due, shown) ==
  \A k \in CacheKeys :
    \/ (\A j \in DOMAIN q : ~Ends(q[j], k)) /\ due[k] = shown[k]
    \/ \E j \in DOMAIN q : /\ Ends(q[j], k) /\ due[k] = q[j].version
                           /\ \A l \in j + 1 .. Len(q) : ~Ends(q[l], k)

OnTheWay == Live(queue, sending)
Stream ==
  /\ Bounded(queue, sending, newest, have) /\ Ordered(queue)
  /\ Coherent(assembling, OnTheWay) /\ Fresh(queue, sending, assembling)
  /\ Contiguous(queue, assembling) /\ Continued(queue, assembling, sending, subscribed)
  /\ Settled(queue, owed, have)

WireInv == WireTypes /\ Locked /\ Stream

\* Induction over the natural numbers, in the form of a set.
LEMMA NatInd ==
  ASSUME NEW T, 0 \in T, \A n \in Nat : n \in T => n + 1 \in T
  PROVE  Nat \subseteq T
<1> DEFINE R == {ss \in Nat \X Nat : ss[1] < ss[2]}
<1>1. IsWellFoundedOn(R, Nat)
  BY NatLessThanWellFounded DEF OpToRel
<1>2. \A x, y \in Nat : x < y => <<x, y>> \in R
  OBVIOUS
<1> HIDE DEF R
<1> SUFFICES ASSUME Nat \ T # {} PROVE FALSE
  OBVIOUS
<1>3. PICK x \in Nat \ T : \A y \in Nat \ T : <<y, x>> \notin R
  BY <1>1, WFMin, Zenon
<1>4. x # 0 /\ x - 1 \in Nat /\ x - 1 < x
  OBVIOUS
<1>5. x - 1 \in T
  BY <1>2, <1>3, <1>4
<1>6. (x - 1) + 1 = x
  OBVIOUS
<1> QED BY <1>4, <1>5, <1>6

\* What flattening builds up step by step has what every step keeps.
LEMMA FlattenBy ==
  ASSUME NEW S, NEW ss \in Seq(Seq(S)), NEW G, <<0, <<>>>> \in G,
         \A j \in 1 .. Len(ss) : \A s \in Seq(S) : <<j - 1, s>> \in G => <<j, s \o ss[j]>> \in G
  PROVE  FlattenSeq(ss) \in Seq(S) /\ <<Len(ss), FlattenSeq(ss)>> \in G
<1>1. CASE Len(ss) = 0
  <2>1. ss = <<>> /\ FlattenSeq(ss) = <<>>
    BY <1>1 DEF FlattenSeq
  <2>2. <<Len(ss), FlattenSeq(ss)>> = <<0, <<>>>>
    BY <1>1, <2>1
  <2>3. <<>> \in Seq(S)
    OBVIOUS
  <2> QED BY <2>1, <2>2, <2>3
<1>2. CASE Len(ss) # 0
  <2> DEFINE n == Len(ss)
             Built(g, m) == g = [i \in 1..m |-> IF i = 1 THEN ss[i] ELSE g[i - 1] \o ss[i]]
             f == CHOOSE g : Built(g, n)
             T == {m \in Nat : \E g : Built(g, m)}
  <2>0. n \in Nat \ {0}
    BY <1>2
  <2>1. FlattenSeq(ss) = f[n]
    BY <1>2 DEF FlattenSeq
  <2>2. Nat \subseteq T
    <3>1. 0 \in T
      <4>1. Built([i \in 1..0 |-> ss[i]], 0)
        OBVIOUS
      <4> QED BY <4>1
    <3>2. ASSUME NEW m \in Nat, m \in T PROVE m + 1 \in T
      <4>1. PICK g : Built(g, m)
        BY <3>2
      <4> DEFINE h == [i \in 1 .. m + 1 |->
                         IF i <= m THEN g[i] ELSE IF i = 1 THEN ss[i] ELSE g[i - 1] \o ss[i]]
      <4>2. ASSUME NEW i \in 1 .. m + 1
            PROVE  h[i] = IF i = 1 THEN ss[i] ELSE h[i - 1] \o ss[i]
        <5>1. i # 1 => h[i - 1] = g[i - 1]
          OBVIOUS
        <5>2. i <= m => g[i] = IF i = 1 THEN ss[i] ELSE g[i - 1] \o ss[i]
          <6>1. g = [j \in 1..m |-> IF j = 1 THEN ss[j] ELSE g[j - 1] \o ss[j]]
            BY <4>1
          <6>2. \A j \in 1..m : g[j] = IF j = 1 THEN ss[j] ELSE g[j - 1] \o ss[j]
            BY <6>1, Zenon
          <6>3. i <= m => i \in 1..m
            OBVIOUS
          <6> QED BY <6>2, <6>3, Zenon
        <5> QED BY <5>1, <5>2
      <4>3. Built(h, m + 1)
        BY <4>2
      <4> HIDE DEF h, Built
      <4> QED BY <4>3
    <3> HIDE DEF T
    <3> QED BY <3>1, <3>2, NatInd
  <2>3. Built(f, n)
    <3>1. n \in T
      BY <2>0, <2>2
    <3> QED BY <3>1, Zenon
  <2>4. \A i \in 1..n : f[i] = IF i = 1 THEN ss[i] ELSE f[i - 1] \o ss[i]
    BY <2>3, Zenon
  <2> HIDE DEF f
  <2> DEFINE U == {m \in Nat : m + 1 <= n => f[m + 1] \in Seq(S) /\ <<m + 1, f[m + 1]>> \in G}
  <2>5. Nat \subseteq U
    <3>1. 0 \in U
      <4>1. ss[1] \in Seq(S) /\ <<>> \o ss[1] = ss[1] /\ f[1] = ss[1]
        BY <2>0, <2>4
      <4>2. <<1, <<>> \o ss[1]>> \in G
        <5>1. 1 \in 1 .. Len(ss) /\ 1 - 1 = 0 /\ <<>> \in Seq(S)
          BY <2>0
        <5> QED BY <5>1
      <4>3. 0 + 1 = 1
        OBVIOUS
      <4> QED BY <4>1, <4>2, <4>3
    <3>2. ASSUME NEW m \in Nat, m \in U PROVE m + 1 \in U
      <4> SUFFICES ASSUME m + 2 <= n
                   PROVE  f[m + 2] \in Seq(S) /\ <<m + 2, f[m + 2]>> \in G
        OBVIOUS
      <4>1. f[m + 1] \in Seq(S) /\ <<m + 1, f[m + 1]>> \in G /\ ss[m + 2] \in Seq(S)
        BY <3>2
      <4>2. f[m + 2] = f[m + 1] \o ss[m + 2]
        <5>1. m + 2 \in 1..n /\ m + 2 # 1 /\ (m + 2) - 1 = m + 1
          BY <2>0
        <5> QED BY <2>4, <5>1
      <4>3. <<m + 2, f[m + 1] \o ss[m + 2]>> \in G
        <5>1. m + 2 \in 1 .. Len(ss) /\ (m + 2) - 1 = m + 1
          BY <2>0
        <5> QED BY <4>1, <5>1
      <4> QED BY <4>1, <4>2, <4>3
    <3> HIDE DEF U
    <3> QED BY <3>1, <3>2, NatInd
  <2>6. (n - 1) + 1 = n /\ n <= n /\ n - 1 \in Nat
    BY <2>0
  <2>7. n - 1 \in U
    BY <2>5, <2>6
  <2> QED BY <2>1, <2>6, <2>7
<1> QED BY <1>1, <1>2

LEMMA LastIndex ==
  ASSUME NEW n \in Nat, NEW S \in SUBSET (1..n), S # {}
  PROVE  \E m \in S : \A i \in S : i <= m
<1> DEFINE T == {m \in Nat : \A R \in SUBSET (1..m) : R # {} => \E j \in R : \A i \in R : i <= j}
<1>1. 0 \in T
  <2>1. 1..0 = {}
    OBVIOUS
  <2> QED BY <2>1
<1>2. ASSUME NEW m \in Nat, m \in T PROVE m + 1 \in T
  <2> SUFFICES ASSUME NEW R \in SUBSET (1 .. m + 1), R # {}
               PROVE  \E j \in R : \A i \in R : i <= j
    OBVIOUS
  <2>1. CASE m + 1 \in R
    BY <2>1
  <2>2. CASE m + 1 \notin R
    <3>1. R \in SUBSET (1..m)
      BY <2>2
    <3> QED BY <1>2, <3>1
  <2> QED BY <2>1, <2>2
<1> HIDE DEF T
<1>3. n \in T
  BY <1>1, <1>2, NatInd
<1> QED BY <1>3 DEF T

LEMMA WireNumbers == MaxVersion \in Nat /\ Bound \in Nat \ {0} /\ MaxIncomplete \in Nat \ {0}
BY WireAssumption

LEMMA ControlItems == ~Carried(Notice) /\ ~Carried(Ack)
<1>1. CacheKeys \intersect {"sync needed", "ack"} = {}
  BY WireAssumption
<1>2. Notice.key = "sync needed" /\ Ack.key = "ack"
  BY DEF Notice, Ack
<1> QED BY <1>1, <1>2 DEF Carried

LEMMA ToSetFinite ==
  ASSUME NEW S, NEW s \in Seq(S)
  PROVE  IsFiniteSet(ToSet(s))
<1> DEFINE f == [i \in 1 .. Len(s) |-> s[i]]
<1>1. IsFiniteSet(1 .. Len(s))
  BY FS_Interval
<1>2. f \in Surjection(1 .. Len(s), ToSet(s))
  BY DEF Surjection, ToSet
<1> QED BY <1>1, <1>2, FS_Surjection

\* A fresh number is one no piece and no transfer of the key carries.
LEMMA FreshIds ==
  ASSUME WireTypes, NEW k \in CacheKeys
  PROVE  FreshId(k) \in Nat \ {0} /\ FreshId(k) \notin InUse(k)
<1> DEFINE S == ToSet(queue) \union ToSet(sending["publisher"])
                  \union ToSet(sending["resync"]) \union ToSet(assembling)
           Q == {q \in S : q.key = k}
           f == [q \in Q |-> q.id]
           c == Cardinality(InUse(k))
<1>1. IsFiniteSet(S)
  <2>1. /\ queue \in Seq(Items) /\ assembling \in Seq(Transfers)
        /\ sending["publisher"] \in Seq(WirePieces) /\ sending["resync"] \in Seq(WirePieces)
    BY DEF WireTypes, Threads
  <2>2. /\ IsFiniteSet(ToSet(queue)) /\ IsFiniteSet(ToSet(assembling))
        /\ IsFiniteSet(ToSet(sending["publisher"])) /\ IsFiniteSet(ToSet(sending["resync"]))
    BY <2>1, ToSetFinite
  <2> QED BY <2>2, FS_Union
<1>2. IsFiniteSet(Q)
  BY <1>1, FS_Subset
<1>3. f \in Surjection(Q, InUse(k))
  BY DEF Surjection, InUse
<1>4. IsFiniteSet(InUse(k)) /\ c \in Nat
  BY <1>2, <1>3, FS_Surjection, FS_CardinalityType
<1>5. \E i \in 1 .. c + 1 : i \notin InUse(k)
  <2> SUFFICES ASSUME 1 .. c + 1 \subseteq InUse(k) PROVE FALSE
    OBVIOUS
  <2>1. Cardinality(1 .. c + 1) <= c
    BY <1>4, FS_Subset
  <2>2. Cardinality(1 .. c + 1) = c + 1
    BY <1>4, FS_Interval
  <2> QED BY <1>4, <2>1, <2>2
<1>6. FreshId(k) \in 1 .. c + 1 /\ FreshId(k) \notin InUse(k)
  BY <1>5 DEF FreshId
<1> QED BY <1>4, <1>6

\* A version of a key, split, is one message, whole, with a transfer of its own.
LEMMA SplitFacts ==
  ASSUME WireTypes, NEW k \in CacheKeys, NEW v \in Versions
  PROVE  /\ Split(k, v) \in Seq(WirePieces) /\ Split(k, v) # <<>>
         /\ \A i \in DOMAIN Split(k, v) :
              LET p == Split(k, v)[i]
              IN  /\ p.key = k /\ p.version = v /\ p.index = i
                  /\ p.id > 0 => p.id = FreshId(k)
         /\ Runs(Split(k, v))
<1> DEFINE n == Pieces[k][v]
           id == IF n = 1 THEN 0 ELSE FreshId(k)
<1>1. n \in Nat \ {0}
  BY WireAssumption DEF Versions
<1>2. FreshId(k) \in Nat \ {0}
  BY FreshIds
<1>3. /\ DOMAIN Split(k, v) = 1..n /\ Len(Split(k, v)) = n
      /\ \A i \in 1..n : Split(k, v)[i] =
           [key |-> k, version |-> v, id |-> id, index |-> i, count |-> n]
  BY <1>1 DEF Split, Piece
<1>4. id \in Nat /\ (id > 0 <=> n > 1) /\ (id > 0 => id = FreshId(k)) /\ Pieces[k][v] = n
  BY <1>1, <1>2
<1> HIDE DEF n, id
<1>5. \A i \in 1..n : Split(k, v)[i] \in WirePieces
  <2> TAKE i \in 1..n
  <2> DEFINE p == [key |-> k, version |-> v, id |-> id, index |-> i, count |-> n]
  <2>1. p \in [key : CacheKeys, version : Versions, id : Nat, index : Nat, count : Nat]
    BY <1>1, <1>4
  <2>2. (p.id > 0 <=> p.count > 1) /\ p.count = Pieces[p.key][p.version] /\ p.index \in 1 .. p.count
    BY <1>4
  <2>3. p \in WirePieces
    BY <2>1, <2>2 DEF WirePieces
  <2> QED BY <1>3, <2>3
<1>6. Split(k, v) \in Seq(WirePieces) /\ Split(k, v) # <<>>
  <2>1. \E m : Split(k, v) = [i \in 1..n |-> m[i]]
    BY <1>3 DEF Split, n
  <2> QED BY <1>1, <1>3, <1>5, <2>1
<1>7. Runs(Split(k, v))
  <2>1. ASSUME NEW i \in 1..n, NEW d \in 0 .. n - i
        PROVE  i + d \in 1..n /\ Split(k, v)[i + d] = [Split(k, v)[i] EXCEPT !.index = @ + d]
    <3>1. i + d \in 1..n
      BY <1>1
    <3> QED BY <1>3, <3>1
  <2>2. ASSUME NEW i \in 1..n, i > 1
        PROVE  Split(k, v)[i - 1] = [Split(k, v)[i] EXCEPT !.index = @ - 1]
    <3>1. i - 1 \in 1..n
      BY <1>1, <2>2
    <3> QED BY <1>3, <3>1
  <2>3. \A i \in 1..n : Split(k, v)[i].count = n /\ Split(k, v)[i].index = i
    BY <1>3
  <2> QED BY <1>3, <2>1, <2>2, <2>3 DEF Runs
<1>8. \A i \in DOMAIN Split(k, v) :
        LET p == Split(k, v)[i]
        IN  p.key = k /\ p.version = v /\ p.index = i /\ (p.id > 0 => p.id = FreshId(k))
  BY <1>3, <1>4
<1> QED BY <1>6, <1>7, <1>8

LEMMA RunsConcat ==
  ASSUME NEW s \in Seq(WirePieces), NEW u \in Seq(WirePieces), Runs(s), Runs(u),
         u # <<>> => u[1].index = 1
  PROVE  s \o u \in Seq(WirePieces) /\ Runs(s \o u)
<1> DEFINE n == Len(s)
           r == s \o u
<1>1. /\ r \in Seq(WirePieces) /\ n \in Nat /\ DOMAIN r = 1 .. n + Len(u)
      /\ DOMAIN s = 1..n /\ DOMAIN u = 1 .. Len(u) /\ Len(u) \in Nat
      /\ \A i \in 1..n : r[i] = s[i]
      /\ \A i \in 1 .. Len(u) : r[n + i] = u[i]
  OBVIOUS
<1>2. ASSUME NEW i \in DOMAIN r
      PROVE  i \in 1..n \/ \E j \in 1 .. Len(u) : i = n + j
  <2>1. i \in 1..n \/ (i - n \in 1 .. Len(u) /\ i = n + (i - n))
    BY <1>1
  <2> QED BY <2>1
<1>3. ASSUME NEW i \in DOMAIN r, NEW d \in 0 .. r[i].count - r[i].index
      PROVE  i + d \in DOMAIN r /\ r[i + d] = [r[i] EXCEPT !.index = @ + d]
  <2>1. CASE i \in 1..n
    <3>1. i + d \in 1..n /\ s[i + d] = [s[i] EXCEPT !.index = @ + d]
      BY <1>1, <2>1 DEF Runs
    <3> QED BY <1>1, <2>1, <3>1
  <2>2. ASSUME NEW j \in 1 .. Len(u), i = n + j
        PROVE  i + d \in DOMAIN r /\ r[i + d] = [r[i] EXCEPT !.index = @ + d]
    <3>1. j + d \in 1 .. Len(u) /\ u[j + d] = [u[j] EXCEPT !.index = @ + d]
      BY <1>1, <2>2 DEF Runs
    <3>2. i + d = n + (j + d)
      BY <1>1, <2>2
    <3> QED BY <1>1, <2>2, <3>1, <3>2
  <2> QED BY <1>2, <2>1, <2>2
<1>4. ASSUME NEW i \in DOMAIN r, i > 1, r[i].index > 1
      PROVE  r[i - 1] = [r[i] EXCEPT !.index = @ - 1]
  <2>1. CASE i \in 1..n
    <3>1. i - 1 \in 1..n
      BY <1>4, <2>1
    <3> QED BY <1>1, <1>4, <2>1, <3>1 DEF Runs
  <2>2. ASSUME NEW j \in 1 .. Len(u), i = n + j
        PROVE  r[i - 1] = [r[i] EXCEPT !.index = @ - 1]
    <3>1. u[j].index > 1 /\ j # 1
      BY <1>1, <1>4, <2>2
    <3>2. j - 1 \in 1 .. Len(u) /\ i - 1 = n + (j - 1)
      BY <1>1, <2>2, <3>1
    <3> QED BY <1>1, <2>2, <3>1, <3>2 DEF Runs
  <2> QED BY <1>2, <2>1, <2>2
<1> QED BY <1>1, <1>3, <1>4 DEF Runs

\* A replay is a sequence of messages, each the newest version of another key.
Replayed(s) ==
  /\ Runs(s)
  /\ s # <<>> => s[1].index = 1
  /\ \A i \in DOMAIN s : /\ s[i].version = newest[s[i].key]
                         /\ s[i].id > 0 => s[i].id = FreshId(s[i].key)
  /\ \A i, j \in DOMAIN s : i # j /\ s[i].index = 1 /\ s[j].index = 1 => s[i].key # s[j].key

LEMMA ReplayFacts ==
  ASSUME WireTypes
  PROVE  Replay \in Seq(WirePieces) /\ Replayed(Replay)
<1> DEFINE Part(k) == IF newest[k] > 0 THEN Split(k, newest[k]) ELSE <<>>
           ss == [j \in DOMAIN ReplayOrder |-> Part(ReplayOrder[j])]
           Known(j, s) == \A i \in DOMAIN s : \E l \in 1..j : s[i].key = ReplayOrder[l]
           G == {g \in Nat \X Seq(WirePieces) : Replayed(g[2]) /\ Known(g[1], g[2])}
<1>1. /\ ReplayOrder \in Seq(CacheKeys) /\ DOMAIN ReplayOrder = 1 .. Len(ReplayOrder)
      /\ \A i, j \in DOMAIN ReplayOrder : ReplayOrder[i] = ReplayOrder[j] => i = j
  <2>1. ReplayOrder \in Seq(CacheKeys) /\ IsInjective(ReplayOrder)
    BY WireAssumption
  <2> QED BY <2>1 DEF IsInjective
<1>2. ASSUME NEW k \in CacheKeys
      PROVE  /\ Part(k) \in Seq(WirePieces) /\ Runs(Part(k))
             /\ \A i \in DOMAIN Part(k) :
                  /\ Part(k)[i].key = k /\ Part(k)[i].version = newest[k]
                  /\ Part(k)[i].index = i
                  /\ Part(k)[i].id > 0 => Part(k)[i].id = FreshId(k)
  <2>1. CASE newest[k] > 0
    <3>1. newest[k] \in Versions
      <4>1. newest[k] \in 0..MaxVersion
        BY DEF WireTypes
      <4> QED BY <2>1, <4>1, WireNumbers DEF Versions
    <3> QED BY <2>1, <3>1, SplitFacts
  <2>2. CASE ~(newest[k] > 0)
    <3>1. Part(k) = <<>>
      BY <2>2
    <3>2. <<>> \in Seq(WirePieces) /\ Runs(<<>>) /\ DOMAIN <<>> = {}
      BY DEF Runs
    <3> QED BY <3>1, <3>2
  <2> QED BY <2>1, <2>2
<1>3. Replay = FlattenSeq(ss)
  BY DEF Replay
<1> HIDE DEF Part
<1>4. ss \in Seq(Seq(WirePieces)) /\ Len(ss) = Len(ReplayOrder)
  BY <1>1, <1>2
<1>5. <<0, <<>>>> \in G
  <2>1. /\ DOMAIN <<>> = {} /\ <<>> \in Seq(WirePieces)
        /\ Replayed(<<>>) /\ Known(0, <<>>) /\ 0 \in Nat
    BY DEF Replayed, Runs
  <2> QED BY <2>1
<1>6. ASSUME NEW j \in 1 .. Len(ss), NEW s \in Seq(WirePieces), <<j - 1, s>> \in G
      PROVE  <<j, s \o ss[j]>> \in G
  <2> DEFINE u == ss[j]
             r == s \o u
             n == Len(s)
             k == ReplayOrder[j]
  <2>1. k \in CacheKeys /\ u = Part(k) /\ j \in DOMAIN ReplayOrder
    BY <1>1, <1>4
  <2>2. Replayed(s) /\ Known(j - 1, s)
    BY <1>6
  <2>3. /\ u \in Seq(WirePieces) /\ Runs(u)
        /\ \A i \in DOMAIN u : /\ u[i].key = k /\ u[i].version = newest[k] /\ u[i].index = i
                               /\ u[i].id > 0 => u[i].id = FreshId(k)
    BY <1>2, <2>1
  <2> HIDE DEF u, k, G
  <2>4. r \in Seq(WirePieces) /\ Runs(r)
    <3>1. u # <<>> => u[1].index = 1
      BY <2>3
    <3> QED BY <2>2, <2>3, <3>1, RunsConcat DEF Replayed
  <2>5. /\ n \in Nat /\ DOMAIN s = 1..n /\ DOMAIN r = 1 .. n + Len(u) /\ Len(u) \in Nat
        /\ DOMAIN u = 1 .. Len(u)
        /\ \A i \in 1..n : r[i] = s[i]
        /\ \A i \in n + 1 .. n + Len(u) : i - n \in DOMAIN u /\ r[i] = u[i - n]
    BY <2>3
  <2>6. \A i \in DOMAIN r : i \in DOMAIN s \/ i \in n + 1 .. n + Len(u)
    BY <2>5
  <2>7. Known(j, r)
    <3> SUFFICES ASSUME NEW i \in DOMAIN r PROVE \E l \in 1..j : r[i].key = ReplayOrder[l]
      OBVIOUS
    <3>1. CASE i \in DOMAIN s
      <4>1. PICK l \in 1 .. j - 1 : s[i].key = ReplayOrder[l]
        BY <2>2, <3>1
      <4> QED BY <2>5, <3>1, <4>1
    <3>2. CASE i \in n + 1 .. n + Len(u)
      BY <2>3, <2>5, <3>2 DEF k
    <3> QED BY <2>6, <3>1, <3>2
  <2>8. ASSUME NEW i \in DOMAIN s PROVE s[i].key # k
    <3>1. PICK l \in 1 .. j - 1 : s[i].key = ReplayOrder[l]
      BY <2>2
    <3> QED BY <1>1, <2>1, <3>1, <1>4 DEF k
  <2>9. Replayed(r)
    <3>1. ASSUME NEW i \in DOMAIN r
          PROVE  r[i].version = newest[r[i].key] /\ (r[i].id > 0 => r[i].id = FreshId(r[i].key))
      BY <2>2, <2>3, <2>5, <2>6 DEF Replayed
    <3>2. ASSUME NEW i \in DOMAIN r, NEW l \in DOMAIN r, i # l, r[i].index = 1, r[l].index = 1
          PROVE  r[i].key # r[l].key
      <4>1. CASE i \in DOMAIN s /\ l \in DOMAIN s
        BY <2>2, <2>5, <3>2, <4>1 DEF Replayed
      <4>2. CASE i \in DOMAIN s /\ l \in n + 1 .. n + Len(u)
        BY <2>3, <2>5, <2>8, <4>2
      <4>3. CASE l \in DOMAIN s /\ i \in n + 1 .. n + Len(u)
        BY <2>3, <2>5, <2>8, <4>3
      <4>4. CASE i \in n + 1 .. n + Len(u) /\ l \in n + 1 .. n + Len(u)
        <5>1. i - n = 1 /\ l - n = 1
          BY <2>3, <2>5, <3>2, <4>4
        <5> QED BY <2>5, <3>2, <4>4, <5>1
      <4> QED BY <2>6, <4>1, <4>2, <4>3, <4>4
    <3>3. r # <<>> => r[1].index = 1
      <4>1. CASE s # <<>>
        BY <2>2, <2>5, <4>1 DEF Replayed
      <4>2. CASE s = <<>>
        BY <2>3, <2>5, <4>2
      <4> QED BY <4>1, <4>2
    <3> HIDE DEF r
    <3> QED BY <2>4, <3>1, <3>2, <3>3 DEF Replayed
  <2>10. j \in Nat
    OBVIOUS
  <2>11. <<j, r>> \in G
    <3> HIDE DEF r, Known
    <3> QED BY <2>4, <2>7, <2>9, <2>10 DEF G
  <2> QED BY <2>11 DEF u
<1> HIDE DEF G, ss
<1>7. FlattenSeq(ss) \in Seq(WirePieces) /\ <<Len(ss), FlattenSeq(ss)>> \in G
  BY <1>4, <1>5, <1>6, FlattenBy
<1> QED BY <1>3, <1>7 DEF G

\* Evicting a series keeps only transfers there were.
LEMMA OtherSeriesFacts ==
  ASSUME WireTypes, NEW p
  PROVE  /\ OtherSeries(p) \in Seq({a \in Transfers : \E j \in DOMAIN assembling : a = assembling[j]})
         /\ Len(OtherSeries(p)) <= Len(assembling)
<1> DEFINE S == {a \in Transfers : \E j \in DOMAIN assembling : a = assembling[j]}
           Part(a) == IF Series[a.key] = Series[p.key] THEN <<>> ELSE <<a>>
           ss == [j \in DOMAIN assembling |-> Part(assembling[j])]
           Short(j, s) == Len(s) <= j
           G == {g \in Nat \X Seq(S) : Short(g[1], g[2])}
<1>1. assembling \in Seq(Transfers) /\ \A j \in DOMAIN assembling : assembling[j] \in S
  BY DEF WireTypes
<1>2. OtherSeries(p) = FlattenSeq(ss)
  BY DEF OtherSeries
<1>3. ASSUME NEW a \in S PROVE Part(a) \in Seq(S) /\ Len(Part(a)) <= 1
  <2> HIDE DEF S
  <2>1. <<>> \in Seq(S) /\ Len(<<>>) = 0 /\ <<a>> \in Seq(S) /\ Len(<<a>>) = 1
    OBVIOUS
  <2>2. Part(a) = <<>> \/ Part(a) = <<a>>
    OBVIOUS
  <2> HIDE DEF Part
  <2>3. CASE Part(a) = <<>>
    BY <2>1, <2>3
  <2>4. CASE Part(a) = <<a>>
    BY <2>1, <2>4
  <2> QED BY <2>2, <2>3, <2>4
<1> HIDE DEF Part, S
<1>4. ss \in Seq(Seq(S)) /\ Len(ss) = Len(assembling)
  BY <1>1, <1>3
<1>5. ASSUME NEW j \in 1 .. Len(ss) PROVE ss[j] \in Seq(S) /\ Len(ss[j]) <= 1
  <2>1. j \in DOMAIN assembling /\ assembling[j] \in S /\ ss[j] = Part(assembling[j])
    <3>1. DOMAIN assembling = 1 .. Len(assembling)
      BY <1>1
    <3>2. DOMAIN assembling = 1 .. Len(ss)
      BY <1>4, <3>1
    <3> QED BY <1>1, <3>2 DEF ss
  <2> HIDE DEF ss
  <2> QED BY <1>3, <2>1
<1> HIDE DEF ss
<1>6. ASSUME NEW j \in 1 .. Len(ss), NEW s \in Seq(S), <<j - 1, s>> \in G
      PROVE  <<j, s \o ss[j]>> \in G
  <2>1. s \o ss[j] \in Seq(S) /\ Len(s \o ss[j]) = Len(s) + Len(ss[j])
    BY <1>5
  <2>2. Len(s) <= j - 1 /\ Len(ss[j]) <= 1 /\ Len(s) \in Nat /\ Len(ss[j]) \in Nat
    BY <1>5, <1>6
  <2> QED BY <2>1, <2>2
<1>7. <<0, <<>>>> \in G
  <2>1. <<>> \in Seq(S) /\ Short(0, <<>>) /\ 0 \in Nat
    OBVIOUS
  <2> HIDE DEF Short
  <2> QED BY <2>1
<1> HIDE DEF G
<1>8. FlattenSeq(ss) \in Seq(S) /\ <<Len(ss), FlattenSeq(ss)>> \in G
  BY <1>4, <1>6, <1>7, FlattenBy
<1> QED BY <1>2, <1>4, <1>8 DEF G, S

\* Dropping a message leaves the messages after it.
LEMMA DropFacts ==
  ASSUME NEW s \in Seq(WirePieces), s # <<>>, Runs(s)
  PROVE  \E n \in 1 .. Len(s) :
           /\ DropMessage(s) = SubSeq(s, n + 1, Len(s))
           /\ n < Len(s) => s[n + 1].index = 1
<1> DEFINE n == s[1].count - s[1].index + 1
<1>1. s[1] \in WirePieces /\ Len(s) \in Nat /\ 1 \in DOMAIN s /\ DOMAIN s = 1 .. Len(s)
  OBVIOUS
<1>2. n \in Nat /\ n >= 1 /\ n - 1 \in 0 .. s[1].count - s[1].index
  BY <1>1 DEF WirePieces
<1>3. 1 + (n - 1) \in DOMAIN s /\ s[1 + (n - 1)] = [s[1] EXCEPT !.index = @ + (n - 1)]
  <2> HIDE DEF n
  <2> QED BY <1>1, <1>2 DEF Runs
<1>4. 1 + (n - 1) = n /\ s[1].index + (n - 1) = s[1].count
  BY <1>1, <1>2 DEF WirePieces
<1>5. n \in 1 .. Len(s) /\ s[n] = [s[1] EXCEPT !.index = @ + (n - 1)]
  <2> HIDE DEF n
  <2> QED BY <1>1, <1>3, <1>4
<1>6. s[n].index = s[n].count /\ s[n].count \in Nat
  <2> HIDE DEF n
  <2> QED BY <1>1, <1>4, <1>5 DEF WirePieces
<1>7. DropMessage(s) = SubSeq(s, n + 1, Len(s))
  BY DEF DropMessage
<1> HIDE DEF n
<1>8. ASSUME n < Len(s), s[n + 1].index # 1 PROVE FALSE
  <2>1. n + 1 \in DOMAIN s /\ s[n + 1] \in WirePieces
    BY <1>1, <1>2, <1>8
  <2>2. s[n + 1].index > 1 /\ s[n + 1].index <= s[n + 1].count /\ s[n + 1].count \in Nat
    BY <1>8, <2>1 DEF WirePieces
  <2>3. s[(n + 1) - 1] = [s[n + 1] EXCEPT !.index = @ - 1] /\ (n + 1) - 1 = n
    BY <1>2, <2>1, <2>2 DEF Runs
  <2>4. s[n].index = s[n + 1].index - 1 /\ s[n].count = s[n + 1].count
    BY <2>1, <2>3 DEF WirePieces
  <2>5. s[n + 1].index \in Nat /\ s[n + 1].count \in Nat
    BY <2>1 DEF WirePieces
  <2>6. s[n + 1].index - 1 = s[n + 1].count
    BY <1>6, <2>4
  <2> QED BY <2>2, <2>5, <2>6
<1> QED BY <1>5, <1>7, <1>8

\* The rest of a run from some piece on is one.
LEMMA RunsRest ==
  ASSUME NEW s \in Seq(WirePieces), NEW n \in 1 .. Len(s), Runs(s)
  PROVE  LET r == SubSeq(s, n + 1, Len(s))
         IN  /\ r \in Seq(WirePieces) /\ Len(r) = Len(s) - n
             /\ \A i \in DOMAIN r : i + n \in DOMAIN s /\ r[i] = s[i + n]
             /\ Runs(r)
<1> DEFINE r == SubSeq(s, n + 1, Len(s))
<1>1. /\ r \in Seq(WirePieces) /\ Len(r) = Len(s) - n /\ Len(s) \in Nat /\ n \in Nat
      /\ DOMAIN s = 1 .. Len(s) /\ DOMAIN r = 1 .. Len(s) - n
      /\ \A i \in DOMAIN r : i + n \in DOMAIN s /\ r[i] = s[i + n]
  OBVIOUS
<1> HIDE DEF r
<1>2. ASSUME NEW i \in DOMAIN r, NEW d \in 0 .. r[i].count - r[i].index
      PROVE  i + d \in DOMAIN r /\ r[i + d] = [r[i] EXCEPT !.index = @ + d]
  <2>1. (i + n) + d \in DOMAIN s /\ s[(i + n) + d] = [s[i + n] EXCEPT !.index = @ + d]
    BY <1>1 DEF Runs
  <2>2. i + d \in DOMAIN r /\ (i + d) + n = (i + n) + d
    BY <1>1, <2>1
  <2> QED BY <1>1, <2>1, <2>2
<1>3. ASSUME NEW i \in DOMAIN r, i > 1, r[i].index > 1
      PROVE  r[i - 1] = [r[i] EXCEPT !.index = @ - 1]
  <2>1. s[(i + n) - 1] = [s[i + n] EXCEPT !.index = @ - 1]
    BY <1>1, <1>3 DEF Runs
  <2>2. i - 1 \in DOMAIN r /\ (i - 1) + n = (i + n) - 1
    BY <1>1, <1>3
  <2> QED BY <1>1, <2>1, <2>2
<1>4. Runs(r)
  BY <1>2, <1>3 DEF Runs
<1> QED BY <1>1, <1>4 DEF r

-----------------------------------------------------------------------------
(* Reassembly. *)

\* A transfer all of whose pieces are of one version is that version.
LEMMA WholeVersion ==
  ASSUME NEW a \in Transfers, NEW v \in Versions, a.count = Pieces[a.key][v],
         a.parts \subseteq (1 .. a.count) \X {v}, Complete(a)
  PROVE  VersionOf(a) = v
<1> DEFINE n == Pieces[a.key][v]
           P == {part[1] : part \in a.parts}
<1>1. a.key \in CacheKeys /\ n \in Nat \ {0} /\ a.count = n
  BY WireAssumption DEF Transfers, Versions
<1>2. P \subseteq 1..n
  BY <1>1
<1>3. IsFiniteSet(1..n) /\ Cardinality(1..n) = n
  <2>1. ASSUME NEW m \in Nat \ {0} PROVE IsFiniteSet(1..m) /\ Cardinality(1..m) = m
    BY <2>1, FS_Interval
  <2> QED BY <1>1, <2>1
<1>4. Cardinality(P) = n
  BY <1>1 DEF Complete
<1>5. P = 1..n
  BY <1>2, <1>3, <1>4, FS_Subset
<1>6. a.parts = (1..n) \X {v}
  <2>1. ASSUME NEW i \in 1..n PROVE <<i, v>> \in a.parts
    <3>1. PICK part \in a.parts : part[1] = i
      BY <1>5
    <3>2. part = <<i, v>>
      BY <1>1, <3>1
    <3> QED BY <3>1, <3>2
  <2>2. a.parts \subseteq (1..n) \X {v}
    BY <1>1
  <2> QED BY <2>1, <2>2
<1>7. ASSUME NEW w \in Versions, a.parts = (1 .. Pieces[a.key][w]) \X {w} PROVE w = v
  <2>1. <<1, v>> \in a.parts
    BY <1>1, <1>6
  <2> QED BY <1>7, <2>1
<1>8. \E w \in Versions : a.parts = (1 .. Pieces[a.key][w]) \X {w}
  BY <1>6
<1> QED BY <1>7, <1>8 DEF VersionOf

LEMMA CompleteParts ==
  ASSUME NEW a, NEW n \in Nat, NEW v, a.parts = (1..n) \X {v}
  PROVE  Complete(a) <=> n = a.count
<1>1. {part[1] : part \in a.parts} = 1..n
  <2>1. \A i \in 1..n : <<i, v>> \in a.parts /\ <<i, v>>[1] = i
    OBVIOUS
  <2> QED BY <2>1
<1>2. Cardinality(1..n) = n
  BY FS_Interval
<1> QED BY <1>1, <1>2 DEF Complete

\* What the client has once piece p of a split message is in.
New(p) == [key |-> p.key, id |-> p.id, count |-> p.count, parts |-> {<<p.index, p.version>>}]
With(a, p) == [a EXCEPT !.parts = @ \union {<<p.index, p.version>>}]
Begun(p) == \E j \in DOMAIN assembling : SameTransfer(assembling[j], p)

LEMMA IngestedOld ==
  ASSUME WireTypes, NEW p \in WirePieces, Begun(p)
  PROVE  /\ Ingested(p) \in Seq(Transfers) /\ DOMAIN Ingested(p) = DOMAIN assembling
         /\ Len(Ingested(p)) = Len(assembling)
         /\ \A j \in DOMAIN assembling :
              Ingested(p)[j] = IF SameTransfer(assembling[j], p) THEN With(assembling[j], p)
                                                                ELSE assembling[j]
<1>1. /\ assembling \in Seq(Transfers) /\ Len(assembling) \in Nat
      /\ DOMAIN assembling = 1 .. Len(assembling) /\ ~(Len(assembling) > MaxIncomplete)
  <2>1. /\ assembling \in Seq(Transfers) /\ Len(assembling) \in Nat
        /\ DOMAIN assembling = 1 .. Len(assembling) /\ Len(assembling) <= MaxIncomplete
    BY DEF WireTypes
  <2> QED BY <2>1, WireNumbers
<1>2. \E j \in DOMAIN assembling : SameTransfer(assembling[j], p)
  BY DEF Begun
<1>3. Ingested(p) = [j \in DOMAIN assembling |->
         IF SameTransfer(assembling[j], p)
         THEN [assembling[j] EXCEPT !.parts = @ \union {<<p.index, p.version>>}]
         ELSE assembling[j]]
  BY <1>1, <1>2, Zenon DEF Ingested
<1>4. \A a \in Transfers : With(a, p) \in Transfers
  BY DEF Transfers, WirePieces, With
<1>5. \A j \in DOMAIN assembling :
        Ingested(p)[j] = IF SameTransfer(assembling[j], p) THEN With(assembling[j], p)
                                                          ELSE assembling[j]
  BY <1>3 DEF With
<1>6. \A j \in 1 .. Len(assembling) : Ingested(p)[j] \in Transfers
  BY <1>1, <1>4, <1>5
<1>7. Ingested(p) = [j \in 1 .. Len(assembling) |-> Ingested(p)[j]]
  BY <1>1, <1>3
<1> QED BY <1>1, <1>5, <1>6, <1>7

LEMMA IngestedNew ==
  ASSUME WireTypes, NEW p \in WirePieces, ~Begun(p)
  PROVE  /\ Ingested(p) \in Seq(Transfers) /\ Ingested(p) # <<>>
         /\ Len(Ingested(p)) <= MaxIncomplete
         /\ Ingested(p)[Len(Ingested(p))] = New(p)
         /\ \A j \in DOMAIN Ingested(p) : j # Len(Ingested(p)) =>
              \E i \in DOMAIN assembling : Ingested(p)[j] = assembling[i]
<1> DEFINE S     == {a \in Transfers : \E i \in DOMAIN assembling : a = assembling[i]}
           fresh == [key |-> p.key, id |-> p.id, count |-> p.count, parts |-> {}]
           past   == OtherSeries(p)
           kept  == Append(past, fresh)
           room  == IF Len(kept) > MaxIncomplete THEN Tail(kept) ELSE kept
<1>1. past \in Seq(S) /\ Len(past) <= MaxIncomplete /\ Len(past) \in Nat /\ MaxIncomplete \in Nat \ {0}
  <2>1. past \in Seq(S) /\ Len(past) <= Len(assembling)
    BY OtherSeriesFacts
  <2> HIDE DEF S, past
  <2>2. Len(assembling) <= MaxIncomplete /\ Len(assembling) \in Nat
    BY DEF WireTypes
  <2> QED BY <2>1, <2>2, WireNumbers
<1>2. fresh \in Transfers
  BY DEF Transfers, WirePieces
<1>3. ~\E j \in DOMAIN assembling : SameTransfer(assembling[j], p)
  BY DEF Begun
<1>4. Ingested(p) = [j \in DOMAIN room |->
         IF SameTransfer(room[j], p)
         THEN [room[j] EXCEPT !.parts = @ \union {<<p.index, p.version>>}]
         ELSE room[j]]
  BY <1>3, Zenon DEF Ingested
<1>5. \A a \in S : ~SameTransfer(a, p)
  BY <1>3
<1> DEFINE m == Len(room)
<1> HIDE DEF past, fresh, S
<1>6. kept \in Seq(S \union {fresh}) /\ Len(kept) = Len(past) + 1
      /\ kept[Len(kept)] = fresh /\ \A j \in 1 .. Len(past) : kept[j] \in S
  BY <1>1
<1>7. /\ room \in Seq(S \union {fresh}) /\ m \in Nat \ {0} /\ m <= MaxIncomplete /\ DOMAIN room = 1..m
      /\ room[m] = fresh /\ \A j \in 1 .. m - 1 : room[j] \in S
  <2>1. CASE Len(kept) > MaxIncomplete
    <3>1. room = Tail(kept)
      BY <2>1
    <3>2. /\ Len(Tail(kept)) = Len(past) /\ Tail(kept) \in Seq(S \union {fresh})
          /\ \A j \in 1 .. Len(past) : Tail(kept)[j] = kept[j + 1]
      <4> HIDE DEF kept
      <4>1. kept # <<>> /\ Len(kept) \in Nat
        BY <1>1, <1>6
      <4>2. Tail(kept) \in Seq(S \union {fresh}) /\ Len(Tail(kept)) = Len(kept) - 1
        BY <1>6, <4>1
      <4>3. \A j \in 1 .. Len(kept) - 1 : Tail(kept)[j] = kept[j + 1]
        BY <1>6, <4>1
      <4> QED BY <1>1, <1>6, <4>2, <4>3
    <3>3. Len(past) = MaxIncomplete
      BY <1>1, <1>6, <2>1
    <3> HIDE DEF kept, room
    <3>4. m = Len(past) /\ DOMAIN room = 1..m
      BY <3>1, <3>2
    <3> QED BY <1>1, <1>6, <3>1, <3>2, <3>3, <3>4
  <2>2. CASE ~(Len(kept) > MaxIncomplete)
    <3>1. room = kept
      BY <2>2
    <3> HIDE DEF kept, room
    <3> QED BY <1>1, <1>6, <2>2, <3>1
  <2> QED BY <2>1, <2>2
<1> HIDE DEF room
<1>8. SameTransfer(fresh, p) /\ [fresh EXCEPT !.parts = @ \union {<<p.index, p.version>>}] = New(p)
  BY DEF SameTransfer, New, fresh
<1>9. Ingested(p)[m] = New(p) /\ \A j \in 1 .. m - 1 : Ingested(p)[j] = room[j]
  BY <1>4, <1>5, <1>7, <1>8
<1>10. New(p) \in Transfers /\ S \subseteq Transfers
  BY DEF New, Transfers, WirePieces, S
<1>11. \A j \in 1..m : Ingested(p)[j] \in Transfers
  <2>1. \A j \in 1..m : j = m \/ j \in 1 .. m - 1
    <3> HIDE DEF m
    <3> QED BY <1>7
  <2> QED BY <1>7, <1>9, <1>10, <2>1
<1>12. Ingested(p) = [j \in 1..m |-> Ingested(p)[j]]
  BY <1>4, <1>7
<1>13. Ingested(p) \in Seq(Transfers) /\ Len(Ingested(p)) = m /\ DOMAIN Ingested(p) = 1..m
  <2> HIDE DEF m
  <2> QED BY <1>7, <1>11, <1>12
<1>14. \A j \in 1 .. m - 1 : \E i \in DOMAIN assembling : Ingested(p)[j] = assembling[i]
  BY <1>7, <1>9 DEF S
<1> QED BY <1>7, <1>9, <1>13, <1>14

LEMMA IngestedVersions ==
  ASSUME WireTypes, Coherent(assembling, OnTheWay), NEW p \in WirePieces, p \in OnTheWay, p.count > 1,
         NEW j \in DOMAIN Ingested(p)
  PROVE  LET a == Ingested(p)[j]
         IN  /\ SameTransfer(a, p) => OfVersion(a, p.version, OnTheWay)
             /\ ~SameTransfer(a, p) => \E i \in DOMAIN assembling : a = assembling[i]
             /\ \E v \in Versions : OfVersion(a, v, OnTheWay)
<1> DEFINE a == Ingested(p)[j]
<1>1. p.version \in Versions /\ p.id > 0 /\ p.id \in Nat /\ p.index \in 1 .. p.count
      /\ p.count = Pieces[p.key][p.version]
  BY DEF WirePieces
<1>2. CASE Begun(p)
  <2>1. j \in DOMAIN assembling
        /\ a = IF SameTransfer(assembling[j], p) THEN With(assembling[j], p) ELSE assembling[j]
    BY <1>2, IngestedOld
  <2>2. PICK v \in Versions : OfVersion(assembling[j], v, OnTheWay)
    BY <2>1 DEF Coherent
  <2>3. CASE ~SameTransfer(assembling[j], p)
    BY <2>1, <2>2, <2>3
  <2>4. CASE SameTransfer(assembling[j], p)
    <3>1. v = p.version
      BY <2>2, <2>4 DEF OfVersion
    <3>2. /\ a.key = assembling[j].key /\ a.id = assembling[j].id /\ a.count = assembling[j].count
          /\ a.parts = assembling[j].parts \union {<<p.index, p.version>>}
      <4>1. assembling[j] \in Transfers
        BY <2>1 DEF WireTypes
      <4> QED BY <2>1, <2>4, <4>1 DEF With, Transfers
    <3>3. a.count = p.count
      BY <1>1, <2>2, <2>4, <3>1, <3>2 DEF OfVersion, SameTransfer
    <3>4. OfVersion(a, v, OnTheWay)
      BY <1>1, <2>2, <3>1, <3>2, <3>3 DEF OfVersion, SameTransfer
    <3>5. SameTransfer(a, p)
      BY <2>4, <3>2 DEF SameTransfer
    <3> QED BY <3>1, <3>4, <3>5
  <2> QED BY <2>3, <2>4
<1>3. CASE ~Begun(p)
  <2>1. a = New(p) \/ \E i \in DOMAIN assembling : a = assembling[i]
    BY <1>3, IngestedNew
  <2>2. CASE a = New(p)
    <3>1. OfVersion(New(p), p.version, OnTheWay)
      BY <1>1 DEF OfVersion, New, Coherent, SameTransfer
    <3>2. SameTransfer(New(p), p)
      BY DEF New, SameTransfer
    <3> QED BY <1>1, <2>2, <3>1, <3>2
  <2>3. ASSUME NEW i \in DOMAIN assembling, a = assembling[i]
        PROVE  ~SameTransfer(a, p) /\ \E v \in Versions : OfVersion(a, v, OnTheWay)
    BY <1>3, <2>3 DEF Begun, Coherent
  <2> QED BY <2>1, <2>2, <2>3
<1> QED BY <1>2, <1>3

\* The piece at the head of the queue extends the youngest transfer, which has
\* all pieces up to it, and no other transfer.
LEMMA IngestedLast ==
  ASSUME WireTypes, Coherent(assembling, OnTheWay),
         Fresh(queue, sending, assembling), Contiguous(queue, assembling), queue # <<>>,
         queue[1] \in WirePieces, queue[1].count > 1
  PROVE  LET p == queue[1]
             after == Ingested(p)
         IN  /\ after \in Seq(Transfers) /\ after # <<>> /\ Len(after) <= MaxIncomplete
             /\ SameTransfer(after[Len(after)], p)
             /\ after[Len(after)].parts = (1 .. p.index) \X {p.version}
             /\ \A j \in DOMAIN after : SameTransfer(after[j], p) => j = Len(after)
<1> DEFINE p == queue[1]
           after == Ingested(p)
<1>1. /\ p \in WirePieces /\ p.id > 0 /\ p.index \in 1 .. p.count /\ p.count \in Nat /\ Carried(p)
      /\ p.index \in Nat
  BY DEF WirePieces, Carried
<1>2. 1 \in DOMAIN queue /\ p \in OnTheWay
  BY <1>1 DEF WireTypes, OnTheWay, Live, ToSet
<1> HIDE DEF p
<1>3. CASE p.index = 1
  <2>1. ~Begun(p)
    BY <1>1, <1>2, <1>3 DEF Fresh, Starts, Begun, OnTheWay
  <2>2. /\ after \in Seq(Transfers) /\ after # <<>> /\ Len(after) <= MaxIncomplete
        /\ after[Len(after)] = New(p)
        /\ \A j \in DOMAIN after : j # Len(after) =>
             \E i \in DOMAIN assembling : after[j] = assembling[i]
    BY <1>1, <2>1, IngestedNew
  <2>3. SameTransfer(New(p), p) /\ New(p).parts = (1 .. p.index) \X {p.version}
    BY <1>3 DEF New, SameTransfer
  <2> QED BY <2>1, <2>2, <2>3 DEF Begun, p
<1>4. CASE p.index > 1
  <2>1. Assembled(p, assembling)
    <3>1. Follows(p, queue, 0, assembling)
      BY <1>1, <1>2 DEF Contiguous, p
    <3> QED BY <1>4, <3>1 DEF Follows, After
  <2> DEFINE n == Len(assembling)
             a == assembling[n]
  <2>2. assembling \in Seq(Transfers) /\ n \in Nat \ {0} /\ DOMAIN assembling = 1..n
        /\ n <= MaxIncomplete /\ a \in Transfers
    BY <2>1 DEF WireTypes, Assembled
  <2>3. /\ SameTransfer(a, p) /\ a.parts = (1 .. p.index - 1) \X {p.version}
        /\ \A j \in DOMAIN assembling : SameTransfer(assembling[j], p) => j = n
    BY <2>1 DEF Assembled
  <2>4. Begun(p)
    BY <2>2, <2>3 DEF Begun
  <2>5. /\ after \in Seq(Transfers) /\ DOMAIN after = DOMAIN assembling /\ Len(after) = n
        /\ \A j \in DOMAIN assembling :
             after[j] = IF SameTransfer(assembling[j], p) THEN With(assembling[j], p)
                                                          ELSE assembling[j]
    BY <1>1, <2>4, IngestedOld
  <2>6. after[n] = With(a, p)
    BY <2>2, <2>3, <2>5
  <2> HIDE DEF n, a, after
  <2>7. SameTransfer(With(a, p), p) /\ With(a, p).parts = a.parts \union {<<p.index, p.version>>}
    BY <2>2, <2>3 DEF With, SameTransfer, Transfers
  <2>8. (1 .. p.index - 1) \X {p.version} \union {<<p.index, p.version>>}
          = (1 .. p.index) \X {p.version}
    BY <1>1
  <2>9. \A j \in DOMAIN after : SameTransfer(after[j], p) => j = n
    BY <2>3, <2>5
  <2>10. /\ after \in Seq(Transfers) /\ after # <<>> /\ Len(after) <= MaxIncomplete
         /\ SameTransfer(after[n], p) /\ after[n].parts = (1 .. p.index) \X {p.version}
    BY <2>2, <2>3, <2>5, <2>6, <2>7, <2>8
  <2> QED BY <2>5, <2>9, <2>10 DEF after, p
<1> QED BY <1>1, <1>3, <1>4 DEF p

\* What a step of the loop that takes an item does with it: a message all of
\* whose pieces are in is shown.
Shows(p) == have' = [have EXCEPT ![p.key] = p.version]
Removed(p) == \E j \in DOMAIN Ingested(p) : assembling' = RemoveAt(Ingested(p), j)

LEMMA Delivered ==
  ASSUME WireInv, Drain, queue # <<>>
  PROVE  LET p == queue[1]
         IN  \/ ~Carried(p) /\ UNCHANGED <<have, assembling>>
             \/ p \in WirePieces /\ p.count = 1 /\ Shows(p) /\ UNCHANGED assembling
             \/ /\ p \in WirePieces /\ p.count > 1 /\ ~IsLast(p)
                /\ UNCHANGED have /\ assembling' = Ingested(p)
             \/ p \in WirePieces /\ p.count > 1 /\ IsLast(p) /\ Shows(p) /\ Removed(p)
<1> DEFINE p == queue[1]
<1>1. p = Head(queue) /\ p \in Items /\ 1 \in DOMAIN queue
  BY DEF WireInv, WireTypes
<1>2. DeliverWhole(p) \/ DeliverPiece(p) \/ DeliverNotice(p) \/ DeliverAck(p)
  BY <1>1 DEF Drain
<1> HIDE DEF p
<1>3. ~Carried(Notice) /\ ~Carried(Ack)
  BY ControlItems
<1>4. CASE DeliverWhole(p)
  <2>1. p \in WirePieces
    BY <1>1, <1>3, <1>4 DEF DeliverWhole, Items, Carried
  <2> QED BY <1>4, <2>1 DEF DeliverWhole, Shows, p
<1>5. CASE DeliverPiece(p)
  <2>1. p \in WirePieces /\ p.count > 1 /\ p \in OnTheWay
    <3>1. p \in WirePieces /\ p.count > 1 /\ Carried(p)
      BY <1>1, <1>3, <1>5 DEF DeliverPiece, Items, Carried
    <3>2. p \in ToSet(queue)
      BY <1>1 DEF ToSet, p
    <3> QED BY <3>1, <3>2 DEF OnTheWay, Live
  <2> DEFINE after == Ingested(p)
             n     == Len(after)
             done  == {j \in DOMAIN after : SameTransfer(after[j], p) /\ Complete(after[j])}
  <2>2. /\ after \in Seq(Transfers) /\ after # <<>>
        /\ SameTransfer(after[n], p) /\ after[n].parts = (1 .. p.index) \X {p.version}
        /\ \A j \in DOMAIN after : SameTransfer(after[j], p) => j = n
    BY <2>1, IngestedLast DEF WireInv, Stream, p
  <2>3. n \in DOMAIN after /\ after[n] \in Transfers
    BY <2>2
  <2>4. OfVersion(after[n], p.version, OnTheWay)
    BY <2>1, <2>2, <2>3, IngestedVersions DEF WireInv, Stream
  <2>5. Complete(after[n]) <=> IsLast(p)
    <3>1. after[n].count = p.count
      BY <2>1, <2>2, <2>4 DEF OfVersion, SameTransfer, WirePieces
    <3>2. Complete(after[n]) <=> p.index = after[n].count
      BY <2>1, <2>2, CompleteParts DEF WirePieces
    <3> QED BY <3>1, <3>2 DEF IsLast
  <2>6. /\ p.key \in CacheKeys /\ p.version \in Versions
    BY <2>1 DEF WirePieces
  <2>7. CASE ~IsLast(p)
    <3>1. done = {}
      BY <2>2, <2>5, <2>7
    <3>2. assembling' = after /\ UNCHANGED have
      BY <1>5, <3>1 DEF DeliverPiece
    <3> QED BY <2>1, <2>7, <3>2 DEF p
  <2>8. CASE IsLast(p)
    <3>1. done = {n}
      BY <2>2, <2>3, <2>5, <2>8
    <3>2. have' = [have EXCEPT ![p.key] = VersionOf(after[n])] /\ assembling' = RemoveAt(after, n)
      BY <1>5, <3>1 DEF DeliverPiece
    <3>3. VersionOf(after[n]) = p.version
      BY <2>3, <2>4, <2>5, <2>6, <2>8, WholeVersion DEF OfVersion
    <3> QED BY <2>1, <2>3, <2>8, <3>2, <3>3 DEF Shows, Removed, p
  <2> QED BY <2>7, <2>8
<1>6. CASE DeliverNotice(p)
  <2>1. ~Carried(p) /\ UNCHANGED <<have, assembling>>
    BY <1>3, <1>6 DEF DeliverNotice
  <2> QED BY <2>1 DEF p
<1>7. CASE DeliverAck(p)
  <2>1. ~Carried(p) /\ UNCHANGED <<have, assembling>>
    BY <1>3, <1>7 DEF DeliverAck, client
  <2> QED BY <2>1 DEF p
<1> QED BY <1>2, <1>4, <1>5, <1>6, <1>7

-----------------------------------------------------------------------------
(* What keeps the stream of pieces in order. *)

LEMMA Appended ==
  ASSUME NEW q \in Seq(Items), NEW x \in Items
  PROVE  LET r == Append(q, x)
             n == Len(q)
         IN  /\ r \in Seq(Items) /\ n \in Nat /\ DOMAIN q = 1..n
             /\ DOMAIN r = 1 .. n + 1 /\ Len(r) = n + 1
             /\ (\A j \in 1..n : r[j] = q[j]) /\ r[n + 1] = x
             /\ \A j \in 1 .. n + 1 : j \in 1..n \/ j = n + 1
             /\ ToSet(r) = ToSet(q) \union {x}
<1> DEFINE r == Append(q, x)
           n == Len(q)
<1>1. /\ r \in Seq(Items) /\ n \in Nat /\ DOMAIN q = 1..n
      /\ DOMAIN r = 1 .. n + 1 /\ Len(r) = n + 1
      /\ (\A j \in 1..n : r[j] = q[j]) /\ r[n + 1] = x
      /\ \A j \in 1 .. n + 1 : j \in 1..n \/ j = n + 1
  OBVIOUS
<1> HIDE DEF r, n
<1>2. n + 1 \in 1 .. n + 1 /\ \A j \in 1..n : j \in 1 .. n + 1
  BY <1>1
<1>3. ToSet(r) = ToSet(q) \union {x}
  BY <1>1, <1>2 DEF ToSet
<1> QED BY <1>1, <1>3 DEF r, n

LEMMA FollowsAppended ==
  ASSUME NEW q \in Seq(Items), NEW x \in Items, NEW p, NEW asm
  PROVE  /\ \A n \in 0 .. Len(q) : Follows(p, Append(q, x), n, asm) <=> Follows(p, q, n, asm)
         /\ ~Carried(x) /\ Follows(p, q, Len(q), asm)
              => Follows(p, Append(q, x), Len(q) + 1, asm)
<1> DEFINE r == Append(q, x)
           n == Len(q)
<1>1. /\ n \in Nat /\ (\A j \in 1..n : r[j] = q[j]) /\ r[n + 1] = x
      /\ \A j \in 1 .. n + 1 : j \in 1..n \/ j = n + 1
  BY Appended
<1> HIDE DEF r, n
<1>2. ASSUME NEW m \in 0..n PROVE Follows(p, r, m, asm) <=> Follows(p, q, m, asm)
  <2>1. \A l \in 1..m : r[l] = q[l]
    BY <1>1
  <2>2. \A l \in 1..m : \A i \in l + 1 .. m : r[i] = q[i]
    BY <1>1
  <2> QED BY <2>1, <2>2 DEF Follows, After
<1>3. ASSUME ~Carried(x), Follows(p, q, n, asm), p.index > 1 PROVE Follows(p, r, n + 1, asm)
  <2>1. ASSUME NEW l \in 1..n, q[l] = [p EXCEPT !.index = @ - 1],
               \A m \in l + 1 .. n : ~Carried(q[m])
        PROVE  After(p, r, n + 1)
    <3>1. \A m \in l + 1 .. n + 1 : (m \in l + 1 .. n /\ m \in 1..n) \/ m = n + 1
      BY <1>1
    <3>2. \A m \in l + 1 .. n + 1 : ~Carried(r[m])
      BY <1>1, <1>3, <2>1, <3>1
    <3>3. l \in 1 .. n + 1 /\ r[l] = q[l]
      BY <1>1
    <3> QED BY <2>1, <3>2, <3>3 DEF After
  <2>2. ASSUME \A m \in 1..n : ~Carried(q[m]), Assembled(p, asm)
        PROVE  Follows(p, r, n + 1, asm)
    BY <1>1, <1>3, <2>2 DEF Follows
  <2> QED BY <1>3, <2>1, <2>2 DEF Follows, After
<1>4. ~Carried(x) /\ Follows(p, q, n, asm) => Follows(p, r, n + 1, asm)
  BY <1>3 DEF Follows
<1> QED BY <1>2, <1>4 DEF r, n

LEMMA ContiguousAppended ==
  ASSUME NEW q \in Seq(Items), NEW x \in Items, NEW asm, Contiguous(q, asm),
         Carried(x) => Follows(x, q, Len(q), asm)
  PROVE  Contiguous(Append(q, x), asm)
<1> DEFINE r == Append(q, x)
           n == Len(q)
<1>1. /\ n \in Nat /\ DOMAIN q = 1..n /\ (\A j \in 1..n : r[j] = q[j]) /\ r[n + 1] = x
      /\ DOMAIN r = 1 .. n + 1 /\ \A j \in 1 .. n + 1 : j \in 1..n \/ j = n + 1
  BY Appended
<1>2. \A p : \A m \in 0..n : Follows(p, r, m, asm) <=> Follows(p, q, m, asm)
  BY FollowsAppended
<1> HIDE DEF r, n
<1>3. ASSUME NEW j \in 1..n, Carried(q[j]) PROVE Follows(q[j], r, j - 1, asm)
  <2>1. j - 1 \in 0..n
    BY <1>1
  <2> QED BY <1>1, <1>2, <1>3, <2>1 DEF Contiguous
<1>4. Carried(x) => Follows(x, r, n, asm)
  BY <1>1, <1>2 DEF n
<1>5. (n + 1) - 1 = n
  BY <1>1
<1>6. ASSUME NEW j \in DOMAIN r, Carried(r[j]) PROVE Follows(r[j], r, j - 1, asm)
  BY <1>1, <1>3, <1>4, <1>5, <1>6
<1> QED BY <1>6 DEF Contiguous, r

LEMMA SettledAppended ==
  ASSUME NEW q \in Seq(Items), NEW x \in Items, NEW due, NEW shown, NEW new,
         Settled(q, due, shown),
         \A k \in CacheKeys : new[k] = IF Ends(x, k) THEN x.version ELSE due[k]
  PROVE  Settled(Append(q, x), new, shown)
<1> DEFINE r == Append(q, x)
           n == Len(q)
<1>1. /\ n \in Nat /\ DOMAIN q = 1..n /\ (\A j \in 1..n : r[j] = q[j]) /\ r[n + 1] = x
      /\ DOMAIN r = 1 .. n + 1 /\ Len(r) = n + 1
      /\ \A j \in 1 .. n + 1 : j \in 1..n \/ j = n + 1
  BY Appended
<1> HIDE DEF r
<1> SUFFICES ASSUME NEW k \in CacheKeys
             PROVE  \/ (\A j \in DOMAIN r : ~Ends(r[j], k)) /\ new[k] = shown[k]
                    \/ \E j \in DOMAIN r : /\ Ends(r[j], k) /\ new[k] = r[j].version
                                           /\ \A l \in j + 1 .. Len(r) : ~Ends(r[l], k)
  BY DEF Settled, r
<1>2. CASE Ends(x, k)
  <2>1. n + 1 \in DOMAIN r /\ Ends(r[n + 1], k) /\ new[k] = r[n + 1].version
    BY <1>1, <1>2
  <2>2. \A l \in (n + 1) + 1 .. Len(r) : FALSE
    BY <1>1
  <2> QED BY <2>1, <2>2
<1>3. CASE ~Ends(x, k) /\ (\A j \in DOMAIN q : ~Ends(q[j], k)) /\ due[k] = shown[k]
  <2>1. \A j \in DOMAIN r : ~Ends(r[j], k)
    BY <1>1, <1>3
  <2> QED BY <1>3, <2>1
<1>4. ASSUME ~Ends(x, k), NEW j \in DOMAIN q, Ends(q[j], k), due[k] = q[j].version,
             \A l \in j + 1 .. n : ~Ends(q[l], k)
      PROVE  \E i \in DOMAIN r : /\ Ends(r[i], k) /\ new[k] = r[i].version
                                 /\ \A l \in i + 1 .. Len(r) : ~Ends(r[l], k)
  <2> HIDE DEF n
  <2>1. \A l \in j + 1 .. n + 1 : (l \in j + 1 .. n /\ l \in 1..n) \/ l = n + 1
    BY <1>1
  <2>2. \A l \in j + 1 .. Len(r) : ~Ends(r[l], k)
    BY <1>1, <1>4, <2>1
  <2>3. j \in DOMAIN r /\ r[j] = q[j] /\ new[k] = due[k]
    BY <1>1, <1>4
  <2> QED BY <1>4, <2>2, <2>3
<1> QED BY <1>2, <1>3, <1>4 DEF Settled

\* A notice or an answer at the end of the queue changes nothing.
LEMMA ControlPushed ==
  ASSUME WireTypes, Stream, NEW x \in {Notice, Ack}, queue' = Append(queue, x),
         UNCHANGED <<newest, have, owed, sending, assembling, subscribed>>
  PROVE  Stream'
<1> DEFINE r == Append(queue, x)
           n == Len(queue)
<1>1. queue \in Seq(Items) /\ x \in Items /\ ~Carried(x)
  BY ControlItems DEF WireTypes, Items
<1>2. /\ n \in Nat /\ DOMAIN queue = 1..n /\ DOMAIN r = 1 .. n + 1 /\ Len(r) = n + 1
      /\ (\A j \in 1..n : r[j] = queue[j]) /\ r[n + 1] = x
      /\ \A j \in 1 .. n + 1 : j \in 1..n \/ j = n + 1
      /\ ToSet(r) = ToSet(queue) \union {x}
  BY <1>1, Appended
<1>3. Contiguous(r, assembling)
  BY <1>1, ContiguousAppended DEF Stream
<1>4. \A p : Follows(p, queue, n, assembling) => Follows(p, r, n + 1, assembling)
  BY <1>1, FollowsAppended
<1>5. Settled(r, owed, have)
  <2>1. \A k \in CacheKeys : ~Ends(x, k)
    BY <1>1 DEF Ends, Carried
  <2> QED BY <1>1, <2>1, SettledAppended DEF Stream
<1> HIDE DEF r, n
<1>6. Continued(r, assembling, sending, subscribed)
  BY <1>2, <1>4 DEF Stream, Continued, n
<1>7. Live(r, sending) = Live(queue, sending)
  BY <1>1, <1>2 DEF Live
<1>8. Bounded(r, sending, newest, have) /\ Ordered(r)
  BY <1>1, <1>2 DEF Stream, Bounded, Ordered
<1>9. Fresh(r, sending, assembling)
  BY <1>1, <1>2, <1>7 DEF Stream, Fresh, StartOnce, Starts
<1>10. Coherent(assembling, Live(r, sending))
  BY <1>7 DEF Stream, OnTheWay
<1> QED BY <1>3, <1>5, <1>6, <1>8, <1>9, <1>10 DEF Stream, OnTheWay, r

LEMMA StreamFrame ==
  ASSUME Stream, UNCHANGED <<newest, have, owed, sending, queue, assembling, subscribed>>
  PROVE  Stream'
BY DEF Stream, OnTheWay

LEMMA CoherentLess ==
  ASSUME NEW asm, NEW live, Coherent(asm, live), NEW less \in SUBSET live
  PROVE  Coherent(asm, less)
<1>1. \A a, v : OfVersion(a, v, live) => OfVersion(a, v, less)
  BY DEF OfVersion
<1> QED BY <1>1 DEF Coherent

\* When a thread has sent, or dropped, the first n of its pieces.
LEMMA RestSent ==
  ASSUME WireTypes, Stream, NEW t \in Threads, NEW n \in 1 .. Len(sending[t]),
         NEW snd, snd = [sending EXCEPT ![t] = SubSeq(sending[t], n + 1, Len(sending[t]))]
  PROVE  /\ snd \in [Threads -> Seq(WirePieces)] /\ \A u \in Threads : Runs(snd[u])
         /\ Live(queue, snd) \subseteq OnTheWay
         /\ Bounded(queue, snd, newest, have)
         /\ Fresh(queue, snd, assembling)
<1> DEFINE s == sending[t]
           r == SubSeq(s, n + 1, Len(s))
<1>1. sending \in [Threads -> Seq(WirePieces)] /\ s \in Seq(WirePieces) /\ Runs(s)
  BY DEF WireTypes, Stream, Continued
<1>2. /\ r \in Seq(WirePieces)
      /\ \A i \in DOMAIN r : i + n \in DOMAIN s /\ r[i] = s[i + n]
      /\ Runs(r)
  BY <1>1, RunsRest
<1>3. snd[t] = r /\ (\A u \in Threads : u # t => snd[u] = sending[u])
      /\ snd \in [Threads -> Seq(WirePieces)]
  BY <1>1, <1>2
<1> HIDE DEF r
<1>4. DOMAIN r = 1 .. Len(r) /\ Len(r) \in Nat /\ DOMAIN s = 1 .. Len(s)
  BY <1>1, <1>2
<1>5. \A u \in Threads : Runs(snd[u])
  BY <1>2, <1>3 DEF Stream, Continued
<1>6. \A u \in Threads : \A i \in DOMAIN snd[u] :
        \E j \in DOMAIN sending[u] : snd[u][i] = sending[u][j]
  BY <1>2, <1>3
<1>7. \A u \in Threads : ToSet(snd[u]) \subseteq ToSet(sending[u])
  BY <1>6 DEF ToSet
<1>8. Live(queue, snd) \subseteq OnTheWay
  BY <1>7 DEF Live, OnTheWay, Threads
<1>9. Bounded(queue, snd, newest, have)
  BY <1>6 DEF Stream, Bounded
<1>10. StartOnce(r)
  <2> SUFFICES ASSUME NEW i \in DOMAIN r, NEW j \in DOMAIN r, i # j, Starts(r[i]), Starts(r[j])
               PROVE  ~SameTransfer(r[i], r[j])
    BY DEF StartOnce
  <2>1. i + n # j + n
    BY <1>4
  <2>2. StartOnce(s)
    BY DEF Stream, Fresh
  <2> QED BY <1>2, <2>1, <2>2 DEF StartOnce
<1>11. Fresh(queue, snd, assembling)
  <2>1. StartOnce(queue) /\ \A u \in Threads : StartOnce(snd[u])
    BY <1>3, <1>10 DEF Stream, Fresh
  <2>2. \A u \in Threads : \A i \in DOMAIN queue, j \in DOMAIN snd[u] :
          Starts(queue[i]) /\ Starts(snd[u][j]) => ~SameTransfer(queue[i], snd[u][j])
    <3> SUFFICES ASSUME NEW u \in Threads, NEW i \in DOMAIN queue, NEW j \in DOMAIN snd[u],
                        Starts(queue[i]), Starts(snd[u][j])
                 PROVE  ~SameTransfer(queue[i], snd[u][j])
      OBVIOUS
    <3>1. PICK l \in DOMAIN sending[u] : snd[u][j] = sending[u][l]
      BY <1>6
    <3> QED BY <3>1 DEF Stream, Fresh
  <2>3. \A p \in Live(queue, snd), j \in DOMAIN assembling :
          Starts(p) => ~SameTransfer(assembling[j], p)
    BY <1>8 DEF Stream, Fresh, OnTheWay
  <2> QED BY <2>1, <2>2, <2>3 DEF Fresh
<1> QED BY <1>3, <1>5, <1>8, <1>9, <1>11

\* A thread that pushes: the piece is queued, its message dropped, or, when the
\* connection is gone, everything is.
LEMMA Pushed ==
  ASSUME WireInv, NEW t \in Threads, sending[t] # <<>>, PushNext(t),
         UNCHANGED <<newest, have, assembling, subscribed>>
  PROVE  /\ Stream' /\ sending' \in [Threads -> Seq(WirePieces)]
         /\ queue' \in Seq(Items) /\ Len(queue') <= Bound
         /\ owed' \in [CacheKeys -> 0..MaxVersion]
         /\ \A u \in Threads : u # t => sending'[u] = sending[u]
         /\ ~subscribed => queue' = queue /\ owed' = owed
<1> DEFINE s == sending[t]
           p == s[1]
           n == Len(queue)
<1>1. /\ sending \in [Threads -> Seq(WirePieces)] /\ s \in Seq(WirePieces) /\ p \in WirePieces
      /\ Len(s) \in Nat \ {0} /\ p = Head(s) /\ queue \in Seq(Items) /\ n \in Nat
      /\ n <= Bound /\ owed \in [CacheKeys -> 0..MaxVersion] /\ 1 \in DOMAIN s /\ p \in Items
  BY DEF WireInv, WireTypes, Items
<1>2. /\ Bounded(queue, sending, newest, have) /\ Ordered(queue)
      /\ Coherent(assembling, OnTheWay) /\ Fresh(queue, sending, assembling)
      /\ Contiguous(queue, assembling) /\ Continued(queue, assembling, sending, subscribed)
      /\ Settled(queue, owed, have) /\ Runs(s)
  BY DEF WireInv, Stream, Continued
<1>3. Carried(p) /\ p.version \in Versions /\ p.key \in CacheKeys
  BY <1>1 DEF WirePieces, Carried
<1>4. CASE ~subscribed
  <2>1. sending' = [sending EXCEPT ![t] = <<>>] /\ UNCHANGED <<queue, owed>>
    BY <1>4 DEF PushNext
  <2>2. SubSeq(s, Len(s) + 1, Len(s)) = <<>> /\ Len(s) \in 1 .. Len(s)
    BY <1>1
  <2>3. /\ sending' \in [Threads -> Seq(WirePieces)] /\ \A u \in Threads : Runs(sending'[u])
        /\ Live(queue, sending') \subseteq OnTheWay
        /\ Bounded(queue, sending', newest, have)
        /\ Fresh(queue, sending', assembling)
    BY <2>1, <2>2, RestSent DEF WireInv
  <2>4. Coherent(assembling, Live(queue, sending'))
    BY <1>2, <2>3, CoherentLess
  <2>5. Continued(queue, assembling, sending', subscribed)
    BY <1>4, <2>3 DEF Continued
  <2>6. Stream'
    BY <1>2, <2>1, <2>3, <2>4, <2>5 DEF Stream, OnTheWay
  <2>7. \A u \in Threads : u # t => sending'[u] = sending[u]
    BY <1>1, <2>1
  <2> QED BY <1>1, <2>1, <2>3, <2>6, <2>7
<1>5. CASE subscribed /\ ~(n < Bound)
  <2>1. sending' = [sending EXCEPT ![t] = DropMessage(s)] /\ UNCHANGED <<queue, owed>>
    BY <1>5 DEF PushNext
  <2>2. PICK m \in 1 .. Len(s) : /\ DropMessage(s) = SubSeq(s, m + 1, Len(s))
                                 /\ m < Len(s) => s[m + 1].index = 1
    BY <1>1, <1>2, DropFacts
  <2>3. /\ sending' \in [Threads -> Seq(WirePieces)] /\ \A u \in Threads : Runs(sending'[u])
        /\ Live(queue, sending') \subseteq OnTheWay
        /\ Bounded(queue, sending', newest, have)
        /\ Fresh(queue, sending', assembling)
    BY <2>1, <2>2, RestSent DEF WireInv
  <2>4. Coherent(assembling, Live(queue, sending'))
    BY <1>2, <2>3, CoherentLess
  <2>5. sending'[t] # <<>> => sending'[t][1].index = 1
    <3>1. sending'[t] = SubSeq(s, m + 1, Len(s))
      BY <1>1, <2>1, <2>2
    <3>2. ASSUME SubSeq(s, m + 1, Len(s)) # <<>>
          PROVE  m < Len(s) /\ SubSeq(s, m + 1, Len(s))[1] = s[m + 1]
      BY <1>1, <3>2
    <3> QED BY <2>2, <3>1, <3>2
  <2>6. \A u \in Threads : u # t => sending'[u] = sending[u]
    BY <1>1, <2>1
  <2>7. Continued(queue, assembling, sending', subscribed)
    BY <1>2, <2>3, <2>5, <2>6 DEF Continued, Follows
  <2>8. Stream'
    BY <1>2, <2>1, <2>3, <2>4, <2>7 DEF Stream, OnTheWay
  <2> QED BY <1>1, <1>5, <2>1, <2>3, <2>6, <2>8
<1>6. CASE subscribed /\ n < Bound
  <2> DEFINE q == Append(queue, p)
  <2>1. sending' = [sending EXCEPT ![t] = Tail(s)] /\ queue' = q /\ owed' = Owed(owed, <<p>>)
    BY <1>1, <1>6 DEF PushNext
  <2>2. Tail(s) = SubSeq(s, 1 + 1, Len(s)) /\ 1 \in 1 .. Len(s)
    BY <1>1
  <2>3. /\ sending' \in [Threads -> Seq(WirePieces)] /\ \A u \in Threads : Runs(sending'[u])
        /\ Live(queue, sending') \subseteq OnTheWay
        /\ Bounded(queue, sending', newest, have)
        /\ Fresh(queue, sending', assembling)
    BY <2>1, <2>2, RestSent DEF WireInv
  <2>4. /\ q \in Seq(Items) /\ DOMAIN queue = 1..n /\ DOMAIN q = 1 .. n + 1 /\ Len(q) = n + 1
        /\ (\A j \in 1..n : q[j] = queue[j]) /\ q[n + 1] = p
        /\ \A j \in 1 .. n + 1 : j \in 1..n \/ j = n + 1
        /\ ToSet(q) = ToSet(queue) \union {p}
    BY <1>1, Appended
  <2> HIDE DEF q
  <2>5. \A u \in Threads : u # t => sending'[u] = sending[u]
    BY <1>1, <2>1
  <2>6. \A j \in DOMAIN sending'[t] : j + 1 \in DOMAIN s /\ sending'[t][j] = s[j + 1]
    BY <1>1, <2>1
  <2>7. p \in OnTheWay
    BY <1>1, <1>3 DEF OnTheWay, Live, ToSet, Threads
  <2>8. Live(q, sending') \subseteq OnTheWay
    BY <2>3, <2>4, <2>7 DEF Live
  <2>9. Coherent(assembling, Live(q, sending'))
    BY <1>2, <2>8, CoherentLess
  <2>10. p.version = newest[p.key] /\ have[p.key] <= newest[p.key]
    BY <1>1, <1>3, <1>2 DEF Bounded
  <2>11. newest[p.key] \in Nat /\ have[p.key] \in Nat
    BY <1>3 DEF WireInv, WireTypes
  <2>12. Bounded(q, sending', newest, have)
    BY <1>3, <2>3, <2>4, <2>10, <2>11 DEF Bounded
  <2>13. Ordered(q)
    <3> SUFFICES ASSUME NEW i \in DOMAIN q, NEW j \in DOMAIN q, i <= j,
                        Carried(q[i]), Carried(q[j]), q[i].key = q[j].key
                 PROVE  q[i].version <= q[j].version
      BY DEF Ordered
    <3>1. CASE i \in 1..n /\ j \in 1..n
      BY <1>2, <2>4, <3>1 DEF Ordered
    <3>2. CASE i \in 1..n /\ j = n + 1
      BY <1>2, <2>4, <2>10, <3>2 DEF Bounded
    <3>3. CASE i = n + 1
      BY <1>1, <2>4, <2>10, <2>11, <3>3
    <3> QED BY <2>4, <3>1, <3>2, <3>3
  <2>14. Fresh(q, sending', assembling)
    <3>1. StartOnce(q)
      <4> SUFFICES ASSUME NEW i \in DOMAIN q, NEW j \in DOMAIN q, i # j, Starts(q[i]), Starts(q[j])
                   PROVE  ~SameTransfer(q[i], q[j])
        BY DEF StartOnce
      <4>1. CASE i \in 1..n /\ j \in 1..n
        BY <1>2, <2>4, <4>1 DEF Fresh, StartOnce
      <4>2. CASE i \in 1..n /\ j = n + 1
        BY <1>1, <1>2, <2>4, <4>2 DEF Fresh
      <4>3. CASE i = n + 1 /\ j \in 1..n
        BY <1>1, <1>2, <2>4, <4>3 DEF Fresh, SameTransfer
      <4> QED BY <2>4, <4>1, <4>2, <4>3
    <3>2. ASSUME NEW u \in Threads, NEW i \in DOMAIN q, NEW j \in DOMAIN sending'[u],
                 Starts(q[i]), Starts(sending'[u][j])
          PROVE  ~SameTransfer(q[i], sending'[u][j])
      <4>1. CASE i \in 1..n
        BY <2>3, <2>4, <3>2, <4>1 DEF Fresh
      <4>2. CASE i = n + 1 /\ u = t
        <5>1. j + 1 \in DOMAIN s /\ sending'[t][j] = s[j + 1] /\ j + 1 # 1
          BY <1>1, <2>6, <4>2, <2>3
        <5> QED BY <1>1, <1>2, <2>4, <3>2, <4>2, <5>1 DEF Fresh, StartOnce
      <4>3. CASE i = n + 1 /\ u # t
        <5>1. sending[u] = <<>>
          BY <3>2, <4>3 DEF WireInv, Locked, Threads
        <5> QED BY <2>5, <4>3, <5>1
      <4> QED BY <2>4, <4>1, <4>2, <4>3
    <3>3. \A x \in Live(q, sending'), j \in DOMAIN assembling :
            Starts(x) => ~SameTransfer(assembling[j], x)
      BY <1>2, <2>8 DEF Fresh, OnTheWay
    <3>4. \A u \in Threads : StartOnce(sending'[u])
      BY <2>3 DEF Fresh
    <3> QED BY <3>1, <3>2, <3>3, <3>4 DEF Fresh
  <2>15. Contiguous(q, assembling)
    <3>1. Follows(p, queue, n, assembling)
      BY <1>2, <1>6 DEF Continued
    <3> QED BY <1>1, <1>2, <3>1, ContiguousAppended DEF q
  <2>16. Continued(q, assembling, sending', subscribed)
    <3> SUFFICES ASSUME NEW u \in Threads, sending'[u] # <<>>
                 PROVE  Follows(sending'[u][1], q, Len(q), assembling)
      BY <2>3 DEF Continued
    <3>1. u = t
      BY <2>5 DEF WireInv, Locked, Threads
    <3>2. 1 \in DOMAIN sending'[t]
      BY <2>3, <3>1
    <3>3. sending'[t][1] = s[2] /\ 2 \in DOMAIN s
      BY <2>6, <3>2
    <3>4. s[2].index > 1 => p = [s[2] EXCEPT !.index = @ - 1]
      BY <1>2, <3>3 DEF Runs
    <3>5. s[2].index > 1 => After(s[2], q, n + 1)
      <4>1. n + 1 \in 1 .. n + 1 /\ \A m \in (n + 1) + 1 .. n + 1 : FALSE
        BY <1>1
      <4> QED BY <2>4, <3>4, <4>1 DEF After
    <3> QED BY <2>4, <3>1, <3>3, <3>5 DEF Follows
  <2>17. \A k \in CacheKeys : owed'[k] = IF Ends(p, k) THEN p.version ELSE owed[k]
    <3>1. ToSet(<<p>>) = {p}
      BY DEF ToSet
    <3>2. (CHOOSE x \in {p} : Ends(x, p.key)) = p \/ ~Ends(p, p.key)
      OBVIOUS
    <3>3. Owed(owed, <<p>>) = [k \in CacheKeys |->
            IF \E x \in {p} : x.key = k /\ IsLast(x)
            THEN (CHOOSE x \in {p} : x.key = k /\ IsLast(x)).version ELSE owed[k]]
      BY <3>1, Zenon DEF Owed
    <3>4. ASSUME NEW k \in CacheKeys, p.key = k, IsLast(p)
          PROVE  (CHOOSE x \in {p} : x.key = k /\ IsLast(x)) = p
      BY <3>4
    <3> QED BY <2>1, <3>3, <3>4 DEF Ends
  <2>18. Settled(q, owed', have)
    BY <1>1, <1>2, <2>17, SettledAppended DEF q
  <2>19. Stream'
    BY <2>1, <2>9, <2>12, <2>13, <2>14, <2>15, <2>16, <2>18 DEF Stream, OnTheWay
  <2>20. owed' \in [CacheKeys -> 0..MaxVersion]
    <3>1. owed' = [k \in CacheKeys |-> owed'[k]]
      BY <2>1 DEF Owed
    <3>2. \A k \in CacheKeys : owed'[k] \in 0..MaxVersion
      BY <1>1, <1>3, <2>17, WireNumbers DEF Versions
    <3> QED BY <3>1, <3>2
  <2>21. Len(q) <= Bound
    BY <1>1, <1>6, <2>4, WireNumbers
  <2> QED BY <1>6, <2>1, <2>3, <2>4, <2>5, <2>19, <2>20, <2>21
<1> QED BY <1>4, <1>5, <1>6

LEMMA OnTheWayInUse ==
  /\ \A x \in OnTheWay : x.key \in CacheKeys /\ x.id \in InUse(x.key)
  /\ \A j \in DOMAIN assembling : assembling[j].id \in InUse(assembling[j].key)
<1>1. \A j \in DOMAIN assembling : assembling[j] \in ToSet(assembling)
  BY DEF ToSet
<1> QED BY <1>1 DEF OnTheWay, Live, Carried, InUse

\* Who has the lock and nothing to send yet puts whole messages of the newest
\* versions before its queue, each with a fresh id.
LEMMA SendingStarts ==
  ASSUME WireInv, holder = "none", NEW t \in Threads, NEW s \in Seq(WirePieces),
         newest' \in [CacheKeys -> 0..MaxVersion], \A k \in CacheKeys : newest[k] <= newest'[k],
         Runs(s), s # <<>> => s[1].index = 1,
         \A i \in DOMAIN s : /\ s[i].version = newest'[s[i].key]
                             /\ s[i].id > 0 => s[i].id = FreshId(s[i].key),
         \A i, j \in DOMAIN s :
           i # j /\ s[i].index = 1 /\ s[j].index = 1 => s[i].key # s[j].key,
         sending' = [sending EXCEPT ![t] = s],
         UNCHANGED <<queue, assembling, have, owed, subscribed>>
  PROVE  Stream' /\ sending' \in [Threads -> Seq(WirePieces)]
<1>1. /\ Bounded(queue, sending, newest, have) /\ Ordered(queue)
      /\ Coherent(assembling, OnTheWay) /\ Fresh(queue, sending, assembling)
      /\ Contiguous(queue, assembling) /\ Continued(queue, assembling, sending, subscribed)
      /\ Settled(queue, owed, have) /\ WireTypes
  BY DEF WireInv, Stream
<1>2. \A u \in Threads : sending[u] = <<>>
  BY DEF WireInv, Locked, Threads
<1>3. /\ sending' \in [Threads -> Seq(WirePieces)]
      /\ sending'[t] = s /\ \A u \in Threads : u # t => sending'[u] = <<>>
  BY <1>1, <1>2 DEF WireTypes
<1>4. \A i \in DOMAIN s : /\ s[i] \in WirePieces /\ s[i].key \in CacheKeys /\ s[i].id \in Nat
                          /\ s[i].version \in Versions
  BY DEF WirePieces
<1>5. ASSUME NEW i \in DOMAIN s, s[i].id > 0 PROVE s[i].id \notin InUse(s[i].key)
  BY <1>1, <1>4, <1>5, FreshIds
<1>6. ASSUME NEW x, x \in Live(queue, sending')
      PROVE  x \in OnTheWay \/ \E i \in DOMAIN s : x = s[i]
  <2>1. \A u \in Threads : u # t => ToSet(sending'[u]) = {}
    BY <1>3 DEF ToSet
  <2>2. ToSet(sending'[t]) = {s[i] : i \in DOMAIN s}
    BY <1>3 DEF ToSet
  <2> QED BY <1>6, <2>1, <2>2 DEF Live, OnTheWay, Threads
<1>7. ASSUME NEW i \in DOMAIN s, NEW x \in OnTheWay, s[i].id > 0
      PROVE  ~SameTransfer(s[i], x) /\ ~SameTransfer(x, s[i])
  BY <1>5, <1>7, OnTheWayInUse DEF SameTransfer
<1>8. ASSUME NEW i \in DOMAIN s, NEW j \in DOMAIN assembling, assembling[j].id > 0
      PROVE  ~SameTransfer(assembling[j], s[i])
  BY <1>5, <1>8, OnTheWayInUse DEF SameTransfer
<1>9. Bounded(queue, sending', newest', have)
  <2>1. \A k \in CacheKeys : newest[k] \in Nat /\ newest'[k] \in Nat /\ have[k] \in Nat
    BY <1>1 DEF WireTypes
  <2>2. \A j \in DOMAIN queue : Carried(queue[j]) =>
          queue[j].key \in CacheKeys /\ queue[j].version \in Nat
    <3>1. \A j \in DOMAIN queue : queue[j] \in Items
      BY <1>1 DEF WireTypes
    <3> QED BY <3>1, ControlItems DEF Items, WirePieces, Versions, Carried
  <2>3. \A u \in Threads : \A j \in DOMAIN sending'[u] :
          sending'[u][j].version = newest'[sending'[u][j].key]
    BY <1>3
  <2>4. \A k \in CacheKeys : have[k] <= newest'[k]
    BY <1>1, <2>1 DEF Bounded
  <2>5. \A j \in DOMAIN queue : Carried(queue[j]) =>
          have[queue[j].key] <= queue[j].version /\ queue[j].version <= newest'[queue[j].key]
    BY <1>1, <2>1, <2>2 DEF Bounded
  <2> QED BY <2>3, <2>4, <2>5 DEF Bounded
<1>10. Coherent(assembling, Live(queue, sending'))
  <2>1. ASSUME NEW x \in Live(queue, sending'), NEW y \in Live(queue, sending'),
               x.id > 0, SameTransfer(x, y)
        PROVE  x.version = y.version
    <3>1. CASE x \in OnTheWay /\ y \in OnTheWay
      BY <1>1, <2>1, <3>1 DEF Coherent
    <3>2. ASSUME NEW i \in DOMAIN s, x = s[i] PROVE y \notin OnTheWay
      BY <1>7, <2>1, <3>2
    <3>3. ASSUME NEW i \in DOMAIN s, y = s[i] PROVE x \notin OnTheWay
      BY <1>7, <2>1, <3>3 DEF SameTransfer
    <3>4. ASSUME NEW i \in DOMAIN s, x = s[i], NEW j \in DOMAIN s, y = s[j]
          PROVE  x.version = y.version
      BY <2>1, <3>4 DEF SameTransfer
    <3> QED BY <1>6, <3>1, <3>2, <3>3, <3>4
  <2>2. ASSUME NEW j \in DOMAIN assembling
        PROVE  \E v \in Versions : OfVersion(assembling[j], v, Live(queue, sending'))
    <3>1. PICK v \in Versions : OfVersion(assembling[j], v, OnTheWay)
      BY <1>1 DEF Coherent
    <3>2. \A x \in Live(queue, sending') : SameTransfer(assembling[j], x) => x.version = v
      BY <1>6, <1>8, <3>1 DEF OfVersion
    <3> QED BY <3>1, <3>2 DEF OfVersion
  <2> QED BY <2>1, <2>2 DEF Coherent
<1>11. Fresh(queue, sending', assembling)
  <2>1. StartOnce(queue)
    BY <1>1 DEF Fresh
  <2>2. \A u \in Threads : StartOnce(sending'[u])
    BY <1>3 DEF StartOnce, Starts, SameTransfer
  <2>3. ASSUME NEW u \in Threads, NEW i \in DOMAIN queue, NEW j \in DOMAIN sending'[u],
               Starts(queue[i]), Starts(sending'[u][j])
        PROVE  ~SameTransfer(queue[i], sending'[u][j])
    <3>1. u = t /\ j \in DOMAIN s /\ sending'[u][j] = s[j]
      BY <1>3
    <3>2. queue[i] \in OnTheWay
      BY <2>3 DEF Starts, OnTheWay, Live, ToSet
    <3> QED BY <1>7, <2>3, <3>1, <3>2 DEF Starts
  <2>4. ASSUME NEW x \in Live(queue, sending'), NEW j \in DOMAIN assembling, Starts(x)
        PROVE  ~SameTransfer(assembling[j], x)
    <3>1. CASE x \in OnTheWay
      BY <1>1, <2>4, <3>1 DEF Fresh, OnTheWay
    <3>2. ASSUME NEW i \in DOMAIN s, x = s[i] PROVE ~SameTransfer(assembling[j], x)
      BY <1>8, <2>4, <3>2 DEF Starts, SameTransfer
    <3> QED BY <1>6, <3>1, <3>2
  <2> QED BY <2>1, <2>2, <2>3, <2>4 DEF Fresh
<1>12. Continued(queue, assembling, sending', subscribed)
  <2>1. Runs(<<>>)
    BY DEF Runs
  <2>2. \A u \in Threads : Runs(sending'[u])
    BY <1>3, <2>1
  <2>3. s # <<>> => Follows(s[1], queue, Len(queue), assembling)
    BY DEF Follows
  <2> QED BY <1>3, <2>2, <2>3 DEF Continued
<1>13. Stream'
  BY <1>1, <1>9, <1>10, <1>11, <1>12 DEF Stream, OnTheWay
<1> QED BY <1>3, <1>13

\* The queue of a new connection holds a beginning of the replay.
LEMMA Connected ==
  ASSUME WireInv, Connect
  PROVE  /\ Stream' /\ queue' \in Seq(Items) /\ Len(queue') <= Bound
         /\ owed' \in [CacheKeys -> 0..MaxVersion]
<1>1. /\ WireTypes /\ queue = <<>> /\ assembling = <<>> /\ have = NoVersions
      /\ \A u \in Threads : sending[u] = <<>>
  BY DEF WireInv, Locked, Threads, Connect
<1>2. /\ UNCHANGED <<newest, sending, have, assembling>>
      /\ queue' = Fitting(Replay) /\ owed' = Owed(NoVersions, queue') /\ subscribed'
  BY DEF Connect, hub, client
<1>3. Replay \in Seq(WirePieces) /\ Replayed(Replay)
  BY <1>1, ReplayFacts
<1> DEFINE r == Replay
           q == Fitting(r)
           n == IF Len(r) < Bound THEN Len(r) ELSE Bound
<1> HIDE DEF r
<1>4. r \in Seq(WirePieces) /\ Replayed(r) /\ Len(r) \in Nat /\ DOMAIN r = 1 .. Len(r)
  BY <1>3 DEF r
<1>5. n \in 0 .. Len(r) /\ n <= Bound /\ q = SubSeq(r, 1, n)
  BY <1>4, WireNumbers DEF Fitting
<1> HIDE DEF n, q
<1>6. /\ q \in Seq(WirePieces) /\ Len(q) = n /\ n \in Nat /\ DOMAIN q = 1..n
      /\ \A i \in 1..n : i \in DOMAIN r /\ q[i] = r[i]
  BY <1>4, <1>5
<1>7. \A i \in DOMAIN q : /\ q[i] \in WirePieces /\ q[i].key \in CacheKeys
                          /\ q[i].version = newest[q[i].key] /\ q[i].version \in Versions
                          /\ newest[q[i].key] \in Nat /\ Carried(q[i])
  <2>1. \A i \in DOMAIN q : q[i] \in WirePieces /\ q[i].version = newest[q[i].key]
    BY <1>4, <1>6 DEF Replayed
  <2> QED BY <1>1, <2>1 DEF WirePieces, WireTypes, Carried
<1>8. \A k \in CacheKeys : have[k] = 0 /\ newest[k] \in Nat /\ have \in [CacheKeys -> 0..MaxVersion]
  BY <1>1 DEF NoVersions, WireTypes
<1>9. Bounded(q, sending, newest, have)
  BY <1>1, <1>7, <1>8 DEF Bounded
<1>10. Ordered(q)
  BY <1>7 DEF Ordered
<1>11. Live(q, sending) = {q[i] : i \in DOMAIN q}
  BY <1>1, <1>7 DEF Live, ToSet, Threads
<1>12. Coherent(assembling, Live(q, sending))
  BY <1>1, <1>7, <1>11 DEF Coherent, SameTransfer
<1>13. Fresh(q, sending, assembling)
  <2>1. StartOnce(q)
    BY <1>4, <1>6 DEF Replayed, StartOnce, Starts, SameTransfer
  <2>2. \A u \in Threads : StartOnce(sending[u])
    BY <1>1 DEF StartOnce
  <2> QED BY <1>1, <2>1, <2>2 DEF Fresh
<1>14. Contiguous(q, assembling)
  <2> SUFFICES ASSUME NEW j \in DOMAIN q, q[j].index > 1 PROVE After(q[j], q, j - 1)
    BY DEF Contiguous, Follows
  <2>1. j > 1 /\ q[j] = r[j] /\ j \in DOMAIN r
    BY <1>4, <1>6 DEF Replayed
  <2>2. r[j - 1] = [q[j] EXCEPT !.index = @ - 1]
    BY <1>4, <2>1 DEF Replayed, Runs
  <2>3. j - 1 \in 1 .. j - 1 /\ q[j - 1] = r[j - 1] /\ \A m \in (j - 1) + 1 .. j - 1 : FALSE
    BY <1>6, <2>1
  <2> QED BY <2>2, <2>3 DEF After
<1>15. Continued(q, assembling, sending, TRUE)
  BY <1>1 DEF Continued, Runs
<1>16. \A k \in CacheKeys :
         owed'[k] = IF \E i \in DOMAIN q : Ends(q[i], k) THEN newest[k] ELSE 0
  <2> TAKE k \in CacheKeys
  <2>1. ToSet(q) = {q[i] : i \in DOMAIN q}
    BY DEF ToSet
  <2>2. owed' = [l \in CacheKeys |->
          IF \E p \in ToSet(q) : p.key = l /\ IsLast(p)
          THEN (CHOOSE p \in ToSet(q) : p.key = l /\ IsLast(p)).version
          ELSE NoVersions[l]]
    BY <1>2 DEF Owed, q, r
  <2>3. owed'[k] = IF \E p \in ToSet(q) : p.key = k /\ IsLast(p)
                   THEN (CHOOSE p \in ToSet(q) : p.key = k /\ IsLast(p)).version ELSE 0
    BY <2>2 DEF NoVersions
  <2>4. ASSUME NEW p \in ToSet(q), p.key = k PROVE p.version = newest[k]
    BY <1>7, <2>1, <2>4
  <2>5. CASE \E p \in ToSet(q) : p.key = k /\ IsLast(p)
    <3> DEFINE c == CHOOSE p \in ToSet(q) : p.key = k /\ IsLast(p)
    <3>1. c \in ToSet(q) /\ c.key = k
      BY <2>5
    <3> QED BY <2>1, <2>3, <2>4, <2>5, <3>1 DEF Ends
  <2>6. CASE ~\E p \in ToSet(q) : p.key = k /\ IsLast(p)
    BY <2>1, <2>3, <2>6 DEF Ends
  <2> QED BY <2>5, <2>6
<1>17. Settled(q, owed', have)
  <2> SUFFICES ASSUME NEW k \in CacheKeys, \E i \in DOMAIN q : Ends(q[i], k)
               PROVE  \E j \in DOMAIN q : /\ Ends(q[j], k) /\ owed'[k] = q[j].version
                                          /\ \A l \in j + 1 .. Len(q) : ~Ends(q[l], k)
    BY <1>8, <1>16 DEF Settled
  <2>1. PICK j \in {i \in 1..n : Ends(q[i], k)} : \A l \in {i \in 1..n : Ends(q[i], k)} : l <= j
    BY <1>6, LastIndex
  <2>2. \A l \in j + 1 .. n : l \in 1..n /\ ~(l <= j)
    BY <1>6
  <2>3. q[j].key = k /\ owed'[k] = q[j].version
    BY <1>6, <1>7, <1>16, <2>1 DEF Ends
  <2> QED BY <1>6, <2>1, <2>2, <2>3
<1>18. owed' \in [CacheKeys -> 0..MaxVersion]
  <2>1. owed' = [k \in CacheKeys |-> owed'[k]]
    BY <1>2 DEF Owed
  <2>2. \A k \in CacheKeys : owed'[k] \in 0..MaxVersion
    <3>1. \A k \in CacheKeys : newest[k] \in 0..MaxVersion
      BY <1>1 DEF WireTypes
    <3> QED BY <1>16, <3>1, WireNumbers
  <2> QED BY <2>1, <2>2
<1>19. queue' = q
  BY <1>2 DEF q, r
<1>20. queue' \in Seq(Items) /\ Len(queue') <= Bound
  BY <1>5, <1>6, <1>19 DEF Items
<1>21. Stream'
  BY <1>2, <1>9, <1>10, <1>12, <1>13, <1>14, <1>15, <1>17, <1>19 DEF Stream, OnTheWay
<1> QED BY <1>18, <1>20, <1>21

-----------------------------------------------------------------------------
(* What the connection loop takes from the queue. *)

LEMMA Taken ==
  ASSUME NEW q \in Seq(Items), q # <<>>
  PROVE  LET r == Tail(q)
             n == Len(r)
         IN  /\ r \in Seq(Items) /\ n \in Nat /\ Len(q) = n + 1
             /\ DOMAIN r = 1..n /\ DOMAIN q = 1 .. n + 1
             /\ (\A j \in 1..n : j + 1 \in DOMAIN q /\ r[j] = q[j + 1])
             /\ \A j \in 1 .. n + 1 : j = 1 \/ (j > 1 /\ j - 1 \in 1..n /\ q[j] = r[j - 1])
             /\ ToSet(r) \subseteq ToSet(q)
<1> DEFINE r == Tail(q)
           n == Len(r)
<1>1. /\ r \in Seq(Items) /\ n \in Nat /\ Len(q) = n + 1
      /\ DOMAIN r = 1..n /\ DOMAIN q = 1 .. n + 1
      /\ \A j \in 1..n : j + 1 \in DOMAIN q /\ r[j] = q[j + 1]
  OBVIOUS
<1> HIDE DEF r, n
<1>2. ASSUME NEW j \in 1 .. n + 1, j # 1
      PROVE  j > 1 /\ j - 1 \in 1..n /\ q[j] = r[j - 1]
  <2>1. j - 1 \in 1..n /\ (j - 1) + 1 = j
    BY <1>1, <1>2
  <2> QED BY <1>1, <2>1
<1>3. ToSet(r) \subseteq ToSet(q)
  BY <1>1 DEF ToSet
<1> QED BY <1>1, <1>2, <1>3 DEF r, n

\* What followed the item that is taken follows the same piece still, or, if
\* that piece was the item, what the client has assembled with it.
LEMMA FollowsTaken ==
  ASSUME NEW q \in Seq(Items), q # <<>>, NEW asm, NEW now, NEW p \in WirePieces,
         NEW n \in 1 .. Len(q), Follows(p, q, n, asm),
         ~Carried(q[1]) => now = asm,
         Carried(q[1]) /\ p.index > 1 /\ q[1] = [p EXCEPT !.index = @ - 1] => Assembled(p, now)
  PROVE  Follows(p, Tail(q), n - 1, now)
<1> DEFINE r == Tail(q)
           m == Len(r)
<1>1. /\ m \in Nat /\ Len(q) = m + 1 /\ DOMAIN r = 1..m /\ DOMAIN q = 1 .. m + 1
      /\ (\A j \in 1..m : j + 1 \in DOMAIN q /\ r[j] = q[j + 1])
      /\ \A j \in 1 .. m + 1 : j = 1 \/ (j > 1 /\ j - 1 \in 1..m /\ q[j] = r[j - 1])
  BY Taken
<1> HIDE DEF r, m
<1>2. /\ n - 1 \in 0..m /\ \A i \in 1 .. n - 1 : i \in 1..m /\ i + 1 \in 1..n /\ r[i] = q[i + 1]
  BY <1>1
<1>3. Carried([p EXCEPT !.index = @ - 1])
  BY DEF Carried, WirePieces
<1> SUFFICES ASSUME p.index > 1
             PROVE  After(p, r, n - 1) \/ ((\A i \in 1 .. n - 1 : ~Carried(r[i])) /\ Assembled(p, now))
  BY DEF Follows, r
<1>4. ASSUME NEW l \in 1..n, q[l] = [p EXCEPT !.index = @ - 1],
             \A i \in l + 1 .. n : ~Carried(q[i])
      PROVE  After(p, r, n - 1) \/ ((\A i \in 1 .. n - 1 : ~Carried(r[i])) /\ Assembled(p, now))
  <2>1. CASE l = 1
    <3>1. Assembled(p, now)
      BY <1>3, <1>4, <2>1
    <3>2. \A i \in 1 .. n - 1 : i + 1 \in l + 1 .. n
      BY <1>1, <2>1
    <3>3. \A i \in 1 .. n - 1 : ~Carried(r[i])
      BY <1>2, <1>4, <3>2
    <3> QED BY <3>1, <3>3
  <2>2. CASE l # 1
    <3>1. l - 1 \in 1 .. n - 1 /\ r[l - 1] = q[l]
      BY <1>1, <2>2
    <3>2. \A i \in (l - 1) + 1 .. n - 1 : i \in 1 .. n - 1 /\ i + 1 \in l + 1 .. n
      BY <1>1, <2>2
    <3>3. \A i \in (l - 1) + 1 .. n - 1 : ~Carried(r[i])
      BY <1>2, <1>4, <3>2
    <3> QED BY <1>4, <3>1, <3>3 DEF After
  <2> QED BY <2>1, <2>2
<1>5. ASSUME \A i \in 1..n : ~Carried(q[i]), Assembled(p, asm)
      PROVE  (\A i \in 1 .. n - 1 : ~Carried(r[i])) /\ Assembled(p, now)
  <2>1. now = asm
    BY <1>1, <1>5
  <2> QED BY <1>2, <1>5, <2>1
<1> QED BY <1>4, <1>5 DEF Follows, After

LEMMA SettledTaken ==
  ASSUME NEW q \in Seq(Items), q # <<>>, NEW due, NEW shown, NEW now, Settled(q, due, shown),
         \A k \in CacheKeys : now[k] = IF Ends(q[1], k) THEN q[1].version ELSE shown[k]
  PROVE  Settled(Tail(q), due, now)
<1> DEFINE r == Tail(q)
           m == Len(r)
<1>1. /\ m \in Nat /\ Len(q) = m + 1 /\ DOMAIN r = 1..m /\ DOMAIN q = 1 .. m + 1
      /\ (\A j \in 1..m : j + 1 \in DOMAIN q /\ r[j] = q[j + 1])
      /\ \A j \in 1 .. m + 1 : j = 1 \/ (j > 1 /\ j - 1 \in 1..m /\ q[j] = r[j - 1])
  BY Taken
<1> HIDE DEF r
<1> SUFFICES ASSUME NEW k \in CacheKeys
             PROVE  \/ (\A j \in DOMAIN r : ~Ends(r[j], k)) /\ due[k] = now[k]
                    \/ \E j \in DOMAIN r : /\ Ends(r[j], k) /\ due[k] = r[j].version
                                           /\ \A l \in j + 1 .. Len(r) : ~Ends(r[l], k)
  BY DEF Settled, r
<1> HIDE DEF m
<1>2. 1 \in DOMAIN q
  BY <1>1
<1>3. CASE (\A j \in DOMAIN q : ~Ends(q[j], k)) /\ due[k] = shown[k]
  BY <1>1, <1>2, <1>3
<1>4. ASSUME NEW j \in DOMAIN q, Ends(q[j], k), due[k] = q[j].version,
             \A l \in j + 1 .. Len(q) : ~Ends(q[l], k)
      PROVE  \/ (\A i \in DOMAIN r : ~Ends(r[i], k)) /\ due[k] = now[k]
             \/ \E i \in DOMAIN r : /\ Ends(r[i], k) /\ due[k] = r[i].version
                                    /\ \A l \in i + 1 .. m : ~Ends(r[l], k)
  <2>1. CASE j = 1
    <3>1. \A i \in 1..m : i + 1 \in j + 1 .. Len(q)
      BY <1>1, <2>1
    <3>2. \A i \in DOMAIN r : ~Ends(r[i], k)
      BY <1>1, <1>4, <3>1
    <3> QED BY <1>4, <2>1, <3>2
  <2>2. CASE j # 1
    <3>1. j - 1 \in DOMAIN r /\ r[j - 1] = q[j]
      BY <1>1, <2>2
    <3>2. \A l \in (j - 1) + 1 .. m : l \in 1..m /\ l + 1 \in j + 1 .. Len(q)
      BY <1>1, <2>2
    <3>3. \A l \in (j - 1) + 1 .. m : ~Ends(r[l], k)
      BY <1>1, <1>4, <3>2
    <3> QED BY <1>4, <3>1, <3>3
  <2> QED BY <2>1, <2>2
<1> QED BY <1>3, <1>4 DEF Settled, m

LEMMA RemoveFacts ==
  ASSUME NEW S, NEW s \in Seq(S), NEW j \in DOMAIN s
  PROVE  /\ RemoveAt(s, j) \in Seq(S) /\ Len(RemoveAt(s, j)) = Len(s) - 1
         /\ \A i \in DOMAIN RemoveAt(s, j) : \E l \in DOMAIN s : RemoveAt(s, j)[i] = s[l]
<1> DEFINE a == SubSeq(s, 1, j - 1)
           b == SubSeq(s, j + 1, Len(s))
<1>1. /\ a \in Seq(S) /\ Len(a) = j - 1 /\ \A i \in 1 .. j - 1 : i \in DOMAIN s /\ a[i] = s[i]
      /\ b \in Seq(S) /\ Len(b) = Len(s) - j
      /\ \A i \in 1 .. Len(s) - j : i + j \in DOMAIN s /\ b[i] = s[i + j]
      /\ j \in Nat /\ Len(s) \in Nat /\ j \in 1 .. Len(s)
  OBVIOUS
<1>2. RemoveAt(s, j) = a \o b
  BY DEF RemoveAt
<1> HIDE DEF a, b
<1>3. /\ a \o b \in Seq(S) /\ Len(a \o b) = Len(s) - 1 /\ DOMAIN (a \o b) = 1 .. Len(s) - 1
      /\ \A i \in 1 .. j - 1 : (a \o b)[i] = a[i]
      /\ \A i \in j .. Len(s) - 1 : (a \o b)[i] = b[i - (j - 1)]
  BY <1>1
<1>4. ASSUME NEW i \in 1 .. Len(s) - 1 PROVE \E l \in DOMAIN s : (a \o b)[i] = s[l]
  <2>1. CASE i \in 1 .. j - 1
    BY <1>1, <1>3, <2>1
  <2>2. CASE i \in j .. Len(s) - 1
    <3>1. i - (j - 1) \in 1 .. Len(s) - j
      BY <1>1, <2>2
    <3> QED BY <1>1, <1>3, <2>2, <3>1
  <2> QED BY <1>1, <2>1, <2>2
<1> QED BY <1>2, <1>3, <1>4

LEMMA Drained ==
  ASSUME WireInv, Drain, queue # <<>>
  PROVE  /\ Stream' /\ queue' \in Seq(Items) /\ Len(queue') <= Bound
         /\ have' \in [CacheKeys -> 0..MaxVersion]
         /\ assembling' \in Seq(Transfers) /\ Len(assembling') <= MaxIncomplete
<1> DEFINE p == queue[1]
           r == Tail(queue)
           m == Len(r)
           after == Ingested(p)
           Split1 == p \in WirePieces /\ p.count > 1
<1>1. /\ WireTypes /\ Bounded(queue, sending, newest, have) /\ Ordered(queue)
      /\ Coherent(assembling, OnTheWay) /\ Fresh(queue, sending, assembling)
      /\ Contiguous(queue, assembling) /\ Continued(queue, assembling, sending, subscribed)
      /\ Settled(queue, owed, have)
  BY DEF WireInv, Stream
<1>2. /\ queue \in Seq(Items) /\ have \in [CacheKeys -> 0..MaxVersion]
      /\ assembling \in Seq(Transfers) /\ Len(assembling) <= MaxIncomplete
      /\ sending \in [Threads -> Seq(WirePieces)] /\ Len(queue) <= Bound
      /\ 1 \in DOMAIN queue /\ p \in Items
  BY <1>1 DEF WireTypes
<1>3. queue' = r /\ UNCHANGED <<newest, sending, subscribed, owed>> /\ subscribed
  BY DEF Drain, hub
<1>4. /\ r \in Seq(Items) /\ m \in Nat /\ Len(queue) = m + 1
      /\ DOMAIN r = 1..m /\ DOMAIN queue = 1 .. m + 1
      /\ (\A j \in 1..m : j + 1 \in DOMAIN queue /\ r[j] = queue[j + 1])
      /\ ToSet(r) \subseteq ToSet(queue)
  BY <1>2, Taken
<1>5. \/ ~Carried(p) /\ UNCHANGED <<have, assembling>>
      \/ p \in WirePieces /\ p.count = 1 /\ Shows(p) /\ UNCHANGED assembling
      \/ p \in WirePieces /\ p.count > 1 /\ ~IsLast(p) /\ UNCHANGED have /\ assembling' = after
      \/ p \in WirePieces /\ p.count > 1 /\ IsLast(p) /\ Shows(p) /\ Removed(p)
  BY Delivered
<1> HIDE DEF r, m, p, after
<1>6. p \in WirePieces =>
        /\ p.key \in CacheKeys /\ p.version \in Versions /\ Carried(p) /\ p \in OnTheWay
                          /\ p.index \in 1 .. p.count /\ p.count \in Nat
                          /\ p.version \in 0..MaxVersion /\ p.index \in Nat
  <2>1. p \in ToSet(queue)
    BY <1>2 DEF ToSet, p
  <2> QED BY <2>1, WireNumbers DEF WirePieces, Carried, OnTheWay, Live, Versions
<1>7. Carried(p) => p \in WirePieces
  BY <1>2, ControlItems DEF Items
<1>8. Split1 => /\ after \in Seq(Transfers) /\ after # <<>> /\ Len(after) <= MaxIncomplete
                /\ SameTransfer(after[Len(after)], p)
                /\ after[Len(after)].parts = (1 .. p.index) \X {p.version}
                /\ \A j \in DOMAIN after : SameTransfer(after[j], p) => j = Len(after)
  BY <1>1, IngestedLast DEF p, after
<1>9. Split1 => \A j \in DOMAIN after :
        /\ SameTransfer(after[j], p) \/ \E i \in DOMAIN assembling : after[j] = assembling[i]
        /\ \E v \in Versions : OfVersion(after[j], v, OnTheWay)
  BY <1>1, <1>6, IngestedVersions DEF after
<1>10. UNCHANGED assembling \/ (Split1 /\ assembling' = after)
         \/ (Split1 /\ IsLast(p) /\ Removed(p))
  BY <1>5
<1>11. Removed(p) /\ Split1 =>
         /\ assembling' \in Seq(Transfers) /\ Len(assembling') <= MaxIncomplete
         /\ \A i \in DOMAIN assembling' : \E j \in DOMAIN after : assembling'[i] = after[j]
  <2> SUFFICES ASSUME Split1, NEW j \in DOMAIN after, assembling' = RemoveAt(after, j)
               PROVE  /\ assembling' \in Seq(Transfers) /\ Len(assembling') <= MaxIncomplete
                      /\ \A i \in DOMAIN assembling' :
                           \E l \in DOMAIN after : assembling'[i] = after[l]
    BY DEF Removed, after
  <2>1. after \in Seq(Transfers) /\ Len(after) <= MaxIncomplete /\ Len(after) \in Nat
    BY <1>8
  <2>2. /\ RemoveAt(after, j) \in Seq(Transfers) /\ Len(RemoveAt(after, j)) = Len(after) - 1
        /\ \A i \in DOMAIN RemoveAt(after, j) :
             \E l \in DOMAIN after : RemoveAt(after, j)[i] = after[l]
    BY <2>1, RemoveFacts
  <2> QED BY <2>1, <2>2, WireNumbers
<1>12. assembling' \in Seq(Transfers) /\ Len(assembling') <= MaxIncomplete
  BY <1>2, <1>8, <1>10, <1>11
<1>13. \A i \in DOMAIN assembling' :
         /\ (\E j \in DOMAIN assembling : assembling'[i] = assembling[j])
              \/ (Split1 /\ SameTransfer(assembling'[i], p))
         /\ \E v \in Versions : OfVersion(assembling'[i], v, OnTheWay)
  <2>1. CASE UNCHANGED assembling
    BY <1>1, <2>1 DEF Coherent
  <2>2. CASE Split1 /\ assembling' = after
    BY <1>9, <2>2
  <2>3. CASE Split1 /\ Removed(p)
    BY <1>9, <1>11, <2>3
  <2> QED BY <1>10, <2>1, <2>2, <2>3
<1>14. ASSUME NEW x \in WirePieces, x.index > 1, p = [x EXCEPT !.index = @ - 1]
       PROVE  Assembled(x, assembling')
  <2>1. /\ p \in WirePieces /\ p.index = x.index - 1 /\ p.count = x.count /\ p.key = x.key
        /\ p.id = x.id /\ p.version = x.version
    <3>1. p.key = x.key /\ p.index = x.index - 1 /\ p.count = x.count /\ p.id = x.id
          /\ p.version = x.version
      BY <1>14 DEF WirePieces
    <3> QED BY <1>7, <3>1 DEF Carried, WirePieces
  <2>2. x.index <= x.count /\ x.count \in Nat /\ x.index \in Nat
    BY DEF WirePieces
  <2>3. p.count > 1 /\ ~IsLast(p)
    BY <1>14, <2>1, <2>2 DEF IsLast
  <2>4. assembling' = after /\ Split1
    <3>1. Carried(p) /\ p.count # 1
      BY <1>6, <2>1, <2>2, <2>3
    <3> QED BY <1>5, <2>1, <2>3, <3>1
  <2> QED BY <1>8, <2>1, <2>4 DEF Assembled, SameTransfer
<1>15. Live(r, sending) \subseteq OnTheWay
  BY <1>4 DEF Live, OnTheWay
<1>16. Coherent(assembling', Live(r, sending))
  <2>1. \A x, y \in Live(r, sending) : x.id > 0 /\ SameTransfer(x, y) => x.version = y.version
    BY <1>1, <1>15 DEF Coherent
  <2>2. \A a, v : OfVersion(a, v, OnTheWay) => OfVersion(a, v, Live(r, sending))
    BY <1>15 DEF OfVersion
  <2>3. \A i \in DOMAIN assembling' :
          \E v \in Versions : OfVersion(assembling'[i], v, Live(r, sending))
    BY <1>13, <2>2
  <2> QED BY <2>1, <2>3 DEF Coherent
<1>17. Fresh(r, sending, assembling')
  <2>1. StartOnce(r)
    <3> SUFFICES ASSUME NEW i \in DOMAIN r, NEW j \in DOMAIN r, i # j, Starts(r[i]), Starts(r[j])
                 PROVE  ~SameTransfer(r[i], r[j])
      BY DEF StartOnce
    <3>1. i + 1 # j + 1 /\ i \in 1..m /\ j \in 1..m
      BY <1>4
    <3> QED BY <1>1, <1>4, <3>1 DEF Fresh, StartOnce
  <2>2. \A t \in Threads : \A i \in DOMAIN r, j \in DOMAIN sending[t] :
          Starts(r[i]) /\ Starts(sending[t][j]) => ~SameTransfer(r[i], sending[t][j])
    BY <1>1, <1>4 DEF Fresh
  <2>3. ASSUME NEW x \in Live(r, sending), Starts(x), Split1 PROVE ~SameTransfer(p, x)
    <3>1. CASE p.index = 1
      <4>1. Starts(p)
        BY <1>6, <2>3, <3>1 DEF Starts, WirePieces
      <4>2. ASSUME NEW j \in DOMAIN r, x = r[j] PROVE ~SameTransfer(p, x)
        <5>1. j + 1 # 1 /\ j + 1 \in DOMAIN queue /\ x = queue[j + 1]
          BY <1>4, <4>2
        <5> QED BY <1>1, <1>2, <2>3, <4>1, <5>1 DEF Fresh, StartOnce, p
      <4>3. ASSUME NEW t \in Threads, NEW j \in DOMAIN sending[t], x = sending[t][j]
            PROVE  ~SameTransfer(p, x)
        BY <1>1, <1>2, <2>3, <4>1, <4>3 DEF Fresh, p
      <4> QED BY <2>3, <4>2, <4>3 DEF Live, ToSet, Threads
    <3>2. CASE p.index # 1
      <4>1. Follows(p, queue, 0, assembling) /\ p.index > 1
        BY <1>1, <1>2, <1>6, <2>3, <3>2 DEF Contiguous, p
      <4>2. Assembled(p, assembling)
        BY <4>1 DEF Follows, After
      <4>3. Len(assembling) \in DOMAIN assembling
        BY <1>2, <4>2 DEF Assembled
      <4>4. ~SameTransfer(assembling[Len(assembling)], x)
        BY <1>1, <1>15, <2>3, <4>3 DEF Fresh, OnTheWay
      <4> QED BY <4>2, <4>4 DEF Assembled, SameTransfer
    <3> QED BY <3>1, <3>2
  <2>4. ASSUME NEW x \in Live(r, sending), NEW i \in DOMAIN assembling', Starts(x)
        PROVE  ~SameTransfer(assembling'[i], x)
    <3>1. CASE \E j \in DOMAIN assembling : assembling'[i] = assembling[j]
      BY <1>1, <1>15, <2>4, <3>1 DEF Fresh, OnTheWay
    <3>2. CASE Split1 /\ SameTransfer(assembling'[i], p)
      BY <2>3, <2>4, <3>2 DEF SameTransfer
    <3> QED BY <1>13, <3>1, <3>2
  <2>5. \A t \in Threads : StartOnce(sending[t])
    BY <1>1 DEF Fresh
  <2> QED BY <2>1, <2>2, <2>4, <2>5 DEF Fresh
<1>18. ASSUME NEW x \in WirePieces, NEW n \in 1 .. Len(queue), Follows(x, queue, n, assembling)
       PROVE  Follows(x, r, n - 1, assembling')
  <2>1. ~Carried(queue[1]) => assembling' = assembling
    BY <1>5, <1>6 DEF p
  <2>2. x.index > 1 /\ queue[1] = [x EXCEPT !.index = @ - 1] => Assembled(x, assembling')
    BY <1>14 DEF p
  <2> QED BY <1>2, <1>18, <2>1, <2>2, FollowsTaken DEF r
<1>19. Contiguous(r, assembling')
  <2> SUFFICES ASSUME NEW j \in DOMAIN r, Carried(r[j])
               PROVE  Follows(r[j], r, j - 1, assembling')
    BY DEF Contiguous
  <2>1. j + 1 \in DOMAIN queue /\ r[j] = queue[j + 1] /\ (j + 1) - 1 = j /\ j \in 1 .. Len(queue)
    BY <1>4
  <2>2. r[j] \in WirePieces
    BY <1>4, ControlItems DEF Items
  <2>3. Follows(r[j], queue, j, assembling)
    BY <1>1, <2>1 DEF Contiguous
  <2> QED BY <1>18, <2>1, <2>2, <2>3
<1>20. Continued(r, assembling', sending, subscribed)
  <2> SUFFICES ASSUME NEW t \in Threads, sending[t] # <<>>
               PROVE  Follows(sending[t][1], r, m, assembling')
    BY <1>1 DEF Continued, m
  <2>1. sending[t][1] \in WirePieces
    BY <1>2
  <2>2. Follows(sending[t][1], queue, Len(queue), assembling)
    BY <1>1, <1>3 DEF Continued
  <2>3. Len(queue) \in 1 .. Len(queue) /\ Len(queue) - 1 = m
    BY <1>4
  <2> QED BY <1>18, <2>1, <2>2, <2>3
<1>21. /\ have' \in [CacheKeys -> 0..MaxVersion]
       /\ \A k \in CacheKeys : have'[k] = IF Ends(p, k) THEN p.version ELSE have[k]
  <2>1. CASE ~Carried(p) /\ UNCHANGED have
    BY <1>2, <2>1 DEF Ends, Carried
  <2>2. CASE p \in WirePieces /\ IsLast(p) /\ Shows(p)
    BY <1>2, <1>6, <2>2 DEF Shows, Ends
  <2>3. CASE ~IsLast(p) /\ UNCHANGED have
    BY <1>2, <2>3 DEF Ends
  <2>4. p \in WirePieces /\ p.count = 1 => IsLast(p)
    BY <1>6 DEF IsLast
  <2> QED BY <1>5, <2>1, <2>2, <2>3, <2>4
<1>22. Settled(r, owed, have')
  BY <1>1, <1>2, <1>21, SettledTaken DEF p, r
<1>23. Ordered(r)
  <2> SUFFICES ASSUME NEW i \in DOMAIN r, NEW j \in DOMAIN r, i <= j,
                      Carried(r[i]), Carried(r[j]), r[i].key = r[j].key
               PROVE  r[i].version <= r[j].version
    BY DEF Ordered
  <2>1. i + 1 <= j + 1 /\ i \in 1..m /\ j \in 1..m
    BY <1>4
  <2> QED BY <1>1, <1>4, <2>1 DEF Ordered
<1>24. Bounded(r, sending, newest, have')
  <2>1. \A k \in CacheKeys : have'[k] <= newest[k]
    BY <1>1, <1>2, <1>6, <1>7, <1>21 DEF Bounded, Ends, Carried, p
  <2>2. ASSUME NEW j \in DOMAIN r, Carried(r[j])
        PROVE  have'[r[j].key] <= r[j].version /\ r[j].version <= newest[r[j].key]
    <3>1. j + 1 \in DOMAIN queue /\ r[j] = queue[j + 1] /\ 1 <= j + 1
      BY <1>4
    <3>2. have[r[j].key] <= r[j].version /\ r[j].version <= newest[r[j].key]
      BY <1>1, <2>2, <3>1 DEF Bounded
    <3>3. Ends(p, r[j].key) => p.version <= r[j].version
      BY <1>1, <1>2, <2>2, <3>1 DEF Ordered, Ends, Carried, p
    <3>4. r[j].key \in CacheKeys
      BY <2>2 DEF Carried
    <3> QED BY <1>21, <3>2, <3>3, <3>4
  <2> QED BY <1>1, <2>1, <2>2 DEF Bounded
<1>25. Stream'
  BY <1>3, <1>16, <1>17, <1>19, <1>20, <1>22, <1>23, <1>24 DEF Stream, OnTheWay
<1>26. queue' \in Seq(Items) /\ Len(queue') <= Bound
  BY <1>2, <1>3, <1>4, WireNumbers DEF m
<1> QED BY <1>12, <1>21, <1>25, <1>26

-----------------------------------------------------------------------------
(* The invariant of DashboardWire. *)

LEMMA WireInitially == WireInit => WireInv
<1> SUFFICES ASSUME WireInit PROVE WireInv
  OBVIOUS
<1>1. WireTypes
  <2>1. NoVersions \in [CacheKeys -> 0..MaxVersion]
    BY WireNumbers DEF NoVersions
  <2>2. [t \in Threads |-> <<>>] \in [Threads -> Seq(WirePieces)]
    OBVIOUS
  <2>3. newest \in [CacheKeys -> 0..MaxVersion] /\ have \in [CacheKeys -> 0..MaxVersion]
        /\ owed \in [CacheKeys -> 0..MaxVersion] /\ sending \in [Threads -> Seq(WirePieces)]
    BY <2>1, <2>2 DEF WireInit
  <2>4. queue \in Seq(Items) /\ Len(queue) <= Bound /\ ticking \in Seq(CacheKeys)
        /\ assembling \in Seq(Transfers) /\ Len(assembling) <= MaxIncomplete
    BY WireNumbers DEF WireInit
  <2>5. holder \in Threads \union {"none"} /\ subscribed \in BOOLEAN /\ noticeDue \in BOOLEAN
        /\ asked \in BOOLEAN /\ request \in BOOLEAN /\ loop \in {"drain", "notice", "read"}
        /\ resync \in {"none", "waiting", "replaying", "ack"}
    BY DEF WireInit
  <2> QED BY <2>3, <2>4, <2>5 DEF WireTypes
<1>2. /\ queue = <<>> /\ assembling = <<>> /\ have = NoVersions /\ owed = NoVersions
      /\ newest = NoVersions /\ \A t \in Threads : sending[t] = <<>>
  BY DEF WireInit
<1>3. Locked
  BY <1>2 DEF WireInit, Locked, Threads
<1>4. Bounded(queue, sending, newest, have) /\ Ordered(queue)
  BY <1>2 DEF Bounded, Ordered, NoVersions
<1>5. OnTheWay = {}
  BY <1>2 DEF OnTheWay, Live, ToSet, Threads
<1>6. Coherent(assembling, OnTheWay) /\ Fresh(queue, sending, assembling)
  BY <1>2, <1>5 DEF Coherent, Fresh, StartOnce, OnTheWay
<1>7. Contiguous(queue, assembling) /\ Continued(queue, assembling, sending, subscribed)
  BY <1>2 DEF Contiguous, Continued, Runs
<1>8. Settled(queue, owed, have)
  BY <1>2 DEF Settled
<1> QED BY <1>1, <1>3, <1>4, <1>6, <1>7, <1>8 DEF WireInv, Stream

LEMMA WireTick == ASSUME WireInv, TickStart PROVE WireInv'
<1>1. /\ ticking' = PublishOrder
      /\ UNCHANGED <<newest, holder, sending, subscribed, queue, noticeDue, loop, resync, have,
                     assembling, asked, request, owed>>
  BY DEF TickStart, server, client
<1>2. PublishOrder \in Seq(CacheKeys)
  BY WireAssumption
<1>3. WireTypes'
  BY <1>1, <1>2 DEF WireInv, WireTypes
<1>4. Locked'
  BY <1>1 DEF WireInv, Locked
<1>5. Stream'
  BY <1>1, StreamFrame DEF WireInv
<1> QED BY <1>3, <1>4, <1>5 DEF WireInv

\* The lock is free: neither thread sends.
LEMMA NobodySends ==
  ASSUME WireInv, holder = "none"
  PROVE  sending["publisher"] = <<>> /\ sending["resync"] = <<>> /\ resync # "replaying"
BY DEF WireInv, Locked

LEMMA WirePublish == ASSUME WireInv, Publish PROVE WireInv'
<1> DEFINE k == Head(ticking)
<1>1. /\ holder = "none" /\ ticking # <<>> /\ ticking' = Tail(ticking)
      /\ holder' = IF subscribed THEN "publisher" ELSE "none"
      /\ UNCHANGED <<subscribed, queue, noticeDue, loop, resync, have, assembling, asked,
                     request, owed>>
  BY DEF Publish, server, client
<1>2. k \in CacheKeys /\ ticking' \in Seq(CacheKeys)
  BY <1>1 DEF WireInv, WireTypes
<1>3. PICK v \in {newest[k], newest[k] + 1} \intersect Versions :
        /\ newest' = [newest EXCEPT ![k] = v]
        /\ sending' = [sending EXCEPT !["publisher"] = IF subscribed THEN Split(k, v) ELSE <<>>]
  BY DEF Publish
<1> HIDE DEF k
<1>4. newest \in [CacheKeys -> 0..MaxVersion] /\ v \in 0..MaxVersion /\ v \in Versions
  BY <1>3, WireNumbers DEF WireInv, WireTypes, Versions
<1>5. newest' \in [CacheKeys -> 0..MaxVersion] /\ newest'[k] = v
  BY <1>2, <1>3, <1>4
<1>6. \A l \in CacheKeys : newest[l] <= newest'[l]
  <2>1. newest[k] <= v
    BY <1>2, <1>3, <1>4
  <2> QED BY <1>2, <1>3, <1>4, <2>1
<1>7. PICK s : s = IF subscribed THEN Split(k, v) ELSE <<>>
  OBVIOUS
<1>8. /\ s \in Seq(WirePieces) /\ Runs(s) /\ (s # <<>> => s[1].index = 1)
      /\ \A i \in DOMAIN s : /\ s[i].key = k /\ s[i].version = v /\ s[i].index = i
                             /\ (s[i].id > 0 => s[i].id = FreshId(k))
  <2>1. CASE subscribed
    <3>1. s = Split(k, v)
      BY <1>7, <2>1
    <3>2. s \in Seq(WirePieces) /\ Runs(s)
      BY <1>2, <1>4, <3>1, SplitFacts DEF WireInv
    <3>3. \A i \in DOMAIN s : /\ s[i].key = k /\ s[i].version = v /\ s[i].index = i
                             /\ (s[i].id > 0 => s[i].id = FreshId(k))
      BY <1>2, <1>4, <3>1, SplitFacts DEF WireInv
    <3> QED BY <3>2, <3>3
  <2>2. CASE ~subscribed
    <3>1. s = <<>>
      BY <1>7, <2>2
    <3> QED BY <3>1 DEF Runs
  <2> QED BY <2>1, <2>2 DEF WireInv, WireTypes
<1>9. Stream' /\ sending' \in [Threads -> Seq(WirePieces)]
  <2>1. "publisher" \in Threads
    BY DEF Threads
  <2>2. \A i, j \in DOMAIN s : i # j /\ s[i].index = 1 /\ s[j].index = 1 => s[i].key # s[j].key
    BY <1>8
  <2>3. \A i \in DOMAIN s : /\ s[i].version = newest'[s[i].key]
                            /\ s[i].id > 0 => s[i].id = FreshId(s[i].key)
    BY <1>5, <1>8
  <2>4. sending' = [sending EXCEPT !["publisher"] = s]
    BY <1>3, <1>7
  <2> QED BY <1>1, <1>5, <1>6, <1>8, <2>1, <2>2, <2>3, <2>4, SendingStarts
<1>10. WireTypes'
  BY <1>1, <1>2, <1>5, <1>9 DEF WireInv, WireTypes, Threads
<1>11. Locked'
  <2>1. sending'["resync"] = <<>> /\ resync # "replaying"
    BY <1>1, <1>3, NobodySends DEF WireInv, WireTypes, Threads
  <2>2. sending'["publisher"] # <<>> => holder' = "publisher"
    <3>1. CASE subscribed
      BY <1>1, <3>1
    <3>2. CASE ~subscribed
      BY <1>3, <3>2 DEF WireInv, WireTypes, Threads
    <3> QED BY <3>1, <3>2
  <2> QED BY <1>1, <2>1, <2>2 DEF WireInv, Locked
<1> QED BY <1>9, <1>10, <1>11 DEF WireInv

LEMMA WirePublisherPush == ASSUME WireInv, PublisherPush PROVE WireInv'
<1>1. /\ sending["publisher"] # <<>> /\ PushNext("publisher")
      /\ holder' = IF sending'["publisher"] = <<>> THEN "none" ELSE "publisher"
      /\ UNCHANGED <<newest, ticking, subscribed, noticeDue, loop, resync, have, assembling,
                     asked, request>>
  BY DEF PublisherPush, client
<1>2. /\ Stream' /\ sending' \in [Threads -> Seq(WirePieces)]
      /\ queue' \in Seq(Items) /\ Len(queue') <= Bound
      /\ owed' \in [CacheKeys -> 0..MaxVersion] /\ sending'["resync"] = sending["resync"]
      /\ ~subscribed => queue' = queue /\ owed' = owed
  <2>1. "publisher" \in Threads /\ "resync" \in Threads
    BY DEF Threads
  <2> QED BY <1>1, <2>1, Pushed
<1>3. WireTypes'
  BY <1>1, <1>2 DEF WireInv, WireTypes, Threads
<1>4. sending["resync"] = <<>> /\ resync # "replaying"
  BY <1>1 DEF WireInv, Locked
<1>5. Locked'
  BY <1>1, <1>2, <1>4 DEF WireInv, Locked
<1> QED BY <1>2, <1>3, <1>5 DEF WireInv

LEMMA WireConnect == ASSUME WireInv, Connect PROVE WireInv'
<1>1. /\ holder = "none" /\ ~subscribed /\ subscribed' = TRUE /\ loop' = "drain"
      /\ noticeDue' \in BOOLEAN
      /\ UNCHANGED <<newest, holder, sending, ticking, resync, have, assembling, asked, request>>
  BY DEF Connect, hub, client
<1>2. /\ Stream' /\ queue' \in Seq(Items) /\ Len(queue') <= Bound
      /\ owed' \in [CacheKeys -> 0..MaxVersion]
  BY Connected
<1>3. WireTypes'
  BY <1>1, <1>2 DEF WireInv, WireTypes
<1>4. Locked'
  BY <1>1 DEF WireInv, Locked
<1> QED BY <1>2, <1>3, <1>4 DEF WireInv

LEMMA WireDisconnect == ASSUME WireInv, Disconnect PROVE WireInv'
<1>1. /\ subscribed' = FALSE /\ queue' = <<>> /\ noticeDue' = FALSE /\ resync' = "none"
      /\ holder' = IF holder = "resync" THEN "none" ELSE holder
      /\ sending' = [sending EXCEPT !["resync"] = <<>>]
      /\ have' = NoVersions /\ owed' = NoVersions /\ assembling' = <<>>
      /\ asked' = FALSE /\ request' = FALSE
      /\ UNCHANGED <<newest, ticking, loop>>
  BY DEF Disconnect
<1>2. /\ WireTypes /\ Bounded(queue, sending, newest, have) /\ Coherent(assembling, OnTheWay)
      /\ Fresh(queue, sending, assembling) /\ Continued(queue, assembling, sending, subscribed)
  BY DEF WireInv, Stream
<1>3. NoVersions \in [CacheKeys -> 0..MaxVersion]
  BY WireNumbers DEF NoVersions
<1>4. /\ sending' \in [Threads -> Seq(WirePieces)] /\ sending'["resync"] = <<>>
      /\ sending'["publisher"] = sending["publisher"]
  BY <1>1, <1>2 DEF WireTypes, Threads
<1>5. WireTypes'
  <2>1. queue' \in Seq(Items) /\ Len(queue') <= Bound
        /\ assembling' \in Seq(Transfers) /\ Len(assembling') <= MaxIncomplete
    BY <1>1, WireNumbers
  <2>2. have' \in [CacheKeys -> 0..MaxVersion] /\ owed' \in [CacheKeys -> 0..MaxVersion]
    BY <1>1, <1>3
  <2>3. holder' \in Threads \union {"none"} /\ subscribed' \in BOOLEAN /\ noticeDue' \in BOOLEAN
        /\ asked' \in BOOLEAN /\ request' \in BOOLEAN
        /\ resync' \in {"none", "waiting", "replaying", "ack"}
    BY <1>1, <1>2 DEF WireTypes
  <2> QED BY <1>1, <1>2, <1>4, <2>1, <2>2, <2>3 DEF WireTypes
<1>6. Locked'
  BY <1>1, <1>4 DEF WireInv, Locked
<1>7. Bounded(queue', sending', newest', have')
  <2>1. \A k \in CacheKeys : newest[k] \in Nat /\ have'[k] = 0
    BY <1>1, <1>2 DEF WireTypes, NoVersions
  <2> QED BY <1>1, <1>2, <1>4, <2>1 DEF Bounded, Threads
<1>8. Live(queue', sending') \subseteq OnTheWay
  BY <1>1, <1>4 DEF Live, OnTheWay, ToSet
<1>9. Coherent(assembling', Live(queue', sending'))
  <2>1. \A p, r \in Live(queue', sending') :
          p.id > 0 /\ SameTransfer(p, r) => p.version = r.version
    BY <1>2, <1>8 DEF Coherent
  <2>2. DOMAIN assembling' = {}
    BY <1>1
  <2> QED BY <2>1, <2>2 DEF Coherent
<1>10. Fresh(queue', sending', assembling')
  BY <1>1, <1>2, <1>4 DEF Fresh, StartOnce, Threads
<1>11. Ordered(queue') /\ Contiguous(queue', assembling') /\ Settled(queue', owed', have')
  BY <1>1 DEF Ordered, Contiguous, Settled
<1>12. Continued(queue', assembling', sending', subscribed')
  <2>1. Runs(<<>>)
    BY DEF Runs
  <2> QED BY <1>1, <1>2, <1>4, <2>1 DEF Continued, Threads
<1>13. Stream'
  BY <1>7, <1>9, <1>10, <1>11, <1>12 DEF Stream, OnTheWay
<1> QED BY <1>5, <1>6, <1>13 DEF WireInv

LEMMA WireDrain == ASSUME WireInv, Drain PROVE WireInv'
<1>1. /\ subscribed
      /\ UNCHANGED <<newest, holder, sending, ticking, subscribed, noticeDue, resync, owed>>
  BY DEF Drain, hub
<1>2. CASE queue = <<>>
  <2>1. loop' = "notice" /\ UNCHANGED <<queue, have, assembling, asked, request>>
    BY <1>2 DEF Drain, client
  <2>2. WireTypes'
    BY <1>1, <2>1 DEF WireInv, WireTypes
  <2>3. Locked'
    BY <1>1, <2>1 DEF WireInv, Locked
  <2>4. Stream'
    BY <1>1, <2>1, StreamFrame DEF WireInv
  <2> QED BY <2>2, <2>3, <2>4 DEF WireInv
<1>3. CASE queue # <<>>
  <2>1. /\ Stream' /\ queue' \in Seq(Items) /\ Len(queue') <= Bound
        /\ have' \in [CacheKeys -> 0..MaxVersion]
        /\ assembling' \in Seq(Transfers) /\ Len(assembling') <= MaxIncomplete
    BY <1>3, Drained
  <2>2. /\ UNCHANGED loop
        /\ UNCHANGED <<asked, request>> \/ (asked' = TRUE /\ request' = (request \/ ~asked))
    BY <1>3 DEF Drain, DeliverWhole, DeliverPiece, DeliverNotice, DeliverAck, client
  <2>3. WireTypes'
    BY <1>1, <2>1, <2>2 DEF WireInv, WireTypes
  <2>4. Locked'
    BY <1>1, <2>2 DEF WireInv, WireTypes, Locked
  <2> QED BY <2>1, <2>3, <2>4 DEF WireInv
<1> QED BY <1>2, <1>3

LEMMA WireControl ==
  ASSUME WireInv, NEW x \in {Notice, Ack}, Len(queue) < Bound, queue' = Append(queue, x),
         UNCHANGED <<newest, have, owed, sending, assembling, subscribed>>
  PROVE  Stream' /\ queue' \in Seq(Items) /\ Len(queue') <= Bound
<1>1. queue \in Seq(Items) /\ x \in Items /\ Len(queue) \in Nat
  BY DEF WireInv, WireTypes, Items
<1>2. Append(queue, x) \in Seq(Items) /\ Len(Append(queue, x)) = Len(queue) + 1
  BY <1>1
<1> QED BY <1>1, <1>2, ControlPushed, WireNumbers DEF WireInv

LEMMA WireNotice == ASSUME WireInv, SendNotice PROVE WireInv'
<1>1. /\ subscribed /\ loop' = "read"
      /\ UNCHANGED <<newest, holder, sending, ticking, subscribed, resync, have, assembling,
                     asked, request, owed>>
  BY DEF SendNotice, hub, client
<1>2. Stream' /\ queue' \in Seq(Items) /\ Len(queue') <= Bound /\ noticeDue' \in BOOLEAN
  <2>1. CASE noticeDue /\ Len(queue) < Bound
    BY <1>1, <2>1, WireControl DEF SendNotice
  <2>2. CASE ~(noticeDue /\ Len(queue) < Bound)
    <3>1. UNCHANGED <<queue, noticeDue>>
      BY <2>2 DEF SendNotice
    <3> QED BY <1>1, <3>1, StreamFrame DEF WireInv, WireTypes
  <2> QED BY <2>1, <2>2
<1>3. WireTypes' /\ Locked'
  BY <1>1, <1>2 DEF WireInv, WireTypes, Locked
<1> QED BY <1>2, <1>3 DEF WireInv

LEMMA WireRead == ASSUME WireInv, Read PROVE WireInv'
<1>1. /\ subscribed /\ loop' = "drain"
      /\ \/ request /\ resync' = "waiting" /\ request' = FALSE
         \/ UNCHANGED <<resync, request>>
      /\ UNCHANGED <<newest, holder, sending, ticking, subscribed, queue, noticeDue, have,
                     assembling, asked, owed>>
  BY DEF Read, hub
<1>2. WireTypes'
  BY <1>1 DEF WireInv, WireTypes
<1>3. Locked'
  <2>1. CASE request /\ resync' = "waiting" /\ request' = FALSE
    BY <1>1, <2>1 DEF WireInv, Locked
  <2>2. CASE UNCHANGED <<resync, request>>
    BY <1>1, <2>2 DEF WireInv, Locked
  <2> QED BY <1>1, <2>1, <2>2
<1>4. Stream'
  BY <1>1, StreamFrame DEF WireInv
<1> QED BY <1>2, <1>3, <1>4 DEF WireInv

LEMMA WireResyncStart == ASSUME WireInv, ResyncStart PROVE WireInv'
<1>1. /\ resync = "waiting" /\ holder = "none"
      /\ sending' = [sending EXCEPT !["resync"] = Replay]
      /\ \/ Replay = <<>> /\ resync' = "ack" /\ UNCHANGED holder
         \/ Replay # <<>> /\ resync' = "replaying" /\ holder' = "resync"
      /\ UNCHANGED <<newest, ticking, subscribed, queue, noticeDue, loop, have, assembling,
                     asked, request, owed>>
  BY DEF ResyncStart, client
<1>2. Replay \in Seq(WirePieces) /\ Replayed(Replay)
  BY ReplayFacts DEF WireInv
<1>3. newest \in [CacheKeys -> 0..MaxVersion]
  BY DEF WireInv, WireTypes
<1>4. Stream' /\ sending' \in [Threads -> Seq(WirePieces)]
  <2> DEFINE s == Replay
  <2> HIDE DEF s
  <2>1. "resync" \in Threads
    BY DEF Threads
  <2>2. /\ Runs(s)
        /\ s # <<>> => s[1].index = 1
        /\ \A i \in DOMAIN s : /\ s[i].version = newest'[s[i].key]
                               /\ s[i].id > 0 => s[i].id = FreshId(s[i].key)
        /\ \A i, j \in DOMAIN s :
             i # j /\ s[i].index = 1 /\ s[j].index = 1 => s[i].key # s[j].key
    BY <1>1, <1>2 DEF s, Replayed
  <2>3. s \in Seq(WirePieces) /\ sending' = [sending EXCEPT !["resync"] = s]
    BY <1>1, <1>2 DEF s
  <2>4. newest' \in [CacheKeys -> 0..MaxVersion] /\ \A k \in CacheKeys : newest[k] <= newest'[k]
    BY <1>1, <1>3
  <2> QED BY <1>1, <2>1, <2>2, <2>3, <2>4, SendingStarts
<1>5. WireTypes'
  BY <1>1, <1>4 DEF WireInv, WireTypes, Threads
<1>6. sending'["resync"] = Replay /\ sending'["publisher"] = <<>>
  BY <1>1, NobodySends DEF WireInv, WireTypes, Threads
<1>7. Locked'
  BY <1>1, <1>6 DEF WireInv, Locked
<1> QED BY <1>4, <1>5, <1>7 DEF WireInv

LEMMA WireResyncPush == ASSUME WireInv, ResyncPush PROVE WireInv'
<1>1. /\ resync = "replaying" /\ PushNext("resync")
      /\ \/ sending'["resync"] = <<>> /\ resync' = "ack"
         \/ sending'["resync"] # <<>> /\ UNCHANGED <<resync, holder>>
      /\ holder' \in {"none", holder}
      /\ UNCHANGED <<newest, ticking, subscribed, noticeDue, loop, have, assembling, asked,
                     request>>
  BY DEF ResyncPush, client
<1>2. sending["resync"] # <<>> /\ holder = "resync" /\ sending["publisher"] = <<>> /\ subscribed
  BY <1>1 DEF WireInv, Locked
<1>3. /\ Stream' /\ sending' \in [Threads -> Seq(WirePieces)]
      /\ queue' \in Seq(Items) /\ Len(queue') <= Bound
      /\ owed' \in [CacheKeys -> 0..MaxVersion] /\ sending'["publisher"] = sending["publisher"]
  <2>1. "publisher" \in Threads /\ "resync" \in Threads
    BY DEF Threads
  <2> QED BY <1>1, <1>2, <2>1, Pushed
<1>4. WireTypes'
  BY <1>1, <1>2, <1>3 DEF WireInv, WireTypes, Threads
<1>5. Locked'
  BY <1>1, <1>2, <1>3 DEF WireInv, Locked
<1> QED BY <1>3, <1>4, <1>5 DEF WireInv

LEMMA WireResyncAck == ASSUME WireInv, ResyncAck PROVE WireInv'
<1>1. /\ resync = "ack" /\ resync' = "none" /\ Len(queue) < Bound /\ queue' = Append(queue, Ack)
      /\ UNCHANGED <<newest, holder, sending, ticking, subscribed, noticeDue, loop, have,
                     assembling, asked, request, owed>>
  BY DEF ResyncAck, hub, client
<1>2. Stream' /\ queue' \in Seq(Items) /\ Len(queue') <= Bound
  BY <1>1, WireControl
<1>3. subscribed
  BY <1>1 DEF WireInv, Locked
<1>4. WireTypes' /\ Locked'
  BY <1>1, <1>2, <1>3 DEF WireInv, WireTypes, Locked
<1> QED BY <1>2, <1>4 DEF WireInv

LEMMA WireStep == WireInv /\ [WireNext]_wireVars => WireInv'
<1> SUFFICES ASSUME WireInv, [WireNext]_wireVars PROVE WireInv'
  OBVIOUS
<1>1. CASE WireNext
  BY <1>1, WireTick, WirePublish, WirePublisherPush, WireConnect, WireDisconnect, WireDrain,
     WireNotice, WireRead, WireResyncStart, WireResyncPush, WireResyncAck
     DEF WireNext, Hub, Connection, Resync
<1>2. CASE UNCHANGED wireVars
  <2>1. UNCHANGED <<newest, holder, sending, ticking, subscribed, queue, noticeDue, loop, resync,
                    have, assembling, asked, request, owed>>
    BY <1>2 DEF wireVars, hub, server, client
  <2>2. WireTypes' /\ Locked'
    BY <2>1 DEF WireInv, WireTypes, Locked
  <2>3. Stream'
    BY <2>1, StreamFrame DEF WireInv
  <2> QED BY <2>2, <2>3 DEF WireInv
<1> QED BY <1>1, <1>2

LEMMA WireInvariance == WireSpec => []WireInv
<1> QED BY WireInitially, WireStep, PTL DEF WireSpec

\* The queue and the incomplete transfers stay within their bounds, and once the
\* client has drained the queue it shows the last version of each key all of
\* whose pieces found room, whoever pushed them and whatever was dropped.
THEOREM WireReceivesWhole == WireSpec => []ReceivesWhole
<1>1. WireInv => ReceivesWhole
  <2> SUFFICES ASSUME WireInv PROVE ReceivesWhole
    OBVIOUS
  <2>1. WireTypeOK
    BY DEF WireInv, WireTypes, WireTypeOK
  <2>2. ASSUME queue = <<>> PROVE have = owed
    <3>1. \A k \in CacheKeys : owed[k] = have[k]
      BY <2>2 DEF WireInv, Stream, Settled
    <3> QED BY <3>1 DEF WireInv, WireTypes
  <2> QED BY <2>1, <2>2 DEF ReceivesWhole, QueuedIsShown
<1> QED BY <1>1, WireInvariance, PTL

\* A step publishes a version, shows one, published, whole and newer than the
\* one shown, starts over with a lost connection, or is none of the feed's.
LEMMA FeedStep ==
  ASSUME WireInv, [WireNext]_wireVars
  PROVE  [Feed!Next]_<<newest, have>>
<1>0. /\ newest \in [CacheKeys -> 0..MaxVersion] /\ have \in [CacheKeys -> 0..MaxVersion]
      /\ ticking \in Seq(CacheKeys)
      /\ Bounded(queue, sending, newest, have)
  BY DEF WireInv, WireTypes, Stream
<1>1. CASE Publish
  <2> DEFINE k == Head(ticking)
  <2>1. k \in CacheKeys /\ UNCHANGED have
    BY <1>0, <1>1 DEF Publish, client
  <2>2. PICK v \in {newest[k], newest[k] + 1} \intersect Versions :
          newest' = [newest EXCEPT ![k] = v]
    BY <1>1 DEF Publish
  <2>3. CASE v = newest[k]
    <3>1. newest' = newest
      BY <1>0, <2>1, <2>2, <2>3
    <3> QED BY <2>1, <3>1
  <2>4. CASE v = newest[k] + 1
    <3>1. newest' = [newest EXCEPT ![k] = @ + 1]
      BY <2>2, <2>4
    <3> HIDE DEF k
    <3> QED BY <2>1, <3>1 DEF Feed!Next, Feed!Publish
  <2> QED BY <2>2, <2>3, <2>4
<1>2. CASE Disconnect
  BY <1>2 DEF Disconnect, Feed!Next, Feed!StartOver, NoVersions
<1>3. CASE Drain
  <2>1. UNCHANGED newest
    BY <1>3 DEF Drain, hub
  <2>2. CASE queue = <<>>
    BY <1>3, <2>1, <2>2 DEF Drain, client
  <2>3. CASE queue # <<>>
    <3> DEFINE p == queue[1]
    <3>1. UNCHANGED have \/ (p \in WirePieces /\ Shows(p))
      BY <1>3, <2>3, Delivered
    <3>2. CASE p \in WirePieces /\ Shows(p)
      <4>1. /\ p.key \in CacheKeys /\ p.version \in Nat /\ Carried(p)
            /\ have' = [have EXCEPT ![p.key] = p.version]
        BY <3>2 DEF WirePieces, Shows, Carried, Versions
      <4>2. 1 \in DOMAIN queue
        BY <2>3 DEF WireInv, WireTypes
      <4>3. have[p.key] <= p.version /\ p.version <= newest[p.key]
        BY <1>0, <4>1, <4>2 DEF Bounded
      <4> HIDE DEF p
      <4>4. CASE p.version = have[p.key]
        <5>1. have' = have
          BY <1>0, <4>1, <4>4
        <5> QED BY <2>1, <5>1
      <4>5. CASE p.version # have[p.key]
        <5>1. p.version \in have[p.key] + 1 .. newest[p.key]
          BY <1>0, <4>1, <4>3, <4>5
        <5> QED BY <2>1, <4>1, <5>1 DEF Feed!Next, Feed!Show
      <4> QED BY <4>4, <4>5
    <3> QED BY <2>1, <3>1, <3>2
  <2> QED BY <2>2, <2>3
<1>4. ASSUME \/ TickStart \/ PublisherPush \/ Connect \/ SendNotice \/ Read
             \/ ResyncStart \/ ResyncPush \/ ResyncAck \/ UNCHANGED wireVars
      PROVE  UNCHANGED <<newest, have>>
  BY <1>4 DEF TickStart, PublisherPush, Connect, SendNotice, Read, ResyncStart, ResyncPush,
              ResyncAck, wireVars, hub, client
<1> QED BY <1>1, <1>2, <1>3, <1>4 DEF WireNext, Hub, Connection, Resync

\* The connection, with its queue, its pieces and its threads, implements the
\* feed: the client shows what was published, whole, and never something older.
THEOREM WireImplementsFeed == WireSpec => FeedSpec
<1>1. WireInit => Feed!Init
  BY DEF WireInit, Feed!Init, NoVersions
<1> QED BY <1>1, FeedStep, WireInvariance, PTL DEF WireSpec, FeedSpec, Feed!Spec
=============================================================================
