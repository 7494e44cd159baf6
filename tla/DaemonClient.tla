---------------------------- MODULE DaemonClient ----------------------------
(***************************************************************************)
(* The connection object of the desktop: one reader thread, which owns the *)
(* socket, and the threads that subscribe to the dashboard or wait for the *)
(* answer to a request.  They share a cache of the newest message per key, *)
(* the list of subscribers, the map of pending requests and a flag that    *)
(* the connection has ended, each behind a lock of its own.                *)
(***************************************************************************)
EXTENDS Naturals

CONSTANTS
  Keys,        \* cache keys of dashboard messages
  Subscribers, \* threads that call subscribe_dashboard, once each
  Requests,    \* calls of request
  MaxMessages  \* bound: dashboard messages received

ASSUME ClientAssumption == MaxMessages \in Nat /\ "free" \notin Subscribers

VARIABLES
  reader,       \* "read", "send", then "drain", "clear", "forget", "gone"
  disconnected, \* the flag
  cache,        \* newest version per key, 0 for none; versions count messages
  current,      \* the key being forwarded
  received,     \* dashboard messages received so far
  cacheLock,    \* "free" or the subscriber that holds it
  listLock,     \* likewise, for the list of subscribers
  subscriber,   \* "idle", "list", "replay", "register", "done"
  registered,   \* the list of subscribers
  view,         \* view[s][k]: the newest version sent to s, 0 for none
  outbox,       \* requests handed to the reader and not yet written
  atServer,     \* requests the daemon has not answered
  pending,      \* the map of pending requests
  caller,       \* "idle", "insert", "send", "wait", "ok", "error", "timeout"
  answer        \* what the channel of a caller holds: "none", "ok", "error"

dashboard == <<cache, current, received, cacheLock, listLock, subscriber, registered, view>>
calls     == <<outbox, atServer, pending, caller, answer>>
clientVars      == <<reader, disconnected, dashboard, calls>>

Nothing == [k \in Keys |-> 0]

ClientTypeOK ==
  /\ reader \in {"read", "send", "drain", "clear", "forget", "gone"}
  /\ disconnected \in BOOLEAN
  /\ cache \in [Keys -> Nat] /\ current \in Keys /\ received \in Nat
  /\ cacheLock \in Subscribers \union {"free"}
  /\ listLock \in Subscribers \union {"free"}
  /\ subscriber \in [Subscribers -> {"idle", "list", "replay", "register", "done"}]
  /\ registered \subseteq Subscribers
  /\ view \in [Subscribers -> [Keys -> Nat]]
  /\ outbox \subseteq Requests /\ atServer \subseteq Requests /\ pending \subseteq Requests
  /\ caller \in [Requests -> {"idle", "insert", "send", "wait", "ok", "error", "timeout"}]
  /\ answer \in [Requests -> {"none", "ok", "error"}]

ClientInit ==
  /\ reader = "read" /\ disconnected = FALSE
  /\ cache = Nothing /\ current \in Keys /\ received = 0
  /\ cacheLock = "free" /\ listLock = "free"
  /\ subscriber = [s \in Subscribers |-> "idle"]
  /\ registered = {} /\ view = [s \in Subscribers |-> Nothing]
  /\ outbox = {} /\ atServer = {} /\ pending = {}
  /\ caller = [r \in Requests |-> "idle"]
  /\ answer = [r \in Requests |-> "none"]

-----------------------------------------------------------------------------
(* The reader thread. *)

\* A dashboard message goes into the cache, then to every subscriber.
Receive ==
  /\ reader = "read" /\ cacheLock = "free"
  /\ received < MaxMessages
  /\ received' = received + 1
  /\ \E k \in Keys :
       /\ current' = k
       /\ cache' = [cache EXCEPT ![k] = received']
  /\ reader' = "send"
  /\ UNCHANGED <<disconnected, cacheLock, listLock, subscriber, registered, view, calls>>

Send ==
  /\ reader = "send" /\ listLock = "free"
  /\ view' = [s \in Subscribers |->
                IF s \in registered THEN [view[s] EXCEPT ![current] = cache[current]]
                                    ELSE view[s]]
  /\ reader' = "read"
  /\ UNCHANGED <<disconnected, cache, current, received, cacheLock, listLock,
                 subscriber, registered, calls>>

Write ==
  /\ reader = "read"
  /\ \E r \in outbox :
       /\ outbox' = outbox \ {r}
       /\ atServer' = atServer \union {r}
  /\ UNCHANGED <<reader, disconnected, dashboard, pending, caller, answer>>

\* An answer whose caller has given up is dropped.
Respond ==
  /\ reader = "read"
  /\ \E r \in atServer, outcome \in {"ok", "error"} :
       /\ atServer' = atServer \ {r}
       /\ answer' = IF r \in pending THEN [answer EXCEPT ![r] = outcome] ELSE answer
       /\ pending' = pending \ {r}
  /\ UNCHANGED <<reader, disconnected, dashboard, outbox, caller>>

\* The socket closes, breaks or is shut down: the reader leaves its loop and
\* raises the flag first.
End ==
  /\ reader = "read"
  /\ disconnected' = TRUE
  /\ reader' = "drain"
  /\ UNCHANGED <<dashboard, calls>>

FailPending ==
  /\ reader = "drain"
  /\ answer' = [r \in Requests |-> IF r \in pending THEN "error" ELSE answer[r]]
  /\ pending' = {}
  /\ reader' = "clear"
  /\ UNCHANGED <<disconnected, dashboard, outbox, atServer, caller>>

ClearSubscribers ==
  /\ reader = "clear" /\ listLock = "free"
  /\ registered' = {}
  /\ reader' = "forget"
  /\ UNCHANGED <<disconnected, cache, current, received, cacheLock, listLock,
                 subscriber, view, calls>>

\* With the thread go the channel to it and what is still in it.
ForgetCache ==
  /\ reader = "forget" /\ cacheLock = "free"
  /\ cache' = Nothing
  /\ outbox' = {} /\ atServer' = {}
  /\ reader' = "gone"
  /\ UNCHANGED <<disconnected, current, received, cacheLock, listLock, subscriber,
                 registered, view, pending, caller, answer>>

-----------------------------------------------------------------------------
(* subscribe_dashboard. *)

LockCache(s) ==
  /\ subscriber[s] = "idle" /\ cacheLock = "free"
  /\ cacheLock' = s
  /\ subscriber' = [subscriber EXCEPT ![s] = "list"]
  /\ UNCHANGED <<reader, disconnected, cache, current, received, listLock, registered,
                 view, calls>>

LockList(s) ==
  /\ subscriber[s] = "list" /\ listLock = "free"
  /\ listLock' = s
  /\ subscriber' = [subscriber EXCEPT ![s] = "replay"]
  /\ UNCHANGED <<reader, disconnected, cache, current, received, cacheLock, registered,
                 view, calls>>

\* Mutant: the locks are released before the registration.
ReplayAndRelease(s) ==
  /\ subscriber[s] = "replay"
  /\ view' = [view EXCEPT ![s] = cache]
  /\ subscriber' = [subscriber EXCEPT ![s] = "register"]
  /\ cacheLock' = "free" /\ listLock' = "free"
  /\ UNCHANGED <<reader, disconnected, cache, current, received, registered, calls>>

\* The cached messages are sent to the new channel.
ReplayCache(s) ==
  /\ subscriber[s] = "replay"
  /\ view' = [view EXCEPT ![s] = cache]
  /\ subscriber' = [subscriber EXCEPT ![s] = "register"]
  /\ UNCHANGED <<reader, disconnected, cache, current, received, cacheLock, listLock,
                 registered, calls>>

\* Mutant: the flag is not looked at.
RegisterAnyway(s) ==
  /\ subscriber[s] = "register"
  /\ registered' = registered \union {s}
  /\ subscriber' = [subscriber EXCEPT ![s] = "done"]
  /\ cacheLock' = "free" /\ listLock' = "free"
  /\ UNCHANGED <<reader, disconnected, cache, current, received, view, calls>>

\* A subscriber of a connection that has ended is not registered: its channel
\* closes when this call returns.
Register(s) ==
  /\ subscriber[s] = "register"
  /\ registered' = IF disconnected THEN registered ELSE registered \union {s}
  /\ subscriber' = [subscriber EXCEPT ![s] = "done"]
  /\ cacheLock' = "free" /\ listLock' = "free"
  /\ UNCHANGED <<reader, disconnected, cache, current, received, view, calls>>

-----------------------------------------------------------------------------
(* request. *)

Check(r) ==
  /\ caller[r] = "idle"
  /\ caller' = [caller EXCEPT ![r] = IF disconnected THEN "error" ELSE "insert"]
  /\ UNCHANGED <<reader, disconnected, dashboard, outbox, atServer, pending, answer>>

InsertPending(r) ==
  /\ caller[r] = "insert"
  /\ pending' = pending \union {r}
  /\ caller' = [caller EXCEPT ![r] = "send"]
  /\ UNCHANGED <<reader, disconnected, dashboard, outbox, atServer, answer>>

\* The channel to the reader closes only with its thread.
SendRequest(r) ==
  /\ caller[r] = "send"
  /\ IF reader = "gone"
     THEN /\ pending' = pending \ {r}
          /\ caller' = [caller EXCEPT ![r] = "error"]
          /\ UNCHANGED outbox
     ELSE /\ outbox' = outbox \union {r}
          /\ caller' = [caller EXCEPT ![r] = "wait"]
          /\ UNCHANGED pending
  /\ UNCHANGED <<reader, disconnected, dashboard, atServer, answer>>

\* Mutant: the caller takes an empty channel for an answer.
AnsweredEarly(r) ==
  /\ caller[r] = "wait"
  /\ caller' = [caller EXCEPT ![r] = answer[r]]
  /\ UNCHANGED <<reader, disconnected, dashboard, outbox, atServer, pending, answer>>

Answered(r) ==
  /\ caller[r] = "wait" /\ answer[r] # "none"
  /\ caller' = [caller EXCEPT ![r] = answer[r]]
  /\ UNCHANGED <<reader, disconnected, dashboard, outbox, atServer, pending, answer>>

\* Mutant: a caller that times out leaves its entry in the map.
TimeOutOnly(r) ==
  /\ caller[r] = "wait" /\ answer[r] = "none"
  /\ caller' = [caller EXCEPT ![r] = "timeout"]
  /\ UNCHANGED <<reader, disconnected, dashboard, outbox, atServer, pending, answer>>

\* Mutant: a caller counts on the end of the connection to answer it.
TimeOutConnected(r) ==
  /\ caller[r] = "wait" /\ answer[r] = "none" /\ ~disconnected
  /\ pending' = pending \ {r}
  /\ caller' = [caller EXCEPT ![r] = "timeout"]
  /\ UNCHANGED <<reader, disconnected, dashboard, outbox, atServer, answer>>

TimeOut(r) ==
  /\ caller[r] = "wait" /\ answer[r] = "none"
  /\ pending' = pending \ {r}
  /\ caller' = [caller EXCEPT ![r] = "timeout"]
  /\ UNCHANGED <<reader, disconnected, dashboard, outbox, atServer, answer>>

-----------------------------------------------------------------------------
Ended(r) == caller[r] \in {"ok", "error", "timeout"}

\* The connection is gone and every call has returned.
ClientDone ==
  /\ reader = "gone"
  /\ \A s \in Subscribers : subscriber[s] = "done"
  /\ \A r \in Requests : Ended(r)
  /\ UNCHANGED clientVars

Exiting      == FailPending \/ ClearSubscribers \/ ForgetCache
Reader       == Receive \/ Send \/ Write \/ Respond \/ End \/ Exiting
Subscribe(s) == LockCache(s) \/ LockList(s) \/ ReplayCache(s) \/ Register(s)
Request(r)   == Check(r) \/ InsertPending(r) \/ SendRequest(r) \/ Answered(r) \/ TimeOut(r)

ClientNext ==
  \/ Reader
  \/ \E s \in Subscribers : Subscribe(s)
  \/ \E r \in Requests : Request(r)
  \/ ClientDone

ClientSpec == ClientInit /\ [][ClientNext]_clientVars

\* Threads are scheduled; nothing is assumed of the daemon, of the socket or of
\* when the connection ends.
ClientFairSpec ==
  /\ ClientSpec
  /\ WF_clientVars(Send) /\ WF_clientVars(Exiting)
  /\ \A s \in Subscribers : WF_clientVars(Subscribe(s))
  /\ \A r \in Requests : WF_clientVars(Request(r))

-----------------------------------------------------------------------------
(* Properties. *)

\* "a sender registered after that would never be dropped and recv() would
\* block forever": once the connection is gone nobody is left registered, so
\* every subscriber moves on to the next client.
NobodyLeftBehind == reader \in {"forget", "gone"} => registered = {}

\* "a message processed in between cannot slip past a subscriber": whenever the
\* reader is between two messages, a registered subscriber has been sent the
\* newest message of every key.
NothingSlipsPast ==
  \A s \in registered : reader = "read" => view[s] = cache

\* A call that returned left nothing behind in the map.
NoPendingLeak == \A r \in Requests : Ended(r) => r \notin pending

\* Neither map keeps what nobody will ever take out, and every variable has its
\* type (subscribers and pending of DaemonClient).
RegistriesAreSwept == ClientTypeOK /\ NobodyLeftBehind /\ NoPendingLeak

\* Whatever the daemon does, the calls of the desktop return: the locks taken
\* in two orders never block each other, and a request that the end of the
\* connection raced past is ended by its timeout.
CallsReturn ==
  <>(/\ \A s \in Subscribers : subscriber[s] = "done"
     /\ \A r \in Requests : Ended(r))
=============================================================================
