--------------------------- MODULE DashboardWire ---------------------------
(***************************************************************************)
(* One dashboard connection.  The hub in the daemon remembers the newest   *)
(* whole message per cache key and pushes it, split into pieces, on the    *)
(* bounded queue of the subscriber; a message whose piece does not fit is  *)
(* dropped from there on.  The connection loop writes the queue to the     *)
(* socket, and the client thread reassembles the pieces.  Two threads push *)
(* on the queue, the publisher and the resync thread, each under the hub's *)
(* lock.  The socket is part of the queue: a piece leaves the queue when   *)
(* the client has it.                                                      *)
(***************************************************************************)
EXTENDS Naturals, Sequences, FiniteSets, SequencesExt

CONSTANTS
  CacheKeys,      \* cache keys: one per environment and signal series
  PublishOrder,   \* the order in which a tick publishes them
  ReplayOrder,    \* the order of the keys in the hub's cache
  Series,         \* Series[k]: the series a transfer of k fills in the client
  Pieces,         \* Pieces[k][v]: pieces version v of k is split into
  Bound,          \* SUBSCRIBER_QUEUE_BOUND
  MaxIncomplete,  \* MAX_INCOMPLETE_TRANSFERS
  MaxVersion,     \* bound: versions of one key
  MaxDisconnects, \* bound: lost connections
  MaxStalls       \* bound: ticks that find the connection behind

\* The strings name what else the queue carries.  The hub's cache is a map.
ASSUME WireAssumption ==
  /\ CacheKeys \intersect {"sync needed", "ack"} = {}
  /\ PublishOrder \in Seq(CacheKeys)
  /\ ReplayOrder \in Seq(CacheKeys) /\ IsInjective(ReplayOrder)
  /\ MaxVersion \in Nat
  /\ \A k \in CacheKeys, v \in 1..MaxVersion : Pieces[k][v] \in Nat \ {0}
  /\ Bound \in Nat \ {0} /\ MaxIncomplete \in Nat \ {0}

Threads  == {"publisher", "resync"}
Versions == 1..MaxVersion
Torn     == MaxVersion + 1  \* what pieces of different versions make up

\* A piece of a transfer.  A whole message is its only piece and has no id.
Piece(k, v, id, i) ==
  [key |-> k, version |-> v, id |-> id, index |-> i, count |-> Pieces[k][v]]
Notice == [key |-> "sync needed"]
Ack    == [key |-> "ack"]

VARIABLES
  newest,      \* hub: the newest version of each key, 0 for none
  holder,      \* hub: the thread that holds the lock, or "none"
  sending,     \* sending[t]: the pieces thread t has still to push
  ticking,     \* the keys the running tick has still to publish
  subscribed,  \* is the client connected and subscribed?
  queue,       \* the bounded queue of this subscriber
  noticeDue,   \* pending_sync_drops > 0
  loop,        \* connection loop: "drain", "notice" or "read"
  resync,      \* resync thread: "none", "waiting", "replaying", "ack"
  have,        \* client: the version in its cache per key, 0 for none
  assembling,  \* client: incomplete transfers, oldest first
  asked,       \* client: has this connection requested its resync?
  request,     \* is that request on its way to the connection loop?
  disconnects, stalls,
  owed         \* history: the last version fully queued on this connection

hub    == <<newest, holder, sending, ticking>>
server == <<subscribed, queue, noticeDue, loop, resync>>
client == <<have, assembling, asked, request>>
wireVars == <<hub, server, client, disconnects, stalls, owed>>

NoVersions == [k \in CacheKeys |-> 0]

WireTypeOK ==
  /\ newest \in [CacheKeys -> 0..MaxVersion]
  /\ have \in [CacheKeys -> 0..MaxVersion] /\ owed \in [CacheKeys -> 0..MaxVersion]
  /\ holder \in Threads \union {"none"}
  /\ Len(queue) <= Bound
  /\ Len(assembling) <= MaxIncomplete
  /\ subscribed \in BOOLEAN /\ noticeDue \in BOOLEAN
  /\ asked \in BOOLEAN /\ request \in BOOLEAN
  /\ loop \in {"drain", "notice", "read"}
  /\ resync \in {"none", "waiting", "replaying", "ack"}

WireInit ==
  /\ newest = NoVersions /\ holder = "none"
  /\ sending = [t \in Threads |-> <<>>] /\ ticking = <<>>
  /\ subscribed = FALSE /\ queue = <<>> /\ noticeDue = FALSE
  /\ loop = "drain" /\ resync = "none"
  /\ have = NoVersions /\ assembling = <<>> /\ asked = FALSE /\ request = FALSE
  /\ disconnects = 0 /\ stalls = 0 /\ owed = NoVersions

-----------------------------------------------------------------------------
(* Splitting and pushing. *)

\* The numbers of k's transfers that some piece or the client still carries.
InUse(k) ==
  {p.id : p \in {q \in ToSet(queue) \union ToSet(sending["publisher"])
                          \union ToSet(sending["resync"]) \union ToSet(assembling) :
                q.key = k}}

\* The hub counts transfer ids up and never reuses one; the client only tells
\* them apart.  Here an id is its key and a number no transfer of the key
\* still to be seen carries.
FreshId(k) == CHOOSE i \in 1 .. Cardinality(InUse(k)) + 1 : i \notin InUse(k)

Split(k, v) ==
  [i \in 1..Pieces[k][v] |-> Piece(k, v, IF Pieces[k][v] = 1 THEN 0 ELSE FreshId(k), i)]

\* The pieces of every cached message, in the order of the cache.
Replay ==
  FlattenSeq([j \in DOMAIN ReplayOrder |->
                LET k == ReplayOrder[j] IN IF newest[k] > 0 THEN Split(k, newest[k]) ELSE <<>>])

IsLast(p) == p.index = p.count

\* The message the head of s belongs to did not fit: its other pieces go too.
DropMessage(s) ==
  LET n == s[1].count - s[1].index + 1 IN SubSeq(s, n + 1, Len(s))

\* What a replay to a fresh queue leaves: the pieces that fit, message by
\* message.  The queue is full from the first failure on, so that is a prefix.
Fitting(pieces) == SubSeq(pieces, 1, IF Len(pieces) < Bound THEN Len(pieces) ELSE Bound)

Owed(before, pieces) ==
  [k \in CacheKeys |->
     IF \E p \in ToSet(pieces) : p.key = k /\ IsLast(p)
     THEN (CHOOSE p \in ToSet(pieces) : p.key = k /\ IsLast(p)).version
     ELSE before[k]]

PushNext(t) ==
  LET p == Head(sending[t])
  IN  IF ~subscribed
      THEN /\ sending' = [sending EXCEPT ![t] = <<>>]
           /\ UNCHANGED <<queue, owed>>
      ELSE IF Len(queue) < Bound
      THEN /\ queue' = Append(queue, p)
           /\ sending' = [sending EXCEPT ![t] = Tail(@)]
           /\ owed' = Owed(owed, <<p>>)
      ELSE /\ sending' = [sending EXCEPT ![t] = DropMessage(@)]
           /\ UNCHANGED <<queue, owed>>

-----------------------------------------------------------------------------
(* The collector's ticks and the thread that hands its messages to the hub. *)

CaughtUp == subscribed => queue = <<>> /\ ~noticeDue

TickStart ==
  /\ ticking = <<>> /\ holder # "publisher"
  /\ IF CaughtUp THEN UNCHANGED stalls
                 ELSE stalls < MaxStalls /\ stalls' = stalls + 1
  /\ ticking' = PublishOrder
  /\ UNCHANGED <<newest, holder, sending, server, client, disconnects, owed>>

\* Mutant: what did not change since the last tick is not sent again.
PublishChanges ==
  /\ ticking # <<>> /\ holder = "none"
  /\ LET k == Head(ticking)
     IN \E v \in {newest[k], newest[k] + 1} \intersect Versions :
          /\ newest' = [newest EXCEPT ![k] = v]
          /\ sending' = [sending EXCEPT !["publisher"] =
                           IF subscribed /\ v # newest[k] THEN Split(k, v)
                                                       ELSE <<>>]
  /\ ticking' = Tail(ticking)
  /\ holder' = IF sending'["publisher"] = <<>> THEN "none" ELSE "publisher"
  /\ UNCHANGED <<server, client, disconnects, stalls, owed>>

Publish ==
  /\ ticking # <<>> /\ holder = "none"
  /\ LET k == Head(ticking)
     IN \E v \in {newest[k], newest[k] + 1} \intersect Versions :
          /\ newest' = [newest EXCEPT ![k] = v]
          /\ sending' = [sending EXCEPT !["publisher"] =
                           IF subscribed THEN Split(k, v) ELSE <<>>]
  /\ ticking' = Tail(ticking)
  /\ holder' = IF subscribed THEN "publisher" ELSE "none"
  /\ UNCHANGED <<server, client, disconnects, stalls, owed>>

PublisherPush ==
  /\ sending["publisher"] # <<>>
  /\ PushNext("publisher")
  /\ holder' = IF sending'["publisher"] = <<>> THEN "none" ELSE "publisher"
  /\ UNCHANGED <<newest, ticking, subscribed, noticeDue, loop, resync, client,
                 disconnects, stalls>>

-----------------------------------------------------------------------------
(* The connection. *)

\* The hub replays its cache to the new queue before the loop starts, under
\* its lock.
Connect ==
  /\ ~subscribed /\ holder = "none"
  /\ subscribed' = TRUE
  /\ queue' = Fitting(Replay)
  /\ noticeDue' = (Len(Replay) > Bound)
  /\ owed' = Owed(NoVersions, queue')
  /\ loop' = "drain"
  /\ UNCHANGED <<hub, resync, client, disconnects, stalls>>

\* The socket breaks: queue, client cache and transfers are gone.  A thread
\* that still pushes finds the queue disconnected.
Disconnect ==
  /\ subscribed /\ disconnects < MaxDisconnects
  /\ disconnects' = disconnects + 1
  /\ subscribed' = FALSE
  /\ queue' = <<>> /\ noticeDue' = FALSE
  /\ resync' = "none"
  /\ holder' = IF holder = "resync" THEN "none" ELSE holder
  /\ sending' = [sending EXCEPT !["resync"] = <<>>]
  /\ have' = NoVersions /\ assembling' = <<>> /\ asked' = FALSE /\ request' = FALSE
  /\ owed' = NoVersions
  /\ UNCHANGED <<newest, ticking, loop, stalls>>

\* Mutant: transfers are told apart by what they fill, not by their id.
SameKey(a, p) == a.key = p.key

SameTransfer(a, p) == a.key = p.key /\ a.id = p.id

\* The incomplete transfers that do not fill the series of p.
OtherSeries(p) ==
  FlattenSeq([j \in DOMAIN assembling |->
                IF Series[assembling[j].key] = Series[p.key] THEN <<>> ELSE <<assembling[j]>>])

\* Mutant: any number of incomplete transfers is kept.
IngestedUncapped(p) ==
  LET known == \E j \in DOMAIN assembling : SameTransfer(assembling[j], p)
      fresh == [key |-> p.key, id |-> p.id, count |-> p.count, parts |-> {}]
      kept  == IF known THEN assembling ELSE Append(OtherSeries(p), fresh)
  IN  [j \in DOMAIN kept |->
         IF SameTransfer(kept[j], p)
         THEN [kept[j] EXCEPT !.parts = @ \union {<<p.index, p.version>>}]
         ELSE kept[j]]

\* The transfers after piece p of a split message has arrived.  The first piece
\* of a transfer evicts what is left of its series, then the oldest transfer if
\* there are too many.
Ingested(p) ==
  LET known == \E j \in DOMAIN assembling : SameTransfer(assembling[j], p)
      fresh == [key |-> p.key, id |-> p.id, count |-> p.count, parts |-> {}]
      kept  == IF known THEN assembling ELSE Append(OtherSeries(p), fresh)
      room  == IF Len(kept) > MaxIncomplete THEN Tail(kept) ELSE kept
  IN  [j \in DOMAIN room |->
         IF SameTransfer(room[j], p)
         THEN [room[j] EXCEPT !.parts = @ \union {<<p.index, p.version>>}]
         ELSE room[j]]

Complete(a) == Cardinality({part[1] : part \in a.parts}) = a.count

VersionOf(a) ==
  IF \E v \in Versions : a.parts = (1..Pieces[a.key][v]) \X {v}
  THEN CHOOSE v \in Versions : a.parts = (1..Pieces[a.key][v]) \X {v}
  ELSE Torn

DeliverWhole(p) ==
  /\ p.key \in CacheKeys /\ p.count = 1
  /\ have' = [have EXCEPT ![p.key] = p.version]
  /\ UNCHANGED <<assembling, asked, request>>

DeliverPiece(p) ==
  /\ p.key \in CacheKeys /\ p.count > 1
  /\ LET after == Ingested(p)
         done  == {j \in DOMAIN after : SameTransfer(after[j], p) /\ Complete(after[j])}
     IN  IF done = {}
         THEN assembling' = after /\ UNCHANGED have
         ELSE \E j \in done :
                /\ have' = [have EXCEPT ![p.key] = VersionOf(after[j])]
                /\ assembling' = RemoveAt(after, j)
  /\ UNCHANGED <<asked, request>>

\* The client answers the first notice of a connection with a resync request.
DeliverNotice(p) ==
  /\ p = Notice
  /\ asked' = TRUE
  /\ request' = (request \/ ~asked)
  /\ UNCHANGED <<have, assembling>>

\* Nobody waits for the answer to that request.
DeliverAck(p) == p = Ack /\ UNCHANGED client

Drain ==
  /\ subscribed /\ loop = "drain"
  /\ IF queue = <<>>
     THEN loop' = "notice" /\ UNCHANGED <<queue, client>>
     ELSE /\ queue' = Tail(queue)
          /\ LET p == Head(queue)
             IN  DeliverWhole(p) \/ DeliverPiece(p) \/ DeliverNotice(p) \/ DeliverAck(p)
          /\ UNCHANGED loop
  /\ UNCHANGED <<hub, subscribed, noticeDue, resync, disconnects, stalls, owed>>

\* Mutant: the notice is sent once, best effort.
SendNoticeOnce ==
  /\ subscribed /\ loop = "notice"
  /\ IF noticeDue /\ Len(queue) < Bound
     THEN queue' = Append(queue, Notice)
     ELSE UNCHANGED queue
  /\ noticeDue' = FALSE
  /\ loop' = "read"
  /\ UNCHANGED <<hub, subscribed, resync, client, disconnects, stalls, owed>>

\* The notice is tried after each drain until the queue takes it.
SendNotice ==
  /\ subscribed /\ loop = "notice"
  /\ IF noticeDue /\ Len(queue) < Bound
     THEN queue' = Append(queue, Notice) /\ noticeDue' = FALSE
     ELSE UNCHANGED <<queue, noticeDue>>
  /\ loop' = "read"
  /\ UNCHANGED <<hub, subscribed, resync, client, disconnects, stalls, owed>>

\* The loop reads the client: a resync request starts a thread.
Read ==
  /\ subscribed /\ loop = "read"
  /\ IF request
     THEN resync' = "waiting" /\ request' = FALSE
     ELSE UNCHANGED <<resync, request>>
  /\ loop' = "drain"
  /\ UNCHANGED <<hub, subscribed, queue, noticeDue, have, assembling, asked,
                 disconnects, stalls, owed>>

-----------------------------------------------------------------------------
(* The resync thread. *)

\* Mutant: the replay does not take the hub's lock.
ResyncStartUnlocked ==
  /\ resync = "waiting"
  /\ sending' = [sending EXCEPT !["resync"] = Replay]
  /\ resync' = IF Replay = <<>> THEN "ack" ELSE "replaying"
  /\ UNCHANGED <<newest, holder, ticking, subscribed, queue, noticeDue, loop, client,
                 disconnects, stalls, owed>>

ResyncStart ==
  /\ resync = "waiting" /\ holder = "none"
  /\ sending' = [sending EXCEPT !["resync"] = Replay]
  /\ IF Replay = <<>>
     THEN resync' = "ack" /\ UNCHANGED holder
     ELSE resync' = "replaying" /\ holder' = "resync"
  /\ UNCHANGED <<newest, ticking, subscribed, queue, noticeDue, loop, client,
                 disconnects, stalls, owed>>

ResyncPush ==
  /\ resync = "replaying"
  /\ PushNext("resync")
  /\ IF sending'["resync"] = <<>>
     THEN /\ resync' = "ack"
          /\ holder' = IF holder = "resync" THEN "none" ELSE holder
     ELSE UNCHANGED <<resync, holder>>
  /\ UNCHANGED <<newest, ticking, subscribed, noticeDue, loop, client, disconnects, stalls>>

\* The answer to the request waits until the queue has room.
ResyncAck ==
  /\ resync = "ack" /\ Len(queue) < Bound
  /\ queue' = Append(queue, Ack)
  /\ resync' = "none"
  /\ UNCHANGED <<hub, subscribed, noticeDue, loop, client, disconnects, stalls, owed>>

-----------------------------------------------------------------------------
Hub        == Publish \/ PublisherPush
Connection == Drain \/ SendNotice \/ Read
Resync     == ResyncStart \/ ResyncPush \/ ResyncAck

WireNext == TickStart \/ Hub \/ Connect \/ Disconnect \/ Connection \/ Resync

WireSpec == WireInit /\ [][WireNext]_wireVars

\* The collector ticks for ever, every thread of the daemon is scheduled, and
\* the desktop reconnects.  No lock is assumed to be granted to a thread that
\* others keep overtaking.
WireFairSpec ==
  /\ WireSpec
  /\ WF_wireVars(TickStart) /\ WF_wireVars(Publish) /\ WF_wireVars(PublisherPush)
  /\ WF_wireVars(Connect) /\ WF_wireVars(Connection)
  /\ WF_wireVars(ResyncStart) /\ WF_wireVars(ResyncPush) /\ WF_wireVars(ResyncAck)

-----------------------------------------------------------------------------
(* Properties. *)

\* What the client shows refines the feed: published, whole and never older
\* than before, whatever was dropped, replayed, reassembled or cut off.
Feed == INSTANCE DashboardFeed WITH Keys <- CacheKeys, published <- newest, seen <- have
FeedSpec == Feed!Spec

\* A message all of whose pieces found room is shown: neither the remains of
\* dropped transfers nor the limits on incomplete ones cost the client a
\* message the daemon did not count as dropped.
QueuedIsShown == subscribed /\ queue = <<>> => have = owed

\* That, and every variable has its type: the queue and the incomplete
\* transfers stay within their bounds.
ReceivesWhole == WireTypeOK /\ QueuedIsShown

\* "A lossy replay must be learnable": the client hears of it and asks for a
\* resync, or the connection ends.
LossyReplayIsLearnt == noticeDue ~> (asked \/ ~subscribed)

\* Once the published state stops changing the client comes to show it: "the
\* next live tick converges regardless".
Converges == <>[](have = newest)
=============================================================================
